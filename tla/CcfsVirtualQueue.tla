-------------------------- MODULE CcfsVirtualQueue --------------------------
(***************************************************************************)
(* The virtual queue of CcfsController (estiQDelay, calcIVQDelay and       *)
(* updateInternalVQDelay of model/congestion-control/ccfs-controller.cc).  *)
(*                                                                         *)
(* From the packets of a report the controller takes the queueing delay of *)
(* the network, and plays the same packets through a queue of its own that *)
(* is served at the estimated bandwidth.  While the virtual queue delays   *)
(* the last packet by more than the network did, it raises the bandwidth   *)
(* and plays them again: a loop that ends only if some bandwidth is enough.*)
(*                                                                         *)
(* Sending times are in ticks of the sender's clock (microseconds in the   *)
(* code, UsPerMs to a millisecond), reception times in milliseconds of the *)
(* receiver's clock.  All packets take the same time to serve, which only  *)
(* rounding keeps above 0.  The 4-second window of delays and the rest of  *)
(* the control are in CcfsSendControl; m_ivqQptUs, m_ivqDelayUs and        *)
(* m_maXQDelay are only logged.                                            *)
(***************************************************************************)
EXTENDS Integers, Sequences, FiniteSetsExt

CONSTANTS
    UsPerMs,         \* 1000
    VqBaseDelay,     \* kCcfsVqBaseDelayUs
    MaxQDelay,       \* 9000, where the search for the least delay starts
    InitMinQDelay,   \* 10000, m_minQDelay after reset
    Services         \* times to serve a packet, down to 0 as the bandwidth grows

ASSUME VirtualQueueAssumption ==
    /\ UsPerMs \in Nat \ {0}
    /\ VqBaseDelay \in Nat
    /\ MaxQDelay \in Nat
    /\ InitMinQDelay \in Nat
    /\ Services \subseteq Nat /\ 0 \in Services

VARIABLES
    vq,          \* parsed.vq of the last report: [sent, rcvd] of its packets
    minQDelay,   \* m_minQDelay, the base of all delays
    lastQDelay,  \* m_lastQDelay
    ivqSt,       \* m_ivqStUs
    estimated,   \* m_estFwdBwBps # 0
    stuck        \* updateInternalVQDelay is in a loop it will not leave

queueVars == <<vq, minQDelay, lastQDelay, ivqSt, estimated, stuck>>

QDelayData == [sent : Nat, rcvd : Nat]

QueueTypeOK ==
    /\ vq \in Seq(QDelayData)
    /\ minQDelay \in Int
    /\ lastQDelay \in 0 .. MaxQDelay
    /\ ivqSt \in Nat
    /\ estimated \in BOOLEAN
    /\ stuck \in BOOLEAN

QueueInit ==
    /\ vq = <<>>
    /\ minQDelay = InitMinQDelay
    /\ lastQDelay = 0
    /\ ivqSt = 0
    /\ estimated = FALSE
    /\ stuck = FALSE

-----------------------------------------------------------------------------
(* estiQDelay: the delay of the network *)

OneWay(data) == data.rcvd - (data.sent \div UsPerMs)

\* m_minQDelay when packet i of the list has been looked at.
Base(list, i) == Min({minQDelay} \cup {OneWay(list[j]) : j \in 1 .. i})

NewQDelay(list, i) == OneWay(list[i]) - Base(list, i)

LatestQDelay(list) == Min({MaxQDelay} \cup {NewQDelay(list, i) : i \in 1 .. Len(list)})

-----------------------------------------------------------------------------
(* calcIVQDelay: the delay of the virtual queue *)

\* When the packets of the reports before have left the virtual queue.
PreviousDeparture ==
    IF lastQDelay = 0 THEN 0 ELSE ivqSt + lastQDelay * UsPerMs + VqBaseDelay

\* The last packet leaves before deadline.  It leaves the later of its own
\* time and the departure before it plus a service, and so does every packet:
\* each packet, and the queue left over, delays it by the services since.
LeavesBefore(list, service, deadline) ==
    /\ PreviousDeparture + Len(list) * service < deadline
    /\ \A i \in 1 .. Len(list) :
            list[i].sent + (Len(list) - i + 1) * service < deadline

-----------------------------------------------------------------------------
(* updateInternalVQDelay *)

\* (Mutant: the loop goes on when the excess is just qdelay.)
LastTurnStrict(list, qdelay, service) ==
    LeavesBefore(list, service, list[Len(list)].sent + VqBaseDelay + UsPerMs * qdelay)

\* A turn of the loop is the last one: the excess of the virtual delay over
\* its base is, in whole milliseconds, at most qdelay.
LastTurn(list, qdelay, service) ==
    LeavesBefore(list, service,
                 list[Len(list)].sent + VqBaseDelay + UsPerMs * (qdelay + 1))

UpdateInternalVQDelay(list, qdelay) ==
    \/ /\ ~estimated'
       /\ UNCHANGED <<ivqSt, stuck>>
    \/ /\ estimated' /\ qdelay = 0
       /\ ivqSt' = 0
       /\ UNCHANGED stuck
    \/ /\ estimated' /\ qdelay # 0
       /\ ivqSt' = list[Len(list)].sent
       /\ stuck' = ~ \E service \in Services : LastTurn(list, qdelay, service)

\* estiQDelay on the packets of a report, and the backup of the delay at the
\* end of processFeedback2.
EstiQDelay(list) ==
    /\ minQDelay' = Base(list, Len(list))
    /\ lastQDelay' = LatestQDelay(list)
    /\ UpdateInternalVQDelay(list, lastQDelay')

-----------------------------------------------------------------------------
(* The virtual queue on its own: what it needs of the reports *)

InOrder(list) ==
    \A i, j \in 1 .. Len(list) :
        i <= j => list[i].sent <= list[j].sent /\ list[i].rcvd <= list[j].rcvd

Follows(list, before) ==
    \A i \in 1 .. Len(list), j \in 1 .. Len(before) :
        list[i].sent >= before[j].sent /\ list[i].rcvd >= before[j].rcvd

\* Reports name packets, in sending order, that also arrived in that order,
\* after those of the reports before: there is no check of the order of
\* reports, because updateFbmMaxSeq is compiled out.
Report ==
    /\ ~stuck
    /\ vq' \in Seq(QDelayData)
    /\ vq' # <<>>
    /\ InOrder(vq')
    /\ Follows(vq', vq)
    /\ estimated' \in BOOLEAN
    /\ EstiQDelay(vq')

QueueSpec == QueueInit /\ [][Report]_queueVars

\* Raising the bandwidth always ends: calcIVQDelay's comment, "always vqd < owd".
LoopEnds == ~stuck
=============================================================================
