----------------------------- MODULE RmcatSender -----------------------------
(***************************************************************************)
(* The media sender application (model/apps/rmcat-sender.{h,cc}): the      *)
(* rate-shaping buffer between the codec and the network, and the three    *)
(* kinds of simulator events that move packets through it -- EnqueuePacket *)
(* (the codec's clock), SendPacket (the pacing timer) and SendOverSleep    *)
(* (the late wake-up of a real pacer).                                     *)
(*                                                                         *)
(* ns-3 runs one event at a time; an event fires when its time has come,   *)
(* and events due at the same time fire here in any order.  A member       *)
(* EventId refers to the event scheduled last: scheduling another one      *)
(* leaves the earlier event pending but out of reach of Simulator::Cancel. *)
(* Such an event is an orphan: its field handle is FALSE.                  *)
(*                                                                         *)
(* Times are what remains until the event, so that no clock is needed:     *)
(* m_nextSendTstmpUs is only ever compared with the present.  Rates are    *)
(* abstracted to the pacing rate m_rSend, which any feedback may change.   *)
(* USE_BUFFER is a compile-time constant and is TRUE.                      *)
(***************************************************************************)
EXTENDS Integers, Sequences, SequencesExt

CONSTANTS
    Sizes,              \* sizes of the codec's packets
    Rates,              \* values of m_rSend
    BitTime,            \* a packet of size s takes s * BitTime \div m_rSend
    OversleepDivisor,   \* oversleeping lasts up to this fraction of the sleep (100)
    CodecIntervals,     \* times between two packets of the codec
    MaxBuffer           \* bound: packets in the rate-shaping buffer

ASSUME SenderAssumption ==
    /\ Sizes \subseteq Nat \ {0}
    /\ Rates \subseteq Nat \ {0}
    /\ BitTime \in Nat
    /\ OversleepDivisor \in Nat \ {0}
    /\ CodecIntervals \subseteq Nat
    /\ MaxBuffer \in Nat

VARIABLES
    algo,        \* m_algo: "ccfs" or another name
    stage,       \* of the application: "created", "started" or "stopped"
    paused,      \* m_paused
    buffer,      \* m_rateShapingBuf
    bytes,       \* m_rateShapingBytes
    enqueues,    \* pending EnqueuePacket events
    sends,       \* pending SendPacket events
    oversleeps,  \* pending SendOverSleep events
    nextSendIn,  \* m_nextSendTstmpUs - now, 0 once it has passed
    rSend,       \* m_rSend
    owed,        \* time left of the pacing interval of the packet sent last
    fault        \* the NS_ASSERT that failed

vars == <<algo, stage, paused, buffer, bytes, enqueues, sends, oversleeps,
          nextSendIn, rSend, owed, fault>>

-----------------------------------------------------------------------------
(* Events of the simulator *)

\* Simulator::Schedule, its result assigned to the member EventId.
Schedule(events, event) ==
    Append([i \in 1 .. Len(events) |-> [events[i] EXCEPT !.handle = FALSE]], event)

\* (Mutant: the events stay pending.)
CancelNothing(events) == events

\* Simulator::Cancel of the member EventId, which refers to the event scheduled
\* last if that one is still pending.
Cancel(events) ==
    LET n == Len(events)
    IN  IF n > 0 /\ events[n].handle THEN SubSeq(events, 1, n - 1) ELSE events

Due(events) == {i \in 1 .. Len(events) : events[i].in = 0}
Elapse(events) == [i \in 1 .. Len(events) |-> [events[i] EXCEPT !.in = @ - 1]]

Interval(size, rate) == (size * BitTime) \div rate
\* (Mutant: the difference of two times goes below zero.)
Dec1(n) == n - 1
Dec0(n) == IF n > 0 THEN n - 1 ELSE 0

Ccfs == algo = "ccfs"
NoFault == fault = "none"

Init ==
    /\ algo \in {"ccfs", "nada"}
    /\ stage = "created"
    /\ paused = FALSE
    /\ buffer = <<>> /\ bytes = 0
    /\ enqueues = <<>> /\ sends = <<>> /\ oversleeps = <<>>
    /\ nextSendIn = 0
    /\ rSend \in Rates
    /\ owed = 0
    /\ fault = "none"

-----------------------------------------------------------------------------
(* Life cycle *)

StartApplication ==
    /\ NoFault
    /\ stage = "created"
    /\ stage' = "started"
    /\ rSend' \in Rates
    /\ enqueues' = Schedule(enqueues, [in |-> 0, handle |-> TRUE])
    /\ nextSendIn' = 0
    /\ UNCHANGED <<algo, paused, buffer, bytes, sends, oversleeps, owed, fault>>

\* (Mutants: the buffer is not cleared; its size is not reset.)
QuiesceKeepingBuffer ==
    /\ enqueues' = Cancel(enqueues)
    /\ sends' = Cancel(sends)
    /\ oversleeps' = Cancel(oversleeps)
    /\ UNCHANGED <<buffer, bytes>>

QuiesceKeepingBytes ==
    /\ enqueues' = Cancel(enqueues)
    /\ sends' = Cancel(sends)
    /\ oversleeps' = Cancel(oversleeps)
    /\ buffer' = <<>>
    /\ UNCHANGED bytes

\* What StopApplication and a pause have in common.
Quiesce ==
    /\ enqueues' = Cancel(enqueues)
    /\ sends' = Cancel(sends)
    /\ oversleeps' = Cancel(oversleeps)
    /\ buffer' = <<>>
    /\ bytes' = 0

\* The socket's callback stays: feedback is still processed afterwards.
StopApplication ==
    /\ NoFault
    /\ stage = "started"
    /\ stage' = "stopped"
    /\ Quiesce
    /\ UNCHANGED <<algo, paused, nextSendIn, rSend, owed, fault>>

\* PauseResume is called while the application runs, by the timers of a test
\* case, and asserts that the state changes.
Pause ==
    /\ NoFault
    /\ stage = "started" /\ ~paused
    /\ paused' = TRUE
    /\ Quiesce
    /\ UNCHANGED <<algo, stage, nextSendIn, rSend, owed, fault>>

Resume ==
    /\ NoFault
    /\ stage = "started" /\ paused
    /\ paused' = FALSE
    /\ rSend' \in Rates
    /\ enqueues' = Schedule(enqueues, [in |-> 0, handle |-> TRUE])
    /\ nextSendIn' = 0
    /\ owed' = 0
    /\ UNCHANGED <<algo, stage, buffer, bytes, sends, oversleeps, fault>>

-----------------------------------------------------------------------------
(* Packets *)

\* (Mutant: a packet that finds the buffer empty is sent at once.)
TimerAtOnce == [in |-> 0, slept |-> 0, handle |-> TRUE]

\* The timer for a packet that finds the buffer empty: not before m_nextSendTstmpUs.
TimerForFirst == [in |-> nextSendIn, slept |-> nextSendIn, handle |-> TRUE]

\* The codec's packet, and the time until its next one.
EnqueuePacket ==
    /\ NoFault
    /\ Len(buffer) < MaxBuffer
    /\ \E i \in Due(enqueues), size \in Sizes, next \in CodecIntervals :
        LET pushed == Append(buffer, size) IN
        /\ enqueues' = Schedule(RemoveAt(enqueues, i), [in |-> next, handle |-> TRUE])
        /\ \/ /\ Ccfs /\ size = 1               \* wait for more
              /\ buffer' = pushed
              /\ bytes' = bytes + size
              /\ UNCHANGED sends
           \/ /\ Ccfs /\ size # 1               \* SendOverSleep sends the whole buffer
              /\ buffer' = <<>>
              /\ bytes' = 0
              /\ UNCHANGED sends
           \/ /\ ~Ccfs
              /\ buffer' = pushed
              /\ bytes' = bytes + size
              /\ sends' = IF Len(pushed) = 1
                          THEN Schedule(sends, TimerForFirst)
                          ELSE sends
    /\ UNCHANGED <<algo, stage, paused, oversleeps, nextSendIn, rSend, owed, fault>>

\* (Mutant: the timer is not armed again.)
NotRearmed(left, gap) == left
Rearmed(left, gap) == Schedule(left, [in |-> gap, slept |-> gap, handle |-> TRUE])

\* The pacing timer: take the packet at the front and re-arm.
SendPacket ==
    /\ NoFault
    /\ \E i \in Due(sends) :
        LET left == RemoveAt(sends, i)
            gap == Interval(Head(buffer), rSend)
        IN  \/ /\ buffer = <<>>
               /\ fault' = "bufferEmpty"
               /\ sends' = left
               /\ UNCHANGED <<buffer, bytes, oversleeps, nextSendIn, owed>>
            \/ /\ buffer # <<>>
               /\ buffer' = Tail(buffer)
               /\ bytes' = bytes - Head(buffer)
               /\ \E over \in 0 .. sends[i].slept \div OversleepDivisor :
                    oversleeps' = Schedule(oversleeps, [in |-> over, size |-> Head(buffer),
                                                        handle |-> TRUE])
               /\ IF Tail(buffer) = <<>>
                  THEN /\ nextSendIn' = gap
                       /\ sends' = left
                  ELSE /\ sends' = Rearmed(left, gap)
                       /\ UNCHANGED nextSendIn
               /\ owed' = gap
               /\ UNCHANGED fault
    /\ UNCHANGED <<algo, stage, paused, enqueues, rSend>>

\* The packet is numbered, shown to the controller and handed to the socket.
\* (With CCFS, EnqueuePacket does so at once.)
SendOverSleep ==
    /\ NoFault
    /\ \E i \in Due(oversleeps) : oversleeps' = RemoveAt(oversleeps, i)
    /\ UNCHANGED <<algo, stage, paused, buffer, bytes, enqueues, sends, nextSendIn,
                   rSend, owed, fault>>

\* Feedback: the controller's new bandwidth changes the pacing rate.
RecvPacket ==
    /\ NoFault
    /\ stage # "created"
    /\ rSend' \in Rates
    /\ UNCHANGED <<algo, stage, paused, buffer, bytes, enqueues, sends, oversleeps,
                   nextSendIn, owed, fault>>

\* Time passes when no event is due.  A full buffer holds the codec back.
Tick ==
    /\ NoFault
    /\ Due(sends) = {} /\ Due(oversleeps) = {}
    /\ Due(enqueues) = {} \/ Len(buffer) >= MaxBuffer
    /\ enqueues' = [i \in 1 .. Len(enqueues) |-> [enqueues[i] EXCEPT !.in = Dec0(@)]]
    /\ sends' = Elapse(sends)
    /\ oversleeps' = Elapse(oversleeps)
    /\ nextSendIn' = Dec0(nextSendIn)
    /\ owed' = Dec0(owed)
    /\ UNCHANGED <<algo, stage, paused, buffer, bytes, rSend, fault>>

Next ==
    \/ StartApplication \/ StopApplication \/ Pause \/ Resume
    \/ EnqueuePacket \/ SendPacket \/ SendOverSleep \/ RecvPacket \/ Tick

\* The simulator runs every event that is due and lets time pass.
Fairness ==
    /\ WF_vars(EnqueuePacket)
    /\ WF_vars(SendPacket)
    /\ WF_vars(SendOverSleep)
    /\ WF_vars(Tick)

Spec == Init /\ [][Next]_vars /\ Fairness

-----------------------------------------------------------------------------
(* Properties *)

\* The application produces packets.
Active == stage = "started" /\ ~paused

\* Every variable has the type its declaration in the code gives it.  (That
\* bytes never goes below 0 is part of BufferAccounted.)
TypeOK ==
    /\ algo \in {"ccfs", "nada"}
    /\ stage \in {"created", "started", "stopped"}
    /\ paused \in BOOLEAN
    /\ buffer \in Seq(Sizes)
    /\ enqueues \in Seq([in : Nat, handle : BOOLEAN])
    /\ sends \in Seq([in : Nat, slept : Nat, handle : BOOLEAN])
    /\ oversleeps \in Seq([in : Nat, size : Sizes, handle : BOOLEAN])
    /\ nextSendIn \in Nat
    /\ rSend \in Rates
    /\ owed \in Nat

\* The pacing timer runs exactly when there is something to send: with a
\* backlog one SendPacket is pending, so it never stalls, and without one none
\* is, so that the assert of SendPacket holds.  CCFS never uses the timer.
TimerIffBacklog ==
    /\ fault = "none"
    /\ Len(sends) = IF Ccfs \/ buffer = <<>> THEN 0 ELSE 1
    /\ \A i \in 1 .. Len(sends) : sends[i].handle

\* m_rateShapingBytes is the size of the buffer, and with CCFS the buffer only
\* ever holds packets of one byte between two events.
BufferAccounted ==
    /\ bytes = SumFunction(buffer)
    /\ Ccfs => \A i \in 1 .. Len(buffer) : buffer[i] = 1

\* The codec's clock runs once while the application is active; otherwise nothing
\* is pending or buffered but packets that overslept past their event's handle.
QuietUnlessActive ==
    /\ Len(enqueues) = IF Active THEN 1 ELSE 0
    /\ ~Active => /\ buffer = <<>> /\ sends = <<>>
                  /\ \A i \in 1 .. Len(oversleeps) : ~oversleeps[i].handle

\* Pacing: SendPacket runs no earlier than one interval of the packet before,
\* also when the buffer ran empty in between, unless the sender was resumed.
Paced == [][owed' > owed \/ Len(oversleeps') > Len(oversleeps) => owed = 0]_vars

\* A buffered packet is sent unless the sender is paused or stopped: the chain
\* of SendPacket events never breaks.
BacklogIsServed == (~Ccfs /\ Active /\ buffer # <<>>) ~> (oversleeps # <<>> \/ ~Active)
=============================================================================
