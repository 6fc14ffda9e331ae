------------------------------ MODULE CcfsFlow ------------------------------
(***************************************************************************)
(* A CCFS sender and its receiver over a network that delays and loses in  *)
(* both directions: SendOverSleep and RecvPacket of model/apps/            *)
(* rmcat-sender.cc with the controller's records and virtual queue         *)
(* (CcfsLedger, CcfsVirtualQueue) on one side, RmcatCcfsReceiver on the    *)
(* other, and RfbHeader between them.                                      *)
(*                                                                         *)
(* The network is external.  It hands packets over in the order they were  *)
(* sent, or out of order by up to Reach places, and reports in order; it   *)
(* loses any of them; it delays none by more than MaxLatency.  One thread  *)
(* runs all handlers, so after a failed assert or in a loop that does not  *)
(* end nothing else happens.                                               *)
(***************************************************************************)
EXTENDS RmcatCcfsReceiver, CcfsLedger

CONSTANTS
    FirstSequences,  \* m_sequence at the start, which the code draws at random
                     \* (rmcat-sender.cc:217): some near where the numbers wrap
    StartTime,       \* when the sender starts, in ticks
    MaxTime,         \* bound: the clock stops there
    MaxPackets,      \* bound: packets sent, so that numbers serve as names
    MaxMishaps,      \* bound: packets and reports lost, and stops of the receiver
    Sizes,           \* bytes of a packet
    Reach,           \* 1: the network keeps the order of packets
    MaxLatency       \* ticks a packet or a report spends in the network

ASSUME FlowAssumption ==
    /\ FirstSequences \subseteq Sequences16
    /\ StartTime \in Nat \ {0} /\ MaxTime \in Nat /\ StartTime <= MaxTime
    /\ MaxPackets \in 1 .. (SeqMod - 1)
    /\ MaxMishaps \in Nat
    /\ Sizes \subseteq Nat \ {0}
    /\ Reach \in Nat \ {0}
    /\ MaxLatency \in Nat
    /\ RxUsPerMs = UsPerMs
    /\ KeepTime * UsPerMs >= 2 * MaxLatency + FbPeriod * UsPerMs
    /\ FbPeriod <= MaxAto
    /\ 2 * WrapFront <= Half + 1 /\ Half + WrapFront < SeqMod
    /\ 28 + 2 * (WrapFront + 2) <= MaxOctets

VARIABLES
    clock,       \* Simulator::Now
    sequence,    \* m_sequence of the sender
    dataNet,     \* packets in the network: [seq, at], at the time of sending
    reportNet,   \* reports in the network: [packet, at]
    mishaps,     \* counts up to the bound
    sent,        \* history: the numbers sent
    learned      \* history: the numbers the virtual queue was given

flowVars == <<clock, sequence, dataNet, reportNet, mishaps, sent, learned>>
vars == <<flowVars, rxVars, ledgerVars, queueVars>>

Init ==
    /\ clock = StartTime
    /\ sequence \in FirstSequences
    /\ dataNet = <<>>
    /\ reportNet = <<>>
    /\ mishaps = 0
    /\ sent = {}
    /\ learned = {}
    /\ RxInit
    /\ LedgerInit
    /\ QueueInit

Running == fault = "none" /\ ~headerFault /\ ~stuck

-----------------------------------------------------------------------------
(* The sender *)

\* What is on its way, and what waits at the receiver for the next report.
TravellingNumbers == {dataNet[i].seq : i \in DOMAIN dataNet}
PendingNumbers == DOMAIN BlockIn(fbHeader, Ssrc)

\* Bound on the rate: no more than WrapFront numbers lie between a packet that
\* may still be in the next report and the one to be sent, so that a report
\* that wraps has a number below WrapFront (HasWrapped).
RateBound ==
    \A seq \in TravellingNumbers \cup (IF fbEvent = Never THEN {} ELSE PendingNumbers) :
        Diff(sequence, seq) <= WrapFront

SendOverSleep(size) ==
    /\ Cardinality(sent) < MaxPackets
    /\ RateBound
    /\ ProcessSendPacket2(clock, sequence, size)
    /\ dataNet' = Append(dataNet, [seq |-> sequence, at |-> clock])
    /\ sent' = sent \cup {sequence}
    /\ sequence' = Inc(sequence)
    /\ UNCHANGED <<clock, reportNet, mishaps, learned>>
    /\ UNCHANGED rxVars

\* The numbers that go into the virtual queue with a report.
Taught(feedback) ==
    IF Ssrc \in DOMAIN feedback.blocks /\ Anchor(feedback) # {}
    THEN {seq \in DOMAIN BlockIn(feedback, Ssrc) : seq \in DOMAIN sentRtp'}
    ELSE {}

RecvFeedback(inFull) ==
    /\ reportNet # <<>>
    /\ reportNet' = Tail(reportNet)
    /\ headerFault' = ~Deserializable(Head(reportNet).packet)
    /\ LET feedback == Deserialize(Head(reportNet).packet)
       IN  /\ ProcessFeedback2(feedback, inFull)
           /\ learned' = learned \cup Taught(feedback)
    /\ UNCHANGED <<clock, sequence, dataNet, mishaps, sent>>
    /\ UNCHANGED <<waiting, remoteSsrc, refPoint, fbHeader, fbEvent>>

-----------------------------------------------------------------------------
(* The receiver *)

Stop ==
    /\ mishaps < MaxMishaps /\ mishaps' = mishaps + 1
    /\ StopApplication
    /\ UNCHANGED <<clock, sequence, dataNet, reportNet, sent, learned>>
    /\ UNCHANGED <<ledgerVars, queueVars>>

Arrive(i) ==
    /\ RecvPacket(clock, Ssrc, dataNet[i].seq)
    /\ dataNet' = [j \in 1 .. (Len(dataNet) - 1) |-> IF j < i THEN dataNet[j] ELSE dataNet[j + 1]]
    /\ UNCHANGED <<clock, sequence, reportNet, mishaps, sent, learned>>
    /\ UNCHANGED <<ledgerVars, queueVars>>

SendReport ==
    /\ FbTimerHandler(clock)
    /\ reportNet' = Append(reportNet, [packet |-> Serialize(Stamped(clock)), at |-> clock])
    /\ UNCHANGED <<clock, sequence, dataNet, mishaps, sent, learned>>
    /\ UNCHANGED <<ledgerVars, queueVars>>

-----------------------------------------------------------------------------
(* The network and time *)

LosePacket ==
    /\ mishaps < MaxMishaps /\ mishaps' = mishaps + 1
    /\ dataNet # <<>>
    /\ dataNet' = Tail(dataNet)
    /\ UNCHANGED <<clock, sequence, reportNet, sent, learned>>
    /\ UNCHANGED <<rxVars, ledgerVars, queueVars>>

LoseReport ==
    /\ mishaps < MaxMishaps /\ mishaps' = mishaps + 1
    /\ reportNet # <<>>
    /\ reportNet' = Tail(reportNet)
    /\ UNCHANGED <<clock, sequence, dataNet, sent, learned>>
    /\ UNCHANGED <<rxVars, ledgerVars, queueVars>>

InTime(net) == \A i \in DOMAIN net : clock < net[i].at + MaxLatency

Tick ==
    /\ clock < MaxTime
    /\ fbEvent # clock
    /\ InTime(dataNet) /\ InTime(reportNet)
    /\ clock' = clock + 1
    /\ UNCHANGED <<sequence, dataNet, reportNet, mishaps, sent, learned>>
    /\ UNCHANGED <<rxVars, ledgerVars, queueVars>>

Next ==
    /\ Running
    /\ \/ \E size \in Sizes : SendOverSleep(size)
       \/ \E inFull \in BOOLEAN : RecvFeedback(inFull)
       \/ Stop
       \/ \E i \in 1 .. Min({Reach, Len(dataNet)}) : Arrive(i)
       \/ SendReport
       \/ LosePacket
       \/ LoseReport
       \/ Tick

Spec == Init /\ [][Next]_vars

-----------------------------------------------------------------------------
(* Properties *)

\* Every variable keeps its type, on both sides and in the network.
TypeOK ==
    /\ clock \in StartTime .. MaxTime
    /\ sequence \in Sequences16
    /\ \A i \in DOMAIN dataNet : dataNet[i] \in [seq : Sequences16, at : Nat]
    /\ \A i \in DOMAIN reportNet : reportNet[i].packet.reportTime \in Nat
    /\ mishaps \in 0 .. MaxMishaps
    /\ sent \subseteq Sequences16 /\ learned \subseteq Sequences16
    /\ RxTypeOK
    /\ LedgerTypeOK
    /\ QueueTypeOK

\* No assert fails: the sender never hears of more packets than are in flight,
\* nor of bytes it has not sent (getNetRemains), and no report is too old,
\* too long or of another stream for the headers (Serialize, Deserialize,
\* RecvPacket).
NoAssertFails == fault = "none" /\ ~headerFault

\* The reports that reach the controller are such that its virtual queue
\* behaves as CcfsVirtualQueue says: never twice the same packet, never an
\* older one after a newer one.
VirtualQueueSpec == QueueSpec

\* Rendered to numbers only, headers, timers and records implement the
\* promise of FeedbackLoop.
ReportedNumbers(packet) ==
    IF Ssrc \notin DOMAIN packet.blocks THEN {}
    ELSE LET block == packet.blocks[Ssrc]
         IN  {InRange(block)[i] : i \in {j \in 1 .. block.count : block.metrics[j].received}}

Loop == INSTANCE FeedbackLoop WITH
    Packet     <- Sequences16,
    travelling <- TravellingNumbers,
    pending    <- PendingNumbers,
    reports    <- [i \in DOMAIN reportNet |-> ReportedNumbers(reportNet[i].packet)]

ImplementsLoop == Loop!Spec

\* The bitrate fraction is of the last periods only: the totals are those of
\* the periods in the window (updateBrFractionWindow), and no period stays
\* in it for more than a period beyond BrWindow.
WindowIsRecent ==
    /\ totSentBytes = PoppedBytes(brFractionWindow).sentBytes
    /\ totRcvdBytes = PoppedBytes(brFractionWindow).rcvdBytes
    /\ \A i, j \in DOMAIN brFractionWindow :
            brFractionWindow[j].begin <= brFractionWindow[i].begin + BrWindow + FbPeriod
=============================================================================
