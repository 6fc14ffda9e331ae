------------------------ MODULE SenderBasedController ------------------------
(***************************************************************************)
(* The base class of the sender-side congestion controllers                *)
(* (model/congestion-control/sender-based-controller.{h,cc}): it pairs     *)
(* the packets that were sent with the feedback that comes back for them.  *)
(*                                                                         *)
(* The environment is open: the application sends packets with consecutive *)
(* sequence numbers when it likes, subject to RateBound, and feedback may  *)
(* name any plausible sequence number, in any order, any number of times.  *)
(* A batch (processFeedbackBatch) is a run of ProcessFeedback steps at one *)
(* instant.                                                                *)
(*                                                                         *)
(* An assert() that fails ends the program: it is recorded in fault and    *)
(* no action is enabled afterwards.  Timestamps are 64-bit in the code     *)
(* and are integers here: circular comparison of two of them less than     *)
(* 2^63 apart is comparison of integers, owd (whose end points may have    *)
(* unsynchronised clocks) included.                                        *)
(***************************************************************************)
EXTENDS SequenceNumbers, Sequences, FiniteSets, Functions

CONSTANTS
    MaxInterPacketTime, \* MAX_INTER_PACKET_TIME_US
    KeepFactor,         \* the 10 of 10 * MAX_INTER_PACKET_TIME_US
    HistoryLength,      \* m_historyLengthUs
    WrapMargin,         \* the 50 of updateInterLossData
    MaxIntervals,       \* the 9 of updateInterLossData
    Sizes,              \* packet sizes
    FirstSequences,     \* the first sequence numbers a sender may draw
    MaxDelay,           \* bound: feedback reports reception at most this long ago
    MaxBurst,           \* bound: so many packets are sent at one instant
    MaxResets,          \* bound: so many calls of reset()
    MaxTime             \* bound: the clock stops here

ASSUME ControllerAssumption ==
    /\ MaxInterPacketTime \in Nat \ {0}
    /\ KeepFactor \in Nat \ {0}
    /\ HistoryLength \in 1 .. KeepFactor * MaxInterPacketTime
    /\ WrapMargin \in Nat /\ 2 * WrapMargin < SeqMod
    /\ MaxIntervals \in Nat /\ MaxIntervals >= 2
    /\ Sizes \subseteq Nat
    /\ FirstSequences \subseteq Sequences16
    /\ MaxDelay \in Nat
    /\ MaxBurst \in Nat
    /\ MaxResets \in Nat
    /\ MaxTime \in Nat

VARIABLES
    firstSend,      \* m_firstSend
    lastSequence,   \* m_lastSequence
    baseDelay,      \* m_baseDelayUs
    inTransit,      \* m_inTransitPackets, front first
    history,        \* m_packetHistory, front first
    pktSizeSum,     \* m_pktSizeSum
    il,             \* m_ilState
    fault,          \* the assert() that failed, [at |-> "none"] while none has
    now,            \* the caller's clock
    nextSequence,   \* the caller's next sequence number (RmcatSender::m_sequence)
    burst,          \* packets sent at this instant
    resets          \* calls of reset() so far

ctlVars == <<firstSend, lastSequence, baseDelay, inTransit, history, pktSizeSum, il>>
vars == <<ctlVars, fault, now, nextSequence, burst, resets>>

-----------------------------------------------------------------------------
TxWindow == KeepFactor * MaxInterPacketTime

NoFault == [at |-> "none"]
Running == fault = NoFault
Fail(name) == fault' = [at |-> name]

Records(s) == {s[i] : i \in 1 .. Len(s)}
DropFirst(s, k) == SubSeq(s, k + 1, Len(s))
TotalSize(s) == FoldFunction(LAMBDA r, acc : r.size + acc, 0, s)

\* A freshly built InterLossState.
InitialInterLoss == [intervals |-> <<0>>, expected |-> 0, initialized |-> FALSE]

Init ==
    /\ firstSend = TRUE
    /\ lastSequence = 0
    /\ baseDelay = 0
    /\ inTransit = <<>>
    /\ history = <<>>
    /\ pktSizeSum = 0
    /\ il = InitialInterLoss
    /\ fault = NoFault
    /\ now = 0
    /\ nextSequence \in FirstSequences
    /\ burst = 0
    /\ resets = 0

\* reset(): every controller variable goes back to its constructor's value.
Reset ==
    /\ Running
    /\ resets < MaxResets
    /\ resets' = resets + 1
    /\ firstSend' = TRUE
    /\ lastSequence' = 0
    /\ baseDelay' = 0
    /\ inTransit' = <<>>
    /\ history' = <<>>
    /\ pktSizeSum' = 0
    /\ il' = InitialInterLoss
    /\ UNCHANGED <<fault, now, nextSequence, burst>>

-----------------------------------------------------------------------------
(* processSendPacket *)

\* (Mutant: the increment is not cut to 16 bits.)
AdvancedSequenceUnwrapped(sequence) == IF firstSend THEN sequence ELSE lastSequence + 1

\* What ++m_lastSequence yields in the call for sequence.
AdvancedSequence(sequence) == IF firstSend THEN sequence ELSE Inc(lastSequence)

\* The loop stops in front of record i: it is recent enough to be kept.
RecentEnough(s, i, tx) == tx <= s[i].tx + TxWindow

\* The loop that bounds m_inTransitPackets pops exactly the first k records.
SendPopsExactly(s, k, tx) ==
    /\ \A i \in 1 .. k : ~RecentEnough(s, i, tx)
    /\ RecentEnough(s, k + 1, tx)

\* (Mutant: the record is pushed at the other end.)
RecordSendInFront(sequence, size) ==
    inTransit' = <<[seq |-> sequence, tx |-> now, size |-> size]>> \o inTransit

RecordSend(sequence, size) ==
    LET pushed == Append(inTransit, [seq |-> sequence, tx |-> now, size |-> size])
    IN  \E k \in 0 .. Len(pushed) - 1 :
            /\ SendPopsExactly(pushed, k, now)
            /\ inTransit' = DropFirst(pushed, k)

ProcessSendPacket(sequence, size) ==
    /\ firstSend' = FALSE
    /\ lastSequence' = AdvancedSequence(sequence)
    /\ IF sequence = AdvancedSequence(sequence)
       THEN RecordSend(sequence, size)
       ELSE UNCHANGED inTransit
    /\ UNCHANGED <<baseDelay, history, pktSizeSum, il>>

-----------------------------------------------------------------------------
(* processFeedback *)

Front(s) == s[1]
Back(s) == s[Len(s)]

\* The scan for the packet the feedback is about pops exactly k records.
ScanPopsExactly(k, sequence) ==
    /\ \A i \in 1 .. k : LessThan(inTransit[i].seq, sequence)
    /\ ~LessThan(inTransit[k + 1].seq, sequence)

\* All records precede the sequence: front() is read from an empty deque.
ScanRunsDry(sequence) == \A i \in 1 .. Len(inTransit) : LessThan(inTransit[i].seq, sequence)

\* (Mutant: a history of one packet counts as empty.)
InterLossBaseTooLate(h, sequence) ==
    IF Len(h) <= 1 THEN [InitialInterLoss EXCEPT !.expected = sequence] ELSE il

\* updateInterLossData, given the history it sees.  interLossFault is the
\* negated assert on a sequence that is not the expected one.
InterLossBase(h, sequence) ==
    IF h = <<>> THEN [InitialInterLoss EXCEPT !.expected = sequence] ELSE il

InterLossFault(h, sequence) ==
    LET e == InterLossBase(h, sequence).expected
    IN  /\ sequence # e
        /\ sequence < e
        /\ ~(sequence < WrapMargin /\ e > SeqMod - 1 - WrapMargin)

\* (Mutant: after a loss the packet just seen is expected again.)
InterLossUpdatedLate(h, sequence) ==
    LET b == InterLossBase(h, sequence)
    IN  IF sequence = b.expected
        THEN [b EXCEPT !.intervals[1] = Inc(@), !.expected = Inc(@)]
        ELSE [intervals |-> <<1, b.intervals[1]>>, expected |-> sequence, initialized |-> TRUE]

\* (Mutant: a new interval is put at the wrong end.)
InterLossUpdatedAtEnd(h, sequence) ==
    LET b == InterLossBase(h, sequence)
    IN  IF sequence = b.expected
        THEN [b EXCEPT !.intervals[1] = Inc(@), !.expected = Inc(@)]
        ELSE [intervals   |-> IF Len(b.intervals) < MaxIntervals
                              THEN Append(b.intervals, 1) ELSE b.intervals,
              expected    |-> Inc(sequence),
              initialized |-> TRUE]

InterLossUpdated(h, sequence) ==
    LET b == InterLossBase(h, sequence)
        shifted == <<1>> \o b.intervals
    IN  IF sequence = b.expected
        THEN [b EXCEPT !.intervals[1] = Inc(@), !.expected = Inc(@)]
        ELSE [intervals   |-> SubSeq(shifted, 1, IF Len(shifted) > MaxIntervals
                                                 THEN MaxIntervals ELSE Len(shifted)),
              expected    |-> Inc(sequence),
              initialized |-> TRUE]

\* A packet sent too long after the last one in the history makes it obsolete.
Obsolete(p) == history # <<>> /\ Back(history).tx + MaxInterPacketTime < p.tx
HistoryBefore(p) == IF Obsolete(p) THEN <<>> ELSE history
\* (Mutant: the sum survives the history.)
SizeBeforeKept(p) == pktSizeSum
SizeBefore(p) == IF Obsolete(p) THEN 0 ELSE pktSizeSum

\* (Mutant: off by one at the end of the history.)
HistoryPopsLate(h, k) ==
    /\ \A i \in 1 .. k : ~(Back(h).tx <= h[i].tx + HistoryLength)
    /\ Back(h).tx <= h[k + 1].tx + HistoryLength

\* The garbage collection of the history pops exactly k records.
HistoryPopsExactly(h, k) ==
    /\ \A i \in 1 .. k : ~(Back(h).tx < h[i].tx + HistoryLength)
    /\ Back(h).tx < h[k + 1].tx + HistoryLength

\* The record p has been taken out of m_inTransitPackets.
Account(p, rx) ==
    LET h == HistoryBefore(p)
        owd == rx - p.tx
        grown == Append(h, [seq |-> p.seq, tx |-> p.tx, size |-> p.size,
                            owd |-> owd])
    IN  \/ /\ InterLossFault(h, p.seq)
           /\ fault' = [at |-> "interLoss", gap |-> Diff(p.seq, il.expected)]
           /\ UNCHANGED <<baseDelay, history, pktSizeSum, il>>
        \/ /\ ~InterLossFault(h, p.seq)
           /\ baseDelay' = IF h = <<>> \/ owd < baseDelay THEN owd ELSE baseDelay
           /\ il' = InterLossUpdated(h, p.seq)
           /\ \E k \in 0 .. Len(grown) - 1 :
                /\ HistoryPopsExactly(grown, k)
                /\ history' = DropFirst(grown, k)
                /\ pktSizeSum' = SizeBefore(p) + p.size - TotalSize(SubSeq(grown, 1, k))
           /\ UNCHANGED fault

DecreasingTimestamp(p) == history # <<>> /\ p.tx < Back(history).tx

\* (Mutants: the record matched is not popped; only that record is.)
LeftWithMatched(k) == DropFirst(inTransit, k)
LeftWithOlder(k) == SubSeq(inTransit, 1, k) \o DropFirst(inTransit, k + 1)

\* What is left in transit once record k + 1 has been taken out.
LeftInTransit(k) == DropFirst(inTransit, k + 1)

\* The scan has stopped in front of record k + 1.
MatchFeedback(k, sequence, rx) ==
    LET p == inTransit[k + 1] IN
    \/ /\ LessThan(sequence, p.seq)             \* out of order
       /\ inTransit' = DropFirst(inTransit, k)
       /\ UNCHANGED <<baseDelay, history, pktSizeSum, il, fault>>
    \/ /\ ~LessThan(sequence, p.seq)
       /\ inTransit' = LeftInTransit(k)
       /\ \/ /\ sequence # p.seq
             /\ Fail("sequence")
             /\ UNCHANGED <<baseDelay, history, pktSizeSum, il>>
          \/ /\ sequence = p.seq
             /\ DecreasingTimestamp(p)
             /\ UNCHANGED <<baseDelay, history, pktSizeSum, il, fault>>
          \/ /\ sequence = p.seq
             /\ ~DecreasingTimestamp(p)
             /\ Account(p, rx)

\* (Mutant: feedback for packets not sent yet is let through.)
NeverFromTheFuture(sequence) == FALSE
FromTheFuture(sequence) == LessThan(lastSequence, sequence)

ProcessFeedback(sequence, rx) ==
    /\ UNCHANGED <<firstSend, lastSequence>>
    /\ \/ /\ FromTheFuture(sequence) \/ inTransit = <<>>
          /\ UNCHANGED <<inTransit, baseDelay, history, pktSizeSum, il, fault>>
       \/ /\ ~FromTheFuture(sequence) /\ inTransit # <<>>
          /\ \/ /\ Back(inTransit).seq # lastSequence
                /\ Fail("transitTail")
                /\ UNCHANGED <<inTransit, baseDelay, history, pktSizeSum, il>>
             \/ /\ Back(inTransit).seq = lastSequence
                /\ ScanRunsDry(sequence)
                /\ Fail("emptyDeque")
                /\ UNCHANGED <<inTransit, baseDelay, history, pktSizeSum, il>>
             \/ /\ Back(inTransit).seq = lastSequence
                /\ \E k \in 0 .. Len(inTransit) - 1 :
                     /\ ScanPopsExactly(k, sequence)
                     /\ MatchFeedback(k, sequence, rx)

-----------------------------------------------------------------------------
(* The environment *)

\* Fewer than half of all sequence numbers are used within the in-transit
\* window: 32768 packets in 5 seconds in the code.
RateBound ==
    \A r \in Records(inTransit) \cup Records(history) :
        now <= r.tx + TxWindow => 2 * Diff(nextSequence, r.seq) < SeqMod

\* Feedback is not about a packet exactly half the sequence space away.
Plausible(sequence) ==
    \/ 2 * Diff(lastSequence, sequence) < SeqMod
    \/ 2 * Diff(sequence, lastSequence) < SeqMod

\* The sender application sends its next packet.
Send ==
    /\ Running
    /\ RateBound
    /\ burst < MaxBurst
    /\ burst' = burst + 1
    /\ \E size \in Sizes : ProcessSendPacket(nextSequence, size)
    /\ nextSequence' = Inc(nextSequence)
    /\ UNCHANGED <<fault, now, resets>>

\* processFeedbackBatch asserts that every reception lies in the past.
Feedback ==
    /\ Running
    /\ \E sequence \in Sequences16, rx \in now - MaxDelay .. now - 1 :
          /\ Plausible(sequence)
          /\ ProcessFeedback(sequence, rx)
    /\ UNCHANGED <<now, nextSequence, burst, resets>>

Tick ==
    /\ Running
    /\ now < MaxTime
    /\ now' = now + 1
    /\ burst' = 0
    /\ UNCHANGED <<ctlVars, fault, nextSequence, resets>>

Next == Send \/ Feedback \/ Reset \/ Tick

Spec == Init /\ [][Next]_vars

\* The same controller under a caller that may present any sequence number.
SendAny ==
    /\ Running
    /\ \E sequence \in Sequences16, size \in Sizes : ProcessSendPacket(sequence, size)
    /\ UNCHANGED <<fault, now, nextSequence, burst, resets>>

SpecAnySend == Init /\ [][SendAny \/ Feedback \/ Tick]_vars

-----------------------------------------------------------------------------
(* Properties *)

PacketRecord == [seq : Sequences16, tx : Nat, size : Nat]
HistoryRecord == [seq : Sequences16, tx : Nat, size : Nat, owd : Int]

\* Every variable has the type its declaration in the code gives it.  (That
\* pktSizeSum never goes below 0 is part of MetricsWellDefined.)
TypeOK ==
    /\ firstSend \in BOOLEAN
    /\ lastSequence \in Sequences16
    /\ baseDelay \in Int
    /\ inTransit \in Seq(PacketRecord)
    /\ history \in Seq(HistoryRecord)
    /\ il.intervals \in Seq(Sequences16)
    /\ il.expected \in Sequences16
    /\ il.initialized \in BOOLEAN
    /\ now \in Nat
    /\ nextSequence \in Sequences16

\* processSendPacket and processFeedback never reach a failing assert and
\* never read the front of an empty deque, whatever feedback arrives; only the
\* assert of updateInterLossData can fail, and only when the feedback of more
\* than WrapMargin consecutive packets is missing.
AssertionsHold ==
    \/ fault.at = "none"
    \/ fault.at = "interLoss" /\ fault.gap > WrapMargin

\* The records in transit are the packets sent last, without a hole, ending
\* with the last sequence number used: what processFeedback relies on when it
\* scans for a packet.
TransitContiguous ==
    \A i \in 1 .. Len(inTransit) :
        /\ Diff(lastSequence, inTransit[i].seq) = Len(inTransit) - i
        /\ \A j \in i .. Len(inTransit) : inTransit[i].tx <= inTransit[j].tx

\* The history holds packets in the order in which they were sent, all sent
\* within m_historyLengthUs of the newest and less than half the sequence space
\* apart, whatever order their feedback came in.
HistoryWindow ==
    \A i, j \in 1 .. Len(history) : i < j =>
        /\ LessThan(history[i].seq, history[j].seq)
        /\ history[i].tx <= history[j].tx
        /\ history[j].tx < history[i].tx + HistoryLength

\* A packet is either waiting for feedback or accounted for, never both: what
\* is in transit was sent after everything in the history, and as long as the
\* two were sent within the in-transit window their sequence numbers say so.
NeverBoth ==
    \A r \in Records(history), p \in Records(inTransit) :
        /\ r.tx <= p.tx
        /\ p.tx <= r.tx + TxWindow => LessThan(r.seq, p.seq)

\* getCurrentQdelay never subtracts a base delay larger than a delay.
QdelayNeverWraps == \A r \in Records(history) : baseDelay <= r.owd

\* getPktLossInfo never sees more packets than the sequence numbers they span,
\* even across a wrap.
LossSpan ==
    history # <<>> => 1 + Diff(Back(history).seq, Front(history).seq) >= Len(history)

\* The metrics computed from the history do not wrap and their asserts hold:
\* the two properties above, and m_pktSizeSum is the size of the history.
MetricsWellDefined ==
    /\ QdelayNeverWraps
    /\ LossSpan
    /\ pktSizeSum = TotalSize(history)

\* getLossIntervalInfo: once a loss was seen there are 2 to 9 intervals, and
\* the sequence number expected next is the one after the newest in the history.
IntervalsConsistent ==
    /\ il.initialized <=> Len(il.intervals) >= 2
    /\ Len(il.intervals) <= MaxIntervals
    /\ history # <<>> => il.expected = Inc(Back(history).seq)

\* The current inter-loss interval counts the packets received since the last
\* loss, as far as the history tells: if its last hole is in front of record i,
\* the interval counts record i and the ones behind it, whatever was pruned since.
CurrentIntervalSinceHole ==
    \A i \in 2 .. Len(history) :
        /\ history[i].seq # Inc(history[i - 1].seq)
        /\ \A j \in i + 1 .. Len(history) : history[j].seq = Inc(history[j - 1].seq)
        => il.initialized /\ il.intervals[1] = Len(history) - i + 1

\* Every packet enters the history at most once, out of the records in transit,
\* and leaves them at that step together with all the records sent before it.
CreditedFromTransit ==
    [][\A r \in Records(history') \ Records(history) :
          \E i \in 1 .. Len(inTransit) :
             /\ inTransit[i] = [seq |-> r.seq, tx |-> r.tx, size |-> r.size]
             /\ inTransit' = DropFirst(inTransit, i)]_vars

\* No assert fails at all.
NoAssertFails == fault.at = "none"
=============================================================================
