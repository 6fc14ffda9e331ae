----------------------------- MODULE CcfsLedger -----------------------------
(***************************************************************************)
(* The sent packets of CcfsController and what it reads out of a report    *)
(* (processSendPacket2 and processFeedback2 of                             *)
(* model/congestion-control/ccfs-controller.cc).  The controller keeps a   *)
(* record of each packet for KeepTime.  A report tells it how many packets *)
(* left the network, which period of its own clock the report is about,    *)
(* how much was sent and received in it, and when each packet arrived; the *)
(* last goes to the virtual queue.                                         *)
(*                                                                         *)
(* The sender has one stream (m_ssrc), and so have the maps of streams.    *)
(* The estimate of the bandwidth, the events and the rate are the module   *)
(* CcfsSendControl; of the estimate only whether there is one is kept.     *)
(* m_lastAddedBytes, the remaining bytes and the counts for the log are    *)
(* left out, except for the asserts on them.                               *)
(***************************************************************************)
EXTENDS RfbHeader, CcfsVirtualQueue

CONSTANTS
    Ssrc,        \* m_ssrc of the sender
    KeepTime,    \* kCcfsSentRtpKeepTimeMs
    BrWindow,    \* kCcfsBrFractionWindowTimeMs
    TimeMod      \* 2^32, the width of the times of a period

ASSUME LedgerAssumption ==
    /\ KeepTime \in Nat
    /\ BrWindow \in Nat
    /\ TimeMod \in Nat \ {0}

VARIABLES
    sentRtp,            \* m_sentRtpSsrcMap[Ssrc]
    firstSend,          \* m_firstSend of the base class
    lastSentRtp,        \* m_lastSentRtpMap[Ssrc]
    inflightPktCount,   \* m_inflightPktCount
    brFractionWindow,   \* m_brFractionWindow
    totSentBytes, totRcvdBytes,
    fault               \* the assert that has failed, or "none"

ledgerVars == <<sentRtp, firstSend, lastSentRtp, inflightPktCount, brFractionWindow,
                totSentBytes, totRcvdBytes, fault>>

SentRtpRecord == [sent : Nat, size : Nat, totSent : Nat]

BrFractionData == [begin : Nat, sentBytes : Nat, rcvdBytes : Nat]

LedgerTypeOK ==
    /\ DOMAIN sentRtp \subseteq Sequences16
    /\ \A seq \in DOMAIN sentRtp : sentRtp[seq] \in SentRtpRecord
    /\ firstSend \in BOOLEAN
    /\ lastSentRtp \in Sequences16
    /\ inflightPktCount \in Nat
    /\ \A i \in DOMAIN brFractionWindow : brFractionWindow[i] \in BrFractionData
    /\ totSentBytes \in Nat /\ totRcvdBytes \in Nat
    /\ fault \in {"none", "acknowledged", "inflight"}

\* reset, at the start of the sender.
LedgerInit ==
    /\ sentRtp = <<>>
    /\ firstSend = TRUE
    /\ lastSentRtp = 0
    /\ inflightPktCount = 0
    /\ brFractionWindow = <<>>
    /\ totSentBytes = 0 /\ totRcvdBytes = 0
    /\ fault = "none"

Ms(time) == time \div UsPerMs

-----------------------------------------------------------------------------
(* processSendPacket2 *)

NoRecord == [sent |-> 0, size |-> 0, totSent |-> 0]

\* stream[seq], which inserts an empty record where there is none.
WithRecord(records, seq) == IF seq \in DOMAIN records THEN records ELSE PutAt(records, seq, NoRecord)

Kept(records, now) ==
    [seq \in {s \in DOMAIN records : Ms(records[s].sent) + KeepTime >= Ms(now)} |-> records[seq]]

ProcessSendPacket2(now, seq, size) ==
    LET before == IF firstSend THEN sentRtp ELSE WithRecord(sentRtp, lastSentRtp)
        total  == size + (IF firstSend THEN 0 ELSE before[lastSentRtp].totSent)
    IN  /\ sentRtp' = Kept(PutAt(before, seq, [sent |-> now, size |-> size, totSent |-> total]), now)
        /\ firstSend' = FALSE
        /\ lastSentRtp' = seq
        /\ inflightPktCount' = inflightPktCount + 1
        /\ UNCHANGED <<brFractionWindow, totSentBytes, totRcvdBytes, fault>>
        /\ UNCHANGED queueVars

-----------------------------------------------------------------------------
(* validateFeedback, getNetRemains *)

EndSequence(feedback) == CountEnd(DOMAIN BlockIn(feedback, Ssrc)).end

\* The records after getNetRemains has asked for the end of the report.
Asked(feedback) == WithRecord(WithRecord(sentRtp, EndSequence(feedback)), lastSentRtp)

NetRemainsFault(feedback) ==
    IF Asked(feedback)[lastSentRtp].totSent < Asked(feedback)[EndSequence(feedback)].totSent
    THEN "acknowledged"
    ELSE IF inflightPktCount < GetTotalReportCount(feedback) THEN "inflight"
    ELSE "none"

-----------------------------------------------------------------------------
(* findLatestRtp, getLastPeriodMs *)

\* The first of the packets received last; an arrival at 0 is never looked at.
LatestRtp(feedback) ==
    LET list  == MetricList(feedback, Ssrc)
        ts(i) == BlockIn(feedback, Ssrc)[list[i]].ts
        last  == {i \in DOMAIN list : ts(i) > 0 /\ \A j \in DOMAIN list : ts(j) <= ts(i)}
    IN  {list[i] : i \in {i \in last : \A j \in last : i <= j}}

\* The period is that of the report, moved to the sender's clock by the latest
\* packet; when the sender has just started it may begin before time 0.
LastPeriodMs(feedback, latest) ==
    LET end == Ms(sentRtp[latest].sent)
                 + (feedback.reportTime - BlockIn(feedback, Ssrc)[latest].ts)
    IN  [begin |-> (end - feedback.monitored) % TimeMod, end |-> end % TimeMod]

-----------------------------------------------------------------------------
(* parseFeedback *)

\* The packets received that the records still know, in the order of the report.
Known(feedback, records) ==
    Listed(DOMAIN BlockIn(feedback, Ssrc) \cap DOMAIN records, RangeIn(feedback, Ssrc))

SentIn(period, records) ==
    {seq \in DOMAIN records : /\ period.begin <= Ms(records[seq].sent)
                              /\ Ms(records[seq].sent) < period.end}

Bytes(seqs, records) == SumFunction([seq \in seqs |-> records[seq].size])

ParseFeedback(feedback, records, period) ==
    LET known == Known(feedback, records)
        rxed  == {known[i] : i \in DOMAIN known}
    IN  [rxedBytes     |-> Bytes(rxed, records),
         rxedSentBytes |-> Bytes(rxed \cap SentIn(period, records), records),
         txedBytes     |-> Bytes(SentIn(period, records), records),
         vq            |-> [i \in DOMAIN known |->
                              [sent |-> records[known[i]].sent,
                               rcvd |-> BlockIn(feedback, Ssrc)[known[i]].ts]]]

-----------------------------------------------------------------------------
(* updateBrFractionWindow *)

\* (Mutant: periods are taken out without their bytes.)
PoppedBytesNone(popped) == [sentBytes |-> 0, rcvdBytes |-> 0]
PoppedBytes(popped) ==
    [sentBytes |-> SumFunction([i \in DOMAIN popped |-> popped[i].sentBytes]),
     rcvdBytes |-> SumFunction([i \in DOMAIN popped |-> popped[i].rcvdBytes])]

\* How many periods leave at the front: those before the first recent one.
Outdated(window, end) ==
    Min({Len(window)} \cup {i - 1 : i \in {j \in DOMAIN window : window[j].begin + BrWindow >= end}})

UpdateBrFractionWindow(period, parsed) ==
    LET window == Append(brFractionWindow, [begin     |-> period.begin,
                                            sentBytes |-> parsed.txedBytes,
                                            rcvdBytes |-> parsed.rxedBytes])
        n      == Outdated(window, period.end)
        popped == PoppedBytes(SubSeq(window, 1, n))
    IN  /\ brFractionWindow' = SubSeq(window, n + 1, Len(window))
        /\ totSentBytes' = totSentBytes + parsed.txedBytes - popped.sentBytes
        /\ totRcvdBytes' = totRcvdBytes + parsed.rxedBytes - popped.rcvdBytes

-----------------------------------------------------------------------------
(* processFeedback2 *)

\* estiFwdBwPre makes the first estimate when packets of the period are
\* missing, or when all came and faster than the target rate (inFull).
EstiFwdBwPre(parsed, inFull) ==
    estimated' = (estimated \/ parsed.txedBytes > parsed.rxedSentBytes
                            \/ (parsed.txedBytes = parsed.rxedSentBytes /\ inFull))

\* A report of nothing: findEndSequences finds no stream.
EmptyFeedback(feedback) ==
    /\ Ssrc \notin DOMAIN feedback.blocks
    /\ UNCHANGED <<ledgerVars, queueVars>>

\* getNetRemains, on every other report (when an assert fails, what follows
\* does not matter); the rest is skipped when the count is 0 or no period can
\* be found.
TakeFeedback(feedback) ==
    /\ Ssrc \in DOMAIN feedback.blocks
    /\ fault' = NetRemainsFault(feedback)
    /\ sentRtp' = Asked(feedback)
    /\ inflightPktCount' = IF fault' # "none" THEN inflightPktCount
                           ELSE inflightPktCount - GetTotalReportCount(feedback)
    /\ UNCHANGED <<firstSend, lastSentRtp>>

\* The packets the period is found by.
Anchor(feedback) ==
    IF GetTotalReportCount(feedback) = 0 \/ feedback.monitored = 0 THEN {}
    ELSE LatestRtp(feedback) \cap DOMAIN sentRtp'

SkipFeedback(feedback) ==
    /\ TakeFeedback(feedback)
    /\ Anchor(feedback) = {}
    /\ UNCHANGED <<brFractionWindow, totSentBytes, totRcvdBytes>>
    /\ UNCHANGED queueVars

\* (The singleton has TLC evaluate parseFeedback once.)
UseFeedback(feedback, inFull) ==
    /\ TakeFeedback(feedback)
    /\ \E latest \in Anchor(feedback) :
        LET period == LastPeriodMs(feedback, latest)
        IN  \E parsed \in {ParseFeedback(feedback, sentRtp', period)} :
                /\ UpdateBrFractionWindow(period, parsed)
                /\ EstiFwdBwPre(parsed, inFull)
                /\ vq' = parsed.vq
                /\ EstiQDelay(vq')

ProcessFeedback2(feedback, inFull) ==
    \/ EmptyFeedback(feedback)
    \/ SkipFeedback(feedback)
    \/ UseFeedback(feedback, inFull)
=============================================================================
