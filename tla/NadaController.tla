---------------------------- MODULE NadaController ----------------------------
(***************************************************************************)
(* When NadaController (model/congestion-control/nada-controller.{h,cc})   *)
(* recalculates its rate, and by which of its two rules.                   *)
(*                                                                         *)
(* It does so from inside a batch of feedback, at an item, or at the end   *)
(* of the batch; both clocks are lastTimeCalc.  A batch is the report of   *)
(* one packet of the receiver, taken at one instant, item by item.         *)
(*                                                                         *)
(* The network keeps packets in order and may lose any of them, or whole   *)
(* reports.  Reported times of reception are rounded as CCFeedbackReports  *)
(* shows (TimesSurvive): off by at most Rounding, never after the newest   *)
(* of the report, whose own time is exact.                                 *)
(*                                                                         *)
(* The rate is left out, and so are the metrics only the arithmetic of the *)
(* rules reads (m_QdelayUs, m_RttUs, m_plr, m_Xcurr, m_RecvR ...): the     *)
(* asserts on the way to them and the choice of the rule are kept.         *)
(***************************************************************************)
EXTENDS SenderBasedController

CONSTANTS
    Delta,      \* NADA_PARAM_DELTA_US
    QEps,       \* NADA_PARAM_QEPS_US
    MinLogLen,  \* MIN_PACKET_LOGLEN
    Rounding    \* what the feedback header does to a time of reception

ASSUME NadaAssumption ==
    /\ Delta \in Nat \ {0}
    /\ QEps \in Nat
    /\ MinLogLen \in Nat \ {0}
    /\ Rounding \in Nat

VARIABLES
    lastTimeCalc,       \* m_lastTimeCalcUs
    lastTimeCalcValid,  \* m_lastTimeCalcValid
    ploss,              \* m_ploss
    mode,               \* the rule of the last update
    recvRateFault,      \* where getCurrentRecvRate's assert failed
    batch,              \* "open" between two items; how the last batch ended
    updates,            \* updates in this batch
    latest,             \* when the last packet of the open batch was received
    outstanding,        \* packets sent and not reported yet: [seq, tx]
    lastRx              \* when the last packet reported was really received

nadaVars == <<lastTimeCalc, lastTimeCalcValid, ploss, mode, recvRateFault>>
batchVars == <<batch, updates, latest, outstanding, lastRx>>
allVars == <<vars, nadaVars, batchVars>>

NadaInit ==
    /\ Init
    /\ lastTimeCalc = 0
    /\ lastTimeCalcValid = FALSE
    /\ ploss = 0
    /\ mode = "none"
    /\ recvRateFault = "none"
    /\ batch = "none"
    /\ updates = 0
    /\ latest = 0
    /\ outstanding = <<>>
    /\ lastRx = 0

\* How the last batch went matters until something else happens.
NoBatch == batch' = "none" /\ updates' = 0

\* reset(), between two batches.
NadaReset ==
    /\ Reset
    /\ lastTimeCalc' = 0
    /\ lastTimeCalcValid' = FALSE
    /\ ploss' = 0
    /\ mode' = "none"
    /\ NoBatch
    /\ UNCHANGED <<recvRateFault, latest, outstanding, lastRx>>

-----------------------------------------------------------------------------
(* processSendPacket *)

\* Packets of which a report may still come are told apart by their numbers.
OutstandingBound ==
    \A p \in Records(outstanding) : 2 * Diff(nextSequence, p.seq) < SeqMod

NadaSend ==
    /\ OutstandingBound
    /\ Send
    /\ outstanding' = Append(outstanding, [seq |-> nextSequence, tx |-> now])
    /\ lastTimeCalc' = IF lastTimeCalcValid THEN lastTimeCalc ELSE now
    /\ lastTimeCalcValid' = TRUE
    /\ NoBatch
    /\ UNCHANGED <<ploss, mode, recvRateFault, latest, lastRx>>

-----------------------------------------------------------------------------
(* updateMetrics and updateBw *)

Measurable(h) == Len(h) >= MinLogLen

RxTime(r) == r.tx + r.owd
\* The assert of getCurrentRecvRate.
ReceivedBackwards(h) == Measurable(h) /\ RxTime(Back(h)) < RxTime(Front(h))

\* (Mutant: the newest packet is not counted.)
HolesOffByOne(h) == Diff(Back(h).seq, Front(h).seq) - Len(h)

\* getPktLossInfo: what is missing between the oldest and the newest.
Holes(h) == 1 + Diff(Back(h).seq, Front(h).seq) - Len(h)
Loss(h) == IF Measurable(h) THEN Holes(h) ELSE ploss

QueueBuildsUp(h, base) == \E r \in Records(h) : r.owd - base > QEps

\* getRampUpMode, on the history as the item left it.
RampUpMode == Loss(history') = 0 /\ ~QueueBuildsUp(history', baseDelay')

Update(level) ==
    \/ /\ ReceivedBackwards(history')
       /\ recvRateFault' = level
       /\ UNCHANGED <<ploss, mode>>
    \/ /\ ~ReceivedBackwards(history')
       /\ ploss' = Loss(history')
       /\ mode' = IF RampUpMode THEN "rampUp" ELSE "gradual"
       /\ UNCHANGED recvRateFault

-----------------------------------------------------------------------------
(* processFeedback and processFeedbackBatch *)

\* The base class returns true.
Accepted(sequence) ==
    /\ ~FromTheFuture(sequence)
    /\ \A p \in Records(inTransit) : p.seq = sequence => ~DecreasingTimestamp(p)

DueAtItem == lastTimeCalcValid /\ now - lastTimeCalc >= Delta

\* (Mutant: the time of an update at an item is not kept.)
TimeAfterItemKept == IF lastTimeCalcValid THEN lastTimeCalc ELSE now

TimeAfterItem == IF lastTimeCalcValid /\ ~DueAtItem THEN lastTimeCalc ELSE now

\* (Mutant: at every item.)
DueAnywhere(last) == 2 * (now - TimeAfterItem) >= Delta

\* Half the interval is enough at the end of a batch.
DueAtBatch(last) == last /\ 2 * (now - TimeAfterItem) >= Delta

Recalculate(last) ==
    /\ lastTimeCalcValid' = TRUE
    /\ lastTimeCalc' = IF DueAtBatch(last) THEN now ELSE TimeAfterItem
    /\ updates' = (IF batch = "open" THEN updates ELSE 0)
                    + (IF DueAtItem THEN 1 ELSE 0) + (IF DueAtBatch(last) THEN 1 ELSE 0)
    /\ \/ DueAtItem /\ Update("item")
       \/ ~DueAtItem /\ DueAtBatch(last) /\ Update("batch")
       \/ ~DueAtItem /\ ~DueAtBatch(last) /\ UNCHANGED <<ploss, mode, recvRateFault>>

\* An item that is refused (or fails an assert) ends the batch: the items behind
\* it are dropped, and the rate is not recalculated.
GiveUp ==
    /\ updates' = IF batch = "open" THEN updates ELSE 0
    /\ UNCHANGED nadaVars

\* One item of a batch, for packet i of those outstanding, received at "at";
\* the last item is the last packet received and ends the batch.
NadaFeedback(i, at, rx, last) ==
    LET sequence == outstanding[i].seq
    IN  /\ ProcessFeedback(sequence, rx)
        /\ \/ /\ fault' = NoFault /\ Accepted(sequence)
              /\ Recalculate(last)
              /\ batch' = IF last THEN "done" ELSE "open"
           \/ /\ fault' # NoFault \/ ~Accepted(sequence)
              /\ GiveUp
              /\ batch' = "dropped"
        /\ outstanding' = DropFirst(outstanding, i)
        /\ UNCHANGED <<now, nextSequence, burst, resets>>

-----------------------------------------------------------------------------
(* Reports, and time *)

\* When the last packet of the report at hand was received.
ReportTimes ==
    IF batch = "open" THEN {latest} ELSE {t \in now - MaxDelay .. now - 1 : t >= lastRx}

\* The report may name packet i as received at "at".
Reported(i, at, end) ==
    /\ outstanding[i].tx <= at
    /\ at \in lastRx .. end

TakeItem(i, at, end, last) ==
    /\ Reported(i, at, end)
    /\ IF last THEN at = end /\ NadaFeedback(i, at, end, last)
       ELSE /\ i < Len(outstanding) /\ outstanding[i + 1].tx <= end
            /\ \E rx \in at - Rounding .. at + Rounding :
                  rx <= end /\ NadaFeedback(i, at, rx, last)
    /\ latest' = end
    /\ lastRx' = IF batch' = "open" THEN at ELSE end

TakeFeedback ==
    \E end \in ReportTimes, i \in DOMAIN outstanding, last \in BOOLEAN :
        \E at \in lastRx .. end : TakeItem(i, at, end, last)

\* Packets that no report may name any more are forgotten.
NadaTick ==
    /\ Tick
    /\ NoBatch
    /\ \E k \in 0 .. Len(outstanding) :
          /\ \A i \in 1 .. Len(outstanding) : i <= k <=> outstanding[i].tx + TxWindow < now'
          /\ outstanding' = DropFirst(outstanding, k)
    /\ UNCHANGED <<nadaVars, latest, lastRx>>

NadaNext ==
    /\ Running /\ recvRateFault = "none"
    /\ \/ TakeFeedback
       \/ batch # "open" /\ (NadaSend \/ NadaReset \/ NadaTick)

NadaSpec == NadaInit /\ [][NadaNext]_allVars

-----------------------------------------------------------------------------
(* Properties *)

\* The variables keep their types, those of the base class included.
NadaTypeOK ==
    /\ TypeOK
    /\ lastTimeCalc \in 0 .. now
    /\ lastTimeCalcValid \in BOOLEAN
    /\ ploss \in Nat
    /\ mode \in {"none", "rampUp", "gradual"}
    /\ recvRateFault \in {"none", "item", "batch"}
    /\ batch \in {"none", "open", "done", "dropped"}
    /\ updates \in Nat
    /\ lastRx <= latest

\* Of the asserts on the way of feedback from an orderly network two can fail:
\* that of updateInterLossData, after a loss across the wrap, and that of
\* getCurrentRecvRate, in an update in the middle of a batch, which may be
\* about packets received closer to each other than times are rounded.  An
\* update at the end of a batch sees an exact time.
NadaAssertsHold == AssertionsHold /\ recvRateFault # "batch"

\* The leniency does what its comment promises: a batch that is taken in full
\* leaves a rate not older than half the interval, after one update at most,
\* whether that was at an item or at the end.
UpdatedByBatch ==
    /\ updates <= 1
    /\ batch = "done" => lastTimeCalcValid /\ 2 * (now - lastTimeCalc) < Delta

\* A hole in the history, which ends the ramp-up, has started a loss interval.
\* (The ramp-up may also end for a loss of which only m_ploss is left.)
LossesAgree == history # <<>> /\ Holes(history) > 0 => il.initialized

\* An update that chooses the accelerated ramp-up.
RampsUp == lastTimeCalc' # lastTimeCalc /\ mode' = "rampUp" /\ recvRateFault' = "none"

\* Every packet sent between the oldest and the newest was received.
NoRecentLoss(h) == \A i \in 1 .. Len(h) - 1 : h[i + 1].seq = Inc(h[i].seq)

\* getRampUpMode's criteria as the code applies them: an update ramps up only if
\* no packet in the history was delayed by more than QEps and, as soon as the
\* history is long enough to tell, none sent in between is missing from it.
RampUpIsClean ==
    [][RampsUp => /\ \A r \in Records(history') : r.owd - baseDelay' <= QEps
                  /\ Measurable(history') => NoRecentLoss(history')]_allVars

\* The criteria as getRampUpMode's comment has them: no recent loss, however
\* short the history, and every delay below QEps.
RampUpAsDocumented ==
    [][RampsUp => /\ \A r \in Records(history') : r.owd - baseDelay' < QEps
                  /\ NoRecentLoss(history')]_allVars
=============================================================================
