--------------------------- MODULE CcfsSendControl ---------------------------
(***************************************************************************)
(* The send control of the CCFS controller (class CcfsController of        *)
(* model/congestion-control/ccfs-controller.{h,cc}): what one feedback     *)
(* message does to the estimates and to the state machine that sets the    *)
(* sending rate.                                                           *)
(*                                                                         *)
(* What the controller measures is input here: the queueing delay, the     *)
(* rate received, the bitrate fraction.  The bookkeeping these come from   *)
(* is not part of this module.  Only feedback that passes validateFeedback *)
(* and getLastPeriodMs is modelled; any other leaves these variables alone.*)
(*                                                                         *)
(* A point in time is represented by how long ago it was, and only as far  *)
(* as the code can tell: an age that grows past every limit it is compared *)
(* with stays at AgeCap, a counter at CountCap.                            *)
(*                                                                         *)
(* Rates are integers in bytes per second.  Multiplication by a constant   *)
(* near 1 is abstracted to any rate above, or below, the one multiplied.   *)
(***************************************************************************)
EXTENDS Integers, Sequences

CONSTANTS
    DefaultRate,         \* RMCAT_CC_DEFAULT_RINIT / 8, which reset() applies
    MinRate, MaxRate,    \* m_minBw / 8, m_maxBw / 8 as the application sets them
    ProbingRate,         \* getBpsForProbing()
    ReceivedRates,       \* rates received, less the room for competition
    QDelays,             \* latestQDelay, in milliseconds
    Fractions,           \* brFraction in percent
    Intervals,           \* time between two feedback messages
    Lag,                 \* now - periodEnd: how old the newest packet reported is
    Window,              \* kCcfsQDelayWindowTimeMs, kCcfsInitWaitToProbeMs
    CompeteMaintain,     \* kCcfsCompeteMaintainMs
    CompeteIncrTime,     \* KCcfsTrigCompQIncrTimeMs
    IncrMinDuration,     \* kCcfsQIncrDetectorMinDurationMs
    ProbingTimeout,      \* kCcfsProbingTimeoutMs
    AgeCap               \* bound: ages are not told apart from here on

ASSUME SendControlAssumption ==
    /\ {DefaultRate, MinRate, MaxRate, ProbingRate} \subseteq Nat \ {0}
    /\ MinRate <= MaxRate
    /\ ReceivedRates \subseteq Nat \ {0}
    /\ QDelays \subseteq Nat
    /\ Fractions \subseteq Nat
    /\ Intervals \subseteq Nat \ {0}
    /\ {Lag, Window, CompeteMaintain, CompeteIncrTime, IncrMinDuration, ProbingTimeout}
            \subseteq Nat
    /\ AgeCap \in Nat
    /\ \A limit \in {Window, CompeteMaintain, CompeteIncrTime, IncrMinDuration,
                     ProbingTimeout} : limit + Lag < AgeCap

VARIABLES
    status,          \* m_status
    rate,            \* m_targetSendBps
    fwdBw,           \* m_estFwdBwBps
    throttledBw,     \* m_throEstFwdBwBps
    targetQDelay,    \* m_targetQDelay
    window,          \* m_qdelayWindow, front first: delays with the age of their period
    incr,            \* m_incrCount, m_incrLastMinQDelay, m_incrStartTime
    startedAgo,      \* now - m_ccfsStartTime
    probingAgo,      \* now - m_probingStartTime, AgeCap when it is not read
    competeAgo,      \* now - m_lastCompeteTime, AgeCap when it is not read
    rxedFbmCount     \* feedback messages processed: none, an odd or an even number of
                     \* them, so that a message that changes nothing else is a step too

rates == <<rate, fwdBw, throttledBw>>
vars == <<status, rates, targetQDelay, window, incr, startedAgo, probingAgo, competeAgo,
          rxedFbmCount>>

TargetQDelay == 50          \* kCcfsTargetQDelayMs
CompeteTargetQDelay == 100  \* kCcfsCompeteTargetQDelayMs
CountCap == 3               \* bound: m_incrCount is only compared with 3

Older(age, by) == IF age + by < AgeCap THEN age + by ELSE AgeCap

Init ==
    /\ status = "DEFAULT"
    /\ rate = DefaultRate
    /\ fwdBw = 0
    /\ throttledBw = 0
    /\ targetQDelay = TargetQDelay
    /\ window = <<>>
    /\ incr = [count |-> 0, last |-> 0, for |-> 0]
    /\ startedAgo = 0
    /\ probingAgo = AgeCap
    /\ competeAgo = AgeCap
    /\ rxedFbmCount = "none"

-----------------------------------------------------------------------------
(* estiFwdBwPre, setFwdBw *)

\* A moving average of old and new lies between the two.
Between(a, b) == IF a <= b THEN a .. b ELSE b .. a

\* The first branch gives the room for competition back to the rate received,
\* which is below the resolution of the rates.
SetFwdBw(received) ==
    IF fwdBw < MinRate THEN {received}
    ELSE {IF b < MaxRate THEN b ELSE MaxRate : b \in Between(fwdBw, received)}

\* (Mutant: the estimate does not stand still while the flow is throttled.)
EstimatedUnlessCompeting(received, lost) ==
    {fwdBw} \cup (IF status = "COMPETING" /\ (received <= fwdBw \/ lost) THEN {}
                  ELSE SetFwdBw(received))

\* Whether all that was sent has arrived, and whether packets were lost, is input.
EstimatedFwdBw(received, lost) ==
    {fwdBw} \cup
    (IF \/ status = "THROTTLED"
        \/ status = "COMPETING" /\ (received <= fwdBw \/ lost)
     THEN {} ELSE SetFwdBw(received))

-----------------------------------------------------------------------------
(* estiQDelay: the window after the feedback, given the delay measured *)

Aged(elapsed) == [i \in 1 .. Len(window) |->
                    [window[i] EXCEPT !.age = Older(@, elapsed)]]

\* The front is popped while it is too old.
PopsExactly(s, k) ==
    /\ \A i \in 1 .. k : s[i].age > Window
    /\ k < Len(s) => s[k + 1].age <= Window

Recent(s) == LET k == CHOOSE n \in 0 .. Len(s) : PopsExactly(s, n)
             IN  SubSeq(s, k + 1, Len(s))

Slid(elapsed, qdelay) == Append(Recent(Aged(elapsed)), [q |-> qdelay, age |-> 0])

\* wndMinQRange is the largest difference of two delays in the window.
RangeExceeds(w, limit) == \E i, j \in 1 .. Len(w) : w[i].q - w[j].q > limit
RangeBelow(w, limit) == \A i, j \in 1 .. Len(w) : w[i].q - w[j].q < limit

-----------------------------------------------------------------------------
(* getIncreasingQTime *)

IncrAfter(elapsed, qdelay) ==
    IF incr.last < qdelay
    THEN [count |-> IF incr.count < CountCap THEN incr.count + 1 ELSE CountCap,
          last  |-> (incr.last * 85 + qdelay * 15) \div 100,
          for   |-> IF incr.count = 0 THEN 0 ELSE Older(incr.for, elapsed)]
    ELSE [count |-> 0, last |-> qdelay, for |-> 0]

IncreasingMs(detector) ==
    IF detector.count >= 3 /\ detector.for >= IncrMinDuration THEN detector.for ELSE 0

-----------------------------------------------------------------------------
(* getControlSend: the event, by priority *)

NaN == -1    \* 0 / 0: compares neither below nor above anything
FractionBelow(fraction, limit) == fraction # NaN /\ fraction < limit
FractionAtLeast(fraction, limit) == fraction # NaN /\ fraction >= limit

\* periodEndMs - m_lastCompeteTime on unsigned integers: before the packets sent
\* since then are reported, the difference wraps to a huge number.
CompetedLongEnough(elapsed) ==
    LET ago == Older(competeAgo, elapsed) - Lag
    IN  ago < 0 \/ ago > CompeteMaintain

ControlEvent(elapsed, qdelay, fraction, w, detector, estimate) ==
    LET increasing == IncreasingMs(detector) IN
    CASE estimate = 0 -> "NOTHING"
      [] OTHER ->
        IF status = "THROTTLED" /\ qdelay < targetQDelay
        THEN "RESOLV_THROTTLE"
        ELSE IF increasing > 0 /\ 2 * qdelay >= 3 * targetQDelay /\ FractionBelow(fraction, 90)
        THEN "DETECT_THROTTLE"
        ELSE IF increasing > CompeteIncrTime /\ (RangeExceeds(w, 150) \/ qdelay > 150)
        THEN "START_COMPETE"
        ELSE IF /\ status = "COMPETING" /\ CompetedLongEnough(elapsed)
                /\ qdelay < 50 /\ RangeBelow(w, 20)
        THEN "STOP_COMPETE"
        ELSE IF /\ Older(startedAgo, elapsed) > Window /\ status # "PROBING"
                /\ qdelay < 20 /\ FractionAtLeast(fraction, 100) /\ RangeBelow(w, 15)
        THEN "START_PROBING"
        ELSE IF /\ status = "PROBING"
                /\ \/ increasing > 0
                   \/ 10 * qdelay > 13 * targetQDelay
                   \/ FractionBelow(fraction, 80)
        THEN "STOP_PROBING"
        ELSE "NOTHING"

-----------------------------------------------------------------------------
(* handleSendControl *)

\* (Mutants: only the one or the other limit is applied.)
AppliedBelowMax(r) == IF r > MaxRate THEN MaxRate ELSE r
AppliedAboveMin(r) == IF r < MinRate THEN MinRate ELSE r

\* updateSendRate.
Applied(r) == IF r < MinRate THEN MinRate ELSE IF r > MaxRate THEN MaxRate ELSE r

Above(r) == r + 1 .. 2 * r
Below(r) == 0 .. r - 1

\* estiFwdBwPost: a full queue while competing takes the increase back.
CorrectedFwdBw(estimate, qdelay) ==
    IF status = "COMPETING" /\ 2 * qdelay >= 3 * targetQDelay /\ estimate > fwdBw
    THEN fwdBw ELSE estimate

\* What each state does with each event; b is the estimate of the bandwidth.
\* qdelay stands for qdFraction = qdelay / targetQDelay, which is 1 as long as
\* there is no estimate.
Stay == UNCHANGED <<status, rate, throttledBw, targetQDelay>>

\* (Mutant: the target delay is forgotten.)
StartCompeteWithOldTarget(r) ==
    /\ status' = "COMPETING"
    /\ \E up \in Above(r) : rate' = Applied(up)
    /\ UNCHANGED <<throttledBw, targetQDelay>>

\* handleEvtStartCompete, from the rate r.
StartCompete(r) ==
    /\ status' = "COMPETING"
    /\ \E up \in Above(r) : rate' = Applied(up)
    /\ targetQDelay' = CompeteTargetQDelay
    /\ UNCHANGED throttledBw

StartProbing(b) ==
    /\ status' = "PROBING"
    /\ rate' = Applied(b + ProbingRate)
    /\ UNCHANGED <<throttledBw, targetQDelay>>

Throttle(r, b) ==
    /\ status' = "THROTTLED"
    /\ rate' = Applied(r \div 2)
    /\ throttledBw' = b
    /\ UNCHANGED targetQDelay

BackToDefault(r) ==
    /\ status' = "DEFAULT"
    /\ rate' = r
    /\ UNCHANGED <<throttledBw, targetQDelay>>

FollowDelay(qdelay, b) ==
    /\ \/ /\ 2 * qdelay < targetQDelay /\ rate < b
          /\ \E up \in Above(rate) : rate' = Applied(up)
       \/ /\ 100 * qdelay > 105 * targetQDelay
          /\ \E down \in Below(rate) : rate' = Applied(down)
       \/ /\ ~(2 * qdelay < targetQDelay /\ rate < b)
          /\ ~(100 * qdelay > 105 * targetQDelay)
          /\ UNCHANGED rate
    /\ UNCHANGED <<status, throttledBw, targetQDelay>>

FollowEstimate(b) ==
    /\ \E r \in IF 100 * rate < 95 * b THEN {Applied(up) : up \in Above(rate)} ELSE {rate} :
          rate' \in IF 100 * r > 105 * b THEN {Applied(down) : down \in Below(r)} ELSE {r}
    /\ UNCHANGED <<status, throttledBw, targetQDelay>>

InDefault(event, qdelay, b) ==
    \/ event = "NOTHING" /\ FollowDelay(qdelay, b)
    \/ event = "START_PROBING" /\ StartProbing(b)
    \/ event = "START_COMPETE" /\ StartCompete(rate)
    \/ event = "DETECT_THROTTLE" /\ Throttle(rate, b)

InCompeting(event, b) ==
    \/ event = "NOTHING" /\ FollowEstimate(b)
    \/ event \in {"START_COMPETE", "DETECT_THROTTLE", "START_PROBING"} /\ Stay
    \/ /\ event = "STOP_COMPETE"
       /\ status' = "DEFAULT"
       /\ targetQDelay' = TargetQDelay
       /\ UNCHANGED <<rate, throttledBw>>

\* (Mutant: a probe never times out.)
InProbingUntimed(event, b, ago) ==
    \/ event = "NOTHING" /\ Stay
    \/ event = "STOP_PROBING" /\ BackToDefault(Applied(b))
    \/ event = "START_COMPETE" /\ StartCompete(rate)
    \/ event = "DETECT_THROTTLE" /\ Throttle(b, b)

InProbing(event, b, ago) ==
    \/ event = "NOTHING" /\ ago > ProbingTimeout /\ BackToDefault(rate)
    \/ event = "NOTHING" /\ ago <= ProbingTimeout /\ Stay
    \/ event = "STOP_PROBING" /\ BackToDefault(Applied(b))
    \/ event = "START_COMPETE" /\ StartCompete(rate)
    \/ event = "DETECT_THROTTLE" /\ Throttle(b, b)

InThrottled(event, b) ==
    \/ event = "RESOLV_THROTTLE" /\ BackToDefault(Applied(throttledBw))
    \/ event = "START_COMPETE" /\ StartCompete(Applied(throttledBw))
    \/ event = "DETECT_THROTTLE" /\ throttledBw' = b /\ UNCHANGED <<status, rate, targetQDelay>>
    \/ event \in {"NOTHING", "START_PROBING"} /\ Stay

\* (Mutant: every message of a competing flow restarts the competition.)
TimestampsRestarting(event, elapsed) ==
    /\ probingAgo' = IF status' # "PROBING" THEN AgeCap
                     ELSE IF event = "START_PROBING" THEN 0 ELSE Older(probingAgo, elapsed)
    /\ competeAgo' = IF status' = "COMPETING" THEN 0 ELSE AgeCap
    /\ startedAgo' = Older(startedAgo, elapsed)

\* When the timestamps of a state are written.
Timestamps(event, elapsed) ==
    /\ probingAgo' = IF status' # "PROBING" THEN AgeCap
                     ELSE IF event = "START_PROBING" THEN 0 ELSE Older(probingAgo, elapsed)
    /\ competeAgo' = IF status' # "COMPETING" THEN AgeCap
                     ELSE IF event = "START_COMPETE" THEN 0 ELSE Older(competeAgo, elapsed)
    /\ startedAgo' = Older(startedAgo, elapsed)

-----------------------------------------------------------------------------
\* processFeedback2, in the state it finds the controller in.
ProcessFeedback(from) ==
    /\ status = from
    /\ \E elapsed \in Intervals, qdelay \in QDelays, fraction \in Fractions \cup {NaN},
          received \in ReceivedRates, lost \in BOOLEAN :
       \E estimate \in EstimatedFwdBw(received, lost) :
          LET w == Slid(elapsed, qdelay)
              detector == IncrAfter(elapsed, qdelay)
              event == ControlEvent(elapsed, qdelay, fraction, w, detector, estimate)
              seen == IF estimate = 0 THEN targetQDelay ELSE qdelay
              b == CorrectedFwdBw(estimate, seen)
          IN  /\ window' = w
              /\ incr' = detector
              /\ fwdBw' = b
              /\ CASE from = "DEFAULT"   -> InDefault(event, seen, b)
                   [] from = "COMPETING" -> InCompeting(event, b)
                   [] from = "PROBING"   -> InProbing(event, b, Older(probingAgo, elapsed))
                   [] from = "THROTTLED" -> InThrottled(event, b)
              /\ Timestamps(event, elapsed)
    /\ rxedFbmCount' = IF rxedFbmCount = "odd" THEN "even" ELSE "odd"

Next == \/ ProcessFeedback("DEFAULT") \/ ProcessFeedback("COMPETING")
        \/ ProcessFeedback("PROBING") \/ ProcessFeedback("THROTTLED")

\* The receiver sends feedback periodically.
Spec == Init /\ [][Next]_vars /\ WF_vars(Next)

-----------------------------------------------------------------------------
(* Properties *)

\* Every variable has the type its declaration in the code gives it.
TypeOK ==
    /\ status \in {"DEFAULT", "COMPETING", "PROBING", "THROTTLED"}
    /\ rate \in Nat \ {0} /\ fwdBw \in Nat /\ throttledBw \in Nat
    /\ targetQDelay \in Nat
    /\ window \in Seq([q : QDelays, age : 0 .. Window])
    /\ incr \in [count : 0 .. CountCap, last : Nat, for : 0 .. AgeCap]
    /\ {startedAgo, probingAgo, competeAgo} \subseteq 0 .. AgeCap
    /\ rxedFbmCount \in {"none", "odd", "even"}

\* "Controllers should never output a bandwidth smaller" than the minimum or
\* "greater" than the maximum: what getBandwidth returns once feedback came in.
RateInRange == rxedFbmCount # "none" => MinRate <= rate /\ rate <= MaxRate

\* The larger target delay is in force exactly while the flow competes, along
\* every way into and out of that state.
TargetFollowsStatus ==
    targetQDelay = IF status = "COMPETING" THEN CompeteTargetQDelay ELSE TargetQDelay

\* While the flow is throttled the rate it will go back to is the present
\* estimate: the estimate stands still, and no message of the throttled period
\* leaves the two apart.
ThrottleKeepsEstimate == status = "THROTTLED" => throttledBw = fwdBw

\* A probe is over one message after its timeout at the latest, whatever events
\* come in between, and it cannot be prolonged.
ProbingIsBounded == status = "PROBING" => probingAgo <= ProbingTimeout

\* No state traps the controller: unless queueing delay keeps coming back, it is
\* in its default state again and again.
ReturnsToDefault ==
    []<>(status = "DEFAULT") \/ []<>(window # <<>> /\ window[Len(window)].q >= 20)
=============================================================================
