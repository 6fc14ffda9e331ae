------------------------ MODULE CcfsSendControlProofs ------------------------
(***************************************************************************)
(* What CcfsSendControl promises for all rates, delays, intervals and      *)
(* limits: types, agreement of target delay, saved estimate and probing    *)
(* time with the state, and the range of the rate.                         *)
(***************************************************************************)
EXTENDS CcfsSendControl, InductionLemmas

-----------------------------------------------------------------------------
(* Constants and operators *)

LEMMA ConstantTypes ==
    /\ DefaultRate \in Nat \ {0} /\ MinRate \in Nat \ {0} /\ MaxRate \in Nat \ {0}
    /\ ProbingRate \in Nat \ {0}
    /\ MinRate <= MaxRate
    /\ AgeCap \in Nat /\ Window \in Nat /\ ProbingTimeout \in Nat
    /\ Window < AgeCap /\ ProbingTimeout < AgeCap
<1>1. Lag \in Nat /\ Window \in Nat /\ ProbingTimeout \in Nat /\ AgeCap \in Nat
    BY SendControlAssumption
<1>2. Window + Lag < AgeCap /\ ProbingTimeout + Lag < AgeCap
    BY SendControlAssumption
<1> QED
    BY <1>1, <1>2, SendControlAssumption

\* An age grows, and not past AgeCap; older stays older.
LEMMA OlderAge ==
    ASSUME NEW age \in 0 .. AgeCap, NEW by \in Nat
    PROVE  Older(age, by) \in 0 .. AgeCap /\ age <= Older(age, by)
BY ConstantTypes DEF Older

LEMMA OlderMonotone ==
    ASSUME NEW age \in 0 .. AgeCap, NEW older \in 0 .. AgeCap, age <= older, NEW by \in Nat
    PROVE  Older(age, by) <= Older(older, by)
BY ConstantTypes DEF Older

\* updateSendRate keeps the rate within its limits.
LEMMA AppliedInRange ==
    ASSUME NEW r \in Int
    PROVE  /\ Applied(r) \in Nat \ {0}
           /\ MinRate <= Applied(r) /\ Applied(r) <= MaxRate
BY ConstantTypes DEF Applied

\* Every estimate is a rate.
LEMMA EstimateType ==
    ASSUME fwdBw \in Nat, NEW received \in ReceivedRates, NEW lost \in BOOLEAN,
           NEW b \in EstimatedFwdBw(received, lost)
    PROVE  b \in Nat
<1>1. received \in Nat
    BY SendControlAssumption
<1>2. ASSUME NEW x \in SetFwdBw(received) PROVE x \in Nat
    BY <1>1, <1>2, ConstantTypes DEF SetFwdBw, Between
<1> QED
    BY <1>2 DEF EstimatedFwdBw

\* The estimate stands still while the flow is throttled.
LEMMA ThrottledEstimate ==
    ASSUME status = "THROTTLED", NEW received, NEW lost, NEW b \in EstimatedFwdBw(received, lost)
    PROVE  b = fwdBw
BY DEF EstimatedFwdBw

-----------------------------------------------------------------------------
(* The window of delays *)

\* Front first means oldest first.
OldestFirst(w) == \A i, j \in 1 .. Len(w) : i <= j => w[j].age <= w[i].age

WindowEntry(top) == [q : QDelays, age : 0 .. top]

LEMMA AgedWindow ==
    ASSUME window \in Seq(WindowEntry(Window)), OldestFirst(window), NEW elapsed \in Nat
    PROVE  /\ Aged(elapsed) \in Seq(WindowEntry(AgeCap))
           /\ OldestFirst(Aged(elapsed))
<1> DEFINE w == Aged(elapsed)
<1>1. Len(window) \in Nat /\ DOMAIN w = 1 .. Len(window) /\ Len(w) = Len(window)
    BY DEF Aged
<1>2. ASSUME NEW i \in 1 .. Len(window)
      PROVE  /\ window[i] \in WindowEntry(Window) /\ window[i].age \in 0 .. AgeCap
             /\ w[i] = [window[i] EXCEPT !.age = Older(window[i].age, elapsed)]
             /\ w[i] \in WindowEntry(AgeCap)
             /\ w[i].age = Older(window[i].age, elapsed)
    <2>1. window[i] \in WindowEntry(Window)
        BY <1>2
    <2>2. window[i].age \in 0 .. AgeCap /\ window[i].q \in QDelays
        BY <2>1, ConstantTypes DEF WindowEntry
    <2>3. w[i] = [window[i] EXCEPT !.age = Older(window[i].age, elapsed)]
        BY <1>2 DEF Aged
    <2>4. Older(window[i].age, elapsed) \in 0 .. AgeCap
        BY <2>2, OlderAge
    <2> QED
        BY <2>1, <2>2, <2>3, <2>4 DEF WindowEntry
<1>3. w \in Seq(WindowEntry(AgeCap))
    <2>1. w \in [1 .. Len(window) -> WindowEntry(AgeCap)]
        BY <1>1, <1>2 DEF Aged
    <2> QED
        BY <1>1, <2>1
<1>4. OldestFirst(w)
    <2> SUFFICES ASSUME NEW i \in 1 .. Len(window), NEW j \in 1 .. Len(window), i <= j
                 PROVE  w[j].age <= w[i].age
        BY <1>1 DEF OldestFirst
    <2>1. window[j].age <= window[i].age
        BY DEF OldestFirst
    <2>2. /\ window[i].age \in 0 .. AgeCap /\ w[i].age = Older(window[i].age, elapsed)
          /\ window[j].age \in 0 .. AgeCap /\ w[j].age = Older(window[j].age, elapsed)
        BY <1>2
    <2> HIDE DEF w
    <2> QED
        BY <2>1, <2>2, OlderMonotone
<1> QED
    BY <1>3, <1>4

\* The loop that pops the front stops somewhere: at the first entry recent
\* enough, or at the end.
LEMMA PopsStop ==
    ASSUME NEW s \in Seq(WindowEntry(AgeCap))
    PROVE  \E k \in 0 .. Len(s) : PopsExactly(s, k)
<1> DEFINE T == {k \in 0 .. Len(s) : k < Len(s) => s[k + 1].age <= Window}
<1>1. Len(s) \in Nat
    OBVIOUS
<1>2. T \subseteq Nat /\ T # {}
    <2>1. Len(s) \in T
        BY <1>1
    <2> QED
        BY <1>1, <2>1
<1>3. PICK k \in T : \A u \in T : k <= u
    <2> HIDE DEF T
    <2> QED
        BY <1>2, LeastNat
<1>4. ASSUME NEW i \in 1 .. k PROVE s[i].age > Window
    <2>1. i - 1 \in 0 .. Len(s) /\ i - 1 < k /\ i \in 1 .. Len(s)
        BY <1>1, <1>4
    <2>2. i - 1 \notin T
        BY <1>3, <2>1
    <2>3. s[i].age \in 0 .. AgeCap
        <3>1. s[i] \in WindowEntry(AgeCap)
            BY <2>1
        <3> QED
            BY <3>1 DEF WindowEntry
    <2> QED
        BY <2>1, <2>2, <2>3, ConstantTypes
<1> QED
    BY <1>4 DEF PopsExactly

LEMMA SlidWindow ==
    ASSUME window \in Seq(WindowEntry(Window)), OldestFirst(window),
           NEW elapsed \in Nat, NEW qdelay \in QDelays
    PROVE  /\ Slid(elapsed, qdelay) \in Seq(WindowEntry(Window))
           /\ OldestFirst(Slid(elapsed, qdelay))
           /\ Slid(elapsed, qdelay) # <<>>
           /\ Slid(elapsed, qdelay)[Len(Slid(elapsed, qdelay))].q = qdelay
<1> DEFINE s == Aged(elapsed)
           k == CHOOSE n \in 0 .. Len(s) : PopsExactly(s, n)
           r == SubSeq(s, k + 1, Len(s))
           new == [q |-> qdelay, age |-> 0]
<1>1. s \in Seq(WindowEntry(AgeCap)) /\ OldestFirst(s)
    BY AgedWindow
<1>2. k \in 0 .. Len(s) /\ PopsExactly(s, k)
    BY <1>1, PopsStop
<1>3. Slid(elapsed, qdelay) = Append(r, new)
    BY DEF Slid, Recent
<1>4. s \in Seq(WindowEntry(AgeCap)) /\ OldestFirst(s) /\ Len(s) \in Nat /\ k \in 0 .. Len(s)
    BY <1>1, <1>2
<1> HIDE DEF s, k
<1>5. r \in Seq(WindowEntry(AgeCap)) /\ Len(r) = Len(s) - k
    BY <1>4
<1>6. ASSUME NEW i \in 1 .. Len(r) PROVE r[i] = s[k + i] /\ k + i \in 1 .. Len(s)
    BY <1>4, <1>5, <1>6
<1> HIDE DEF r
<1>7. ASSUME NEW i \in 1 .. Len(r) PROVE r[i] \in WindowEntry(Window)
    <2>1. k + 1 \in 1 .. Len(s) /\ k + i \in 1 .. Len(s) /\ k + 1 <= k + i /\ k < Len(s)
        BY <1>4, <1>5, <1>7
    <2>2. s[k + 1].age <= Window
        BY <1>2, <2>1 DEF PopsExactly
    <2>3. s[k + i].age <= s[k + 1].age
        BY <1>4, <2>1 DEF OldestFirst
    <2>4. s[k + i] \in WindowEntry(AgeCap) /\ s[k + 1] \in WindowEntry(AgeCap)
        BY <1>4, <2>1
    <2>5. s[k + i].age \in 0 .. AgeCap /\ s[k + 1].age \in 0 .. AgeCap
        BY <2>4 DEF WindowEntry
    <2>6. s[k + i].age \in 0 .. Window
        BY <2>2, <2>3, <2>5, ConstantTypes
    <2> QED
        BY <1>6, <2>4, <2>6 DEF WindowEntry
<1>8. r \in Seq(WindowEntry(Window))
    <2>1. Len(r) \in Nat /\ r = [i \in 1 .. Len(r) |-> r[i]]
        BY <1>5
    <2> QED
        BY <1>7, <2>1
<1>9. new \in WindowEntry(Window) /\ new.q = qdelay /\ new.age = 0
    BY ConstantTypes DEF WindowEntry
<1> DEFINE t == Append(r, new)
<1> HIDE DEF new
<1>10. /\ t \in Seq(WindowEntry(Window)) /\ Len(t) = Len(r) + 1 /\ t[Len(t)] = new
       /\ \A i \in 1 .. Len(r) : t[i] = r[i]
    BY <1>8, <1>9
<1>11. OldestFirst(t)
    <2> SUFFICES ASSUME NEW i \in 1 .. Len(t), NEW j \in 1 .. Len(t), i <= j
                 PROVE  t[j].age <= t[i].age
        BY DEF OldestFirst
    <2>1. Len(r) \in Nat
        BY <1>8
    <2>2. t[i] \in WindowEntry(Window)
        BY <1>10
    <2>3. CASE j = Len(t)
        BY <1>9, <1>10, <2>2, <2>3 DEF WindowEntry
    <2>4. CASE j # Len(t)
        <3>1. i \in 1 .. Len(r) /\ j \in 1 .. Len(r)
            BY <1>10, <2>1, <2>4
        <3>2. t[i] = s[k + i] /\ t[j] = s[k + j] /\ k + i <= k + j
            BY <1>4, <1>6, <1>10, <3>1
        <3> QED
            BY <1>4, <1>6, <3>1, <3>2 DEF OldestFirst
    <2> QED
        BY <2>3, <2>4
<1> QED
    BY <1>3, <1>9, <1>10, <1>11

\* getIncreasingQTime: the detector after a message.
LEMMA DetectorType ==
    ASSUME incr \in [count : 0 .. CountCap, last : Nat, for : 0 .. AgeCap],
           NEW elapsed \in Nat, NEW qdelay \in Nat
    PROVE  IncrAfter(elapsed, qdelay) \in [count : 0 .. CountCap, last : Nat, for : 0 .. AgeCap]
<1>1. incr.count \in 0 .. 3 /\ incr.last \in Nat /\ incr.for \in 0 .. AgeCap
    BY DEF CountCap
<1>2. Older(incr.for, elapsed) \in 0 .. AgeCap /\ 0 \in 0 .. AgeCap
    <2>1. Older(incr.for, elapsed) \in 0 .. AgeCap
        BY <1>1, OlderAge
    <2> QED
        BY <2>1, ConstantTypes
<1>3. (incr.last * 85 + qdelay * 15) \div 100 \in Nat
    BY <1>1
<1>4. (IF incr.count < CountCap THEN incr.count + 1 ELSE CountCap) \in 0 .. 3
    BY <1>1 DEF CountCap
<1> QED
    BY <1>2, <1>3, <1>4 DEF IncrAfter, CountCap

-----------------------------------------------------------------------------
(* The inductive invariant *)

\* Two facts are needed beside what is to be proved: the delays in the window
\* are those of ever newer periods, so that popping the front leaves none that
\* is too old; and the estimate stands still in THROTTLED.
ControlInv ==
    /\ TypeOK
    /\ OldestFirst(window)
    /\ TargetFollowsStatus
    /\ ThrottleKeepsEstimate
    /\ ProbingIsBounded

LEMMA ControlStart == Init => ControlInv
<1> SUFFICES ASSUME Init PROVE ControlInv
    OBVIOUS
<1>1. window = <<>> /\ Len(window) = 0
    BY DEF Init
<1>2. window \in Seq([q : QDelays, age : 0 .. Window]) /\ OldestFirst(window)
    BY <1>1 DEF OldestFirst
<1>3. incr \in [count : 0 .. CountCap, last : Nat, for : 0 .. AgeCap]
    BY ConstantTypes DEF Init, CountCap
<1>4. TypeOK
    BY <1>2, <1>3, ConstantTypes DEF Init, TypeOK, TargetQDelay
<1> QED
    BY <1>2, <1>4
       DEF Init, ControlInv, TargetFollowsStatus, ThrottleKeepsEstimate, ProbingIsBounded

\* What a message does in every state alike, and the branch of the state it
\* finds: the event and the delay are those the code computes.
Branch(from, event, qdelay, b, ago) ==
    \/ from = "DEFAULT" /\ InDefault(event, qdelay, b)
    \/ from = "COMPETING" /\ InCompeting(event, b)
    \/ from = "PROBING" /\ InProbing(event, b, ago)
    \/ from = "THROTTLED" /\ InThrottled(event, b)

LEMMA Effect ==
    ASSUME ControlInv, NEW from \in {"DEFAULT", "COMPETING", "PROBING", "THROTTLED"},
           ProcessFeedback(from)
    PROVE  /\ status = from
           /\ rxedFbmCount' \in {"odd", "even"}
           /\ window' \in Seq([q : QDelays, age : 0 .. Window]) /\ OldestFirst(window')
           /\ incr' \in [count : 0 .. CountCap, last : Nat, for : 0 .. AgeCap]
           /\ fwdBw' \in Nat
           /\ status = "THROTTLED" => fwdBw' = fwdBw
           /\ \E elapsed, qdelay \in Nat : \E event :
                /\ Branch(from, event, qdelay, fwdBw', Older(probingAgo, elapsed))
                /\ Timestamps(event, elapsed)
<1>1. PICK elapsed \in Intervals, qdelay \in QDelays, fraction \in Fractions \cup {NaN},
           received \in ReceivedRates, lost \in BOOLEAN :
        \E estimate \in EstimatedFwdBw(received, lost) :
          LET w == Slid(elapsed, qdelay)
              detector == IncrAfter(elapsed, qdelay)
              event == ControlEvent(elapsed, qdelay, fraction, w, detector, estimate)
              seen == IF estimate = 0 THEN targetQDelay ELSE qdelay
              b == CorrectedFwdBw(estimate, seen)
          IN  /\ window' = w
              /\ incr' = detector
              /\ fwdBw' = b
              /\ CASE from = "DEFAULT"   -> InDefault(event, seen, b)
                   [] from = "COMPETING" -> InCompeting(event, b)
                   [] from = "PROBING"   -> InProbing(event, b, Older(probingAgo, elapsed))
                   [] from = "THROTTLED" -> InThrottled(event, b)
              /\ Timestamps(event, elapsed)
    BY DEF ProcessFeedback
<1>2. PICK estimate \in EstimatedFwdBw(received, lost) :
          LET w == Slid(elapsed, qdelay)
              detector == IncrAfter(elapsed, qdelay)
              event == ControlEvent(elapsed, qdelay, fraction, w, detector, estimate)
              seen == IF estimate = 0 THEN targetQDelay ELSE qdelay
              b == CorrectedFwdBw(estimate, seen)
          IN  /\ window' = w
              /\ incr' = detector
              /\ fwdBw' = b
              /\ CASE from = "DEFAULT"   -> InDefault(event, seen, b)
                   [] from = "COMPETING" -> InCompeting(event, b)
                   [] from = "PROBING"   -> InProbing(event, b, Older(probingAgo, elapsed))
                   [] from = "THROTTLED" -> InThrottled(event, b)
              /\ Timestamps(event, elapsed)
    BY <1>1
<1> DEFINE event == ControlEvent(elapsed, qdelay, fraction, Slid(elapsed, qdelay),
                                 IncrAfter(elapsed, qdelay), estimate)
           seen == IF estimate = 0 THEN targetQDelay ELSE qdelay
           b == CorrectedFwdBw(estimate, seen)
<1>3. /\ window' = Slid(elapsed, qdelay) /\ incr' = IncrAfter(elapsed, qdelay) /\ fwdBw' = b
      /\ CASE from = "DEFAULT"   -> InDefault(event, seen, b)
           [] from = "COMPETING" -> InCompeting(event, b)
           [] from = "PROBING"   -> InProbing(event, b, Older(probingAgo, elapsed))
           [] from = "THROTTLED" -> InThrottled(event, b)
      /\ Timestamps(event, elapsed)
    BY <1>2
<1> HIDE DEF event
<1>4. status = from /\ rxedFbmCount' \in {"odd", "even"}
    BY DEF ProcessFeedback
<1>5. elapsed \in Nat /\ qdelay \in Nat
    BY SendControlAssumption
<1>6. fwdBw \in Nat /\ targetQDelay \in Nat
    BY DEF ControlInv, TypeOK
<1>7. estimate \in Nat
    BY <1>6, EstimateType
<1>8. seen \in Nat /\ b \in Nat
    BY <1>5, <1>6, <1>7 DEF CorrectedFwdBw
<1>9. /\ window \in Seq(WindowEntry(Window)) /\ OldestFirst(window)
      /\ incr \in [count : 0 .. CountCap, last : Nat, for : 0 .. AgeCap]
    BY DEF ControlInv, TypeOK, WindowEntry
<1>10. /\ window' \in Seq(WindowEntry(Window)) /\ OldestFirst(window')
    BY <1>3, <1>5, <1>9, SlidWindow
<1>11. incr' \in [count : 0 .. CountCap, last : Nat, for : 0 .. AgeCap]
    BY <1>3, <1>5, <1>9, DetectorType
<1>12. status = "THROTTLED" => fwdBw' = fwdBw
    BY <1>3, ThrottledEstimate DEF CorrectedFwdBw
<1>13. Branch(from, event, seen, fwdBw', Older(probingAgo, elapsed))
    <2> HIDE DEF seen, b
    <2>1. CASE from = "DEFAULT"
        BY <1>3, <2>1 DEF Branch
    <2>2. CASE from = "COMPETING"
        BY <1>3, <2>2 DEF Branch
    <2>3. CASE from = "PROBING"
        BY <1>3, <2>3 DEF Branch
    <2>4. CASE from = "THROTTLED"
        BY <1>3, <2>4 DEF Branch
    <2> QED
        BY <2>1, <2>2, <2>3, <2>4
<1>14. \E e, q \in Nat : \E ev :
            /\ Branch(from, ev, q, fwdBw', Older(probingAgo, e))
            /\ Timestamps(ev, e)
    <2> HIDE DEF seen
    <2> QED
        BY <1>3, <1>5, <1>8, <1>13
<1> QED
    BY <1>3, <1>4, <1>8, <1>10, <1>11, <1>12, <1>14 DEF WindowEntry

-----------------------------------------------------------------------------
(* The branches: what each leaves of rate, target delay and saved estimate *)

RateWithin == MinRate <= rate /\ rate <= MaxRate

\* A branch keeps rates within their limits, or brings them there, and keeps
\* the state in agreement with what belongs to it.
BranchResult ==
    /\ status' \in {"DEFAULT", "COMPETING", "PROBING", "THROTTLED"}
    /\ rate' \in Nat \ {0} /\ throttledBw' \in Nat
    /\ RateWithin => RateWithin'
    /\ TargetFollowsStatus'
    /\ ThrottleKeepsEstimate'

LEMMA StepUp ==
    ASSUME NEW r \in Nat, \E up \in Above(r) : rate' = Applied(up)
    PROVE  rate' \in Nat \ {0} /\ RateWithin'
BY AppliedInRange DEF Above, RateWithin

LEMMA StepDown ==
    ASSUME NEW r \in Nat, \E down \in Below(r) : rate' = Applied(down)
    PROVE  rate' \in Nat \ {0} /\ RateWithin'
BY AppliedInRange DEF Below, RateWithin

LEMMA StepTo ==
    ASSUME NEW r \in Nat, rate' = Applied(r)
    PROVE  rate' \in Nat \ {0} /\ RateWithin'
BY AppliedInRange DEF RateWithin

LEMMA CompeteResult ==
    ASSUME ControlInv, NEW r \in Nat, StartCompete(r)
    PROVE  BranchResult
<1>1. rate' \in Nat \ {0} /\ RateWithin'
    BY StepUp DEF StartCompete
<1> QED
    BY <1>1 DEF StartCompete, BranchResult, ControlInv, TypeOK,
                TargetFollowsStatus, ThrottleKeepsEstimate

LEMMA ThrottleResult ==
    ASSUME ControlInv, status # "COMPETING", fwdBw' \in Nat, NEW r \in Nat, Throttle(r, fwdBw')
    PROVE  BranchResult
<1>1. rate' \in Nat \ {0} /\ RateWithin'
    BY StepTo DEF Throttle
<1> QED
    BY <1>1 DEF Throttle, BranchResult, ControlInv, TargetFollowsStatus, ThrottleKeepsEstimate

LEMMA BackResult ==
    ASSUME ControlInv, status # "COMPETING", NEW r \in Nat, BackToDefault(r),
           r = rate \/ \E s \in Nat : r = Applied(s)
    PROVE  BranchResult
<1>1. rate' \in Nat \ {0} /\ (RateWithin => RateWithin')
    <2>1. CASE r = rate
        BY <2>1 DEF BackToDefault, ControlInv, TypeOK, RateWithin
    <2>2. CASE \E s \in Nat : r = Applied(s)
        <3>1. PICK s \in Nat : r = Applied(s)
            BY <2>2
        <3> QED
            BY <3>1, StepTo DEF BackToDefault
    <2> QED
        BY <2>1, <2>2
<1> QED
    BY <1>1 DEF BackToDefault, BranchResult, ControlInv, TypeOK,
                TargetFollowsStatus, ThrottleKeepsEstimate

LEMMA DefaultResult ==
    ASSUME ControlInv, status = "DEFAULT", fwdBw' \in Nat,
           NEW event, NEW qdelay \in Nat, InDefault(event, qdelay, fwdBw')
    PROVE  BranchResult
<1>1. rate \in Nat /\ rate # 0 /\ throttledBw \in Nat
    BY DEF ControlInv, TypeOK
<1>2. CASE FollowDelay(qdelay, fwdBw')
    <2>1. rate' \in Nat \ {0} /\ (RateWithin => RateWithin')
        <3>1. CASE \E up \in Above(rate) : rate' = Applied(up)
            BY <1>1, <3>1, StepUp
        <3>2. CASE \E down \in Below(rate) : rate' = Applied(down)
            BY <1>1, <3>2, StepDown
        <3>3. CASE UNCHANGED rate
            BY <1>1, <3>3 DEF RateWithin
        <3> QED
            BY <1>2, <3>1, <3>2, <3>3 DEF FollowDelay
    <2> QED
        BY <1>1, <1>2, <2>1 DEF FollowDelay, BranchResult, ControlInv,
                                TargetFollowsStatus, ThrottleKeepsEstimate
<1>3. CASE StartProbing(fwdBw')
    <2>1. rate' \in Nat \ {0} /\ RateWithin'
        BY <1>3, StepTo, ConstantTypes DEF StartProbing
    <2> QED
        BY <1>1, <1>3, <2>1 DEF StartProbing, BranchResult, ControlInv,
                                TargetFollowsStatus, ThrottleKeepsEstimate
<1>4. CASE StartCompete(rate)
    BY <1>1, <1>4, CompeteResult
<1>5. CASE Throttle(rate, fwdBw')
    BY <1>1, <1>5, ThrottleResult
<1> QED
    BY <1>2, <1>3, <1>4, <1>5 DEF InDefault

LEMMA StayResult ==
    ASSUME ControlInv, status = "THROTTLED" => fwdBw' = fwdBw, Stay
    PROVE  BranchResult
BY DEF Stay, BranchResult, ControlInv, TypeOK, RateWithin, TargetFollowsStatus,
       ThrottleKeepsEstimate

LEMMA CompetingResult ==
    ASSUME ControlInv, status = "COMPETING", fwdBw' \in Nat,
           NEW event, InCompeting(event, fwdBw')
    PROVE  BranchResult
<1>1. rate \in Nat /\ rate # 0 /\ throttledBw \in Nat
    BY DEF ControlInv, TypeOK
<1>2. CASE FollowEstimate(fwdBw')
    <2>1. rate' \in Nat \ {0} /\ (RateWithin => RateWithin')
        <3>1. PICK r \in IF 100 * rate < 95 * fwdBw' THEN {Applied(up) : up \in Above(rate)}
                         ELSE {rate} :
                rate' \in IF 100 * r > 105 * fwdBw' THEN {Applied(down) : down \in Below(r)}
                          ELSE {r}
            BY <1>2 DEF FollowEstimate
        <3>2. /\ r \in Nat \ {0}
              /\ RateWithin => MinRate <= r /\ r <= MaxRate
            <4>1. CASE r = rate
                BY <1>1, <4>1 DEF RateWithin
            <4>2. CASE \E up \in Above(rate) : r = Applied(up)
                <5>1. PICK up \in Above(rate) : r = Applied(up)
                    BY <4>2
                <5>2. up \in Int
                    BY <1>1, <5>1 DEF Above
                <5> QED
                    BY <5>1, <5>2, AppliedInRange
            <4> QED
                BY <3>1, <4>1, <4>2
        <3>3. CASE \E down \in Below(r) : rate' = Applied(down)
            BY <3>2, <3>3, StepDown
        <3>4. CASE rate' = r
            BY <3>2, <3>4 DEF RateWithin
        <3> QED
            BY <3>1, <3>3, <3>4
    <2> QED
        BY <1>1, <1>2, <2>1 DEF FollowEstimate, BranchResult, ControlInv,
                                TargetFollowsStatus, ThrottleKeepsEstimate
<1>3. CASE Stay
    BY <1>3, StayResult
<1>4. CASE /\ status' = "DEFAULT"
           /\ targetQDelay' = TargetQDelay
           /\ UNCHANGED <<rate, throttledBw>>
    BY <1>1, <1>4 DEF BranchResult, RateWithin, TargetFollowsStatus, ThrottleKeepsEstimate
<1> QED
    BY <1>2, <1>3, <1>4 DEF InCompeting

LEMMA ProbingResult ==
    ASSUME ControlInv, status = "PROBING", fwdBw' \in Nat,
           NEW event, NEW ago, InProbing(event, fwdBw', ago)
    PROVE  BranchResult
<1>1. rate \in Nat /\ rate # 0 /\ throttledBw \in Nat
    BY DEF ControlInv, TypeOK
<1>2. CASE BackToDefault(rate)
    BY <1>1, <1>2, BackResult
<1>3. CASE BackToDefault(Applied(fwdBw'))
    <2>1. Applied(fwdBw') \in Nat
        BY AppliedInRange
    <2> QED
        BY <1>3, <2>1, BackResult
<1>4. CASE StartCompete(rate)
    BY <1>1, <1>4, CompeteResult
<1>5. CASE Throttle(fwdBw', fwdBw')
    BY <1>5, ThrottleResult
<1>6. CASE Stay
    BY <1>6, StayResult
<1> QED
    BY <1>2, <1>3, <1>4, <1>5, <1>6 DEF InProbing

LEMMA ThrottledResult ==
    ASSUME ControlInv, status = "THROTTLED", fwdBw' = fwdBw,
           NEW event, InThrottled(event, fwdBw')
    PROVE  BranchResult
<1>1. throttledBw \in Nat /\ Applied(throttledBw) \in Nat
    <2>1. throttledBw \in Nat
        BY DEF ControlInv, TypeOK
    <2> QED
        BY <2>1, AppliedInRange
<1>2. CASE BackToDefault(Applied(throttledBw))
    BY <1>1, <1>2, BackResult
<1>3. CASE StartCompete(Applied(throttledBw))
    BY <1>1, <1>3, CompeteResult
<1>4. CASE throttledBw' = fwdBw' /\ UNCHANGED <<status, rate, targetQDelay>>
    BY <1>4 DEF BranchResult, RateWithin, ControlInv, TypeOK,
                TargetFollowsStatus, ThrottleKeepsEstimate
<1>5. CASE Stay
    BY <1>5, StayResult
<1> QED
    BY <1>2, <1>3, <1>4, <1>5 DEF InThrottled

LEMMA AnyResult ==
    ASSUME ControlInv, NEW from, status = from, fwdBw' \in Nat,
           status = "THROTTLED" => fwdBw' = fwdBw,
           NEW event, NEW qdelay \in Nat, NEW ago, Branch(from, event, qdelay, fwdBw', ago)
    PROVE  BranchResult
<1>1. CASE from = "DEFAULT" /\ InDefault(event, qdelay, fwdBw')
    BY <1>1, DefaultResult
<1>2. CASE from = "COMPETING" /\ InCompeting(event, fwdBw')
    BY <1>2, CompetingResult
<1>3. CASE from = "PROBING" /\ InProbing(event, fwdBw', ago)
    BY <1>3, ProbingResult
<1>4. CASE from = "THROTTLED" /\ InThrottled(event, fwdBw')
    BY <1>4, ThrottledResult
<1> QED
    BY <1>1, <1>2, <1>3, <1>4 DEF Branch

\* A message that leaves the flow probing either starts the probe or finds it
\* within its time.
LEMMA StillProbing ==
    ASSUME NEW from, status = from, NEW event, NEW qdelay, NEW b, NEW ago,
           Branch(from, event, qdelay, b, ago),
           status' = "PROBING", event # "START_PROBING"
    PROVE  ago <= ProbingTimeout
<1>1. CASE from = "DEFAULT" /\ InDefault(event, qdelay, b)
    BY <1>1 DEF InDefault, FollowDelay, StartCompete, Throttle
<1>2. CASE from = "COMPETING" /\ InCompeting(event, b)
    BY <1>2 DEF InCompeting, FollowEstimate, Stay
<1>3. CASE from = "PROBING" /\ InProbing(event, b, ago)
    BY <1>3 DEF InProbing, BackToDefault, StartCompete, Throttle
<1>4. CASE from = "THROTTLED" /\ InThrottled(event, b)
    BY <1>4 DEF InThrottled, BackToDefault, StartCompete, Stay
<1> QED
    BY <1>1, <1>2, <1>3, <1>4 DEF Branch

LEMMA AgesAfter ==
    ASSUME ControlInv, NEW from, status = from, NEW event, NEW qdelay, NEW b,
           NEW elapsed \in Nat,
           Branch(from, event, qdelay, b, Older(probingAgo, elapsed)),
           Timestamps(event, elapsed)
    PROVE  /\ {startedAgo', probingAgo', competeAgo'} \subseteq 0 .. AgeCap
           /\ ProbingIsBounded'
<1>1. startedAgo \in 0 .. AgeCap /\ probingAgo \in 0 .. AgeCap /\ competeAgo \in 0 .. AgeCap
    BY DEF ControlInv, TypeOK
<1>2. /\ Older(startedAgo, elapsed) \in 0 .. AgeCap
      /\ Older(probingAgo, elapsed) \in 0 .. AgeCap
      /\ Older(competeAgo, elapsed) \in 0 .. AgeCap
    BY <1>1, OlderAge
<1>3. 0 \in 0 .. AgeCap /\ AgeCap \in 0 .. AgeCap /\ 0 <= ProbingTimeout
    BY ConstantTypes
<1>4. startedAgo' \in 0 .. AgeCap /\ probingAgo' \in 0 .. AgeCap /\ competeAgo' \in 0 .. AgeCap
    BY <1>2, <1>3 DEF Timestamps
<1>5. ASSUME status' = "PROBING" PROVE probingAgo' <= ProbingTimeout
    <2>1. CASE event = "START_PROBING"
        BY <1>3, <1>5, <2>1 DEF Timestamps
    <2>2. CASE event # "START_PROBING"
        <3>1. Older(probingAgo, elapsed) <= ProbingTimeout
            BY <1>5, <2>2, StillProbing
        <3> QED
            BY <1>5, <2>2, <3>1 DEF Timestamps
    <2> QED
        BY <2>1, <2>2
<1> QED
    BY <1>4, <1>5 DEF ProbingIsBounded

-----------------------------------------------------------------------------
(* Steps *)

LEMMA FeedbackStep ==
    ASSUME ControlInv, NEW from \in {"DEFAULT", "COMPETING", "PROBING", "THROTTLED"},
           ProcessFeedback(from)
    PROVE  /\ ControlInv'
           /\ RateWithin => RateWithin'
<1>1. /\ status = from
      /\ rxedFbmCount' \in {"odd", "even"}
      /\ window' \in Seq([q : QDelays, age : 0 .. Window]) /\ OldestFirst(window')
      /\ incr' \in [count : 0 .. CountCap, last : Nat, for : 0 .. AgeCap]
      /\ fwdBw' \in Nat
      /\ status = "THROTTLED" => fwdBw' = fwdBw
    BY Effect
<1>2. PICK elapsed \in Nat, qdelay \in Nat : \E event :
        /\ Branch(from, event, qdelay, fwdBw', Older(probingAgo, elapsed))
        /\ Timestamps(event, elapsed)
    BY Effect
<1>3. PICK event :
        /\ Branch(from, event, qdelay, fwdBw', Older(probingAgo, elapsed))
        /\ Timestamps(event, elapsed)
    BY <1>2
<1>4. BranchResult
    BY <1>1, <1>3, AnyResult
<1>5. {startedAgo', probingAgo', competeAgo'} \subseteq 0 .. AgeCap /\ ProbingIsBounded'
    BY <1>1, <1>3, AgesAfter
<1>6. targetQDelay' \in Nat
    BY <1>4 DEF BranchResult, TargetFollowsStatus, TargetQDelay, CompeteTargetQDelay
<1>7. TypeOK'
    BY <1>1, <1>4, <1>5, <1>6 DEF TypeOK, BranchResult
<1>8. OldestFirst(window)'
    BY <1>1 DEF OldestFirst
<1> QED
    BY <1>1, <1>4, <1>5, <1>7, <1>8 DEF ControlInv, BranchResult

LEMMA ControlStep ==
    ASSUME ControlInv, [Next]_vars
    PROVE  /\ ControlInv'
           /\ RateWithin => RateWithin'
<1>1. CASE Next
    <2>1. PICK from \in {"DEFAULT", "COMPETING", "PROBING", "THROTTLED"} : ProcessFeedback(from)
        BY <1>1 DEF Next
    <2> QED
        BY <2>1, FeedbackStep
<1>2. CASE UNCHANGED vars
    BY <1>2 DEF vars, rates, ControlInv, TypeOK, OldestFirst, TargetFollowsStatus,
                ThrottleKeepsEstimate, ProbingIsBounded, RateWithin
<1> QED
    BY <1>1, <1>2

-----------------------------------------------------------------------------
(* Theorems *)

LEMMA ControlInvariance == Spec => []ControlInv
<1>1. Init => ControlInv
    BY ControlStart
<1>2. ControlInv /\ [Next]_vars => ControlInv'
    BY ControlStep
<1> QED
    BY <1>1, <1>2, PTL DEF Spec

\* Every variable keeps its type: no delay stays in the window beyond its
\* time, and the rate never becomes 0 (updateSendRate, estiQDelay).
THEOREM ControlTypes == Spec => []TypeOK
<1>1. ControlInv => TypeOK
    BY DEF ControlInv
<1> QED
    BY <1>1, ControlInvariance, PTL

\* The target delay is the larger one exactly while the flow competes, on all
\* paths of handleSendControl.
THEOREM TargetIsOfStatus == Spec => []TargetFollowsStatus
<1>1. ControlInv => TargetFollowsStatus
    BY DEF ControlInv
<1> QED
    BY <1>1, ControlInvariance, PTL

\* A throttled flow goes back to the rate it was estimated at: the copy of the
\* estimate and the estimate stay the same (estiFwdBwPre, handleSendControl).
THEOREM EstimateIsKept == Spec => []ThrottleKeepsEstimate
<1>1. ControlInv => ThrottleKeepsEstimate
    BY DEF ControlInv
<1> QED
    BY <1>1, ControlInvariance, PTL

\* A probe is over one message after its timeout, whatever events come.
THEOREM ProbesEnd == Spec => []ProbingIsBounded
<1>1. ControlInv => ProbingIsBounded
    BY DEF ControlInv
<1> QED
    BY <1>1, ControlInvariance, PTL

\* With a default rate within the limits getBandwidth never leaves them; that
\* the default may be outside is what run ccfs_initial_rate shows.
THEOREM RateStaysInRange ==
    ASSUME MinRate <= DefaultRate, DefaultRate <= MaxRate
    PROVE  Spec => []RateInRange
<1>1. Init => ControlInv /\ RateWithin
    BY ControlStart DEF Init, RateWithin
<1>2. ControlInv /\ RateWithin /\ [Next]_vars => (ControlInv /\ RateWithin)'
    BY ControlStep
<1>3. ControlInv /\ RateWithin => RateInRange
    BY DEF RateWithin, RateInRange
<1> QED
    BY <1>1, <1>2, <1>3, PTL DEF Spec
=============================================================================
