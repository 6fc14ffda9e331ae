------------------------ MODULE CCFeedbackHeaderProofs ------------------------
(***************************************************************************)
(* What the operators of CCFeedbackHeader compute, for every set of        *)
(* sequence numbers, every time and every header: the range a report block *)
(* covers, what becomes of a time on the wire, what the length adds up to, *)
(* and what is read of what is written.                                    *)
(***************************************************************************)
EXTENDS CCFeedbackHeader, InductionLemmas

-----------------------------------------------------------------------------
(* The widest gap *)

LEMMA SequenceArithmetic ==
    ASSUME NEW a \in Sequences16, NEW b \in Sequences16
    PROVE  /\ Inc(a) \in Sequences16 /\ Dec(a) \in Sequences16 /\ Dec(Inc(a)) = a
           /\ Diff(a, b) \in 0 .. SeqMod - 1
           /\ Diff(a, b) = 0 <=> a = b
           /\ Diff(Inc(a), b) = IF Diff(a, b) = SeqMod - 1 THEN 0 ELSE Diff(a, b) + 1
           /\ a # b => Diff(a, b) + Diff(b, a) = SeqMod
BY SeqModAssumption DEF Inc, Dec, Diff, Sequences16

LEMMA MinMax ==
    ASSUME NEW S \in SUBSET Sequences16, S # {}
    PROVE  /\ Min(S) \in S /\ \A s \in S : Min(S) <= s
           /\ Max(S) \in S /\ \A s \in S : s <= Max(S)
<1>1. S \in SUBSET Nat /\ \A s \in S : s \in 0 .. SeqMod - 1
    BY SeqModAssumption DEF Sequences16
<1>2. \E m \in S : \A s \in S : m <= s
    BY <1>1, LeastNat
<1>3. \E m \in S : \A s \in S : s <= m
    <2> DEFINE T == {SeqMod - 1 - s : s \in S}
    <2>1. \A s \in S : SeqMod - 1 - s \in Nat
        BY <1>1, SeqModAssumption
    <2>2. T \in SUBSET Nat /\ T # {}
        BY <2>1
    <2>3. PICK t \in T : \A u \in T : t <= u
        <3> HIDE DEF T
        <3> QED
            BY <2>2, LeastNat
    <2>4. PICK m \in S : t = SeqMod - 1 - m
        BY <2>3
    <2>5. \A s \in S : SeqMod - 1 - m <= SeqMod - 1 - s
        BY <2>3, <2>4
    <2>6. \A s \in S : s <= m
        BY <1>1, <2>5, SeqModAssumption
    <2> QED
        BY <2>6
<1>4. \A s \in S, m \in S : m >= s <=> s <= m
    BY <1>1
<1> QED
    BY <1>2, <1>3, <1>4 DEF Min, Max

LEMMA GapTypes ==
    ASSUME NEW S \in SUBSET Sequences16, NEW g \in Gaps(S)
    PROVE  /\ g[1] \in S /\ g[2] \in S /\ g = <<g[1], g[2]>>
           /\ g[1] \in 0 .. SeqMod - 1 /\ g[2] \in 0 .. SeqMod - 1
           /\ g[1] < g[2]
           /\ \A s \in S : s <= g[1] \/ g[2] <= s
<1>1. /\ g \in S \X S
      /\ g[1] < g[2]
      /\ \A s \in S : s <= g[1] \/ g[2] <= s
    BY DEF Gaps
<1>2. g[1] \in S /\ g[2] \in S /\ g = <<g[1], g[2]>>
    BY <1>1
<1>3. \A s \in S : s \in 0 .. SeqMod - 1
    BY DEF Sequences16
<1> QED
    BY <1>1, <1>2, <1>3

\* Between the least and the greatest of several numbers there is a gap.
LEMMA GapExists ==
    ASSUME NEW S \in SUBSET Sequences16, NEW lo \in S, NEW hi \in S, lo < hi,
           \A s \in S : lo <= s
    PROVE  Gaps(S) # {}
<1> DEFINE U == {s \in S : lo < s}
<1>1. S \in SUBSET Nat
    BY SeqModAssumption DEF Sequences16
<1>2. PICK u \in U : \A t \in U : u <= t
    <2>1. U \in SUBSET Nat /\ U # {}
        BY <1>1
    <2> HIDE DEF U
    <2> QED
        BY <2>1, LeastNat
<1>3. \A s \in S : s <= lo \/ u <= s
    BY <1>1, <1>2
<1>4. <<lo, u>> \in Gaps(S)
    BY <1>2, <1>3 DEF Gaps
<1> QED
    BY <1>4

\* The gap CalculateBeginStopSeq remembers is one, and none is wider.
LEMMA WidestGapIsWidest ==
    ASSUME NEW S \in SUBSET Sequences16, Gaps(S) # {}
    PROVE  /\ WidestGap(S) \in Gaps(S)
           /\ \A h \in Gaps(S) : h[2] - h[1] <= WidestGap(S)[2] - WidestGap(S)[1]
<1> DEFINE G == Gaps(S)
           T == {SeqMod - (h[2] - h[1]) : h \in G}
<1>1. \A h \in G : h[1] \in 0 .. SeqMod - 1 /\ h[2] \in 0 .. SeqMod - 1
    BY GapTypes
<1> HIDE DEF G
<1>2. T \in SUBSET Nat /\ T # {}
    BY <1>1, SeqModAssumption DEF G
<1>3. PICK t \in T : \A u \in T : t <= u
    <2> HIDE DEF T
    <2> QED
        BY <1>2, LeastNat
<1>4. PICK w \in G : t = SeqMod - (w[2] - w[1])
    BY <1>3
<1>5. \A h \in G : h[2] - h[1] <= w[2] - w[1]
    <2> SUFFICES ASSUME NEW h \in G PROVE h[2] - h[1] <= w[2] - w[1]
        OBVIOUS
    <2>1. SeqMod - (w[2] - w[1]) <= SeqMod - (h[2] - h[1])
        BY <1>3, <1>4
    <2> QED
        BY <1>1, <2>1, SeqModAssumption
<1> DEFINE W == {h \in G : h[2] - h[1] = w[2] - w[1]}
           F == {h[1] : h \in W}
<1>6. F \in SUBSET Nat /\ F # {}
    BY <1>1
<1>7. PICK f \in F : \A u \in F : f <= u
    <2> HIDE DEF F
    <2> QED
        BY <1>6, LeastNat
<1>8. PICK g \in W : f = g[1]
    BY <1>7
<1>9. \A h \in G : \/ h[2] - h[1] < g[2] - g[1]
                   \/ h[2] - h[1] = g[2] - g[1] /\ g[1] <= h[1]
    <2> SUFFICES ASSUME NEW h \in G, h[2] - h[1] # g[2] - g[1]
                 PROVE  h[2] - h[1] < g[2] - g[1]
        BY <1>7, <1>8
    <2> QED
        BY <1>1, <1>5, <1>8
<1>10. \E x \in Gaps(S) : \A h \in Gaps(S) :
          \/ h[2] - h[1] < x[2] - x[1]
          \/ h[2] - h[1] = x[2] - x[1] /\ x[1] <= h[1]
    BY <1>8, <1>9 DEF G
<1>11. /\ WidestGap(S) \in Gaps(S)
       /\ \A h \in Gaps(S) :
             \/ h[2] - h[1] < WidestGap(S)[2] - WidestGap(S)[1]
             \/ h[2] - h[1] = WidestGap(S)[2] - WidestGap(S)[1]
    BY <1>10 DEF WidestGap
<1> QED
    BY <1>1, <1>11 DEF G

-----------------------------------------------------------------------------
(* The range a block covers *)

\* No member of S lies above lo and below hi, going round.
Apart(S, lo, hi) == \A s \in S : Diff(s, hi) <= Diff(lo, hi)

\* e is the last sequence number of the range [begin, stop).
IsRange(S, begin, e) ==
    /\ begin \in S /\ e \in S
    /\ Apart(S, e, begin)
    /\ \A lo, hi \in S : Apart(S, lo, hi) => Diff(e, begin) <= Diff(lo, hi)

\* Two members with nothing between them, going round, are the greatest and the
\* least, or neighbours.
LEMMA ApartCases ==
    ASSUME NEW S \in SUBSET Sequences16, NEW first \in S, NEW last \in S,
           \A s \in S : first <= s /\ s <= last,
           NEW lo \in S, NEW hi \in S, Apart(S, lo, hi)
    PROVE  (lo = last /\ hi = first) \/ <<lo, hi>> \in Gaps(S)
<1>1. \A s \in S : s \in 0 .. SeqMod - 1
    BY DEF Sequences16
<1>2. \A s \in S : Diff(s, hi) <= Diff(lo, hi)
    BY DEF Apart
<1>3. CASE hi <= lo
    <2>1. \A s \in S : hi <= s /\ s <= lo
        BY <1>1, <1>2, <1>3, SeqModAssumption DEF Diff
    <2> QED
        BY <1>1, <2>1
<1>4. CASE lo < hi
    <2>1. \A s \in S : s <= lo \/ hi <= s
        BY <1>1, <1>2, <1>4, SeqModAssumption DEF Diff
    <2> QED
        BY <1>4, <2>1 DEF Gaps
<1> QED
    BY <1>1, <1>3, <1>4

LEMMA BeginStopRange ==
    ASSUME NEW S \in SUBSET Sequences16, S # {}
    PROVE  \E e \in S : /\ BeginStop(S).stop = Inc(e)
                        /\ IsRange(S, BeginStop(S).begin, e)
<1> DEFINE first == Min(S)
           last == Max(S)
           gap == WidestGap(S)
<1>1. /\ first \in S /\ last \in S
      /\ \A s \in S : first <= s /\ s <= last
      /\ \A s \in S : s \in 0 .. SeqMod - 1
    BY MinMax DEF Sequences16
<1> HIDE DEF first, last, gap
<1>2. CASE first = last
    <2>1. BeginStop(S) = [begin |-> first, stop |-> Inc(last)]
        BY <1>2 DEF BeginStop, first, last, gap
    <2>2. \A s \in S : s = first
        BY <1>1, <1>2
    <2>3. Diff(first, first) = 0
        BY <1>1 DEF Diff
    <2>4. IsRange(S, first, last)
        BY <1>1, <1>2, <2>2, <2>3 DEF IsRange, Apart
    <2> QED
        BY <1>1, <2>1, <2>4
<1>3. CASE first # last
    <2>1. first < last
        BY <1>1, <1>3
    <2>2. gap \in Gaps(S) /\ \A h \in Gaps(S) : h[2] - h[1] <= gap[2] - gap[1]
        BY <1>1, <2>1, GapExists, WidestGapIsWidest DEF gap
    <2>3. /\ gap[1] \in S /\ gap[2] \in S /\ gap[1] < gap[2]
          /\ \A s \in S : s <= gap[1] \/ gap[2] <= s
        BY <2>2, GapTypes
    <2>4. ASSUME NEW lo \in S, NEW hi \in S, Apart(S, lo, hi)
          PROVE  \/ lo = last /\ hi = first
                 \/ lo < hi /\ hi - lo <= gap[2] - gap[1]
        <3>1. CASE <<lo, hi>> \in Gaps(S)
            <4>1. lo < hi
                BY <3>1, GapTypes
            <4> QED
                BY <2>2, <3>1, <4>1
        <3> QED
            BY <1>1, <2>4, <3>1, ApartCases
    <2>5. CASE Diff(first, last) > gap[2] - gap[1]
        <3>1. BeginStop(S) = [begin |-> first, stop |-> Inc(last)]
            BY <2>5 DEF BeginStop, first, last, gap
        <3>2. Apart(S, last, first)
            BY <1>1, SeqModAssumption DEF Apart, Diff
        <3>3. ASSUME NEW lo \in S, NEW hi \in S, Apart(S, lo, hi)
              PROVE  Diff(last, first) <= Diff(lo, hi)
            BY <1>1, <2>1, <2>3, <2>4, <2>5, <3>3, SeqModAssumption DEF Diff
        <3>4. IsRange(S, first, last)
            BY <1>1, <3>2, <3>3 DEF IsRange
        <3> QED
            BY <1>1, <3>1, <3>4
    <2>6. CASE ~(Diff(first, last) > gap[2] - gap[1])
        <3>1. BeginStop(S) = [begin |-> gap[2], stop |-> Inc(gap[1])]
            BY <1>3, <2>6 DEF BeginStop, first, last, gap
        <3>2. Apart(S, gap[1], gap[2])
            BY <1>1, <2>3, SeqModAssumption DEF Apart, Diff
        <3>3. ASSUME NEW lo \in S, NEW hi \in S, Apart(S, lo, hi)
              PROVE  Diff(gap[1], gap[2]) <= Diff(lo, hi)
            BY <1>1, <2>1, <2>3, <2>4, <2>6, <3>3, SeqModAssumption DEF Diff
        <3>4. IsRange(S, gap[2], gap[1])
            BY <2>3, <3>2, <3>3 DEF IsRange
        <3> QED
            BY <2>3, <3>1, <3>4
    <2> QED
        BY <2>5, <2>6
<1> QED
    BY <1>2, <1>3

\* The range covers every packet received, and its ends are sequence numbers.
LEMMA RangeCovers ==
    ASSUME NEW S \in SUBSET Sequences16, S # {}, Representable(S)
    PROVE  LET r == BeginStop(S)
           IN  /\ r.begin \in S /\ Dec(r.stop) \in S /\ r.stop \in Sequences16
               /\ MetricBlocks(S) \in 1 .. SeqMod - 1
               /\ Diff(Dec(r.stop), r.begin) + 1 = MetricBlocks(S)
               /\ \A s \in S : Diff(s, r.begin) < MetricBlocks(S)
<1> DEFINE r == BeginStop(S)
           b == r.begin
<1>1. PICK e \in S : r.stop = Inc(e) /\ IsRange(S, b, e)
    BY BeginStopRange
<1>2. b \in S /\ \A s \in S : Diff(s, b) <= Diff(e, b)
    BY <1>1 DEF IsRange, Apart
<1>3. MetricBlocks(S) = Diff(Inc(e), b) /\ b # Inc(e)
    BY <1>1 DEF MetricBlocks, Representable
<1>4. Dec(r.stop) = e /\ r.stop \in Sequences16
    BY <1>1, SequenceArithmetic
<1> HIDE DEF r, b
<1>5. b \in Sequences16 /\ e \in Sequences16 /\ Inc(e) \in Sequences16
    BY <1>1, <1>2, SequenceArithmetic
<1>6. /\ Diff(Inc(e), b) \in 0 .. SeqMod - 1 /\ Diff(Inc(e), b) # 0
      /\ Diff(e, b) \in 0 .. SeqMod - 1
      /\ Diff(Inc(e), b) = IF Diff(e, b) = SeqMod - 1 THEN 0 ELSE Diff(e, b) + 1
    BY <1>3, <1>5, SequenceArithmetic
<1>7. \A s \in S : Diff(s, b) \in 0 .. SeqMod - 1
    BY <1>5, SequenceArithmetic
<1>8. \A s \in S : Diff(s, b) < MetricBlocks(S)
    BY <1>2, <1>3, <1>6, <1>7
<1>9. Diff(e, b) + 1 = MetricBlocks(S) /\ MetricBlocks(S) \in 1 .. SeqMod - 1
    BY <1>3, <1>6
<1> QED
    BY <1>1, <1>2, <1>4, <1>8, <1>9 DEF r, b

LEMMA NearestAndFurthest ==
    ASSUME NEW S \in SUBSET Sequences16, S # {}, NEW b \in Sequences16
    PROVE  \E f, g \in S : \A s \in S : Diff(f, b) <= Diff(s, b) /\ Diff(s, b) <= Diff(g, b)
<1> DEFINE D == {Diff(s, b) : s \in S}
<1>1. \A s \in S : Diff(s, b) \in Sequences16
    BY SequenceArithmetic DEF Sequences16
<1>2. D \in SUBSET Sequences16 /\ D # {}
    BY <1>1
<1> HIDE DEF D
<1>3. /\ Min(D) \in D /\ \A d \in D : Min(D) <= d
      /\ Max(D) \in D /\ \A d \in D : d <= Max(D)
    BY <1>2, MinMax
<1>4. PICK f \in S : Min(D) = Diff(f, b)
    BY <1>3 DEF D
<1>5. PICK g \in S : Max(D) = Diff(g, b)
    BY <1>3 DEF D
<1>6. \A s \in S : Diff(s, b) \in D
    BY DEF D
<1> QED
    BY <1>3, <1>4, <1>5, <1>6

\* No shorter range covers every packet received.
LEMMA RangeIsShortest ==
    ASSUME NEW S \in SUBSET Sequences16, S # {},
           NEW b \in Sequences16, NEW n \in 1 .. SeqMod, \A s \in S : Diff(s, b) < n
    PROVE  MetricBlocks(S) <= n
<1> DEFINE r == BeginStop(S)
           a == r.begin
<1>1. PICK e \in S : r.stop = Inc(e) /\ IsRange(S, a, e)
    BY BeginStopRange
<1>2. MetricBlocks(S) = Diff(Inc(e), a) /\ a \in S
    BY <1>1 DEF MetricBlocks, IsRange
<1>3. PICK f \in S, g \in S :
        \A s \in S : Diff(f, b) <= Diff(s, b) /\ Diff(s, b) <= Diff(g, b)
    BY NearestAndFurthest
<1> HIDE DEF r, a
<1>4. Apart(S, g, f) /\ Diff(g, f) <= Diff(g, b)
    <2>1. b \in 0 .. SeqMod - 1 /\ \A s \in S : s \in 0 .. SeqMod - 1
        BY DEF Sequences16
    <2> QED
        BY <1>3, <2>1, SeqModAssumption DEF Apart, Diff
<1>5. Diff(e, a) <= Diff(g, f)
    BY <1>1, <1>4 DEF IsRange
<1>6. /\ Diff(g, b) < n
      /\ Diff(g, b) \in Int /\ Diff(g, f) \in Int /\ Diff(e, a) \in Int
      /\ Diff(Inc(e), a) = IF Diff(e, a) = SeqMod - 1 THEN 0 ELSE Diff(e, a) + 1
    <2>1. a \in Sequences16 /\ e \in Sequences16 /\ f \in Sequences16 /\ g \in Sequences16
        BY <1>2
    <2>2. Diff(g, b) < n
        OBVIOUS
    <2>3. /\ Diff(g, b) \in 0 .. SeqMod - 1
          /\ Diff(g, f) \in 0 .. SeqMod - 1
          /\ Diff(e, a) \in 0 .. SeqMod - 1
          /\ Diff(Inc(e), a) = IF Diff(e, a) = SeqMod - 1 THEN 0 ELSE Diff(e, a) + 1
        BY <2>1, SequenceArithmetic
    <2> QED
        BY <2>2, <2>3
<1> QED
    BY <1>2, <1>4, <1>5, <1>6

-----------------------------------------------------------------------------
(* The length *)

Words(blocks) == [ssrc \in DOMAIN blocks |-> 2 + (MetricBlocks(DOMAIN blocks[ssrc]) + 1) \div 2]

LEMMA WordsType ==
    ASSUME NEW blocks, NEW ssrc \in DOMAIN blocks,
           DOMAIN blocks[ssrc] \in (SUBSET Sequences16) \ {{}}
    PROVE  Words(blocks)[ssrc] \in Nat
<1> DEFINE S == DOMAIN blocks[ssrc]
<1>1. S \in SUBSET Sequences16 /\ S # {}
    OBVIOUS
<1>2. Words(blocks)[ssrc] = 2 + (MetricBlocks(S) + 1) \div 2
    BY DEF Words
<1> HIDE DEF S
<1>3. PICK e \in S : BeginStop(S).stop = Inc(e) /\ BeginStop(S).begin \in S
    BY <1>1, BeginStopRange DEF IsRange
<1>4. MetricBlocks(S) \in 0 .. SeqMod - 1
    <2>1. Inc(e) \in Sequences16 /\ BeginStop(S).begin \in Sequences16
        BY <1>1, <1>3, SequenceArithmetic
    <2> QED
        BY <1>3, <2>1, SequenceArithmetic DEF MetricBlocks
<1> QED
    BY <1>2, <1>4

\* The recursion of a fold, with what it adds up given as a function.
LEMMA FoldSolves ==
    ASSUME NEW D, IsFiniteSet(D), NEW v, \A x \in D : v[x] \in Int
    PROVE  /\ \E F : F = [t \in SUBSET D |->
                 IF t = {} THEN 0 ELSE v[CHOOSE x \in t : TRUE] + F[t \ {CHOOSE x \in t : TRUE}]]
           /\ \A F : F = [t \in SUBSET D |->
                 IF t = {} THEN 0 ELSE v[CHOOSE x \in t : TRUE] + F[t \ {CHOOSE x \in t : TRUE}]]
                 => F[D] = Total(v, D)
<1> DEFINE Body(F, t) == IF t = {} THEN 0
                         ELSE v[CHOOSE x \in t : TRUE] + F[t \ {CHOOSE x \in t : TRUE}]
           SumBody(F, t) == IF t = {} THEN 0
                            ELSE v[AnyMember(D)[t]] + F[t \ {AnyMember(D)[t]}]
<1>1. \A F : \A t \in SUBSET D : SumBody(F, t) = Body(F, t)
    BY DEF AnyMember
<1>2. \A F : [t \in SUBSET D |-> SumBody(F, t)] = [t \in SUBSET D |-> Body(F, t)]
    <2> HIDE DEF SumBody, Body
    <2> QED
        BY <1>1
<1>3. \A F : IsSum(F, AnyMember(D), v, D) <=> F = [t \in SUBSET D |-> SumBody(F, t)]
    BY DEF IsSum, SumsOver
<1>4. PICK F : IsSum(F, AnyMember(D), v, D)
    BY SumExists, AnyMemberPicks
<1>5. F = [t \in SUBSET D |-> Body(F, t)]
    <2> HIDE DEF SumBody, Body
    <2> QED
        BY <1>2, <1>3, <1>4
<1>6. ASSUME NEW G, G = [t \in SUBSET D |-> Body(G, t)]
      PROVE  G[D] = Total(v, D)
    <2>1. [t \in SUBSET D |-> SumBody(G, t)] = [t \in SUBSET D |-> Body(G, t)]
        <3> HIDE DEF SumBody, Body
        <3> QED
            BY <1>2
    <2>2. G = [t \in SUBSET D |-> SumBody(G, t)]
        <3> HIDE DEF SumBody, Body
        <3> QED
            BY <1>6, <2>1
    <2>3. IsSum(G, AnyMember(D), v, D)
        BY <2>2 DEF IsSum, SumsOver
    <2> QED
        BY <2>3, FoldIsTotal, AnyMemberPicks
<1> QED
    BY <1>5, <1>6

LEMMA LengthIsTotal ==
    ASSUME NEW blocks, IsFiniteSet(DOMAIN blocks),
           \A ssrc \in DOMAIN blocks : DOMAIN blocks[ssrc] \in (SUBSET Sequences16) \ {{}}
    PROVE  LengthOf(blocks) = 2 + Total(Words(blocks), DOMAIN blocks)
<1> DEFINE D == DOMAIN blocks
           v == Words(blocks)
           Term(t) == 2 + (MetricBlocks(DOMAIN blocks[CHOOSE x \in t : TRUE]) + 1) \div 2
           Rest(F, t) == F[t \ {CHOOSE x \in t : TRUE}]
           G == CHOOSE F : F = [t \in SUBSET D |-> IF t = {} THEN 0 ELSE Term(t) + Rest(F, t)]
<1>1. LengthOf(blocks) = 2 + G[D]
    BY Zenon DEF LengthOf, MapThenSumSet, MapThenFoldSet
<1>2. \A x \in D : v[x] \in Nat
    BY WordsType
<1>3. \A t \in SUBSET D : t # {} => Term(t) = v[CHOOSE x \in t : TRUE]
    BY DEF Words
<1> HIDE DEF D, v, Term
<1>4. \A F : [t \in SUBSET D |-> IF t = {} THEN 0 ELSE Term(t) + Rest(F, t)]
                = [t \in SUBSET D |-> IF t = {} THEN 0
                                      ELSE v[CHOOSE x \in t : TRUE] + Rest(F, t)]
    <2> HIDE DEF Rest
    <2> QED
        BY <1>3
<1>5. /\ \E F : F = [t \in SUBSET D |-> IF t = {} THEN 0
                                        ELSE v[CHOOSE x \in t : TRUE] + Rest(F, t)]
      /\ \A F : F = [t \in SUBSET D |-> IF t = {} THEN 0
                                        ELSE v[CHOOSE x \in t : TRUE] + Rest(F, t)]
            => F[D] = Total(v, D)
    <2>1. IsFiniteSet(D) /\ \A x \in D : v[x] \in Int
        BY <1>2 DEF D
    <2> QED
        BY <2>1, FoldSolves
<1> HIDE DEF Rest
<1>6. \E F : F = [t \in SUBSET D |-> IF t = {} THEN 0 ELSE Term(t) + Rest(F, t)]
    BY <1>4, <1>5
<1>7. G = [t \in SUBSET D |-> IF t = {} THEN 0 ELSE Term(t) + Rest(G, t)]
    BY <1>6
<1> HIDE DEF G
<1>8. G[D] = Total(v, D)
    BY <1>4, <1>5, <1>7
<1> QED
    BY <1>1, <1>8 DEF D, v

\* Deserialize adds up the words of the blocks as it reads them.
LEMMA SpannedIsTotal ==
    ASSUME NEW P, IsFiniteSet(DOMAIN P), NEW v,
           \A ssrc \in DOMAIN P : v[ssrc] \in Int /\ v[ssrc] = 2 + (Spanned(P[ssrc]) + 1) \div 2
    PROVE  MapThenSumSet(LAMBDA ssrc : 2 + (Spanned(P[ssrc]) + 1) \div 2, DOMAIN P)
              = Total(v, DOMAIN P)
<1> DEFINE D == DOMAIN P
           Term(t) == 2 + (Spanned(P[CHOOSE x \in t : TRUE]) + 1) \div 2
           Rest(F, t) == F[t \ {CHOOSE x \in t : TRUE}]
           G == CHOOSE F : F = [t \in SUBSET D |-> IF t = {} THEN 0 ELSE Term(t) + Rest(F, t)]
<1>1. MapThenSumSet(LAMBDA ssrc : 2 + (Spanned(P[ssrc]) + 1) \div 2, DOMAIN P) = G[D]
    BY Zenon DEF MapThenSumSet, MapThenFoldSet
<1>2. IsFiniteSet(D) /\ \A x \in D : v[x] \in Int
    OBVIOUS
<1>3. \A t \in SUBSET D : t # {} => Term(t) = v[CHOOSE x \in t : TRUE]
    OBVIOUS
<1> HIDE DEF D, Term
<1>4. \A F : [t \in SUBSET D |-> IF t = {} THEN 0 ELSE Term(t) + Rest(F, t)]
                = [t \in SUBSET D |-> IF t = {} THEN 0
                                      ELSE v[CHOOSE x \in t : TRUE] + Rest(F, t)]
    <2> HIDE DEF Rest
    <2> QED
        BY <1>3
<1>5. /\ \E F : F = [t \in SUBSET D |-> IF t = {} THEN 0
                                        ELSE v[CHOOSE x \in t : TRUE] + Rest(F, t)]
      /\ \A F : F = [t \in SUBSET D |-> IF t = {} THEN 0
                                        ELSE v[CHOOSE x \in t : TRUE] + Rest(F, t)]
            => F[D] = Total(v, D)
    BY <1>2, FoldSolves
<1> HIDE DEF Rest
<1>6. \E F : F = [t \in SUBSET D |-> IF t = {} THEN 0 ELSE Term(t) + Rest(F, t)]
    BY <1>4, <1>5
<1>7. G = [t \in SUBSET D |-> IF t = {} THEN 0 ELSE Term(t) + Rest(G, t)]
    BY <1>6
<1> HIDE DEF G
<1>8. G[D] = Total(v, D)
    BY <1>4, <1>5, <1>7
<1> QED
    BY <1>1, <1>8 DEF D

LEMMA LengthBounds ==
    ASSUME NEW blocks, IsFiniteSet(DOMAIN blocks),
           \A ssrc \in DOMAIN blocks : DOMAIN blocks[ssrc] \in (SUBSET Sequences16) \ {{}}
    PROVE  LengthOf(blocks) \in Nat /\ LengthOf(blocks) >= 2
<1>1. \A ssrc \in DOMAIN blocks : Words(blocks)[ssrc] \in Nat
    BY WordsType
<1>2. Total(Words(blocks), DOMAIN blocks) \in Nat
    BY <1>1, TotalNat
<1> QED
    BY <1>2, LengthIsTotal

LEMMA EmptyLength == ASSUME NEW blocks, DOMAIN blocks = {} PROVE LengthOf(blocks) = 2
<1>1. IsFiniteSet(DOMAIN blocks)
    BY FS_EmptySet
<1>2. LengthOf(blocks) = 2 + Total(Words(blocks), {})
    BY <1>1, LengthIsTotal
<1> QED
    BY <1>2, TotalEmpty

-----------------------------------------------------------------------------
(* Time *)

LEMMA Quotient ==
    ASSUME NEW a \in Nat, NEW m \in Nat \ {0}
    PROVE  /\ a \div m \in Nat
           /\ m * (a \div m) <= a
           /\ a < m * (a \div m) + m
    OBVIOUS

LEMMA TimeTypes ==
    ASSUME NEW t \in Nat
    PROVE  /\ UsToNtp(t) \in Nat /\ NtpToUs(t) \in Nat
           /\ UsPerSecond * UsToNtp(t) <= t * NtpPerSecond
           /\ t * NtpPerSecond < UsPerSecond * UsToNtp(t) + UsPerSecond
           /\ NtpPerSecond * NtpToUs(t) <= t * UsPerSecond
           /\ t * UsPerSecond < NtpPerSecond * NtpToUs(t) + NtpPerSecond
<1>1. t * NtpPerSecond \in Nat /\ t * UsPerSecond \in Nat
    BY HeaderAssumption
<1> QED
    BY <1>1, Quotient, HeaderAssumption DEF UsToNtp, NtpToUs

LEMMA TimesMonotone ==
    ASSUME NEW t \in Nat, NEW u \in Nat, t <= u
    PROVE  UsToNtp(t) <= UsToNtp(u) /\ NtpToUs(t) <= NtpToUs(u)
<1>1. ASSUME NEW a \in Nat, NEW b \in Nat, a <= b, NEW m \in Nat \ {0}
      PROVE  a \div m <= b \div m
    BY <1>1
<1>2. /\ t * NtpPerSecond \in Nat /\ u * NtpPerSecond \in Nat
      /\ t * NtpPerSecond <= u * NtpPerSecond
      /\ t * UsPerSecond \in Nat /\ u * UsPerSecond \in Nat
      /\ t * UsPerSecond <= u * UsPerSecond
    BY HeaderAssumption
<1> QED
    BY <1>1, <1>2, HeaderAssumption DEF UsToNtp, NtpToUs

LEMMA Product ==
    ASSUME NEW a \in Int, NEW b \in Int, NEW c \in Nat, a <= b
    PROVE  a * c <= b * c /\ a * c \in Int /\ b * c \in Int
    OBVIOUS

\* The offset before it is cut to the width of its field.
WholeOffset(ntp, ref) == (ref - ntp + AtoUnit \div 2) \div AtoUnit

LEMMA WholeOffsetBounds ==
    ASSUME NEW ntp \in Nat, NEW ref \in Nat, ntp <= ref
    PROVE  /\ WholeOffset(ntp, ref) \in Nat
           /\ WholeOffset(ntp, ref) * AtoUnit <= ref - ntp + AtoUnit \div 2
           /\ ref - ntp + AtoUnit \div 2 < WholeOffset(ntp, ref) * AtoUnit + AtoUnit
           /\ AtoUnit \div 2 \in Nat
           /\ 2 * (AtoUnit \div 2) \in {AtoUnit - 1, AtoUnit}
<1> DEFINE a == ref - ntp + AtoUnit \div 2
           x == a \div AtoUnit
<1>1. /\ AtoUnit \div 2 \in Nat /\ AtoUnit \in Nat \ {0}
      /\ 2 * (AtoUnit \div 2) \in {AtoUnit - 1, AtoUnit}
    BY HeaderAssumption
<1>2. a \in Nat
    BY <1>1
<1> HIDE DEF a
<1>3. x \in Nat /\ AtoUnit * x <= a /\ a < AtoUnit * x + AtoUnit
    BY <1>1, <1>2, Quotient
<1> HIDE DEF x
<1>4. AtoUnit * x = x * AtoUnit
    BY <1>1, <1>3
<1> QED
    BY <1>1, <1>3, <1>4 DEF WholeOffset, a, x

\* What goes into the field reaches back to time 0 at most.
LEMMA OffsetFits ==
    ASSUME NEW ntp \in Nat, NEW ref \in Nat, ntp <= ref, 2 * ntp >= AtoUnit
    PROVE  /\ NtpToAto(ntp, ref) \in 0 .. Overrange
           /\ AtoFits(NtpToAto(ntp, ref), ref)
           /\ AtoToNtp(NtpToAto(ntp, ref), ref) \in Nat
           /\ AtoToNtp(NtpToAto(ntp, ref), ref) <= ref
<1> DEFINE x == WholeOffset(ntp, ref)
           y == x % AtoMod
           ato == NtpToAto(ntp, ref)
<1>1. /\ x \in Nat /\ x * AtoUnit <= ref - ntp + AtoUnit \div 2
      /\ AtoUnit \in Nat /\ AtoUnit \div 2 \in Nat
      /\ 2 * (AtoUnit \div 2) \in {AtoUnit - 1, AtoUnit}
    BY WholeOffsetBounds, HeaderAssumption
<1>2. ato = IF y < Overrange THEN y ELSE Overrange
    BY DEF NtpToAto, WholeOffset
<1> HIDE DEF x
<1>3. y \in Nat /\ y <= x
    BY <1>1, HeaderAssumption
<1> HIDE DEF y, ato
<1>4. ato \in 0 .. Overrange /\ ato \in Nat /\ ato <= x
    BY <1>1, <1>2, <1>3, HeaderAssumption
<1>5. ato * AtoUnit <= x * AtoUnit /\ ato * AtoUnit \in Int /\ x * AtoUnit \in Int
    BY <1>1, <1>4, Product
<1>6. ato * AtoUnit >= 0
    BY <1>1, <1>4
<1>7. ato * AtoUnit <= ref
    BY <1>1, <1>5
<1> QED
    BY <1>4, <1>5, <1>6, <1>7 DEF AtoFits, AtoToNtp, ato

\* An offset that neither wraps nor is out of range comes back rounded.
LEMMA OffsetExact ==
    ASSUME NEW ntp \in Nat, NEW ref \in Nat, ntp <= ref, 2 * ntp >= AtoUnit,
           ref - ntp + AtoUnit \div 2 < AtoMod * AtoUnit,
           2 * (ref - ntp) < (2 * Overrange + 1) * AtoUnit
    PROVE  LET got == AtoToNtp(NtpToAto(ntp, ref), ref)
           IN  2 * (got - ntp) <= AtoUnit /\ 2 * (ntp - got) <= AtoUnit
<1> DEFINE x == WholeOffset(ntp, ref)
<1>1. /\ x \in Nat
      /\ x * AtoUnit <= ref - ntp + AtoUnit \div 2
      /\ ref - ntp + AtoUnit \div 2 < x * AtoUnit + AtoUnit
      /\ AtoUnit \div 2 \in Nat
      /\ 2 * (AtoUnit \div 2) \in {AtoUnit - 1, AtoUnit}
      /\ AtoUnit \in Nat /\ Overrange \in Nat /\ AtoMod \in Nat
    BY WholeOffsetBounds, HeaderAssumption
<1>2. NtpToAto(ntp, ref) = IF x % AtoMod < Overrange THEN x % AtoMod ELSE Overrange
    BY DEF NtpToAto, WholeOffset
<1> HIDE DEF x
<1>3. x * AtoUnit \in Int /\ Overrange * AtoUnit \in Int /\ AtoMod * AtoUnit \in Int
    BY <1>1
<1>4. x < AtoMod
    <2>1. ASSUME AtoMod <= x PROVE FALSE
        <3>1. AtoMod * AtoUnit <= x * AtoUnit
            BY <1>1, <2>1, Product
        <3> QED
            BY <1>1, <1>3, <3>1
    <2> QED
        BY <1>1, <2>1
<1>5. x <= Overrange
    <2>1. ASSUME Overrange + 1 <= x PROVE FALSE
        <3>1. (Overrange + 1) * AtoUnit <= x * AtoUnit
            BY <1>1, <2>1, Product
        <3>2. /\ (Overrange + 1) * AtoUnit = Overrange * AtoUnit + AtoUnit
              /\ (2 * Overrange + 1) * AtoUnit = 2 * (Overrange * AtoUnit) + AtoUnit
            BY <1>1
        <3> QED
            BY <1>1, <1>3, <3>1, <3>2
    <2> QED
        BY <1>1, <2>1
<1>6. x % AtoMod = x
    BY <1>1, <1>4
<1>7. NtpToAto(ntp, ref) = x
    BY <1>1, <1>2, <1>5, <1>6
<1> QED
    BY <1>1, <1>3, <1>7 DEF AtoToNtp

\* One that is out of range comes back as the largest there is.
LEMMA OffsetOverrange ==
    ASSUME NEW ntp \in Nat, NEW ref \in Nat, ntp <= ref,
           ref - ntp + AtoUnit \div 2 < AtoMod * AtoUnit,
           2 * (ref - ntp) >= (2 * Overrange + 1) * AtoUnit
    PROVE  NtpToAto(ntp, ref) = Overrange
<1> DEFINE x == WholeOffset(ntp, ref)
<1>1. /\ x \in Nat
      /\ x * AtoUnit <= ref - ntp + AtoUnit \div 2
      /\ ref - ntp + AtoUnit \div 2 < x * AtoUnit + AtoUnit
      /\ AtoUnit \div 2 \in Nat
      /\ 2 * (AtoUnit \div 2) \in {AtoUnit - 1, AtoUnit}
      /\ AtoUnit \in Nat \ {0} /\ Overrange \in Nat /\ AtoMod \in Nat
    BY WholeOffsetBounds, HeaderAssumption
<1>2. NtpToAto(ntp, ref) = IF x % AtoMod < Overrange THEN x % AtoMod ELSE Overrange
    BY DEF NtpToAto, WholeOffset
<1> HIDE DEF x
<1>3. x * AtoUnit \in Int /\ Overrange * AtoUnit \in Int /\ AtoMod * AtoUnit \in Int
    BY <1>1
<1>4. x < AtoMod
    <2>1. ASSUME AtoMod <= x PROVE FALSE
        <3>1. AtoMod * AtoUnit <= x * AtoUnit
            BY <1>1, <2>1, Product
        <3> QED
            BY <1>1, <1>3, <3>1
    <2> QED
        BY <1>1, <2>1
<1>5. Overrange <= x
    <2>1. ASSUME x + 1 <= Overrange PROVE FALSE
        <3>1. (x + 1) * AtoUnit <= Overrange * AtoUnit
            BY <1>1, <2>1, Product
        <3>2. /\ (x + 1) * AtoUnit = x * AtoUnit + AtoUnit
              /\ (2 * Overrange + 1) * AtoUnit = 2 * (Overrange * AtoUnit) + AtoUnit
            BY <1>1
        <3> QED
            BY <1>1, <1>3, <3>1, <3>2
    <2> QED
        BY <1>1, <2>1
<1>6. x % AtoMod = x
    BY <1>1, <1>4
<1> QED
    BY <1>1, <1>2, <1>5, <1>6

\* A time of reception as it is read, given the time of the report.
RoundTrip(ts, ref) == NtpToUs(AtoToNtp(NtpToAto(UsToNtp(ts), ref), ref))

\* Rounding to NTP units, to the offset and back moves a time by half an offset
\* unit, and earlier by one unit of each kind more.
LEMMA TimeRoundTrip ==
    ASSUME NEW ts \in Nat, NEW ref \in Nat, UsToNtp(ts) <= ref, 2 * UsToNtp(ts) >= AtoUnit,
           ref - UsToNtp(ts) + AtoUnit \div 2 < AtoMod * AtoUnit,
           2 * (ref - UsToNtp(ts)) < (2 * Overrange + 1) * AtoUnit
    PROVE  LET got == RoundTrip(ts, ref)
           IN  /\ 2 * NtpPerSecond * (got - ts) <= AtoUnit * UsPerSecond
               /\ 2 * NtpPerSecond * (ts - got) <= (AtoUnit + 2) * UsPerSecond + 2 * NtpPerSecond
<1> DEFINE ntp == UsToNtp(ts)
           g == AtoToNtp(NtpToAto(ntp, ref), ref)
           got == NtpToUs(g)
<1>1. ntp \in Nat /\ UsPerSecond * ntp <= ts * NtpPerSecond
      /\ ts * NtpPerSecond < UsPerSecond * ntp + UsPerSecond
    BY TimeTypes
<1> HIDE DEF ntp
<1>2. g \in Nat
    BY <1>1, OffsetFits DEF ntp
<1>3. 2 * (g - ntp) <= AtoUnit /\ 2 * (ntp - g) <= AtoUnit
    BY <1>1, OffsetExact DEF ntp
<1> HIDE DEF g
<1>4. /\ got \in Nat /\ NtpPerSecond * got <= g * UsPerSecond
      /\ g * UsPerSecond < NtpPerSecond * got + NtpPerSecond
    BY <1>2, TimeTypes
<1> HIDE DEF got
<1>5. UsPerSecond \in Nat /\ NtpPerSecond \in Nat /\ AtoUnit \in Nat
    BY HeaderAssumption
<1> DEFINE A == NtpPerSecond * got
           B == ts * NtpPerSecond
           C == g * UsPerSecond
           D == UsPerSecond * ntp
<1>6. A \in Int /\ B \in Int /\ C \in Int /\ D \in Int
    BY <1>1, <1>2, <1>4, <1>5
<1>7. 2 * C - 2 * D <= AtoUnit * UsPerSecond /\ 2 * D - 2 * C <= AtoUnit * UsPerSecond
    <2>1. 2 * (g - ntp) \in Int /\ 2 * (ntp - g) \in Int /\ AtoUnit \in Int
        BY <1>1, <1>2, <1>5
    <2>2. /\ (2 * (g - ntp)) * UsPerSecond <= AtoUnit * UsPerSecond
          /\ (2 * (ntp - g)) * UsPerSecond <= AtoUnit * UsPerSecond
        BY <1>3, <1>5, <2>1, Product
    <2>3. /\ (2 * (g - ntp)) * UsPerSecond = 2 * C - 2 * D
          /\ (2 * (ntp - g)) * UsPerSecond = 2 * D - 2 * C
        BY <1>1, <1>2, <1>5
    <2> QED
        BY <2>2, <2>3
<1>8. /\ 2 * NtpPerSecond * (got - ts) = 2 * A - 2 * B
      /\ 2 * NtpPerSecond * (ts - got) = 2 * B - 2 * A
      /\ (AtoUnit + 2) * UsPerSecond = AtoUnit * UsPerSecond + 2 * UsPerSecond
      /\ AtoUnit * UsPerSecond \in Int
    BY <1>4, <1>5
<1>9. D <= B /\ B < D + UsPerSecond /\ A <= C /\ C < A + NtpPerSecond
    BY <1>1, <1>4
<1> HIDE DEF A, B, C, D
<1>10. 2 * A - 2 * B <= AtoUnit * UsPerSecond
    BY <1>5, <1>6, <1>7, <1>8, <1>9
<1>11. 2 * B - 2 * A <= AtoUnit * UsPerSecond + 2 * UsPerSecond + 2 * NtpPerSecond
    BY <1>5, <1>6, <1>7, <1>8, <1>9
<1> QED
    BY <1>8, <1>10, <1>11 DEF RoundTrip, got, g, ntp

-----------------------------------------------------------------------------
(* What is read of what is written *)

LEMMA NthOfDistance ==
    ASSUME NEW b \in Sequences16, NEW s \in Sequences16
    PROVE  Nth(b, Diff(s, b)) = s
BY SeqModAssumption DEF Nth, Diff, Sequences16

\* Deserialize finds in a block the packets that were put in, with their ECN values,
\* and their times as rounded.
LEMMA BlockRoundTrip ==
    ASSUME NEW block, DOMAIN block \in (SUBSET Sequences16) \ {{}},
           Representable(DOMAIN block), NEW ref
    PROVE  LET wire == EncodeBlock(block, ref)
               read == DecodeBlock(wire, ref)
           IN  /\ Spanned(wire) = MetricBlocks(DOMAIN block)
               /\ DOMAIN read = DOMAIN block
               /\ \A seq \in DOMAIN block :
                     /\ read[seq].ts = RoundTrip(block[seq].ts, ref)
                     /\ read[seq].ecn = block[seq].ecn
               /\ \A i \in DOMAIN wire.metrics : wire.metrics[i].received =>
                     \E seq \in DOMAIN block :
                        wire.metrics[i].ato = NtpToAto(UsToNtp(block[seq].ts), ref)
<1> DEFINE S == DOMAIN block
           r == BeginStop(S)
           n == MetricBlocks(S)
           wire == EncodeBlock(block, ref)
           M(seq) == [received |-> TRUE, ecn |-> block[seq].ecn,
                      ato |-> NtpToAto(UsToNtp(block[seq].ts), ref)]
           At(seq) == Diff(seq, wire.begin)
           found == {seq \in Sequences16 : At(seq) < Spanned(wire) /\ wire.metrics[At(seq)].received}
<1>1. /\ r.begin \in S /\ n \in 1 .. SeqMod - 1
      /\ Diff(Dec(r.stop), r.begin) + 1 = n
      /\ \A s \in S : Diff(s, r.begin) < n
      /\ S \in SUBSET Sequences16
    BY RangeCovers
<1>2. /\ wire.begin = r.begin /\ wire.end = Dec(r.stop)
      /\ wire.metrics = [i \in 0 .. n - 1 |-> IF Nth(r.begin, i) \in S THEN M(Nth(r.begin, i))
                                              ELSE Lost]
    BY DEF EncodeBlock
<1>3. Spanned(wire) = n
    BY <1>1, <1>2 DEF Spanned
<1> HIDE DEF r, n, wire
<1>4. \A seq \in Sequences16 :
        /\ Diff(seq, r.begin) \in 0 .. SeqMod - 1
        /\ Nth(r.begin, Diff(seq, r.begin)) = seq
    <2>1. r.begin \in Sequences16
        BY <1>1
    <2> QED
        BY <2>1, NthOfDistance, SequenceArithmetic
<1>5. \A seq \in Sequences16 : At(seq) < n =>
        wire.metrics[At(seq)] = IF seq \in S THEN M(seq) ELSE Lost
    <2> SUFFICES ASSUME NEW seq \in Sequences16, At(seq) < n
                 PROVE  wire.metrics[At(seq)] = IF seq \in S THEN M(seq) ELSE Lost
        OBVIOUS
    <2>1. At(seq) \in 0 .. n - 1 /\ Nth(r.begin, At(seq)) = seq
        BY <1>1, <1>2, <1>4
    <2> HIDE DEF M, At
    <2> QED
        BY <1>2, <2>1
<1>6. found = S
    <2>1. ASSUME NEW seq \in S PROVE seq \in found
        <3>1. seq \in Sequences16 /\ At(seq) < n
            BY <1>1, <1>2
        <3>2. wire.metrics[At(seq)] = M(seq)
            BY <1>5, <3>1
        <3>3. wire.metrics[At(seq)].received = TRUE
            BY <3>2
        <3> QED
            BY <1>3, <3>1, <3>3
    <2>2. ASSUME NEW seq \in found PROVE seq \in S
        <3>1. seq \in Sequences16 /\ At(seq) < n /\ wire.metrics[At(seq)].received
            BY <1>3
        <3>2. CASE seq \notin S
            <4>1. wire.metrics[At(seq)] = Lost
                BY <1>5, <3>1, <3>2
            <4> QED
                BY <3>1, <4>1 DEF Lost
        <3> QED
            BY <3>2
    <2> QED
        BY <2>1, <2>2
<1>7. DecodeBlock(wire, ref) =
        [seq \in found |-> [ts  |-> NtpToUs(AtoToNtp(wire.metrics[At(seq)].ato, ref)),
                            ecn |-> wire.metrics[At(seq)].ecn]]
    BY DEF DecodeBlock
<1>8. ASSUME NEW seq \in S
      PROVE  /\ DecodeBlock(wire, ref)[seq].ts = RoundTrip(block[seq].ts, ref)
             /\ DecodeBlock(wire, ref)[seq].ecn = block[seq].ecn
    <2>1. wire.metrics[At(seq)] = M(seq)
        BY <1>1, <1>2, <1>5
    <2>2. DecodeBlock(wire, ref)[seq] =
            [ts |-> NtpToUs(AtoToNtp(wire.metrics[At(seq)].ato, ref)),
             ecn |-> wire.metrics[At(seq)].ecn]
        <3> HIDE DEF found, At
        <3> QED
            BY <1>6, <1>7
    <2> QED
        BY <2>1, <2>2 DEF RoundTrip
<1>9. ASSUME NEW i \in DOMAIN wire.metrics, wire.metrics[i].received
      PROVE  \E seq \in S : wire.metrics[i].ato = NtpToAto(UsToNtp(block[seq].ts), ref)
    <2>1. i \in 0 .. n - 1
        BY <1>2
    <2>2. wire.metrics[i] = IF Nth(r.begin, i) \in S THEN M(Nth(r.begin, i)) ELSE Lost
        BY <1>2, <2>1
    <2>3. Nth(r.begin, i) \in S
        BY <1>9, <2>2 DEF Lost
    <2> QED
        BY <2>2, <2>3
<1>10. DOMAIN DecodeBlock(wire, ref) = S
    BY <1>6, <1>7
<1> QED
    BY <1>3, <1>8, <1>9, <1>10 DEF wire, n

-----------------------------------------------------------------------------
(* Headers *)

\* A report block is a map of received packets that leaves a number out.
BlockInv(block, times) ==
    /\ DOMAIN block \in (SUBSET Sequences16) \ {{}}
    /\ block \in [DOMAIN block -> [ts : times, ecn : 0 .. 3]]
    /\ Representable(DOMAIN block)

\* What the operations keep true of a header.
HeaderInv(h, ssrcs, times) ==
    /\ h = [blocks |-> h.blocks, latest |-> h.latest, length |-> h.length]
    /\ h.blocks = [ssrc \in DOMAIN h.blocks |-> h.blocks[ssrc]]
    /\ IsFiniteSet(DOMAIN h.blocks) /\ DOMAIN h.blocks \subseteq ssrcs
    /\ \A ssrc \in DOMAIN h.blocks :
          /\ BlockInv(h.blocks[ssrc], times)
          /\ \A seq \in DOMAIN h.blocks[ssrc] : h.blocks[ssrc][seq].ts <= h.latest
    /\ h.latest \in times \cup {0}
    /\ DOMAIN h.blocks # {} => h.latest \in times
    /\ h.length = LengthOf(h.blocks) /\ h.length \in 2 .. MaxLength

LEMMA HeaderFields ==
    ASSUME NEW b, NEW t, NEW l, NEW h, h = [blocks |-> b, latest |-> t, length |-> l]
    PROVE  h.blocks = b /\ h.latest = t /\ h.length = l
    OBVIOUS

LEMMA NoBlocksInv ==
    ASSUME NEW ssrcs, NEW times, NEW h, h = [blocks |-> <<>>, latest |-> 0, length |-> 2]
    PROVE  HeaderInv(h, ssrcs, times)
<1>1. h.blocks = <<>> /\ h.latest = 0 /\ h.length = 2
    OBVIOUS
<1>2. DOMAIN h.blocks = {} /\ IsFiniteSet({})
    BY <1>1, FS_EmptySet
<1>3. h.length = LengthOf(h.blocks)
    BY <1>1, <1>2, EmptyLength
<1>4. h.blocks = [ssrc \in DOMAIN h.blocks |-> h.blocks[ssrc]]
    BY <1>1
<1> QED
    BY <1>1, <1>2, <1>3, <1>4, HeaderAssumption DEF HeaderInv

LEMMA EmptyHeaderInv == ASSUME NEW ssrcs, NEW times PROVE HeaderInv(EmptyHeader, ssrcs, times)
    BY NoBlocksInv DEF EmptyHeader

LEMMA ClearedInv ==
    ASSUME NEW ssrcs, NEW times, NEW h, HeaderInv(h, ssrcs, times)
    PROVE  /\ Cleared(h) = EmptyHeader
           /\ HeaderInv(Cleared(h), ssrcs, times)
    BY NoBlocksInv DEF EmptyHeader, Cleared

\* The block a packet is put into.
LEMMA AddedBlock ==
    ASSUME NEW ssrcs, NEW times \in SUBSET Nat, NEW h, HeaderInv(h, ssrcs, times),
           NEW ssrc, NEW seq \in Sequences16, NEW ts \in times, NEW ecn \in 0 .. 3
    PROVE  LET block == Put(BlockOf(h, ssrc), seq, [ts |-> ts, ecn |-> ecn])
               latest == IF ts > h.latest THEN ts ELSE h.latest
           IN  /\ DOMAIN block = DOMAIN BlockOf(h, ssrc) \cup {seq}
               /\ DOMAIN block \in (SUBSET Sequences16) \ {{}}
               /\ block \in [DOMAIN block -> [ts : times, ecn : 0 .. 3]]
               /\ \A s \in DOMAIN block : block[s].ts <= latest
<1> DEFINE old == BlockOf(h, ssrc)
           new == [ts |-> ts, ecn |-> ecn]
           block == Put(old, seq, new)
           latest == IF ts > h.latest THEN ts ELSE h.latest
<1>1. /\ DOMAIN old \subseteq Sequences16
      /\ \A s \in DOMAIN old : old[s] \in [ts : times, ecn : 0 .. 3] /\ old[s].ts <= h.latest
    <2>1. CASE ssrc \in DOMAIN h.blocks
        BY <2>1 DEF HeaderInv, BlockInv, BlockOf
    <2>2. CASE ssrc \notin DOMAIN h.blocks
        <3>1. old = <<>>
            BY <2>2 DEF BlockOf
        <3>2. DOMAIN old = {}
            BY <3>1
        <3> QED
            BY <3>2
    <2> QED
        BY <2>1, <2>2
<1>2. h.latest \in Nat
    BY DEF HeaderInv
<1>3. new \in [ts : times, ecn : 0 .. 3] /\ new.ts = ts
    OBVIOUS
<1> HIDE DEF old, new
<1>4. /\ DOMAIN block = DOMAIN old \cup {seq}
      /\ block[seq] = new
      /\ \A y \in DOMAIN old : y # seq => block[y] = old[y]
    BY DEF Put
<1>5. block = [y \in DOMAIN old \cup {seq} |-> IF y = seq THEN new ELSE old[y]]
    BY DEF Put
<1> HIDE DEF block
<1>6. \A s \in DOMAIN block : block[s] \in [ts : times, ecn : 0 .. 3]
    BY <1>1, <1>3, <1>4
<1>7. \A s \in DOMAIN block : block[s].ts <= latest
    <2>1. ASSUME NEW s \in DOMAIN old PROVE old[s].ts <= latest
        <3> DEFINE t == old[s].ts
        <3>1. t \in Nat /\ t <= h.latest
            BY <1>1
        <3> HIDE DEF t
        <3>2. t <= latest
            BY <1>2, <3>1
        <3> QED
            BY <3>2 DEF t
    <2>2. new.ts <= latest
        BY <1>2, <1>3
    <2> HIDE DEF latest
    <2> QED
        BY <1>4, <2>1, <2>2
<1>8. DOMAIN block \in (SUBSET Sequences16) \ {{}}
    BY <1>1, <1>4
<1>9. block \in [DOMAIN block -> [ts : times, ecn : 0 .. 3]]
    BY <1>4, <1>5, <1>6
<1> QED
    BY <1>4, <1>7, <1>8, <1>9 DEF block, old, new

\* A packet that is not taken leaves the header as it was: what is taken out
\* again is all that was put in.
LEMMA RefusedAdd ==
    ASSUME NEW ssrcs, NEW times, NEW h, HeaderInv(h, ssrcs, times),
           NEW ssrc, NEW seq, NEW ts, NEW ecn \in Nat,
           AddResult(h, ssrc, seq, ts, ecn) # "NONE"
    PROVE  AfterAdd(h, ssrc, seq, ts, ecn) = h
<1> DEFINE old == BlockOf(h, ssrc)
           block == Put(old, seq, [ts |-> ts, ecn |-> ecn])
           blocks == Added(h, ssrc, seq, ts, ecn)
<1>1. CASE AddResult(h, ssrc, seq, ts, ecn) # "TOO_LONG"
    BY <1>1 DEF AfterAdd
<1>2. CASE AddResult(h, ssrc, seq, ts, ecn) = "TOO_LONG"
    <2>1. seq \notin DOMAIN old
        <3>1. CASE ecn > 3
            BY <1>2, <3>1 DEF AddResult
        <3>2. CASE ecn <= 3
            BY <1>2, <3>2 DEF AddResult
        <3> QED
            BY <3>1, <3>2
    <2>2. /\ h = [blocks |-> h.blocks, latest |-> h.latest, length |-> h.length]
          /\ h.blocks = [s \in DOMAIN h.blocks |-> h.blocks[s]]
          /\ \A s \in DOMAIN h.blocks : BlockInv(h.blocks[s], times)
        BY DEF HeaderInv
    <2>3. blocks = [s \in DOMAIN h.blocks \cup {ssrc} |->
                        IF s = ssrc THEN block ELSE h.blocks[s]]
        BY DEF Added, Put
    <2>4. block = [s \in DOMAIN old \cup {seq} |->
                        IF s = seq THEN [ts |-> ts, ecn |-> ecn] ELSE old[s]]
        BY DEF Put
    <2> HIDE DEF block, blocks
    <2>5. /\ DOMAIN blocks = DOMAIN h.blocks \cup {ssrc}
          /\ blocks[ssrc] = block /\ DOMAIN block = DOMAIN old \cup {seq}
        BY <2>3, <2>4
    <2>6. TakenOut(blocks, ssrc, seq) = h.blocks
        <3>1. CASE ssrc \in DOMAIN h.blocks
            <4>1. /\ old = h.blocks[ssrc] /\ DOMAIN old # {}
                  /\ old = [s \in DOMAIN old |-> old[s]]
                BY <2>2, <3>1 DEF BlockOf, BlockInv
            <4> HIDE DEF old
            <4>2. DOMAIN block # {seq}
                BY <2>1, <2>5, <4>1
            <4>3. DOMAIN block \ {seq} = DOMAIN old
                BY <2>1, <2>5
            <4>4. Without(block, seq) = [s \in DOMAIN old |-> old[s]]
                BY <2>1, <2>4, <4>3 DEF Without
            <4>5. TakenOut(blocks, ssrc, seq) = [blocks EXCEPT ![ssrc] = Without(block, seq)]
                BY <2>5, <4>2 DEF TakenOut
            <4>6. TakenOut(blocks, ssrc, seq) = [blocks EXCEPT ![ssrc] = old]
                BY <4>1, <4>4, <4>5
            <4>7. DOMAIN blocks = DOMAIN h.blocks
                BY <2>5, <3>1
            <4>8. [blocks EXCEPT ![ssrc] = old] = [s \in DOMAIN h.blocks |-> h.blocks[s]]
                BY <2>3, <4>1, <4>7
            <4> QED
                BY <2>2, <4>6, <4>8
        <3>2. CASE ssrc \notin DOMAIN h.blocks
            <4>1. DOMAIN old = {}
                BY <3>2 DEF BlockOf
            <4>2. DOMAIN block = {seq}
                BY <2>5, <4>1
            <4>3. TakenOut(blocks, ssrc, seq) = Without(blocks, ssrc)
                BY <2>5, <4>2 DEF TakenOut
            <4>4. DOMAIN blocks \ {ssrc} = DOMAIN h.blocks
                BY <2>5, <3>2
            <4>5. Without(blocks, ssrc) = [s \in DOMAIN h.blocks |-> h.blocks[s]]
                BY <2>3, <3>2, <4>4 DEF Without
            <4> QED
                BY <2>2, <4>3, <4>5
        <3> QED
            BY <3>1, <3>2
    <2>7. AfterAdd(h, ssrc, seq, ts, ecn) = [h EXCEPT !.blocks = h.blocks]
        BY <1>2, <2>6 DEF AfterAdd, blocks
    <2> QED
        BY <2>2, <2>7
<1> QED
    BY <1>1, <1>2

\* A packet that is taken leaves the header consistent; one that is not leaves it
\* as it was.
LEMMA AddInv ==
    ASSUME NEW ssrcs, NEW times \in SUBSET Nat, NEW h, HeaderInv(h, ssrcs, times),
           NEW ssrc \in ssrcs, NEW seq \in Sequences16, NEW ts \in times, NEW ecn \in Nat
    PROVE  HeaderInv(AfterAdd(h, ssrc, seq, ts, ecn), ssrcs, times)
<1> DEFINE block == Put(BlockOf(h, ssrc), seq, [ts |-> ts, ecn |-> ecn])
           blocks == Added(h, ssrc, seq, ts, ecn)
           latest == IF ts > h.latest THEN ts ELSE h.latest
           new == AfterAdd(h, ssrc, seq, ts, ecn)
<1>1. CASE AddResult(h, ssrc, seq, ts, ecn) # "NONE"
    BY <1>1, RefusedAdd
<1>2. CASE AddResult(h, ssrc, seq, ts, ecn) = "NONE"
    <2>1. /\ ecn \in 0 .. 3
          /\ \A s \in DOMAIN blocks : Representable(DOMAIN blocks[s])
          /\ ~TooLong(blocks)
        BY <1>2, SMT DEF AddResult
    <2>2. new = [blocks |-> blocks, latest |-> latest, length |-> LengthOf(blocks)]
        BY <1>2 DEF AfterAdd
    <2>3. /\ DOMAIN block \in (SUBSET Sequences16) \ {{}}
          /\ block \in [DOMAIN block -> [ts : times, ecn : 0 .. 3]]
          /\ \A s \in DOMAIN block : block[s].ts <= latest
        BY <2>1, AddedBlock
    <2>4. /\ DOMAIN blocks = DOMAIN h.blocks \cup {ssrc}
          /\ blocks[ssrc] = block
          /\ \A y \in DOMAIN h.blocks : y # ssrc => blocks[y] = h.blocks[y]
        <3> HIDE DEF block
        <3>1. blocks = [s \in DOMAIN h.blocks \cup {ssrc} |->
                            IF s = ssrc THEN block ELSE h.blocks[s]]
            BY DEF Added, Put, block
        <3> HIDE DEF blocks
        <3> QED
            BY <3>1
    <2>11. blocks = [s \in DOMAIN blocks |-> blocks[s]]
        BY DEF Added, Put
    <2> HIDE DEF block, blocks, new
    <2>5. h.latest \in Nat /\ h.latest <= latest /\ latest \in times
        <3>1. h.latest \in Nat /\ h.latest \in times \cup {0}
            BY DEF HeaderInv
        <3>2. CASE ts > h.latest
            BY <3>1, <3>2
        <3>3. CASE ~(ts > h.latest)
            <4>1. latest = h.latest
                BY <3>3
            <4>2. h.latest = 0 => ts = 0
                BY <3>1, <3>3
            <4> QED
                BY <3>1, <4>1, <4>2
        <3> QED
            BY <3>2, <3>3
    <2> HIDE DEF latest
    <2>6. IsFiniteSet(DOMAIN blocks) /\ DOMAIN blocks \subseteq ssrcs
        BY <2>4, FS_AddElement DEF HeaderInv
    <2>7. ASSUME NEW s \in DOMAIN blocks
          PROVE  /\ BlockInv(blocks[s], times)
                 /\ \A q \in DOMAIN blocks[s] : blocks[s][q].ts <= latest
        <3>1. CASE s = ssrc
            BY <2>1, <2>3, <2>4, <3>1 DEF BlockInv
        <3>2. CASE s # ssrc
            <4>1. s \in DOMAIN h.blocks /\ blocks[s] = h.blocks[s]
                BY <2>4, <3>2
            <4>2. /\ BlockInv(h.blocks[s], times)
                  /\ \A q \in DOMAIN h.blocks[s] : h.blocks[s][q].ts <= h.latest
                BY <4>1 DEF HeaderInv
            <4>3. \A q \in DOMAIN h.blocks[s] : h.blocks[s][q].ts \in Nat
                BY <4>2 DEF BlockInv
            <4>4. latest \in Nat
                BY <2>5
            <4> QED
                BY <2>5, <4>1, <4>2, <4>3, <4>4
        <3> QED
            BY <3>1, <3>2
    <2>8. LengthOf(blocks) \in 2 .. MaxLength
        <3>1. LengthOf(blocks) \in Nat /\ LengthOf(blocks) >= 2
            BY <2>6, <2>7, LengthBounds DEF BlockInv
        <3> QED
            BY <2>1, <3>1, HeaderAssumption DEF TooLong
    <2>9. new.blocks = blocks /\ new.latest = latest /\ new.length = LengthOf(blocks)
        BY <2>2
    <2>10. HeaderInv(new, ssrcs, times)
        BY <2>2, <2>5, <2>6, <2>7, <2>8, <2>9, <2>11 DEF HeaderInv
    <2> QED
        BY <2>10 DEF new
<1> QED
    BY <1>1, <1>2

\* A header comes out of the wire with the packets it went in with, and the asserts
\* of Deserialize hold.
LEMMA HeaderRoundTrip ==
    ASSUME NEW ssrcs, NEW times \in SUBSET Nat, \A t \in times : 2 * UsToNtp(t) >= AtoUnit,
           NEW h, HeaderInv(h, ssrcs, times), ~IsEmpty(h)
    PROVE  /\ Readable(Encode(h))
           /\ DOMAIN Decode(Encode(h)).blocks = DOMAIN h.blocks
           /\ Decode(Encode(h)).latest = NtpToUs(UsToNtp(h.latest))
           /\ \A ssrc \in DOMAIN h.blocks :
                 DOMAIN Decode(Encode(h)).blocks[ssrc] = DOMAIN h.blocks[ssrc]
           /\ \A ssrc \in DOMAIN h.blocks : \A seq \in DOMAIN h.blocks[ssrc] :
                 LET read == Decode(Encode(h)).blocks[ssrc][seq]
                     packet == h.blocks[ssrc][seq]
                 IN  /\ read.ts = RoundTrip(packet.ts, UsToNtp(h.latest))
                     /\ read.ecn = packet.ecn
<1> DEFINE ref == UsToNtp(h.latest)
           D == DOMAIN h.blocks
           P == Encode(h).blocks
           v == Words(h.blocks)
<1>1. /\ Encode(h).ref = ref /\ Encode(h).length = h.length
      /\ P = [ssrc \in D |-> EncodeBlock(h.blocks[ssrc], ref)]
    BY DEF Encode
<1>2. DOMAIN P = D /\ \A ssrc \in D : P[ssrc] = EncodeBlock(h.blocks[ssrc], ref)
    BY <1>1
<1>3. /\ Decode(Encode(h)).blocks = [ssrc \in D |-> DecodeBlock(P[ssrc], ref)]
      /\ Decode(Encode(h)).latest = NtpToUs(ref)
    BY <1>1, <1>2 DEF Decode
<1>4. /\ IsFiniteSet(D) /\ D # {}
      /\ h.latest \in Nat /\ ref \in Nat
      /\ h.length = LengthOf(h.blocks)
    BY TimeTypes DEF HeaderInv, IsEmpty
<1> HIDE DEF P, ref
<1>5. ASSUME NEW ssrc \in D
      PROVE  /\ Spanned(P[ssrc]) = MetricBlocks(DOMAIN h.blocks[ssrc])
             /\ DOMAIN DecodeBlock(P[ssrc], ref) = DOMAIN h.blocks[ssrc]
             /\ \A seq \in DOMAIN h.blocks[ssrc] :
                   /\ DecodeBlock(P[ssrc], ref)[seq].ts = RoundTrip(h.blocks[ssrc][seq].ts, ref)
                   /\ DecodeBlock(P[ssrc], ref)[seq].ecn = h.blocks[ssrc][seq].ecn
             /\ \A i \in DOMAIN P[ssrc].metrics : P[ssrc].metrics[i].received =>
                   AtoFits(P[ssrc].metrics[i].ato, ref)
    <2> DEFINE block == h.blocks[ssrc]
    <2>1. /\ DOMAIN block \in (SUBSET Sequences16) \ {{}}
          /\ Representable(DOMAIN block)
          /\ \A seq \in DOMAIN block : block[seq].ts \in times /\ block[seq].ts <= h.latest
        BY DEF HeaderInv, BlockInv
    <2>2. P[ssrc] = EncodeBlock(block, ref)
        BY <1>2
    <2> HIDE DEF block
    <2>3. \A seq \in DOMAIN block : AtoFits(NtpToAto(UsToNtp(block[seq].ts), ref), ref)
        <3> SUFFICES ASSUME NEW seq \in DOMAIN block
                     PROVE  AtoFits(NtpToAto(UsToNtp(block[seq].ts), ref), ref)
            OBVIOUS
        <3> DEFINE t == block[seq].ts
        <3>1. t \in Nat /\ t <= h.latest /\ 2 * UsToNtp(t) >= AtoUnit
            BY <2>1
        <3> HIDE DEF t
        <3>2. UsToNtp(t) \in Nat /\ UsToNtp(t) <= ref
            BY <1>4, <3>1, TimeTypes, TimesMonotone DEF ref
        <3>3. AtoFits(NtpToAto(UsToNtp(t), ref), ref)
            BY <1>4, <3>1, <3>2, OffsetFits
        <3> QED
            BY <3>3 DEF t
    <2>4. /\ Spanned(P[ssrc]) = MetricBlocks(DOMAIN block)
          /\ DOMAIN DecodeBlock(P[ssrc], ref) = DOMAIN block
          /\ \A seq \in DOMAIN block :
                /\ DecodeBlock(P[ssrc], ref)[seq].ts = RoundTrip(block[seq].ts, ref)
                /\ DecodeBlock(P[ssrc], ref)[seq].ecn = block[seq].ecn
          /\ \A i \in DOMAIN P[ssrc].metrics : P[ssrc].metrics[i].received =>
                \E seq \in DOMAIN block :
                   P[ssrc].metrics[i].ato = NtpToAto(UsToNtp(block[seq].ts), ref)
        BY <2>1, <2>2, BlockRoundTrip
    <2>5. \A i \in DOMAIN P[ssrc].metrics : P[ssrc].metrics[i].received =>
                   AtoFits(P[ssrc].metrics[i].ato, ref)
        BY <2>3, <2>4
    <2> QED
        BY <2>4, <2>5 DEF block
<1>6. Readable(Encode(h))
    <2>1. \A ssrc \in D : v[ssrc] \in Nat
        BY WordsType DEF HeaderInv, BlockInv
    <2>2. \A ssrc \in D : v[ssrc] = 2 + (Spanned(P[ssrc]) + 1) \div 2
        BY <1>5 DEF Words
    <2>3. LengthOf(h.blocks) = 2 + Total(v, D)
        BY <1>4, LengthIsTotal DEF HeaderInv, BlockInv
    <2> HIDE DEF v, D
    <2>4. MapThenSumSet(LAMBDA ssrc : 2 + (Spanned(P[ssrc]) + 1) \div 2, DOMAIN P) = Total(v, D)
        <3>1. IsFiniteSet(DOMAIN P) /\ \A ssrc \in DOMAIN P :
                 v[ssrc] \in Int /\ v[ssrc] = 2 + (Spanned(P[ssrc]) + 1) \div 2
            BY <1>2, <1>4, <2>1, <2>2
        <3> QED
            BY <1>2, <3>1, SpannedIsTotal
    <2>5. Encode(h).length = 2 + MapThenSumSet(LAMBDA ssrc : 2 + (Spanned(P[ssrc]) + 1) \div 2,
                                               DOMAIN P)
        BY <1>1, <1>4, <2>3, <2>4
    <2>6. DOMAIN P # {} /\ \A ssrc \in DOMAIN P : \A i \in DOMAIN P[ssrc].metrics :
                P[ssrc].metrics[i].received => AtoFits(P[ssrc].metrics[i].ato, Encode(h).ref)
        <3>1. DOMAIN P # {} /\ DOMAIN P = D /\ Encode(h).ref = ref
            BY <1>1, <1>2, <1>4
        <3>2. \A ssrc \in D : \A i \in DOMAIN P[ssrc].metrics :
                P[ssrc].metrics[i].received => AtoFits(P[ssrc].metrics[i].ato, ref)
            BY <1>5
        <3> QED
            BY <3>1, <3>2
    <2> QED
        BY <2>5, <2>6 DEF Readable, P
<1>7. \A ssrc \in D : Decode(Encode(h)).blocks[ssrc] = DecodeBlock(P[ssrc], ref)
    BY <1>3
<1>8. DOMAIN Decode(Encode(h)).blocks = D
    BY <1>3
<1> QED
    BY <1>3, <1>5, <1>6, <1>7, <1>8 DEF ref

\* A header stays consistent when more times are possible.
LEMMA LaterHeaderInv ==
    ASSUME NEW ssrcs, NEW times, NEW h, HeaderInv(h, ssrcs, times),
           NEW later, times \subseteq later
    PROVE  HeaderInv(h, ssrcs, later)
<1>1. ASSUME NEW ssrc \in DOMAIN h.blocks PROVE BlockInv(h.blocks[ssrc], later)
    BY DEF HeaderInv, BlockInv
<1> QED
    BY <1>1 DEF HeaderInv

=============================================================================
