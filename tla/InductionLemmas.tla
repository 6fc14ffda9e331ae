--------------------------- MODULE InductionLemmas ---------------------------
(***************************************************************************)
(* Facts about all natural numbers and all finite sets that the proofs of  *)
(* several components need: that a set of naturals has a least member, and *)
(* what a sum over a finite set is, whatever the order its recursive       *)
(* definition takes the members in.  Where an induction is needed it is an *)
(* argument about a least counterexample.                                  *)
(***************************************************************************)
EXTENDS Integers, Sequences, FiniteSets, Functions, FiniteSetTheorems, WellFoundedInduction,
        TLAPS

\* Every set of natural numbers that is not empty has a least member: the
\* intervals up to its members are finite sets, and one of them has no strict
\* subset among the others.
LEMMA LeastNat ==
    ASSUME NEW T \in SUBSET Nat, T # {}
    PROVE  \E t \in T : \A u \in T : t <= u
<1> DEFINE W == {0 .. u : u \in T}
<1>1. W \subseteq FiniteSubsetsOf(Nat)
    <2> SUFFICES ASSUME NEW u \in T PROVE 0 .. u \in FiniteSubsetsOf(Nat)
        OBVIOUS
    <2>1. 0 \in Int /\ u \in Int
        OBVIOUS
    <2>2. IsFiniteSet(0 .. u)
        BY <2>1, FS_Interval
    <2>3. 0 .. u \subseteq Nat
        OBVIOUS
    <2> QED
        BY <2>2, <2>3 DEF FiniteSubsetsOf
<1>2. W # {}
    OBVIOUS
<1>3. \E w \in W : \A v \in W : ~(<<v, w>> \in StrictSubsetOrdering(Nat))
    <2> HIDE DEF W
    <2> QED
        BY <1>1, <1>2, FS_StrictSubsetOrderingWellFounded, WFMin
<1>4. PICK t \in T : \A v \in W : ~(<<v, 0 .. t>> \in StrictSubsetOrdering(Nat))
    BY <1>3
<1>5. ASSUME NEW u \in T, u < t PROVE FALSE
    <2>1. 0 .. u \in W
        OBVIOUS
    <2>2. 0 .. u \subseteq 0 .. t /\ 0 .. u \subseteq Nat /\ 0 .. t \subseteq Nat
        BY <1>5
    <2>3. t \in 0 .. t /\ t \notin 0 .. u
        BY <1>5
    <2>4. 0 .. u # 0 .. t
        BY <2>3
    <2>5. <<0 .. u, 0 .. t>> \in StrictSubsetOrdering(Nat)
        BY <2>2, <2>4 DEF StrictSubsetOrdering
    <2> QED
        BY <1>4, <2>1, <2>5
<1> QED
    BY <1>5

-----------------------------------------------------------------------------
(* Sums *)

\* pick names a member of every nonempty subset of S.
Picks(pick, S) == \A t \in SUBSET S : t # {} => pick[t] \in t

\* F solves, on a set of sets, the recursion by which the folds of the community
\* modules add up v, taking out the member that pick names.
SumsOver(F, pick, v, sets) ==
    F = [t \in sets |-> IF t = {} THEN 0 ELSE v[pick[t]] + F[t \ {pick[t]}]]

IsSum(F, pick, v, S) == SumsOver(F, pick, v, SUBSET S)

AnyMember(S) == [t \in SUBSET S |-> CHOOSE x \in t : TRUE]

\* The sum of v over S.
Total(v, S) == (CHOOSE F : IsSum(F, AnyMember(S), v, S))[S]

LEMMA AnyMemberPicks == ASSUME NEW S PROVE Picks(AnyMember(S), S)
BY DEF Picks, AnyMember

\* A member taken out of a finite set leaves a smaller one.
LEMMA OneFewer ==
    ASSUME NEW t, IsFiniteSet(t), NEW y \in t
    PROVE  /\ IsFiniteSet(t \ {y})
           /\ Cardinality(t \ {y}) \in Nat
           /\ Cardinality(t \ {y}) < Cardinality(t)
<1>1. Cardinality(t) \in Nat
    BY FS_CardinalityType
<1>2. IsFiniteSet(t \ {y}) /\ Cardinality(t \ {y}) = Cardinality(t) - 1
    BY FS_RemoveElement
<1>3. Cardinality(t \ {y}) \in Nat
    BY <1>2, FS_CardinalityType
<1> QED
    BY <1>1, <1>2, <1>3

UpTo(S, n) == {t \in SUBSET S : Cardinality(t) <= n}

\* The recursion has a solution on the subsets of at most n members, for every n.
LEMMA SumUpTo ==
    ASSUME NEW S, IsFiniteSet(S), NEW v, NEW pick, Picks(pick, S), NEW n \in Nat
    PROVE  \E F : SumsOver(F, pick, v, UpTo(S, n))
<1> USE DEF UpTo
<1> DEFINE Small(m) == UpTo(S, m)
           Solves(F, m) == SumsOver(F, pick, v, Small(m))
           Bad == {m \in Nat : ~ \E F : Solves(F, m)}
<1>1. \A t \in SUBSET S : IsFiniteSet(t) /\ Cardinality(t) \in Nat
    BY FS_Subset, FS_CardinalityType
<1>2. 0 \notin Bad
    <2> DEFINE F == [t \in Small(0) |-> 0]
    <2>1. \A t \in Small(0) : t = {}
        BY <1>1, FS_EmptySet
    <2>2. Solves(F, 0)
        BY <2>1 DEF SumsOver
    <2> QED
        BY <2>2
<1>3. ASSUME NEW m \in Nat, m \notin Bad
      PROVE  m + 1 \notin Bad
    <2>1. PICK F : Solves(F, m)
        BY <1>3
    <2> DEFINE G == [t \in Small(m + 1) |->
                        IF t = {} THEN 0 ELSE v[pick[t]] + F[t \ {pick[t]}]]
    <2>2. \A t \in Small(m) : t \in Small(m + 1) /\ G[t] = F[t]
        <3>1. \A t \in Small(m) : t \in Small(m + 1)
            BY <1>1
        <3>2. \A t \in Small(m) :
                 F[t] = IF t = {} THEN 0 ELSE v[pick[t]] + F[t \ {pick[t]}]
            <4> HIDE DEF Small
            <4> QED
                BY <2>1 DEF SumsOver
        <3>3. \A t \in Small(m + 1) :
                 G[t] = IF t = {} THEN 0 ELSE v[pick[t]] + F[t \ {pick[t]}]
            <4> HIDE DEF Small
            <4> QED
                OBVIOUS
        <3> HIDE DEF Small, G
        <3> QED
            BY <3>1, <3>2, <3>3
    <2>3. \A t \in Small(m + 1) : t # {} => t \ {pick[t]} \in Small(m)
        <3> SUFFICES ASSUME NEW t \in Small(m + 1), t # {}
                     PROVE  t \ {pick[t]} \in Small(m)
            OBVIOUS
        <3>1. t \in SUBSET S /\ IsFiniteSet(t) /\ pick[t] \in t
            BY <1>1 DEF Picks
        <3>2. /\ Cardinality(t \ {pick[t]}) \in Nat
              /\ Cardinality(t \ {pick[t]}) < Cardinality(t)
            BY <3>1, OneFewer
        <3> QED
            BY <1>1, <3>1, <3>2
    <2>4. \A t \in Small(m + 1) : t # {} => G[t \ {pick[t]}] = F[t \ {pick[t]}]
        BY <2>2, <2>3
    <2>5. G = [t \in Small(m + 1) |->
                 IF t = {} THEN 0 ELSE v[pick[t]] + G[t \ {pick[t]}]]
        <3> HIDE DEF Small
        <3> QED
            BY <2>4
    <2>6. Solves(G, m + 1)
        BY <2>5 DEF SumsOver
    <2> QED
        BY <2>6
<1>4. Bad = {}
    <2> SUFFICES ASSUME Bad # {} PROVE FALSE
        OBVIOUS
    <2>1. Bad \in SUBSET Nat
        OBVIOUS
    <2> HIDE DEF Bad
    <2>2. PICK m \in Bad : \A u \in Bad : m <= u
        BY <2>1, LeastNat
    <2>3. m \in Nat /\ m # 0
        BY <1>2, <2>1
    <2>4. m - 1 \in Nat /\ m - 1 \notin Bad
        BY <2>2, <2>3
    <2> QED
        BY <1>3, <2>3, <2>4
<1> QED
    BY <1>4

\* Adding up over the subsets of a finite set is well defined.
LEMMA SumExists ==
    ASSUME NEW S, IsFiniteSet(S), NEW v, NEW pick, Picks(pick, S)
    PROVE  \E F : IsSum(F, pick, v, S)
<1>1. Cardinality(S) \in Nat
    BY FS_CardinalityType
<1>2. \A t \in SUBSET S : Cardinality(t) <= Cardinality(S)
    BY FS_Subset
<1>3. UpTo(S, Cardinality(S)) = SUBSET S
    BY <1>2 DEF UpTo
<1>4. PICK F : SumsOver(F, pick, v, UpTo(S, Cardinality(S)))
    BY <1>1, SumUpTo
<1>5. IsSum(F, pick, v, S)
    BY <1>3, <1>4 DEF IsSum
<1> QED
    BY <1>5

\* Any member may be taken out first.
LEMMA SumWithout ==
    ASSUME NEW S, IsFiniteSet(S), NEW v, \A x \in S : v[x] \in Int, 
           NEW pick, Picks(pick, S), NEW F, IsSum(F, pick, v, S), NEW X \in SUBSET S
    PROVE  F[X] \in Int /\ \A y \in X : F[X] = v[y] + F[X \ {y}]
<1> DEFINE Fine(t) == F[t] \in Int /\ \A y \in t : F[t] = v[y] + F[t \ {y}]
           Bad == {n \in Nat : \E t \in SUBSET S : Cardinality(t) = n /\ ~Fine(t)}
<1>1. ASSUME Bad # {} PROVE FALSE
    <2>1. PICK n \in Bad : \A u \in Bad : n <= u
        <3>1. Bad \in SUBSET Nat
            OBVIOUS
        <3> HIDE DEF Bad
        <3> QED
            BY <1>1, <3>1, LeastNat
    <2>2. PICK t \in SUBSET S : Cardinality(t) = n /\ ~Fine(t)
        BY <2>1
    <2>3. IsFiniteSet(t)
        BY FS_Subset
    <2>4. \A y \in t : /\ Cardinality(t \ {y}) \in Nat /\ Cardinality(t \ {y}) < n
                       /\ t \ {y} \in SUBSET S
        BY <2>2, <2>3, OneFewer
    <2>5. \A y \in t : Fine(t \ {y})
        <3> HIDE DEF Fine
        <3> QED
            BY <2>1, <2>4
    <2>6. t # {}
        BY <2>2 DEF IsSum, SumsOver
    <2> DEFINE x == pick[t]
    <2>7. x \in t /\ F[t] = v[x] + F[t \ {x}]
        BY <2>6 DEF IsSum, SumsOver, Picks
    <2> HIDE DEF x
    <2>8. F[t] \in Int
        <3>1. F[t \ {x}] \in Int /\ v[x] \in Int
            BY <2>5, <2>7
        <3> QED
            BY <2>7, <3>1
    <2>9. ASSUME NEW y \in t, y # x
          PROVE  F[t] = v[y] + F[t \ {y}]
        <3>1. F[t \ {x}] = v[y] + F[(t \ {x}) \ {y}]
            BY <2>5, <2>7, <2>9
        <3>2. F[t \ {y}] = v[x] + F[(t \ {y}) \ {x}]
            BY <2>5, <2>7, <2>9
        <3>3. (t \ {x}) \ {y} = (t \ {y}) \ {x}
            OBVIOUS
        <3>4. F[(t \ {y}) \ {x}] \in Int
            <4>1. Cardinality((t \ {y}) \ {x}) \in Nat /\ Cardinality((t \ {y}) \ {x}) < n
                <5>1. IsFiniteSet(t \ {y}) /\ x \in t \ {y}
                    BY <2>3, <2>7, <2>9, FS_Subset
                <5>2. /\ Cardinality((t \ {y}) \ {x}) \in Nat
                      /\ Cardinality((t \ {y}) \ {x}) < Cardinality(t \ {y})
                    BY <5>1, OneFewer
                <5> QED
                    BY <2>4, <5>2
            <4>2. (t \ {y}) \ {x} \in SUBSET S
                OBVIOUS
            <4>3. Fine((t \ {y}) \ {x})
                <5> HIDE DEF Fine
                <5> QED
                    BY <2>1, <4>1, <4>2
            <4> QED
                BY <4>3
        <3>5. v[x] \in Int /\ v[y] \in Int
            BY <2>7, <2>9
        <3> DEFINE f == F[(t \ {y}) \ {x}]
        <3>6. F[t \ {x}] = v[y] + f /\ F[t \ {y}] = v[x] + f /\ f \in Int
            BY <3>1, <3>2, <3>3, <3>4
        <3> HIDE DEF Fine, Bad, f
        <3> QED
            BY <2>7, <3>5, <3>6
    <2> QED
        BY <2>2, <2>7, <2>8, <2>9
<1>2. Cardinality(X) \in Nat
    BY FS_Subset, FS_CardinalityType
<1>3. Fine(X)
    <2> HIDE DEF Fine
    <2> QED
        BY <1>1, <1>2
<1> QED
    BY <1>3

\* Neither the order of the members nor the set they were looked up in matters.
LEMMA SumUnique ==
    ASSUME NEW S, IsFiniteSet(S), NEW v, \A x \in S : v[x] \in Int,
           NEW p, Picks(p, S), NEW F, IsSum(F, p, v, S),
           NEW R, S \subseteq R, NEW w, \A x \in S : v[x] = w[x],
           NEW q, Picks(q, R), NEW G, IsSum(G, q, w, R)
    PROVE  F[S] = G[S]
<1> DEFINE Differ == {n \in Nat : \E t \in SUBSET S : Cardinality(t) = n /\ F[t] # G[t]}
<1>1. ASSUME Differ # {} PROVE FALSE
    <2>1. Differ \in SUBSET Nat
        OBVIOUS
    <2>2. PICK n \in Differ : \A u \in Differ : n <= u
        <3> HIDE DEF Differ
        <3> QED
            BY <1>1, <2>1, LeastNat
    <2>3. PICK t \in SUBSET S : Cardinality(t) = n /\ F[t] # G[t]
        BY <2>2
    <2>4. IsFiniteSet(t)
        BY FS_Subset
    <2>5. t # {}
        BY <2>3 DEF IsSum, SumsOver
    <2> DEFINE x == q[t]
    <2>6. x \in t /\ G[t] = w[x] + G[t \ {x}]
        BY <2>5 DEF IsSum, SumsOver, Picks
    <2> HIDE DEF x
    <2>7. Cardinality(t \ {x}) \in Nat /\ Cardinality(t \ {x}) < n
        BY <2>3, <2>4, <2>6, OneFewer
    <2>8. F[t \ {x}] = G[t \ {x}]
        BY <2>2, <2>7
    <2>9. F[t] = v[x] + F[t \ {x}]
        BY <2>6, SumWithout
    <2> QED
        BY <2>3, <2>6, <2>8, <2>9
<1>2. Cardinality(S) \in Nat
    BY FS_CardinalityType
<1> QED
    BY <1>1, <1>2

\* A solution of the recursion, such as the one a fold chooses, is the sum.
LEMMA FoldIsTotal ==
    ASSUME NEW S, IsFiniteSet(S), NEW v, \A x \in S : v[x] \in Int,
           NEW pick, Picks(pick, S), NEW F, IsSum(F, pick, v, S)
    PROVE  F[S] = Total(v, S)
<1>1. IsSum(CHOOSE G : IsSum(G, AnyMember(S), v, S), AnyMember(S), v, S)
    BY SumExists, AnyMemberPicks
<1> QED
    BY <1>1, SumUnique, AnyMemberPicks DEF Total

LEMMA TotalSame ==
    ASSUME NEW S, IsFiniteSet(S), NEW v, NEW w, \A x \in S : v[x] \in Int /\ v[x] = w[x]
    PROVE  Total(v, S) = Total(w, S)
<1>1. PICK F : IsSum(F, AnyMember(S), v, S)
    BY SumExists, AnyMemberPicks
<1>2. PICK G : IsSum(G, AnyMember(S), w, S)
    BY SumExists, AnyMemberPicks
<1>3. F[S] = G[S]
    BY <1>1, <1>2, SumUnique, AnyMemberPicks
<1> QED
    BY <1>1, <1>2, <1>3, FoldIsTotal, AnyMemberPicks

LEMMA TotalEmpty == ASSUME NEW v PROVE Total(v, {}) = 0
<1>1. IsSum(CHOOSE F : IsSum(F, AnyMember({}), v, {}), AnyMember({}), v, {})
    BY SumExists, AnyMemberPicks, FS_EmptySet
<1> QED
    BY <1>1 DEF Total, IsSum, SumsOver

\* One more member adds its term.
LEMMA TotalAdd ==
    ASSUME NEW S, IsFiniteSet(S), NEW a, a \notin S, NEW v, \A x \in S \cup {a} : v[x] \in Int
    PROVE  /\ Total(v, S) \in Int
           /\ Total(v, S \cup {a}) = v[a] + Total(v, S)
<1> DEFINE R == S \cup {a}
<1>1. IsFiniteSet(R)
    BY FS_AddElement
<1>2. PICK F : IsSum(F, AnyMember(R), v, R)
    BY <1>1, SumExists, AnyMemberPicks
<1>3. PICK G : IsSum(G, AnyMember(S), v, S)
    BY SumExists, AnyMemberPicks
<1>4. F[R] = v[a] + F[S]
    <2>1. R \ {a} = S
        OBVIOUS
    <2>2. a \in R /\ R \in SUBSET R
        OBVIOUS
    <2> HIDE DEF R
    <2>3. \A x \in R : v[x] \in Int
        BY DEF R
    <2> QED
        BY <1>1, <1>2, <2>1, <2>2, <2>3, SumWithout, AnyMemberPicks
<1>5. F[S] = G[S]
    BY <1>2, <1>3, SumUnique, AnyMemberPicks
<1>6. G[S] \in Int
    BY <1>3, SumWithout, AnyMemberPicks
<1>7. F[R] = Total(v, R) /\ G[S] = Total(v, S)
    BY <1>1, <1>2, <1>3, FoldIsTotal, AnyMemberPicks
<1> QED
    BY <1>4, <1>5, <1>6, <1>7

LEMMA TotalNat ==
    ASSUME NEW S, IsFiniteSet(S), NEW v, \A x \in S : v[x] \in Nat
    PROVE  Total(v, S) \in Nat
<1> DEFINE Fine(t) == Total(v, t) \in Nat
           Bad == {n \in Nat : \E t \in SUBSET S : Cardinality(t) = n /\ ~Fine(t)}
<1>1. ASSUME Bad # {} PROVE FALSE
    <2>1. PICK n \in Bad : \A u \in Bad : n <= u
        <3>1. Bad \in SUBSET Nat
            OBVIOUS
        <3> HIDE DEF Bad
        <3> QED
            BY <1>1, <3>1, LeastNat
    <2>2. PICK t \in SUBSET S : Cardinality(t) = n /\ ~Fine(t)
        BY <2>1
    <2>3. t # {}
        BY <2>2, TotalEmpty
    <2>4. PICK y \in t : TRUE
        BY <2>3
    <2> DEFINE r == t \ {y}
    <2>5. IsFiniteSet(r) /\ Cardinality(r) \in Nat /\ Cardinality(r) < n /\ r \in SUBSET S
        BY <2>2, OneFewer, FS_Subset
    <2>6. y \notin r /\ r \cup {y} = t
        OBVIOUS
    <2> HIDE DEF Fine, r
    <2>7. Fine(r)
        BY <2>1, <2>5
    <2>8. \A x \in r \cup {y} : v[x] \in Int
        BY <2>6
    <2>9. Total(v, t) = v[y] + Total(v, r)
        BY <2>5, <2>6, <2>8, TotalAdd
    <2> QED
        BY <2>2, <2>7, <2>9 DEF Fine
<1>2. Cardinality(S) \in Nat
    BY FS_CardinalityType
<1>3. Fine(S)
    <2> HIDE DEF Fine
    <2> QED
        BY <1>1, <1>2
<1> QED
    BY <1>3

LEMMA TotalNext ==
    ASSUME NEW n \in Nat, NEW v, \A i \in 1 .. n + 1 : v[i] \in Int
    PROVE  /\ Total(v, 1 .. n) \in Int
           /\ Total(v, 1 .. n + 1) = v[n + 1] + Total(v, 1 .. n)
<1>1. IsFiniteSet(1 .. n)
    BY FS_Interval
<1>2. 1 .. n + 1 = (1 .. n) \cup {n + 1} /\ n + 1 \notin 1 .. n
    OBVIOUS
<1> QED
    BY <1>1, <1>2, TotalAdd

LEMMA TotalAgrees ==
    ASSUME NEW n \in Nat, NEW v, NEW w, \A i \in 1 .. n : v[i] \in Int /\ v[i] = w[i]
    PROVE  Total(v, 1 .. n) = Total(w, 1 .. n)
<1>1. IsFiniteSet(1 .. n)
    BY FS_Interval
<1> DEFINE S == 1 .. n
<1>2. \A x \in S : v[x] \in Int /\ v[x] = w[x]
    OBVIOUS
<1>3. IsFiniteSet(S)
    BY <1>1
<1> HIDE DEF S
<1>4. Total(v, S) = Total(w, S)
    BY <1>2, <1>3, TotalSame
<1> QED
    BY <1>4 DEF S

Integers(v, n) == \A i \in 1 .. n : v[i] \in Int

\* w is v from its place k + 1 on.
Continues(w, v, k, m) == \A i \in 1 .. m : w[i] = v[k + i]

\* The sum over a list is that over its beginning and that over the rest.
LEMMA TotalSplit ==
    ASSUME NEW k \in Nat, NEW m \in Nat, NEW v, NEW w,
           Integers(v, k + m), Continues(w, v, k, m)
    PROVE  /\ Total(v, 1 .. k) \in Int /\ Total(w, 1 .. m) \in Int
           /\ Total(v, 1 .. k + m) = Total(v, 1 .. k) + Total(w, 1 .. m)
<1> DEFINE Fine(n) == /\ Total(v, 1 .. k) \in Int /\ Total(w, 1 .. n) \in Int
                      /\ Total(v, 1 .. k + n) = Total(v, 1 .. k) + Total(w, 1 .. n)
           Bad == {n \in 0 .. m : ~Fine(n)}
<1> USE DEF Integers, Continues
<1>1. Total(v, 1 .. k) \in Int
    <2>1. CASE k = 0
        <3>1. 1 .. k = {}
            BY <2>1
        <3> QED
            BY <3>1, TotalEmpty
    <2>2. CASE k # 0
        <3>1. k - 1 \in Nat /\ 1 .. (k - 1) + 1 = 1 .. k /\ (k - 1) + 1 = k
            BY <2>2
        <3>2. /\ Total(v, 1 .. k - 1) \in Int
              /\ Total(v, 1 .. (k - 1) + 1) = v[(k - 1) + 1] + Total(v, 1 .. k - 1)
            BY <3>1, TotalNext
        <3>3. v[k] \in Int
            BY <2>2
        <3> QED
            BY <3>1, <3>2, <3>3
    <2> QED
        BY <2>1, <2>2
<1>2. Fine(0)
    <2>1. 1 .. 0 = {} /\ 1 .. k + 0 = 1 .. k
        OBVIOUS
    <2> QED
        BY <1>1, <2>1, TotalEmpty
<1>3. ASSUME NEW n \in 0 .. m - 1, Fine(n)
      PROVE  Fine(n + 1)
    <2>1. /\ Total(w, 1 .. n + 1) = w[n + 1] + Total(w, 1 .. n)
          /\ w[n + 1] \in Int /\ w[n + 1] = v[k + n + 1]
        <3>1. n \in Nat /\ \A i \in 1 .. n + 1 : w[i] \in Int
            OBVIOUS
        <3> HIDE DEF Fine, Bad
        <3>2. Total(w, 1 .. n + 1) = w[n + 1] + Total(w, 1 .. n)
            BY <3>1, TotalNext
        <3> QED
            BY <3>1, <3>2
    <2>2. k + n \in Nat /\ 1 .. (k + n) + 1 = 1 .. k + (n + 1)
        OBVIOUS
    <2>3. Total(v, 1 .. (k + n) + 1) = v[(k + n) + 1] + Total(v, 1 .. k + n)
        BY <2>2, TotalNext
    <2> QED
        BY <1>3, <2>1, <2>2, <2>3
<1>4. Bad = {}
    <2> SUFFICES ASSUME Bad # {} PROVE FALSE
        OBVIOUS
    <2>1. Bad \in SUBSET Nat
        OBVIOUS
    <2>2. PICK n \in Bad : \A u \in Bad : n <= u
        <3> HIDE DEF Bad
        <3> QED
            BY <2>1, LeastNat
    <2>3. n \in 0 .. m /\ n # 0 /\ ~Fine(n)
        <3> HIDE DEF Fine
        <3> QED
            BY <1>2
    <2>4. n - 1 \in 0 .. m - 1 /\ n - 1 \notin Bad /\ (n - 1) + 1 = n
        <3> HIDE DEF Fine
        <3> QED
            BY <2>2, <2>3
    <2> HIDE DEF Fine
    <2> QED
        BY <1>3, <2>3, <2>4
<1>5. m \notin Bad
    BY <1>4
<1> QED
    BY <1>5

\* What SumFunction computes is the sum over the domain of a function.
LEMMA SumFunctionIsSum ==
    ASSUME NEW v, IsFiniteSet(DOMAIN v), \A x \in DOMAIN v : v[x] \in Int
    PROVE  SumFunction(v) = Total(v, DOMAIN v)
<1> DEFINE S == DOMAIN v
           Body(F, t) == IF t = {} THEN 0
                         ELSE v[CHOOSE x \in t : TRUE] + F[t \ {CHOOSE x \in t : TRUE}]
           SumBody(F, t) == IF t = {} THEN 0
                            ELSE v[AnyMember(S)[t]] + F[t \ {AnyMember(S)[t]}]
           G == CHOOSE F : F = [t \in SUBSET S |-> Body(F, t)]
<1>1. SumFunction(v) = G[S]
    BY Zenon DEF SumFunction, SumFunctionOnSet, FoldFunctionOnSet, MapThenFoldSet
<1>2. IsFiniteSet(S) /\ \A x \in S : v[x] \in Int
    OBVIOUS
<1> HIDE DEF S
<1>3. \A F : \A t \in SUBSET S : SumBody(F, t) = Body(F, t)
    <2>1. \A t \in SUBSET S : AnyMember(S)[t] = CHOOSE x \in t : TRUE
        BY DEF AnyMember
    <2> QED
        BY <2>1
<1>4. \A F : [t \in SUBSET S |-> SumBody(F, t)] = [t \in SUBSET S |-> Body(F, t)]
    <2> HIDE DEF SumBody, Body
    <2> QED
        BY <1>3
<1>5. \A F : IsSum(F, AnyMember(S), v, S) <=> F = [t \in SUBSET S |-> SumBody(F, t)]
    BY DEF IsSum, SumsOver
<1>6. IsSum(G, AnyMember(S), v, S)
    <2>1. PICK F : IsSum(F, AnyMember(S), v, S)
        BY <1>2, SumExists, AnyMemberPicks
    <2> HIDE DEF SumBody, Body
    <2>2. F = [t \in SUBSET S |-> Body(F, t)]
        BY <1>4, <1>5, <2>1
    <2>3. G = [t \in SUBSET S |-> Body(G, t)]
        BY <2>2
    <2> QED
        BY <1>4, <1>5, <2>3
<1> HIDE DEF G
<1>7. G[S] = Total(v, S)
    BY <1>2, <1>6, FoldIsTotal, AnyMemberPicks
<1> QED
    BY <1>1, <1>7 DEF S

\* In particular of a list.
LEMMA SumFunctionIsTotal ==
    ASSUME NEW n \in Nat, NEW v, DOMAIN v = 1 .. n, Integers(v, n)
    PROVE  SumFunction(v) = Total(v, 1 .. n)
<1>1. IsFiniteSet(DOMAIN v)
    BY FS_Interval
<1>2. \A x \in DOMAIN v : v[x] \in Int
    BY DEF Integers
<1>3. SumFunction(v) = Total(v, DOMAIN v)
    BY <1>1, <1>2, SumFunctionIsSum
<1> QED
    BY <1>3

LEMMA TotalOfOne ==
    ASSUME NEW a, NEW v, v[a] \in Int
    PROVE  Total(v, {a}) = v[a]
<1>1. Total(v, {} \cup {a}) = v[a] + Total(v, {}) /\ Total(v, {}) = 0
    BY TotalAdd, TotalEmpty, FS_EmptySet
<1>2. {} \cup {a} = {a}
    OBVIOUS
<1> QED
    BY <1>1, <1>2
=============================================================================
