------------------------- MODULE RmcatReceiverProofs -------------------------
(***************************************************************************)
(* What the receiver's reports can be relied on for, however the network   *)
(* reorders within MaxSpan packets, whatever it loses and whenever the     *)
(* application is started and stopped.                                     *)
(***************************************************************************)
EXTENDS RmcatReceiver, CCFeedbackHeaderProofs, SequenceTheorems

-----------------------------------------------------------------------------
(* Sequence numbers of packets *)

LEMMA Remainders ==
    ASSUME NEW n \in Nat
    PROVE  \E q \in Nat, r \in 0 .. SeqMod - 1 : n = SeqMod * q + r /\ n % SeqMod = r
<1> DEFINE q == n \div SeqMod
           r == n % SeqMod
<1>1. SeqMod \in Nat \ {0}
    BY SeqModAssumption
<1>2. q \in Nat /\ r \in 0 .. SeqMod - 1 /\ r = n - SeqMod * q
    BY <1>1
<1> HIDE DEF q, r
<1>3. n = SeqMod * q + r
    BY <1>1, <1>2
<1> QED
    BY <1>2, <1>3 DEF r

LEMMA Distances ==
    ASSUME NEW a \in Sequences16, NEW b \in Sequences16
    PROVE  Diff(a, b) \in 0 .. SeqMod - 1 /\ Diff(a, b) \in Int
    BY SeqModAssumption DEF Diff, Sequences16

LEMMA SeqOfType == ASSUME NEW n \in Nat PROVE SeqOf(n) \in Sequences16
    BY Remainders, SeqModAssumption, ReceiverAssumption DEF SeqOf, Nth, Sequences16

\* Packets fewer than SeqMod apart are as far apart as their sequence numbers.
LEMMA SeqOfDistance ==
    ASSUME NEW m \in Nat, NEW n \in Nat, n <= m, m - n < SeqMod
    PROVE  Diff(SeqOf(m), SeqOf(n)) = m - n
<1>m. PICK qm \in Nat, rm \in 0 .. SeqMod - 1 : m = SeqMod * qm + rm /\ m % SeqMod = rm
    BY Remainders
<1>n. PICK qn \in Nat, rn \in 0 .. SeqMod - 1 : n = SeqMod * qn + rn /\ n % SeqMod = rn
    BY Remainders
<1> DEFINE k == qm - qn
<1>1. m = SeqMod * qm + rm /\ n = SeqMod * qn + rn
    BY <1>m, <1>n
<1>2. SeqMod \in Nat /\ SeqMod >= 4 /\ First \in 0 .. SeqMod - 1
    BY SeqModAssumption, ReceiverAssumption DEF Sequences16
<1>3. SeqOf(m) = Nth(First, rm) /\ SeqOf(n) = Nth(First, rn)
    BY <1>m, <1>n DEF SeqOf
<1>4. k \in Int /\ m - n = k * SeqMod + (rm - rn)
    <2>1. (qm - qn) * SeqMod = SeqMod * qm - SeqMod * qn
        BY <1>1, <1>2
    <2> QED
        BY <1>1, <1>2, <2>1
<1> HIDE DEF k
<1>5. k >= 0
    <2> SUFFICES ASSUME k <= 0 - 1 PROVE FALSE
        BY <1>4
    <2>1. k * SeqMod <= (0 - 1) * SeqMod
        BY <1>2, <1>4, Product
    <2> QED
        BY <1>1, <1>2, <1>4, <2>1
<1>6. k <= 1
    <2> SUFFICES ASSUME 2 <= k PROVE FALSE
        BY <1>4
    <2>1. 2 * SeqMod <= k * SeqMod
        BY <1>2, <1>4, Product
    <2> QED
        BY <1>1, <1>2, <1>4, <2>1
<1>7. rm - rn \in {m - n, m - n - SeqMod}
    <2>1. k = 0 \/ k = 1
        BY <1>4, <1>5, <1>6
    <2>2. k * SeqMod = 0 \/ k * SeqMod = SeqMod
        BY <1>2, <2>1
    <2> QED
        BY <1>1, <1>2, <1>4, <2>2
<1> QED
    BY <1>1, <1>2, <1>3, <1>7 DEF Nth, Diff

\* A set that leaves a number out can be represented.
LEMMA LeavesOneOut ==
    ASSUME NEW S \in SUBSET Sequences16, S # {}, NEW x \in Sequences16 \ S
    PROVE  Representable(S)
<1> DEFINE b == BeginStop(S).begin
<1>1. PICK e \in S : BeginStop(S).stop = Inc(e) /\ IsRange(S, b, e)
    BY BeginStopRange
<1>2. PICK f \in S, g \in S :
          \A s \in S : Diff(f, x) <= Diff(s, x) /\ Diff(s, x) <= Diff(g, x)
    BY NearestAndFurthest
<1>3. /\ b \in Sequences16 /\ e \in Sequences16 /\ f \in Sequences16 /\ g \in Sequences16
      /\ \A s \in S : s \in Sequences16
    BY <1>1, <1>2 DEF IsRange
<1>4. Diff(g, f) = Diff(g, x) - Diff(f, x) /\ Diff(f, x) >= 1 /\ Diff(g, x) < SeqMod
    BY <1>2, <1>3, SeqModAssumption DEF Diff, Sequences16
<1>5. Apart(S, g, f)
    <2>1. ASSUME NEW s \in S PROVE Diff(s, f) <= Diff(g, f)
        <3>1. Diff(f, x) <= Diff(s, x) /\ Diff(s, x) <= Diff(g, x) /\ s \in Sequences16
            BY <1>2, <1>3
        <3>2. Diff(s, f) = Diff(s, x) - Diff(f, x)
            BY <1>3, <3>1, SeqModAssumption DEF Diff, Sequences16
        <3>3. Diff(s, x) \in Int /\ Diff(f, x) \in Int /\ Diff(g, x) \in Int
            BY <1>3, <3>1, Distances
        <3> QED
            BY <1>4, <3>1, <3>2, <3>3
    <2> QED
        BY <2>1 DEF Apart
<1>6. Diff(e, b) <= Diff(g, f)
    BY <1>1, <1>2, <1>5 DEF IsRange
<1>7. Diff(e, b) # SeqMod - 1
    <2>1. Diff(g, x) \in Int /\ Diff(f, x) \in Int
        BY <1>3, Distances
    <2> QED
        BY <1>4, <1>6, <2>1, SeqModAssumption
<1>8. Inc(e) # b
    BY <1>3, <1>7, SeqModAssumption DEF Inc, Diff, Sequences16
<1> QED
    BY <1>1, <1>8 DEF Representable

\* Where packets of one window lie in the range that reports them.
LEMMA WindowOrder ==
    ASSUME NEW Q \in SUBSET Nat, NEW top \in Nat,
           \A n \in Q : n < top /\ top - n <= MaxSpan,
           NEW S, S = {SeqOf(n) : n \in Q}, Representable(S),
           NEW n \in Q, NEW m \in Q, n < m
    PROVE  Diff(SeqOf(n), BeginStop(S).begin) < Diff(SeqOf(m), BeginStop(S).begin)
<1> DEFINE b == BeginStop(S).begin
           L == MetricBlocks(S)
<1>1. \A q \in Q : SeqOf(q) \in Sequences16
    BY SeqOfType
<1>2. S \in SUBSET Sequences16 /\ S # {}
    BY <1>1
<1>3. PICK lo \in Q : \A q \in Q : lo <= q
    BY LeastNat
<1>4. MaxSpan \in Nat /\ 2 * MaxSpan <= SeqMod /\ SeqMod \in Nat /\ SeqMod >= 4
    BY ReceiverAssumption, SeqModAssumption
<1>5. MaxSpan \in 1 .. SeqMod
    BY <1>4
<1>6. \A s \in S : Diff(s, SeqOf(lo)) < MaxSpan
    <2>1. ASSUME NEW q \in Q PROVE Diff(SeqOf(q), SeqOf(lo)) < MaxSpan
        <3>1. lo <= q /\ q - lo < MaxSpan /\ q - lo < SeqMod
            BY <1>3, <1>4
        <3> QED
            BY <3>1, SeqOfDistance
    <2> QED
        BY <2>1
<1>7. L <= MaxSpan
    <2>1. SeqOf(lo) \in Sequences16
        BY <1>1
    <2> QED
        BY <1>2, <1>5, <1>6, <2>1, RangeIsShortest
<1>8. b \in Sequences16 /\ L \in Int /\ \A s \in S : Diff(s, b) < L
    <2>1. L \in 1 .. SeqMod - 1 /\ b \in S
        BY <1>2, RangeCovers
    <2>2. \A s \in S : Diff(s, b) < L
        BY <1>2, RangeCovers
    <2> HIDE DEF b, L
    <2> QED
        BY <1>2, <2>1, <2>2
<1>9. Diff(SeqOf(m), SeqOf(n)) = m - n /\ 0 < m - n /\ m - n < MaxSpan
    <2>1. m - n < MaxSpan
        BY <1>4
    <2> QED
        BY <1>4, <2>1, SeqOfDistance
<1> DEFINE sm == SeqOf(m)
           sn == SeqOf(n)
<1>10. sm \in 0 .. SeqMod - 1 /\ sn \in 0 .. SeqMod - 1 /\ b \in 0 .. SeqMod - 1
    BY <1>1, <1>8 DEF Sequences16
<1>11. Diff(sm, b) < MaxSpan /\ Diff(sn, b) < MaxSpan
    <2>1. /\ Diff(sm, b) < L /\ Diff(sn, b) < L
          /\ Diff(sm, b) \in Int /\ Diff(sn, b) \in Int
        BY <1>1, <1>8, Distances
    <2> QED
        BY <1>4, <1>7, <1>8, <2>1
<1> HIDE DEF sm, sn, b, L
<1>12. Diff(sm, sn) = m - n
    BY <1>9 DEF sm, sn
<1>13. Diff(sn, b) < Diff(sm, b)
    BY <1>4, <1>9, <1>10, <1>11, <1>12 DEF Diff
<1> QED
    BY <1>13 DEF sm, sn, b
-----------------------------------------------------------------------------
(* The list a report is read as *)

\* How many members of D lie no further from begin than s.
Place(D, begin, s) == Cardinality({t \in D : Diff(t, begin) <= Diff(s, begin)})

\* Places run from 1 to the number of members and follow the distances.
LEMMA Places ==
    ASSUME NEW D \in SUBSET Sequences16, NEW begin \in Sequences16
    PROVE  /\ IsFiniteSet(D) /\ Cardinality(D) \in Nat
           /\ \A s \in D : Place(D, begin, s) \in 1 .. Cardinality(D)
           /\ \A s, t \in D : Diff(s, begin) < Diff(t, begin)
                                <=> Place(D, begin, s) < Place(D, begin, t)
           /\ \A i \in 1 .. Cardinality(D) : \E s \in D : Place(D, begin, s) = i
<1> DEFINE Upto(s) == {t \in D : Diff(t, begin) <= Diff(s, begin)}
           pos == [s \in D |-> Place(D, begin, s)]
<1>1. IsFiniteSet(D) /\ Cardinality(D) \in Nat
    <2>1. SeqMod - 1 \in Int /\ 0 \in Int
        BY SeqModAssumption
    <2>2. IsFiniteSet(0 .. SeqMod - 1)
        BY <2>1, FS_Interval
    <2>3. IsFiniteSet(D)
        BY <2>2, FS_Subset DEF Sequences16
    <2> QED
        BY <2>3, FS_CardinalityType
<1>2. \A s \in D : s \in Sequences16 /\ Diff(s, begin) \in Int
    BY Distances
<1>3. ASSUME NEW s \in D
      PROVE  /\ IsFiniteSet(Upto(s)) /\ Upto(s) \in SUBSET D /\ s \in Upto(s)
             /\ Cardinality(Upto(s)) \in 1 .. Cardinality(D)
    <2>1. Upto(s) \in SUBSET D /\ s \in Upto(s)
        BY <1>2
    <2> HIDE DEF Upto
    <2>2. IsFiniteSet(Upto(s)) /\ Cardinality(Upto(s)) <= Cardinality(D)
        BY <1>1, <2>1, FS_Subset
    <2>3. Cardinality(Upto(s)) \in Nat /\ Cardinality(Upto(s)) # 0
        BY <2>1, <2>2, FS_CardinalityType, FS_EmptySet
    <2> QED
        BY <1>1, <2>1, <2>2, <2>3
<1>4. ASSUME NEW s \in D, NEW t \in D, Diff(s, begin) < Diff(t, begin)
      PROVE  Cardinality(Upto(s)) < Cardinality(Upto(t))
    <2>1. Upto(s) \in SUBSET Upto(t) /\ t \notin Upto(s)
        BY <1>2, <1>4
    <2>2. t \in Upto(t)
        BY <1>3
    <2>3. IsFiniteSet(Upto(t)) /\ Cardinality(Upto(s)) \in Int /\ Cardinality(Upto(t)) \in Int
        BY <1>3
    <2> HIDE DEF Upto
    <2>4. /\ Cardinality(Upto(s)) <= Cardinality(Upto(t))
          /\ Cardinality(Upto(t)) = Cardinality(Upto(s)) => Upto(t) = Upto(s)
        BY <2>1, <2>3, FS_Subset
    <2> QED
        BY <2>1, <2>2, <2>3, <2>4
<1>5. \A s \in D : Place(D, begin, s) = Cardinality(Upto(s))
    BY DEF Place
<1>6. \A s \in D : Place(D, begin, s) \in 1 .. Cardinality(D)
    BY <1>3, <1>5
<1>7. ASSUME NEW s \in D, NEW t \in D, Diff(s, begin) = Diff(t, begin)
      PROVE  s = t
    BY <1>2, <1>7, SeqModAssumption DEF Diff, Sequences16
<1>8. ASSUME NEW s \in D, NEW t \in D
      PROVE  Diff(s, begin) < Diff(t, begin) <=> Place(D, begin, s) < Place(D, begin, t)
    <2>1. /\ Diff(s, begin) < Diff(t, begin) => Place(D, begin, s) < Place(D, begin, t)
          /\ Diff(t, begin) < Diff(s, begin) => Place(D, begin, t) < Place(D, begin, s)
          /\ Diff(s, begin) = Diff(t, begin) => s = t
        BY <1>4, <1>5, <1>7
    <2>2. /\ Place(D, begin, s) \in Int /\ Place(D, begin, t) \in Int
          /\ Diff(s, begin) \in Int /\ Diff(t, begin) \in Int
        BY <1>2, <1>6
    <2> QED
        BY <2>1, <2>2
<1>9. pos \in Injection(D, 1 .. Cardinality(D))
    <2>1. pos \in [D -> 1 .. Cardinality(D)]
        BY <1>6
    <2>2. ASSUME NEW s \in D, NEW t \in D, pos[s] = pos[t] PROVE s = t
        <3>1. Place(D, begin, s) = Place(D, begin, t)
            BY <2>2
        <3>2. Place(D, begin, s) \in Int
            BY <1>6
        <3>3. ~(Diff(s, begin) < Diff(t, begin)) /\ ~(Diff(t, begin) < Diff(s, begin))
            BY <1>8, <3>1, <3>2
        <3> QED
            BY <1>2, <1>7, <3>3
    <2> HIDE DEF pos
    <2> QED
        BY <2>1, <2>2 DEF Injection, IsInjective
<1>10. \A i \in 1 .. Cardinality(D) : \E s \in D : pos[s] = i
    <2>1. 1 \in Int /\ Cardinality(D) \in Int
        BY <1>1
    <2>2. /\ IsFiniteSet(1 .. Cardinality(D))
          /\ Cardinality(1 .. Cardinality(D)) = Cardinality(D)
        BY <1>1, <2>1, FS_Interval
    <2> HIDE DEF pos
    <2>3. pos \in Surjection(D, 1 .. Cardinality(D))
        BY <1>9, <2>2, FS_Injection
    <2> QED
        BY <2>3 DEF Surjection
<1> QED
    BY <1>1, <1>6, <1>8, <1>10

\* GetMetricList goes once through a block, away from its first number.
LEMMA MetricListOrder ==
    ASSUME NEW block, DOMAIN block \in (SUBSET Sequences16) \ {{}},
           Representable(DOMAIN block)
    PROVE  LET D == DOMAIN block
               begin == BeginStop(D).begin
               list == MetricList(block)
           IN  /\ IsFiniteSet(D)
               /\ DOMAIN list = 1 .. Cardinality(D)
               /\ Len(list) = Cardinality(D) /\ Len(list) \in Nat
               /\ \A i \in 1 .. Cardinality(D) :
                     /\ list[i].seq \in D
                     /\ \A j \in 1 .. i - 1 : Diff(list[j].seq, begin) < Diff(list[i].seq, begin)
<1> DEFINE D == DOMAIN block
           begin == BeginStop(D).begin
           list == MetricList(block)
           At(i) == CHOOSE s \in D : Place(D, begin, s) = i
<1>1. begin \in Sequences16
    BY RangeCovers
<1>2. list = [i \in 1 .. Cardinality(D) |->
                [seq |-> At(i), ts |-> block[At(i)].ts, ecn |-> block[At(i)].ecn]]
    BY DEF MetricList, Place
<1>3. D \in SUBSET Sequences16
    OBVIOUS
<1> HIDE DEF D, begin, list
<1>4. /\ IsFiniteSet(D) /\ Cardinality(D) \in Nat
      /\ \A s, t \in D : Diff(s, begin) < Diff(t, begin)
                            <=> Place(D, begin, s) < Place(D, begin, t)
      /\ \A i \in 1 .. Cardinality(D) : \E s \in D : Place(D, begin, s) = i
    BY <1>1, <1>3, Places
<1>5. \A i \in 1 .. Cardinality(D) : At(i) \in D /\ Place(D, begin, At(i)) = i
    BY <1>4
<1> HIDE DEF At
<1>6. /\ DOMAIN list = 1 .. Cardinality(D)
      /\ \A i \in 1 .. Cardinality(D) : list[i].seq = At(i)
    BY <1>2
<1>7. Len(list) = Cardinality(D)
    BY <1>2, <1>4
<1>8. ASSUME NEW i \in 1 .. Cardinality(D), NEW j \in 1 .. i - 1
      PROVE  Diff(list[j].seq, begin) < Diff(list[i].seq, begin)
    <2>1. j \in 1 .. Cardinality(D) /\ j < i
        BY <1>4
    <2>2. /\ At(i) \in D /\ Place(D, begin, At(i)) = i
          /\ At(j) \in D /\ Place(D, begin, At(j)) = j
        BY <1>5, <2>1
    <2>3. Diff(At(j), begin) < Diff(At(i), begin)
        BY <1>4, <2>1, <2>2
    <2> QED
        BY <1>6, <2>1, <2>3
<1>9. \A i \in 1 .. Cardinality(D) : list[i].seq \in D
    BY <1>5, <1>6
<1> QED
    BY <1>4, <1>6, <1>7, <1>8, <1>9 DEF D, begin, list
-----------------------------------------------------------------------------
(* The packets of a header *)

\* What the receiver keeps true of the packets it has taken: each has one stamp,
\* they lie in a window below top, and the header reports them and no others.
TakenInv(stamps, top, h, times) ==
    /\ HeaderInv(h, {Remote}, times)
    /\ IsFiniteSet(stamps)
    /\ \A s \in stamps : s.packet \in Nat /\ s.packet < top /\ top - s.packet <= MaxSpan
    /\ \A s, t \in stamps : s.packet = t.packet => s = t
    /\ DOMAIN BlockOf(h, Remote) = {SeqOf(n) : n \in Packets(stamps)}

LEMMA WindowInjective ==
    ASSUME NEW top \in Nat, NEW n \in Nat, NEW m \in Nat,
           n < top, top - n <= MaxSpan, m < top, top - m <= MaxSpan, SeqOf(n) = SeqOf(m)
    PROVE  n = m
<1>1. MaxSpan \in Nat /\ 2 * MaxSpan <= SeqMod /\ SeqMod \in Nat /\ SeqMod >= 4
    BY ReceiverAssumption, SeqModAssumption
<1>2. Diff(SeqOf(n), SeqOf(m)) = 0 /\ Diff(SeqOf(m), SeqOf(n)) = 0
    BY SeqOfType, SeqModAssumption DEF Diff, Sequences16
<1>3. CASE n <= m
    <2>1. m - n < SeqMod
        BY <1>1
    <2>2. Diff(SeqOf(m), SeqOf(n)) = m - n
        BY <1>3, <2>1, SeqOfDistance
    <2> QED
        BY <1>2, <2>2
<1>4. CASE m <= n
    <2>1. n - m < SeqMod
        BY <1>1
    <2>2. Diff(SeqOf(n), SeqOf(m)) = n - m
        BY <1>4, <2>1, SeqOfDistance
    <2> QED
        BY <1>2, <2>2
<1> QED
    BY <1>3, <1>4

\* The number after the last one sent is not in the window.
LEMMA NextIsNew ==
    ASSUME NEW top \in Nat, NEW n \in Nat, n < top, top - n <= MaxSpan
    PROVE  SeqOf(top) # SeqOf(n)
<1>1. MaxSpan \in Nat /\ 2 * MaxSpan <= SeqMod /\ SeqMod \in Nat /\ SeqMod >= 4
    BY ReceiverAssumption, SeqModAssumption
<1>2. Diff(SeqOf(top), SeqOf(n)) = top - n
    BY <1>1, SeqOfDistance
<1>3. SeqOf(top) = SeqOf(n) => Diff(SeqOf(top), SeqOf(n)) = 0
    BY SeqOfType, SeqModAssumption DEF Diff, Sequences16
<1> QED
    BY <1>2, <1>3

\* A window of packets can be reported.
LEMMA WindowRepresentable ==
    ASSUME NEW top \in Nat, NEW Q \in SUBSET Nat, Q # {},
           \A n \in Q : n < top /\ top - n <= MaxSpan
    PROVE  Representable({SeqOf(n) : n \in Q})
<1> DEFINE S == {SeqOf(n) : n \in Q}
<1>1. S \in SUBSET Sequences16 /\ S # {}
    BY SeqOfType
<1>2. SeqOf(top) \in Sequences16 \ S
    BY NextIsNew, SeqOfType
<1> HIDE DEF S
<1>3. Representable(S)
    BY <1>1, <1>2, LeavesOneOut
<1> QED
    BY <1>3 DEF S

\* As many numbers are reported as there are packets.
LEMMA AsManyNumbers ==
    ASSUME NEW stamps, NEW top \in Nat, NEW h, NEW times, TakenInv(stamps, top, h, times)
    PROVE  Cardinality(DOMAIN BlockOf(h, Remote)) = Cardinality(stamps)
<1> DEFINE f == [s \in stamps |-> SeqOf(s.packet)]
           D == DOMAIN BlockOf(h, Remote)
<1>1. D = {SeqOf(s.packet) : s \in stamps}
    BY DEF TakenInv, Packets
<1>2. IsFiniteSet(stamps)
    BY DEF TakenInv
<1>3. ASSUME NEW s \in stamps, NEW t \in stamps, SeqOf(s.packet) = SeqOf(t.packet)
      PROVE  s = t
    <2>1. /\ s.packet \in Nat /\ s.packet < top /\ top - s.packet <= MaxSpan
          /\ t.packet \in Nat /\ t.packet < top /\ top - t.packet <= MaxSpan
          /\ s.packet = t.packet => s = t
        BY DEF TakenInv
    <2> QED
        BY <1>3, <2>1, WindowInjective
<1> HIDE DEF D
<1>4. f \in Bijection(stamps, D)
    <2>1. f \in [stamps -> D]
        BY <1>1
    <2>2. \A s, t \in stamps : f[s] = f[t] => s = t
        BY <1>3
    <2>3. \A d \in D : \E s \in stamps : f[s] = d
        BY <1>1
    <2> HIDE DEF f
    <2> QED
        BY <2>1, <2>2, <2>3 DEF Bijection, Injection, Surjection, IsInjective
<1>5. ExistsBijection(stamps, D)
    BY <1>4 DEF ExistsBijection
<1> QED
    BY <1>2, <1>5, FS_Bijection DEF D

\* What ReportIsComplete says of a report.
Complete(items, stamps) ==
    /\ Len(items) = Cardinality(stamps)
    /\ \E order \in [1 .. Len(items) -> Packets(stamps)] :
          \A i \in 1 .. Len(items) :
             /\ items[i].seq = SeqOf(order[i])
             /\ \A j \in 1 .. i - 1 : order[j] < order[i]

\* The sender reads the packets taken, in the order in which they were sent.
LEMMA ReadBackIsComplete ==
    ASSUME NEW stamps, NEW top \in Nat, NEW h, NEW times \in SUBSET Nat,
           \A t \in times : 2 * UsToNtp(t) >= AtoUnit,
           TakenInv(stamps, top, h, times), ~IsEmpty(h)
    PROVE  Complete(ReadBack(h), stamps)
<1> DEFINE block == Decode(Encode(h)).blocks[Remote]
           D == DOMAIN block
           Q == Packets(stamps)
           begin == BeginStop(D).begin
           items == ReadBack(h)
<1>1. HeaderInv(h, {Remote}, times)
    BY DEF TakenInv
<1>2. Remote \in DOMAIN h.blocks /\ BlockOf(h, Remote) = h.blocks[Remote]
    BY <1>1 DEF IsEmpty, HeaderInv, BlockOf
<1>3. DOMAIN h.blocks[Remote] \in (SUBSET Sequences16) \ {{}} /\ Representable(DOMAIN h.blocks[Remote])
    BY <1>1, <1>2 DEF HeaderInv, BlockInv
<1>4. D = DOMAIN h.blocks[Remote]
    BY <1>1, <1>2, HeaderRoundTrip
<1>5. D = {SeqOf(n) : n \in Q}
    BY <1>2, <1>4 DEF TakenInv
<1>6. items = MetricList(block)
    BY DEF ReadBack
<1>7. Cardinality(D) = Cardinality(stamps)
    BY <1>2, <1>4, AsManyNumbers
<1>8. D \in (SUBSET Sequences16) \ {{}} /\ Representable(D)
    BY <1>3, <1>4
<1> HIDE DEF block, items
<1>9. /\ Len(items) = Cardinality(D) /\ Len(items) \in Nat
      /\ \A i \in 1 .. Cardinality(D) :
            /\ items[i].seq \in D
            /\ \A j \in 1 .. i - 1 : Diff(items[j].seq, begin) < Diff(items[i].seq, begin)
    BY <1>6, <1>8, MetricListOrder
<1>10. Q \in SUBSET Nat /\ \A n \in Q : n < top /\ top - n <= MaxSpan
    BY DEF TakenInv, Packets
<1>11. begin \in Sequences16
    BY <1>8, RangeCovers
<1> HIDE DEF D, begin, Q
<1> DEFINE order == [i \in 1 .. Len(items) |-> CHOOSE n \in Q : items[i].seq = SeqOf(n)]
<1>12. \A i \in 1 .. Len(items) : order[i] \in Q /\ items[i].seq = SeqOf(order[i])
    BY <1>5, <1>9
<1>13. order \in [1 .. Len(items) -> Q]
    BY <1>12
<1> HIDE DEF order
<1>14. ASSUME NEW i \in 1 .. Len(items), NEW j \in 1 .. i - 1 PROVE order[j] < order[i]
    <2>1. j \in 1 .. Len(items)
        BY <1>9
    <2> DEFINE n == order[j]
               m == order[i]
    <2>2. n \in Q /\ m \in Q /\ n \in Nat /\ m \in Nat
        BY <1>10, <1>12, <2>1
    <2>3. Diff(SeqOf(n), begin) < Diff(SeqOf(m), begin)
        BY <1>9, <1>12, <2>1
    <2>4. Diff(SeqOf(n), begin) \in Int /\ Diff(SeqOf(m), begin) \in Int
        BY <1>11, <2>2, SeqOfType, Distances
    <2> HIDE DEF n, m
    <2>5. n # m
        BY <2>3, <2>4
    <2>6. m < n => Diff(SeqOf(m), begin) < Diff(SeqOf(n), begin)
        BY <1>5, <1>8, <1>10, <2>2, WindowOrder DEF begin
    <2>7. n < m
        BY <2>2, <2>3, <2>4, <2>5, <2>6
    <2> QED
        BY <2>7 DEF n, m
<1>15. /\ Len(items) = Cardinality(stamps)
       /\ \E o \in [1 .. Len(items) -> Q] :
             \A i \in 1 .. Len(items) :
                /\ items[i].seq = SeqOf(o[i])
                /\ \A j \in 1 .. i - 1 : o[j] < o[i]
    BY <1>7, <1>9, <1>12, <1>13, <1>14
<1> QED
    BY <1>15 DEF Complete, items, Q
-----------------------------------------------------------------------------
(* AddFeedback *)

LEMMA NothingTaken ==
    ASSUME NEW top, NEW times
    PROVE  TakenInv({}, top, EmptyHeader, times)
<1>1. HeaderInv(EmptyHeader, {Remote}, times)
    BY EmptyHeaderInv
<1>2. DOMAIN BlockOf(EmptyHeader, Remote) = {}
    <2>1. EmptyHeader.blocks = <<>>
        BY DEF EmptyHeader
    <2>2. DOMAIN EmptyHeader.blocks = {}
        BY <2>1
    <2>3. BlockOf(EmptyHeader, Remote) = <<>>
        BY <2>2 DEF BlockOf
    <2> QED
        BY <2>3
<1> QED
    BY <1>1, <1>2, FS_EmptySet DEF TakenInv, Packets

\* The block a new packet goes into, and the only one there is.
LEMMA NewBlock ==
    ASSUME NEW stamps, NEW top \in Nat, NEW h, NEW times \in SUBSET Nat,
           TakenInv(stamps, top, h, times),
           NEW n \in Nat, n < top, top - n <= MaxSpan, NEW ts \in times
    PROVE  LET blocks == Added(h, Remote, SeqOf(n), ts, 0)
           IN  /\ DOMAIN blocks = {Remote}
               /\ DOMAIN blocks[Remote] = {SeqOf(q) : q \in Packets(stamps) \cup {n}}
               /\ Representable(DOMAIN blocks[Remote])
<1> DEFINE block == Put(BlockOf(h, Remote), SeqOf(n), [ts |-> ts, ecn |-> 0])
           blocks == Added(h, Remote, SeqOf(n), ts, 0)
           Q == Packets(stamps) \cup {n}
<1>1. DOMAIN h.blocks \subseteq {Remote}
    BY DEF TakenInv, HeaderInv
<1>2. blocks = [s \in DOMAIN h.blocks \cup {Remote} |->
                    IF s = Remote THEN block ELSE h.blocks[s]]
    BY DEF Added, Put
<1>3. DOMAIN block = DOMAIN BlockOf(h, Remote) \cup {SeqOf(n)}
    BY DEF Put
<1> HIDE DEF block, blocks
<1>4. DOMAIN blocks = {Remote} /\ blocks[Remote] = block
    BY <1>1, <1>2
<1>5. DOMAIN block = {SeqOf(q) : q \in Q}
    BY <1>3 DEF TakenInv
<1>6. Q \in SUBSET Nat /\ Q # {} /\ \A q \in Q : q < top /\ top - q <= MaxSpan
    BY DEF TakenInv, Packets
<1> HIDE DEF Q
<1>7. Representable(DOMAIN block)
    BY <1>5, <1>6, WindowRepresentable
<1> QED
    BY <1>4, <1>5, <1>7 DEF blocks, Q

\* A packet that was not taken before is taken, or does not fit.
LEMMA TakingOne ==
    ASSUME NEW stamps, NEW top \in Nat, NEW h, NEW times \in SUBSET Nat,
           TakenInv(stamps, top, h, times),
           NEW n \in Nat, n < top, top - n <= MaxSpan, n \notin Packets(stamps),
           NEW ts \in times
    PROVE  /\ AddResult(h, Remote, SeqOf(n), ts, 0) \in {"NONE", "TOO_LONG"}
           /\ AddResult(h, Remote, SeqOf(n), ts, 0) = "NONE" =>
                TakenInv(stamps \cup {[packet |-> n, ts |-> ts]}, top,
                         AfterAdd(h, Remote, SeqOf(n), ts, 0), times)
<1> DEFINE blocks == Added(h, Remote, SeqOf(n), ts, 0)
           stamp == [packet |-> n, ts |-> ts]
           new == AfterAdd(h, Remote, SeqOf(n), ts, 0)
<1>1. /\ DOMAIN blocks = {Remote}
      /\ DOMAIN blocks[Remote] = {SeqOf(q) : q \in Packets(stamps) \cup {n}}
      /\ Representable(DOMAIN blocks[Remote])
    BY NewBlock
<1>2. SeqOf(n) \notin DOMAIN BlockOf(h, Remote)
    <2>1. ASSUME NEW q \in Packets(stamps) PROVE SeqOf(q) # SeqOf(n)
        <3>1. q \in Nat /\ q < top /\ top - q <= MaxSpan
            BY DEF TakenInv, Packets
        <3> QED
            BY <3>1, WindowInjective
    <2> QED
        BY <2>1 DEF TakenInv
<1>3. AddResult(h, Remote, SeqOf(n), ts, 0) = IF TooLong(blocks) THEN "TOO_LONG" ELSE "NONE"
    BY <1>1, <1>2, SMT DEF AddResult
<1>4. ASSUME AddResult(h, Remote, SeqOf(n), ts, 0) = "NONE"
      PROVE  TakenInv(stamps \cup {stamp}, top, new, times)
    <2>1. HeaderInv(new, {Remote}, times)
        <3>1. HeaderInv(h, {Remote}, times) /\ SeqOf(n) \in Sequences16
            BY SeqOfType DEF TakenInv
        <3> QED
            BY <3>1, AddInv
    <2>2. new.blocks = blocks
        BY <1>4 DEF AfterAdd
    <2> HIDE DEF new, blocks
    <2>3. BlockOf(new, Remote) = blocks[Remote]
        BY <1>1, <2>2 DEF BlockOf
    <2>4. stamp.packet = n
        OBVIOUS
    <2> HIDE DEF stamp
    <2>5. Packets(stamps \cup {stamp}) = Packets(stamps) \cup {n}
        BY <2>4 DEF Packets
    <2>6. DOMAIN BlockOf(new, Remote) = {SeqOf(q) : q \in Packets(stamps \cup {stamp})}
        BY <1>1, <2>3, <2>5
    <2>7. IsFiniteSet(stamps \cup {stamp})
        BY FS_AddElement DEF TakenInv
    <2>8. \A s \in stamps \cup {stamp} :
              s.packet \in Nat /\ s.packet < top /\ top - s.packet <= MaxSpan
        BY <2>4 DEF TakenInv
    <2>9. \A s, t \in stamps \cup {stamp} : s.packet = t.packet => s = t
        <3>1. \A s \in stamps : s.packet # stamp.packet
            BY <2>4 DEF Packets
        <3> QED
            BY <3>1 DEF TakenInv
    <2> QED
        BY <2>1, <2>6, <2>7, <2>8, <2>9 DEF TakenInv
<1> QED
    BY <1>3, <1>4

\* A packet fits into an empty header.
LEMMA FirstFits ==
    ASSUME NEW top \in Nat, NEW times \in SUBSET Nat,
           NEW n \in Nat, n < top, top - n <= MaxSpan, NEW ts \in times
    PROVE  AddResult(EmptyHeader, Remote, SeqOf(n), ts, 0) = "NONE"
<1> DEFINE blocks == Added(EmptyHeader, Remote, SeqOf(n), ts, 0)
           x == SeqOf(n)
           v == Words(blocks)
<1>1. TakenInv({}, top, EmptyHeader, times) /\ Packets({}) = {}
    BY NothingTaken DEF Packets
<1>2. /\ DOMAIN blocks = {Remote}
      /\ DOMAIN blocks[Remote] = {SeqOf(q) : q \in {n}}
      /\ Representable(DOMAIN blocks[Remote])
    <2>1. /\ DOMAIN blocks = {Remote}
          /\ DOMAIN blocks[Remote] = {SeqOf(q) : q \in Packets({}) \cup {n}}
          /\ Representable(DOMAIN blocks[Remote])
        BY <1>1, NewBlock
    <2> HIDE DEF blocks
    <2> QED
        BY <1>1, <2>1
<1>3. DOMAIN blocks[Remote] = {x} /\ x \in Sequences16
    BY <1>2, SeqOfType
<1>4. MetricBlocks({x}) = 1
    <2>1. {x} \in SUBSET Sequences16 /\ {x} # {} /\ Representable({x})
        BY <1>2, <1>3
    <2>2. \A s \in {x} : Diff(s, x) < 1
        BY <1>3, SeqModAssumption DEF Diff, Sequences16
    <2>3. MetricBlocks({x}) \in 1 .. SeqMod - 1
        BY <2>1, RangeCovers
    <2>4. 1 \in 1 .. SeqMod
        BY SeqModAssumption
    <2>5. MetricBlocks({x}) <= 1
        BY <1>3, <2>1, <2>2, <2>4, RangeIsShortest
    <2> QED
        BY <2>3, <2>5, SeqModAssumption
<1>5. AddResult(EmptyHeader, Remote, x, ts, 0) \in {"NONE", "TOO_LONG"}
    BY <1>1, TakingOne
<1> HIDE DEF blocks, x
<1>6. v[Remote] = 3
    <2>1. v[Remote] = 2 + (1 + 1) \div 2
        BY <1>2, <1>3, <1>4 DEF Words
    <2> QED
        BY <2>1
<1> HIDE DEF v
<1>7. LengthOf(blocks) = 5
    <2>1. IsFiniteSet(DOMAIN blocks)
        BY <1>2, FS_Singleton
    <2>2. LengthOf(blocks) = 2 + Total(v, DOMAIN blocks)
        BY <1>2, <1>3, <2>1, LengthIsTotal DEF v
    <2>3. Total(v, {} \cup {Remote}) = v[Remote] + Total(v, {})
        <3>1. IsFiniteSet({}) /\ Remote \notin {} /\ \A y \in {} \cup {Remote} : v[y] \in Int
            BY <1>6, FS_EmptySet
        <3> QED
            BY <3>1, TotalAdd
    <2> QED
        BY <1>2, <1>6, <2>2, <2>3, TotalEmpty
<1>8. ~TooLong(blocks)
    BY <1>7, ReceiverAssumption, HeaderAssumption DEF TooLong
<1>9. AddResult(EmptyHeader, Remote, x, ts, 0) # "TOO_LONG"
    <2>1. DOMAIN BlockOf(EmptyHeader, Remote) = {}
        BY <1>1 DEF TakenInv
    <2> QED
        BY <1>2, <1>8, <2>1, SMT DEF AddResult, blocks, x
<1> QED
    BY <1>5, <1>9 DEF x
-----------------------------------------------------------------------------
(* The socket's queue *)

Elements(q) == {q[i] : i \in 1 .. Len(q)}
Distinct(q) == \A i, j \in 1 .. Len(q) : q[i] = q[j] => i = j

LEMMA Appended ==
    ASSUME NEW q \in Seq(Nat), NEW n \in Nat, Distinct(q), n \notin Elements(q)
    PROVE  /\ Append(q, n) \in Seq(Nat) /\ Append(q, n) # <<>>
           /\ Distinct(Append(q, n))
           /\ Elements(Append(q, n)) = Elements(q) \cup {n}
<1> DEFINE a == Append(q, n)
<1>1. /\ a \in Seq(Nat) /\ Len(q) \in Nat /\ Len(a) = Len(q) + 1
      /\ \A i \in 1 .. Len(q) : a[i] = q[i]
      /\ a[Len(q) + 1] = n
    BY AppendProperties
<1> HIDE DEF a
<1>2. \A i \in 1 .. Len(a) : i = Len(q) + 1 \/ i \in 1 .. Len(q)
    BY <1>1
<1>3. Distinct(a)
    <2> SUFFICES ASSUME NEW i \in 1 .. Len(a), NEW j \in 1 .. Len(a), a[i] = a[j]
                 PROVE  i = j
        BY DEF Distinct
    <2>1. \A k \in 1 .. Len(q) : q[k] # n
        BY DEF Elements
    <2> QED
        BY <1>1, <1>2, <2>1 DEF Distinct
<1>4. Elements(a) = Elements(q) \cup {n}
    <2>1. Elements(a) \subseteq Elements(q) \cup {n}
        BY <1>1, <1>2 DEF Elements
    <2>2. Elements(q) \subseteq Elements(a)
        <3>1. \A i \in 1 .. Len(q) : i \in 1 .. Len(a)
            BY <1>1
        <3> QED
            BY <1>1, <3>1 DEF Elements
    <2>3. n \in Elements(a)
        <3>1. Len(q) + 1 \in 1 .. Len(a)
            BY <1>1
        <3> QED
            BY <1>1, <3>1 DEF Elements
    <2> QED
        BY <2>1, <2>2, <2>3
<1>5. a # <<>>
    BY <1>1
<1> QED
    BY <1>1, <1>3, <1>4, <1>5 DEF a

LEMMA Served ==
    ASSUME NEW q \in Seq(Nat), q # <<>>, Distinct(q)
    PROVE  /\ Tail(q) \in Seq(Nat) /\ Head(q) \in Elements(q)
           /\ Distinct(Tail(q))
           /\ Elements(Tail(q)) = Elements(q) \ {Head(q)}
<1> DEFINE t == Tail(q)
<1>1. /\ t \in Seq(Nat) /\ Len(q) \in Nat /\ Len(q) > 0 /\ Len(t) = Len(q) - 1
      /\ \A i \in 1 .. Len(t) : t[i] = q[i + 1]
      /\ Head(q) = q[1]
    BY HeadTailProperties, LenProperties, EmptySeq
<1> HIDE DEF t
<1>2. \A i \in 1 .. Len(t) : i + 1 \in 1 .. Len(q) /\ i + 1 # 1
    BY <1>1
<1>3. Distinct(t)
    <2> SUFFICES ASSUME NEW i \in 1 .. Len(t), NEW j \in 1 .. Len(t), t[i] = t[j]
                 PROVE  i = j
        BY DEF Distinct
    <2>1. i + 1 = j + 1
        BY <1>1, <1>2 DEF Distinct
    <2> QED
        BY <1>1, <2>1
<1>4. 1 \in 1 .. Len(q)
    BY <1>1
<1>5. Elements(t) = Elements(q) \ {Head(q)}
    <2>1. ASSUME NEW i \in 1 .. Len(t) PROVE t[i] \in Elements(q) \ {Head(q)}
        <3>1. t[i] = q[i + 1] /\ i + 1 \in 1 .. Len(q)
            BY <1>1, <1>2
        <3>2. q[i + 1] # q[1]
            BY <1>2, <1>4, <3>1 DEF Distinct
        <3> QED
            BY <1>1, <3>1, <3>2 DEF Elements
    <2>2. ASSUME NEW i \in 1 .. Len(q), q[i] # Head(q) PROVE q[i] \in Elements(t)
        <3>1. i - 1 \in 1 .. Len(t) /\ (i - 1) + 1 = i
            BY <1>1, <2>2
        <3>2. t[i - 1] = q[i]
            BY <1>1, <3>1
        <3> QED
            BY <3>1, <3>2 DEF Elements
    <2> QED
        BY <2>1, <2>2 DEF Elements
<1> QED
    BY <1>1, <1>3, <1>4, <1>5 DEF t, Elements

-----------------------------------------------------------------------------
(* The inductive invariant *)

\* The timer runs while the application does, and no stamp is older than what has
\* gone by of the period.
ClockInv ==
    /\ stage \in {"created", "running", "stopped"}
    /\ waiting \in BOOLEAN
    /\ now \in Nat
    /\ timer \in 0 .. Period \cup {NoTimer}
    /\ timer = NoTimer <=> stage # "running"
    /\ taken # {} => stage = "running"
    /\ \A s \in taken : s.ts \in Nat /\ s.ts <= now /\ now - s.ts + timer <= Period

\* A packet is in one place, and in the window.
NetworkInv ==
    /\ sent \in Nat
    /\ net \in SUBSET Nat
    /\ queue \in Seq(Nat) /\ Distinct(queue)
    /\ \A n \in net \cup Elements(queue) : n < sent /\ sent - n <= MaxSpan
    /\ net \cap Elements(queue) = {}
    /\ (net \cup Elements(queue)) \cap Packets(taken) = {}

ReceiverInv ==
    /\ ClockInv
    /\ NetworkInv
    /\ TakenInv(taken, sent, header, FirstArrival .. now)
    /\ Complete(report.items, report.of)
    /\ fault = "none"

LEMMA ReceiverInitially == Init => ReceiverInv
<1> SUFFICES ASSUME Init PROVE ReceiverInv
    OBVIOUS
<1>1. Period \in Nat \ {0}
    BY ReceiverAssumption
<1>2. ClockInv
    BY <1>1 DEF ClockInv, Init, NoTimer
<1>3. Len(queue) = 0 /\ queue \in Seq(Nat)
    BY DEF Init
<1>4. NetworkInv
    <2>1. Elements(queue) = {} /\ Distinct(queue)
        BY <1>3 DEF Elements, Distinct
    <2> QED
        BY <1>3, <2>1 DEF NetworkInv, Init
<1>5. TakenInv(taken, sent, header, FirstArrival .. now)
    <2>1. taken = {} /\ header = EmptyHeader
        BY DEF Init
    <2> QED
        BY <2>1, NothingTaken
<1>6. Complete(report.items, report.of)
    <2>1. report.items = <<>> /\ report.of = {}
        BY DEF Init, NoReport
    <2>2. Len(report.items) = 0 /\ Cardinality(report.of) = 0
        BY <2>1, FS_EmptySet
    <2> DEFINE order == [i \in 1 .. Len(report.items) |-> i]
    <2>3. order \in [1 .. Len(report.items) -> Packets(report.of)]
        <3>1. 1 .. Len(report.items) = {}
            BY <2>2
        <3>2. \A i \in 1 .. Len(report.items) : i \in Packets(report.of)
            BY <3>1
        <3> QED
            BY <3>2
    <2>4. \A i \in 1 .. Len(report.items) : FALSE
        BY <2>2
    <2> HIDE DEF order
    <2> QED
        BY <2>2, <2>3, <2>4 DEF Complete
<1> QED
    BY <1>2, <1>4, <1>5, <1>6 DEF ReceiverInv, Init

\* Times of reception are late enough for the offsets of a report.
LEMMA ArrivalTimes ==
    ASSUME NEW t \in Nat
    PROVE  /\ FirstArrival .. t \in SUBSET Nat
           /\ \A u \in FirstArrival .. t : 2 * UsToNtp(u) >= AtoUnit
<1>1. FirstArrival \in Nat /\ 2 * UsToNtp(FirstArrival) >= AtoUnit
    BY ReceiverAssumption
<1>2. ASSUME NEW u \in FirstArrival .. t PROVE 2 * UsToNtp(u) >= AtoUnit
    <2>1. u \in Nat /\ FirstArrival <= u
        BY <1>1
    <2>2. /\ UsToNtp(u) \in Nat /\ UsToNtp(FirstArrival) \in Nat
          /\ UsToNtp(FirstArrival) <= UsToNtp(u)
        BY <1>1, <2>1, TimeTypes, TimesMonotone
    <2>3. AtoUnit \in Nat
        BY HeaderAssumption
    <2> QED
        BY <1>1, <2>2, <2>3
<1> QED
    BY <1>1, <1>2

\* The report sent at any time is complete.
LEMMA ReportAfterIsComplete ==
    ReceiverInv => Complete(ReportAfter.items, ReportAfter.of)
<1> SUFFICES ASSUME ReceiverInv PROVE Complete(ReportAfter.items, ReportAfter.of)
    OBVIOUS
<1>1. CASE IsEmpty(header)
    BY <1>1 DEF ReportAfter, ReportOf, ReceiverInv
<1>2. CASE ~IsEmpty(header)
    <2>1. TakenInv(taken, sent, header, FirstArrival .. now) /\ sent \in Nat /\ now \in Nat
        BY DEF ReceiverInv, NetworkInv, ClockInv
    <2>2. Complete(ReadBack(header), taken)
        BY <1>2, <2>1, ArrivalTimes, ReadBackIsComplete
    <2> QED
        BY <1>2, <2>2 DEF ReportAfter, ReportOf
<1> QED
    BY <1>1, <1>2
-----------------------------------------------------------------------------
(* The steps *)

\* The application is started and stopped.
LEMMA StartStopStep ==
    ReceiverInv /\ (StartApplication \/ StopApplication) => ReceiverInv'
<1> SUFFICES ASSUME ReceiverInv, StartApplication \/ StopApplication PROVE ReceiverInv'
    OBVIOUS
<1>1. Period \in Nat \ {0}
    BY ReceiverAssumption
<1>2. CASE StartApplication
    <2>1. ClockInv'
        BY <1>1, <1>2 DEF ReceiverInv, ClockInv, StartApplication, NoTimer
    <2>2. NetworkInv'
        BY <1>2 DEF ReceiverInv, NetworkInv, StartApplication
    <2> QED
        BY <1>2, <2>1, <2>2 DEF ReceiverInv, StartApplication
<1>3. CASE StopApplication
    <2>1. ClockInv'
        BY <1>3 DEF ReceiverInv, ClockInv, StopApplication, NoTimer
    <2>2. NetworkInv'
        BY <1>3 DEF ReceiverInv, NetworkInv, StopApplication, Packets
    <2>3. TakenInv(taken', sent', header', FirstArrival .. now')
        <3>1. TakenInv(taken, sent, header, FirstArrival .. now)
            BY DEF ReceiverInv
        <3>2. header' = EmptyHeader /\ taken' = {}
            BY <1>3, <3>1, ClearedInv DEF StopApplication, TakenInv
        <3> QED
            BY <3>2, NothingTaken
    <2> QED
        BY <1>3, <2>1, <2>2, <2>3 DEF ReceiverInv, StopApplication
<1> QED
    BY <1>2, <1>3

\* The report is sent and the next one begun.
LEMMA SendFeedbackStep == ReceiverInv /\ SendFeedback => ReceiverInv'
<1> SUFFICES ASSUME ReceiverInv, SendFeedback PROVE ReceiverInv'
    OBVIOUS
<1>1. Period \in Nat \ {0}
    BY ReceiverAssumption
<1>2. ClockInv'
    BY <1>1 DEF ReceiverInv, ClockInv, SendFeedback, NoTimer
<1>3. NetworkInv'
    BY DEF ReceiverInv, NetworkInv, SendFeedback, Packets
<1>4. TakenInv(taken', sent', header', FirstArrival .. now')
    <2>1. TakenInv(taken, sent, header, FirstArrival .. now)
        BY DEF ReceiverInv
    <2>2. header' = EmptyHeader /\ taken' = {}
        BY <2>1, ClearedInv DEF SendFeedback, TakenInv
    <2> QED
        BY <2>2, NothingTaken
<1>5. Complete(report.items, report.of)'
    <2>1. report' = ReportAfter
        BY DEF SendFeedback
    <2> QED
        BY <2>1, ReportAfterIsComplete
<1> QED
    BY <1>2, <1>3, <1>4, <1>5 DEF ReceiverInv, SendFeedback

\* The sender sends.
LEMMA SendStep == ReceiverInv /\ Send => ReceiverInv'
<1> SUFFICES ASSUME ReceiverInv, Send PROVE ReceiverInv'
    OBVIOUS
<1>1. MaxSpan \in Nat \ {0}
    BY ReceiverAssumption
<1>2. \A n \in net \cup Elements(queue) \cup Packets(taken) : sent - n < MaxSpan
    BY DEF Send, InSocket, Elements
<1>3. /\ sent \in Nat /\ net \in SUBSET Nat /\ queue \in Seq(Nat)
      /\ \A n \in net \cup Elements(queue) : n < sent
      /\ Elements(queue) \in SUBSET Nat
    <2>1. queue \in Seq(Nat)
        BY DEF ReceiverInv, NetworkInv
    <2>2. \A i \in 1 .. Len(queue) : queue[i] \in Nat
        BY <2>1, ElementOfSeq
    <2> QED
        BY <2>1, <2>2 DEF ReceiverInv, NetworkInv, Elements
<1>4. TakenInv(taken, sent, header, FirstArrival .. now)
    BY DEF ReceiverInv
<1>5. \A s \in taken : s.packet \in Nat /\ s.packet < sent /\ s.packet \in Packets(taken)
    BY <1>4 DEF TakenInv, Packets
<1>6. /\ sent' = sent + 1 /\ net' = net \cup {sent}
      /\ UNCHANGED <<stage, waiting, header, timer, queue, taken, report, now, fault>>
    BY DEF Send
<1>7. ClockInv'
    BY <1>6 DEF ReceiverInv, ClockInv
<1>8. NetworkInv'
    <2>1. sent' \in Nat /\ net' \in SUBSET Nat
        BY <1>3, <1>6
    <2>2. ASSUME NEW n \in net' \cup Elements(queue)
          PROVE  n < sent' /\ sent' - n <= MaxSpan
        <3>1. CASE n = sent
            BY <1>1, <1>3, <1>6, <3>1
        <3>2. CASE n # sent
            <4>1. n \in net \cup Elements(queue) /\ n \in Nat
                BY <1>3, <1>6, <3>2
            <4>2. n < sent /\ sent - n < MaxSpan
                BY <1>2, <1>3, <4>1
            <4> QED
                BY <1>1, <1>3, <1>6, <4>1, <4>2
        <3> QED
            BY <3>1, <3>2
    <2>3. sent \notin Elements(queue) /\ sent \notin Packets(taken)
        <3>1. \A n \in Elements(queue) \cup Packets(taken) : n \in Nat /\ n < sent
            BY <1>3, <1>5 DEF Packets
        <3> QED
            BY <1>3, <3>1
    <2>4. /\ net' \cap Elements(queue) = {}
          /\ (net' \cup Elements(queue)) \cap Packets(taken) = {}
        BY <1>6, <2>3 DEF ReceiverInv, NetworkInv
    <2> QED
        BY <1>3, <1>6, <2>1, <2>2, <2>4 DEF ReceiverInv, NetworkInv
<1>9. TakenInv(taken, sent', header, FirstArrival .. now)
    <2>1. ASSUME NEW s \in taken
          PROVE  s.packet \in Nat /\ s.packet < sent' /\ sent' - s.packet <= MaxSpan
        <3>1. sent - s.packet < MaxSpan /\ s.packet \in Nat /\ s.packet < sent
            BY <1>2, <1>5
        <3> QED
            BY <1>1, <1>3, <1>6, <3>1
    <2> QED
        BY <1>4, <2>1 DEF TakenInv
<1> QED
    BY <1>6, <1>7, <1>8, <1>9 DEF ReceiverInv

\* The network loses a packet.
LEMMA LoseStep == ReceiverInv /\ Lose => ReceiverInv'
<1> SUFFICES ASSUME ReceiverInv, Lose PROVE ReceiverInv'
    OBVIOUS
<1>1. /\ net' \subseteq net
      /\ UNCHANGED <<stage, waiting, header, timer, queue, sent, taken, report, now, fault>>
    BY DEF Lose
<1>2. ClockInv'
    BY <1>1 DEF ReceiverInv, ClockInv
<1>3. NetworkInv'
    BY <1>1 DEF ReceiverInv, NetworkInv
<1> QED
    BY <1>1, <1>2, <1>3 DEF ReceiverInv

\* Time passes.
LEMMA TickStep == ReceiverInv /\ Tick => ReceiverInv'
<1> SUFFICES ASSUME ReceiverInv, Tick PROVE ReceiverInv'
    OBVIOUS
<1>1. /\ timer # 0 /\ now' = now + 1
      /\ timer' = IF timer = NoTimer THEN NoTimer ELSE timer - 1
      /\ UNCHANGED <<stage, waiting, header, queue, net, sent, taken, report, fault>>
    BY DEF Tick
<1>2. ClockInv'
    <2>1. Period \in Nat /\ now \in Nat
        BY ReceiverAssumption DEF ReceiverInv, ClockInv
    <2>2. CASE timer = NoTimer
        <3>1. timer' = NoTimer /\ taken = {}
            BY <1>1, <2>2 DEF ReceiverInv, ClockInv
        <3> QED
            BY <1>1, <2>1, <2>2, <3>1 DEF ReceiverInv, ClockInv
    <2>3. CASE timer # NoTimer
        <3>1. timer \in 1 .. Period /\ timer' = timer - 1
            BY <1>1, <2>1, <2>3 DEF ReceiverInv, ClockInv
        <3>2. timer' \in 0 .. Period /\ timer' # NoTimer
            BY <2>1, <3>1 DEF NoTimer
        <3>3. ASSUME NEW s \in taken
              PROVE  s.ts \in Nat /\ s.ts <= now' /\ now' - s.ts + timer' <= Period
            <4>1. s.ts \in Nat /\ s.ts <= now /\ now - s.ts + timer <= Period
                BY DEF ReceiverInv, ClockInv
            <4> QED
                BY <1>1, <2>1, <3>1, <4>1
        <3> QED
            BY <1>1, <2>1, <2>3, <3>2, <3>3 DEF ReceiverInv, ClockInv
    <2> QED
        BY <2>2, <2>3
<1>3. NetworkInv'
    BY <1>1 DEF ReceiverInv, NetworkInv
<1>4. TakenInv(taken, sent, header, FirstArrival .. now')
    <2>1. now \in Nat /\ FirstArrival \in Nat
        BY ReceiverAssumption DEF ReceiverInv, ClockInv
    <2>2. FirstArrival .. now \subseteq FirstArrival .. now'
        BY <1>1, <2>1
    <2>3. TakenInv(taken, sent, header, FirstArrival .. now)
        BY DEF ReceiverInv
    <2>4. HeaderInv(header, {Remote}, FirstArrival .. now')
        BY <2>2, <2>3, LaterHeaderInv DEF TakenInv
    <2> QED
        BY <2>3, <2>4 DEF TakenInv
<1> QED
    BY <1>1, <1>2, <1>3, <1>4 DEF ReceiverInv
\* AddFeedback is called with a packet that is not in the header yet: it neither
\* fails nor forgets a packet.
LEMMA AddFeedbackStep ==
    ASSUME ReceiverInv, now >= FirstArrival,
           NEW n \in Nat, n < sent, sent - n <= MaxSpan, n \notin Packets(taken),
           AddFeedback(n)
    PROVE  /\ TakenInv(taken', sent, header', FirstArrival .. now)
           /\ Complete(report'.items, report'.of)
           /\ fault' = "none"
           /\ taken' \subseteq taken \cup {[packet |-> n, ts |-> now]}
<1> DEFINE Result(h) == AddResult(h, Remote, SeqOf(n), now, 0)
           After(h) == AfterAdd(h, Remote, SeqOf(n), now, 0)
           stamp == [packet |-> n, ts |-> now]
           times == FirstArrival .. now
<1>1. /\ sent \in Nat /\ now \in Nat
      /\ TakenInv(taken, sent, header, times)
      /\ Complete(report.items, report.of)
      /\ fault = "none"
    BY DEF ReceiverInv, NetworkInv, ClockInv
<1>2. times \in SUBSET Nat /\ now \in times
    BY <1>1, ReceiverAssumption
<1>3. \/ /\ Result(header) = "NONE"
         /\ header' = After(header) /\ taken' = taken \cup {stamp}
         /\ report' = report /\ fault' = fault
      \/ /\ Result(header) = "TOO_LONG"
         /\ report' = ReportOf(After(header))
         /\ header' = After(Cleared(After(header))) /\ taken' = {stamp}
         /\ fault' = IF Result(Cleared(After(header))) = "NONE" THEN "none" ELSE "addFeedback"
      \/ Result(header) \notin {"NONE", "TOO_LONG"}
    BY DEF AddFeedback
<1> HIDE DEF times
<1>4. /\ Result(header) \in {"NONE", "TOO_LONG"}
      /\ Result(header) = "NONE" => TakenInv(taken \cup {stamp}, sent, After(header), times)
    BY <1>1, <1>2, TakingOne
<1>5. Cleared(header) = EmptyHeader
    BY <1>1, ClearedInv DEF TakenInv
<1>6. Result(EmptyHeader) = "NONE" /\ TakenInv({stamp}, sent, After(EmptyHeader), times)
    <2>1. Result(EmptyHeader) = "NONE"
        BY <1>1, <1>2, FirstFits
    <2>2. TakenInv({}, sent, EmptyHeader, times) /\ n \notin Packets({})
        BY NothingTaken DEF Packets
    <2>3. TakenInv({} \cup {stamp}, sent, After(EmptyHeader), times)
        BY <1>1, <1>2, <2>1, <2>2, TakingOne
    <2>4. {} \cup {stamp} = {stamp}
        OBVIOUS
    <2> QED
        BY <2>1, <2>3, <2>4
<1>7. Complete(ReportAfter.items, ReportAfter.of)
    BY ReportAfterIsComplete
<1>10. Result(header) = "TOO_LONG" => After(header) = header
    BY <1>1, RefusedAdd DEF TakenInv
<1> HIDE DEF Result, After, stamp
<1>8. CASE Result(header) = "NONE"
    BY <1>1, <1>3, <1>4, <1>8 DEF times, stamp
<1>9. CASE Result(header) = "TOO_LONG"
    BY <1>3, <1>5, <1>6, <1>7, <1>9, <1>10 DEF times, stamp, ReportAfter
<1> QED
    BY <1>4, <1>8, <1>9

\* A packet arrives.
LEMMA RecvPacketStep == ReceiverInv /\ RecvPacket => ReceiverInv'
<1> SUFFICES ASSUME ReceiverInv, RecvPacket PROVE ReceiverInv'
    OBVIOUS
<1>1. PICK n \in net :
          /\ net' = net \ {n}
          /\ \/ /\ stage # "running"
                /\ queue' = Append(queue, n)
                /\ UNCHANGED <<waiting, header, taken, report, fault>>
             \/ /\ stage = "running"
                /\ queue' = Tail(Append(queue, n))
                /\ waiting' = FALSE
                /\ AddFeedback(Head(Append(queue, n)))
    BY DEF RecvPacket
<1>2. now >= FirstArrival /\ UNCHANGED <<stage, timer, sent, now>>
    BY DEF RecvPacket
<1>3. /\ sent \in Nat /\ net \in SUBSET Nat /\ n \in Nat
      /\ queue \in Seq(Nat) /\ Distinct(queue)
      /\ \A m \in net \cup Elements(queue) : m < sent /\ sent - m <= MaxSpan
      /\ n \notin Elements(queue)
    BY DEF ReceiverInv, NetworkInv
<1> DEFINE q == Append(queue, n)
<1>4. /\ q \in Seq(Nat) /\ q # <<>> /\ Distinct(q)
      /\ Elements(q) = Elements(queue) \cup {n}
    BY <1>3, Appended
<1>5. CASE stage # "running" /\ queue' = q
           /\ UNCHANGED <<waiting, header, taken, report, fault>>
    <2>1. ClockInv'
        BY <1>2, <1>5 DEF ReceiverInv, ClockInv
    <2> HIDE DEF q
    <2>2. NetworkInv'
        <3>1. /\ net' \subseteq net /\ n \notin net' /\ n \in net
              /\ sent' = sent /\ queue' = q /\ taken' = taken
            BY <1>1, <1>2, <1>5
        <3>2. /\ net \cap Elements(queue) = {}
              /\ (net \cup Elements(queue)) \cap Packets(taken) = {}
            BY DEF ReceiverInv, NetworkInv
        <3> QED
            BY <1>3, <1>4, <3>1, <3>2 DEF NetworkInv
    <2> QED
        BY <1>2, <1>5, <2>1, <2>2 DEF ReceiverInv
<1>6. CASE stage = "running" /\ queue' = Tail(q) /\ waiting' = FALSE /\ AddFeedback(Head(q))
    <2> DEFINE h == Head(q)
               stamp == [packet |-> h, ts |-> now]
    <2> HIDE DEF q
    <2>1. /\ Tail(q) \in Seq(Nat) /\ h \in Elements(q) /\ Distinct(Tail(q))
          /\ Elements(Tail(q)) = Elements(q) \ {h}
        BY <1>4, Served
    <2>2. AddFeedback(h)
        BY <1>6
    <2>3. stamp.packet = h /\ stamp.ts = now
        OBVIOUS
    <2> HIDE DEF h
    <2>4. h \in net \cup Elements(queue)
        BY <1>4, <2>1
    <2>5. /\ net \cap Elements(queue) = {}
          /\ (net \cup Elements(queue)) \cap Packets(taken) = {}
        BY DEF ReceiverInv, NetworkInv
    <2>6. h \in Nat /\ h < sent /\ sent - h <= MaxSpan /\ h \notin Packets(taken)
        <3>1. h \in Nat
            BY <1>3, <2>1, <1>4, ElementOfSeq DEF Elements
        <3> QED
            BY <1>3, <2>4, <2>5, <3>1
    <2>7. /\ TakenInv(taken', sent, header', FirstArrival .. now)
          /\ Complete(report'.items, report'.of)
          /\ fault' = "none"
          /\ taken' \subseteq taken \cup {stamp}
        BY <1>2, <2>2, <2>6, AddFeedbackStep
    <2> HIDE DEF stamp
    <2>8. ClockInv'
        <3>1. /\ stage = "running" /\ now \in Nat /\ Period \in Nat
              /\ timer \in 0 .. Period
            BY <1>6, ReceiverAssumption DEF ReceiverInv, ClockInv
        <3>2. \A s \in taken' : s.ts \in Nat /\ s.ts <= now /\ now - s.ts + timer <= Period
            <4>1. ASSUME NEW s \in taken
                  PROVE  s.ts \in Nat /\ s.ts <= now /\ now - s.ts + timer <= Period
                BY DEF ReceiverInv, ClockInv
            <4>2. stamp.ts \in Nat /\ stamp.ts <= now /\ now - stamp.ts + timer <= Period
                BY <2>3, <3>1
            <4> QED
                BY <2>7, <4>1, <4>2
        <3> QED
            BY <1>2, <1>6, <3>1, <3>2 DEF ReceiverInv, ClockInv
    <2>9. NetworkInv'
        <3>1. net' = net \ {n} /\ sent' = sent /\ queue' = Tail(q)
            BY <1>1, <1>2, <1>6
        <3>2. Packets(taken') \subseteq Packets(taken) \cup {h}
            BY <2>3, <2>7 DEF Packets
        <3>3. /\ net' \cup Elements(Tail(q)) \subseteq net \cup Elements(queue)
              /\ h \notin net' \cup Elements(Tail(q))
            BY <1>4, <2>1, <2>5, <3>1
        <3>4. net' \cap Elements(Tail(q)) = {}
            BY <1>4, <2>1, <2>5, <3>1
        <3>5. (net' \cup Elements(Tail(q))) \cap Packets(taken') = {}
            BY <2>5, <3>2, <3>3
        <3> QED
            BY <1>3, <2>1, <3>1, <3>3, <3>4, <3>5 DEF NetworkInv
    <2> QED
        BY <1>2, <2>7, <2>8, <2>9 DEF ReceiverInv
<1> QED
    BY <1>1, <1>5, <1>6

-----------------------------------------------------------------------------
(* The theorems *)

\* The invariant holds for every width of the sequence numbers, period and window,
\* and however many packets are sent.
THEOREM ReceiverInvariance == Spec => []ReceiverInv
<1>1. ReceiverInv /\ [Next]_vars => ReceiverInv'
    <2> SUFFICES ASSUME ReceiverInv, [Next]_vars PROVE ReceiverInv'
        OBVIOUS
    <2>1. CASE UNCHANGED vars
        <3>1. ClockInv' /\ NetworkInv'
            BY <2>1 DEF ReceiverInv, ClockInv, NetworkInv, vars
        <3> QED
            BY <2>1, <3>1 DEF ReceiverInv, vars
    <2> QED
        BY <2>1, StartStopStep, RecvPacketStep, SendFeedbackStep, SendStep, LoseStep, TickStep
        DEF Next
<1> QED
    BY <1>1, ReceiverInitially, PTL DEF Spec

\* Every variable keeps its type, and the length its field, in every state.
THEOREM ReceiverTypes == Spec => []TypeOK
<1>1. ReceiverInv => TypeOK
    <2> SUFFICES ASSUME ReceiverInv PROVE TypeOK
        OBVIOUS
    <2>1. HeaderInv(header, {Remote}, FirstArrival .. now)
        BY DEF ReceiverInv, TakenInv
    <2>2. /\ DOMAIN header.blocks \subseteq {Remote}
          /\ header.length \in 2 .. MaxLength
          /\ header.latest \in FirstArrival .. now \cup {0}
        BY <2>1 DEF HeaderInv
    <2>3. DOMAIN BlockOf(header, Remote) \subseteq Sequences16
        <3>1. \A n \in Packets(taken) : SeqOf(n) \in Sequences16
            BY SeqOfType DEF ReceiverInv, TakenInv, Packets
        <3> QED
            BY <3>1 DEF ReceiverInv, TakenInv
    <2>4. header.latest \in 0 .. now
        BY <2>2, ReceiverAssumption DEF ReceiverInv, ClockInv
    <2>5. queue \in Seq(0 .. sent - 1) /\ net \subseteq 0 .. sent - 1
        <3>1. /\ sent \in Nat /\ net \in SUBSET Nat /\ queue \in Seq(Nat)
              /\ \A n \in net \cup Elements(queue) : n < sent
            BY DEF ReceiverInv, NetworkInv
        <3>2. \A i \in 1 .. Len(queue) : queue[i] \in 0 .. sent - 1
            <4>1. ASSUME NEW i \in 1 .. Len(queue) PROVE queue[i] \in 0 .. sent - 1
                <5>1. queue[i] \in Nat /\ queue[i] \in Elements(queue)
                    BY <3>1, ElementOfSeq DEF Elements
                <5> QED
                    BY <3>1, <5>1
            <4> QED
                BY <4>1
        <3>3. queue \in Seq(0 .. sent - 1)
            BY <3>1, <3>2, SeqDef
        <3> QED
            BY <3>1, <3>3
    <2> QED
        BY <2>2, <2>3, <2>4, <2>5 DEF TypeOK, ReceiverInv, ClockInv
<1> QED
    BY <1>1, ReceiverInvariance, PTL

\* No call of AddFeedback fails its assert: within a window of half the sequence
\* numbers there are no duplicates, a number is always left out, and a packet that
\* does not fit fits after the report was sent.
THEOREM ReceiverNeverFails == Spec => []NoAssertFails
<1>1. ReceiverInv => NoAssertFails
    BY DEF ReceiverInv, NoAssertFails
<1> QED
    BY <1>1, ReceiverInvariance, PTL

\* Every report the sender reads has exactly the packets taken for it, in the order
\* in which they were sent.
THEOREM ReportsAreComplete == Spec => []ReportIsComplete
<1>1. ReceiverInv => ReportIsComplete
    BY DEF ReceiverInv, Complete, ReportIsComplete
<1> QED
    BY <1>1, ReceiverInvariance, PTL

\* While the application runs its timer does, and no packet waits longer than a
\* period to be reported.
THEOREM ReportsAreTimely == Spec => []Timely
<1>1. ReceiverInv => Timely
    <2> SUFFICES ASSUME ReceiverInv PROVE Timely
        OBVIOUS
    <2>1. ASSUME NEW s \in taken PROVE now - s.ts <= Period
        <3>1. /\ stage = "running" /\ timer \in 0 .. Period \cup {NoTimer}
              /\ timer # NoTimer /\ now \in Nat
              /\ s.ts \in Nat /\ now - s.ts + timer <= Period
            BY DEF ReceiverInv, ClockInv
        <3> QED
            BY <3>1, ReceiverAssumption
    <2> QED
        BY <2>1 DEF Timely, ReceiverInv, ClockInv
<1> QED
    BY <1>1, ReceiverInvariance, PTL
=============================================================================
