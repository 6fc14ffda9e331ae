---------------------------- MODULE CcfsFlowProofs ----------------------------
(***************************************************************************)
(* The CCFS loop over a network that delays and loses but keeps the order  *)
(* (Reach = 1), for every value of the other constants: no assertion       *)
(* fails, the virtual queue is given packets in order and its loop ends,   *)
(* the window of periods stays recent, and the flow implements             *)
(* FeedbackLoop.                                                           *)
(*                                                                         *)
(* First the virtual queue alone; then headers and their bytes; then what  *)
(* is under way between the two sides, as a line of parcels in order; then *)
(* the records and the window of the sender; then the inductive invariant  *)
(* FlowInv, a step at a time; last the theorems.                           *)
(***************************************************************************)
EXTENDS CcfsFlow, InductionLemmas, SequenceTheorems

-----------------------------------------------------------------------------
(* Arithmetic and minima *)

\* A time is the whole milliseconds in it and less than one more.
LEMMA WholeMs ==
    ASSUME NEW t \in Nat
    PROVE  /\ t \div UsPerMs \in Nat
           /\ UsPerMs * (t \div UsPerMs) <= t
           /\ t < UsPerMs * (t \div UsPerMs) + UsPerMs
BY VirtualQueueAssumption

\* The least of a set of integers that are bounded below.
LEMMA MinOfBounded ==
    ASSUME NEW S \in SUBSET Int, S # {}, NEW b \in Int, \A x \in S : b <= x
    PROVE  Min(S) \in S /\ \A x \in S : Min(S) <= x
<1> DEFINE T == {x - b : x \in S}
<1>1. T \subseteq Nat
    <2> SUFFICES ASSUME NEW x \in S PROVE x - b \in Nat
        OBVIOUS
    <2>1. x \in Int /\ b <= x
        OBVIOUS
    <2> QED
        BY <2>1
<1>2. T # {}
    OBVIOUS
<1>3. \E t \in T : \A u \in T : t <= u
    <2> HIDE DEF T
    <2> QED
        BY <1>1, <1>2, LeastNat
<1>4. PICK m \in S : \A x \in S : m - b <= x - b
    BY <1>3
<1>5. \A x \in S : m <= x
    BY <1>4
<1> QED
    BY <1>5 DEF Min

-----------------------------------------------------------------------------
(* What estiQDelay computes from a report *)

\* A report that the virtual queue may be given, of m packets.
Admissible(list) ==
    /\ list \in Seq(QDelayData)
    /\ list # <<>>
    /\ InOrder(list)

\* The packets of a report have times, the last of them the latest time of sending.
LEMMA PacketOfReport ==
    ASSUME NEW list, Admissible(list)
    PROVE  /\ Len(list) \in Nat \ {0}
           /\ \A i \in 1 .. Len(list) :
                /\ list[i].sent \in Nat /\ list[i].rcvd \in Nat
                /\ OneWay(list[i]) \in Int
                /\ list[i].sent <= list[Len(list)].sent
<1>1. Len(list) \in Nat \ {0}
    BY DEF Admissible
<1>2. \A i \in 1 .. Len(list) : list[i] \in QDelayData
    BY DEF Admissible
<1>3. \A i \in 1 .. Len(list) : list[i].sent \in Nat /\ list[i].rcvd \in Nat
    BY <1>2 DEF QDelayData
<1>4. \A i \in 1 .. Len(list) : OneWay(list[i]) \in Int
    <2> TAKE i \in 1 .. Len(list)
    <2> DEFINE s == list[i].sent
    <2>1. s \in Nat /\ list[i].rcvd \in Nat
        BY <1>3
    <2>2. s \div UsPerMs \in Nat
        BY <2>1, WholeMs
    <2> QED
        BY <2>1, <2>2 DEF OneWay
<1>5. \A i \in 1 .. Len(list) : list[i].sent <= list[Len(list)].sent
    BY <1>1 DEF Admissible, InOrder
<1> QED
    BY <1>1, <1>3, <1>4, <1>5

\* The base is at most the one before, and at most the delay of any packet
\* looked at.
LEMMA BaseIsLeast ==
    ASSUME NEW list, Admissible(list), minQDelay \in Int, NEW i \in 1 .. Len(list)
    PROVE  /\ Base(list, i) \in Int
           /\ Base(list, i) <= minQDelay
           /\ Base(list, i) <= OneWay(list[i])
<1> DEFINE S == {minQDelay} \cup {OneWay(list[j]) : j \in 1 .. i}
<1>1. Len(list) \in Nat \ {0} /\ \A j \in 1 .. Len(list) : OneWay(list[j]) \in Int
    BY PacketOfReport
<1>2. S \in SUBSET Int /\ S # {}
    BY <1>1
<1>3. \E b \in Int : \A x \in S : b <= x
    <2> DEFINE last == list[Len(list)].sent
               floor == - last
               bound == IF minQDelay < floor THEN minQDelay ELSE floor
    <2>1. last \in Nat
        BY <1>1, PacketOfReport
    <2>2. bound \in Int /\ bound <= minQDelay /\ bound <= - last
        BY <2>1
    <2>3. ASSUME NEW j \in 1 .. i PROVE bound <= OneWay(list[j])
        <3> DEFINE s == list[j].sent
        <3>1. j \in 1 .. Len(list)
            BY <1>1
        <3>2. s \in Nat /\ list[j].rcvd \in Nat /\ s <= last
            BY <3>1, PacketOfReport
        <3>3. s \div UsPerMs \in Nat /\ UsPerMs * (s \div UsPerMs) <= s
            BY <3>2, WholeMs
        <3>4. s \div UsPerMs <= s
            BY <3>2, <3>3, VirtualQueueAssumption
        <3>5. list[j].rcvd - (s \div UsPerMs) >= - last
            BY <2>1, <3>2, <3>3, <3>4
        <3> HIDE DEF bound, last
        <3> QED
            BY <2>1, <2>2, <3>2, <3>3, <3>5 DEF OneWay
    <2> QED
        BY <2>2, <2>3
<1>4. Min(S) \in S /\ \A x \in S : Min(S) <= x
    <2> HIDE DEF S
    <2> QED
        BY <1>2, <1>3, MinOfBounded
<1>5. minQDelay \in S /\ OneWay(list[i]) \in S
    BY <1>1
<1>6. Base(list, i) = Min(S)
    BY DEF Base
<1> HIDE DEF S
<1> QED
    BY <1>2, <1>4, <1>5, <1>6

\* The delay of a report is that of one of its packets, or the limit, and at
\* most both the limit and the delay of the last packet.
LEMMA LatestIsLeast ==
    ASSUME NEW list, Admissible(list), minQDelay \in Int
    PROVE  /\ LatestQDelay(list) \in 0 .. MaxQDelay
           /\ LatestQDelay(list) <= NewQDelay(list, Len(list))
           /\ \/ LatestQDelay(list) = MaxQDelay
              \/ \E i \in 1 .. Len(list) : LatestQDelay(list) = NewQDelay(list, i)
<1> DEFINE S == {MaxQDelay} \cup {NewQDelay(list, i) : i \in 1 .. Len(list)}
<1>1. Len(list) \in Nat \ {0}
    BY PacketOfReport
<1>2. \A i \in 1 .. Len(list) : NewQDelay(list, i) \in Nat
    <2> TAKE i \in 1 .. Len(list)
    <2>1. OneWay(list[i]) \in Int
        BY PacketOfReport
    <2>2. Base(list, i) \in Int /\ Base(list, i) <= OneWay(list[i])
        BY BaseIsLeast
    <2> QED
        BY <2>1, <2>2 DEF NewQDelay
<1>3. S \in SUBSET Int /\ S # {} /\ \A x \in S : 0 <= x
    BY <1>2, VirtualQueueAssumption
<1>4. Min(S) \in S /\ \A x \in S : Min(S) <= x
    <2> HIDE DEF S
    <2> QED
        BY <1>3, MinOfBounded
<1>5. MaxQDelay \in S /\ NewQDelay(list, Len(list)) \in S
    BY <1>1
<1>6. LatestQDelay(list) = Min(S)
    BY DEF LatestQDelay
<1>7. Min(S) = MaxQDelay \/ \E i \in 1 .. Len(list) : Min(S) = NewQDelay(list, i)
    BY <1>4
<1> HIDE DEF S
<1>8. Min(S) \in Int /\ 0 <= Min(S) /\ Min(S) <= MaxQDelay
    BY <1>3, <1>4, <1>5
<1>9. Min(S) <= NewQDelay(list, Len(list))
    BY <1>4, <1>5
<1>10. LatestQDelay(list) \in 0 .. MaxQDelay
    BY <1>6, <1>8, VirtualQueueAssumption
<1> QED
    BY <1>6, <1>7, <1>9, <1>10

-----------------------------------------------------------------------------
(* The invariant of the virtual queue *)

\* What is left of the last report in the virtual queue has not left it later
\* than the network let the last packet arrive, measured from the base.
Backlog ==
    vq # <<>> =>
        /\ ivqSt <= vq[Len(vq)].sent
        /\ lastQDelay # 0 =>
            ivqSt + UsPerMs * lastQDelay < UsPerMs * (vq[Len(vq)].rcvd - minQDelay + 1)

\* The invariant of the virtual queue: its types, a loop that has ended, an empty
\* queue without delay, and a bounded backlog.
QueueInv ==
    /\ QueueTypeOK
    /\ ~stuck
    /\ vq = <<>> => lastQDelay = 0 /\ ivqSt = 0
    /\ Backlog

\* Products with UsPerMs, for the provers.
LEMMA Ticks ==
    ASSUME NEW a \in Int, NEW b \in Int
    PROVE  /\ UsPerMs * a \in Int
           /\ UsPerMs * (a + b) = UsPerMs * a + UsPerMs * b
           /\ UsPerMs * (a - b) = UsPerMs * a - UsPerMs * b
           /\ a <= b => UsPerMs * a <= UsPerMs * b
           /\ a * UsPerMs = UsPerMs * a
BY VirtualQueueAssumption

\* The delay of packet i in ticks, seen from a base not above m.
LEMMA DelayInTicks ==
    ASSUME NEW list, Admissible(list), minQDelay \in Int, NEW i \in 1 .. Len(list)
    PROVE  UsPerMs * (list[i].rcvd - minQDelay + 1)
             <= UsPerMs * (NewQDelay(list, i) + 1) + list[i].sent
<1> DEFINE s == list[i].sent
           r == list[i].rcvd
           w == s \div UsPerMs
           b == Base(list, i)
<1>1. s \in Nat /\ r \in Nat
    BY PacketOfReport
<1>2. w \in Nat /\ UsPerMs * w <= s
    BY <1>1, WholeMs
<1>3. b \in Int /\ b <= minQDelay
    BY BaseIsLeast
<1>4. NewQDelay(list, i) + 1 = (r - b + 1) - w
    BY <1>1, <1>2, <1>3 DEF NewQDelay, OneWay
<1> HIDE DEF s, r, w, b
<1>5. UsPerMs * ((r - b + 1) - w) = UsPerMs * (r - b + 1) - UsPerMs * w
    BY <1>1, <1>2, <1>3, Ticks
<1>6. UsPerMs * (r - minQDelay + 1) <= UsPerMs * (r - b + 1)
    <2>1. r - minQDelay + 1 \in Int /\ r - b + 1 \in Int /\ r - minQDelay + 1 <= r - b + 1
        BY <1>1, <1>3
    <2> QED
        BY <2>1, Ticks
<1>7. /\ UsPerMs * (r - minQDelay + 1) \in Int /\ UsPerMs * (r - b + 1) \in Int
      /\ UsPerMs * w \in Int
    <2>1. r - minQDelay + 1 \in Int /\ r - b + 1 \in Int /\ w \in Int /\ 0 \in Int
        BY <1>1, <1>2, <1>3
    <2> QED
        BY <2>1, Ticks
<1>8. UsPerMs * (r - minQDelay + 1) <= UsPerMs * (NewQDelay(list, i) + 1) + s
    BY <1>1, <1>2, <1>4, <1>5, <1>6, <1>7
<1> QED
    BY <1>8 DEF s, r

\* The last packet's delay, which is the most the next backlog can grow to.
LEMMA LastDelayInTicks ==
    ASSUME NEW list, Admissible(list), minQDelay \in Int
    PROVE  list[Len(list)].sent + UsPerMs * LatestQDelay(list)
             < UsPerMs * (list[Len(list)].rcvd - Base(list, Len(list)) + 1)
<1> DEFINE n == Len(list)
           s == list[n].sent
           r == list[n].rcvd
           w == s \div UsPerMs
           b == Base(list, n)
           q == LatestQDelay(list)
<1>1. n \in 1 .. n /\ s \in Nat /\ r \in Nat
    BY PacketOfReport
<1>2. w \in Nat /\ s < UsPerMs * w + UsPerMs
    BY <1>1, WholeMs
<1>3. b \in Int
    BY <1>1, BaseIsLeast
<1>4. q \in Int /\ q <= (r - b) - w
    BY <1>1, <1>2, <1>3, LatestIsLeast, VirtualQueueAssumption DEF NewQDelay, OneWay
<1> HIDE DEF n, s, r, w, b, q
<1>5. UsPerMs * q <= UsPerMs * ((r - b) - w)
    <2>1. (r - b) - w \in Int
        BY <1>1, <1>2, <1>3
    <2> QED
        BY <2>1, <1>4, Ticks
<1>6. UsPerMs * ((r - b) - w) = UsPerMs * (r - b) - UsPerMs * w
    BY <1>1, <1>2, <1>3, Ticks
<1>7. UsPerMs * ((r - b) + 1) = UsPerMs * (r - b) + UsPerMs
    <2>1. r - b \in Int /\ 1 \in Int /\ UsPerMs * 1 = UsPerMs
        BY <1>1, <1>3, VirtualQueueAssumption
    <2> QED
        BY <2>1, Ticks
<1>8. UsPerMs * q \in Int /\ UsPerMs * (r - b) \in Int /\ UsPerMs * w \in Int /\ UsPerMs \in Nat
    BY <1>1, <1>2, <1>3, <1>4, Ticks, VirtualQueueAssumption
<1>9. s + UsPerMs * q < UsPerMs * (r - b + 1)
    BY <1>1, <1>2, <1>5, <1>6, <1>7, <1>8
<1> QED
    BY <1>9 DEF n, s, r, b, q

-----------------------------------------------------------------------------
(* One report *)

\* Under the invariant the queue left over by the reports before has emptied
\* before the time a report allows its last packet.
LEMMA BacklogFits ==
    ASSUME QueueInv, NEW list, Admissible(list), Follows(list, vq)
    PROVE  PreviousDeparture
             < list[Len(list)].sent + VqBaseDelay + UsPerMs * (LatestQDelay(list) + 1)
<1> DEFINE s == list[Len(list)].sent
           q == LatestQDelay(list)
           last == vq[Len(vq)]
<1>1. s \in Nat /\ minQDelay \in Int /\ lastQDelay \in 0 .. MaxQDelay /\ ivqSt \in Nat
    BY PacketOfReport DEF QueueInv, QueueTypeOK
<1>2. q \in 0 .. MaxQDelay
    BY <1>1, LatestIsLeast
<1>3. UsPerMs * (q + 1) \in Int /\ UsPerMs * (q + 1) > 0
    <2>1. q + 1 \in Nat \ {0}
        BY <1>2, VirtualQueueAssumption
    <2> HIDE DEF q
    <2> QED
        BY <2>1, VirtualQueueAssumption
<1>4. CASE lastQDelay = 0
    <2> HIDE DEF s, q
    <2> QED
        BY <1>1, <1>3, <1>4, VirtualQueueAssumption DEF PreviousDeparture, s, q
<1>5. CASE lastQDelay # 0
    <2>1. vq # <<>> /\ vq \in Seq(QDelayData)
        BY <1>5 DEF QueueInv, QueueTypeOK
    <2>2. Len(vq) \in 1 .. Len(vq) /\ last \in QDelayData
        BY <2>1
    <2>3. last.sent \in Nat /\ last.rcvd \in Nat
        BY <2>2 DEF QDelayData
    <2>4. /\ ivqSt <= last.sent
          /\ ivqSt + UsPerMs * lastQDelay < UsPerMs * (last.rcvd - minQDelay + 1)
        BY <2>1, <1>5 DEF QueueInv, Backlog
    <2>5. \A i \in 1 .. Len(list) : last.sent <= list[i].sent /\ last.rcvd <= list[i].rcvd
        BY <2>2 DEF Follows
    <2>6. UsPerMs * lastQDelay \in Int
        BY <1>1, Ticks, VirtualQueueAssumption
    <2>7. ivqSt + UsPerMs * lastQDelay < s + UsPerMs * (q + 1)
        <3>1. CASE q = MaxQDelay
            <4>1. lastQDelay \in Int /\ q + 1 \in Int /\ lastQDelay <= q + 1
                BY <1>1, <1>2, <3>1, VirtualQueueAssumption
            <4>2. UsPerMs * lastQDelay < UsPerMs * (q + 1)
                BY <1>1, <3>1, VirtualQueueAssumption
            <4>3. ivqSt <= s
                BY <1>1, <2>3, <2>4, <2>5, PacketOfReport
            <4> HIDE DEF s, q
            <4> QED
                BY <1>1, <1>3, <2>6, <4>2, <4>3
        <3>2. ASSUME NEW i \in 1 .. Len(list), q = NewQDelay(list, i)
              PROVE  ivqSt + UsPerMs * lastQDelay < s + UsPerMs * (q + 1)
            <4> DEFINE r == list[i].rcvd
            <4>1. r \in Nat /\ list[i].sent \in Nat /\ list[i].sent <= s
                BY PacketOfReport
            <4>2. UsPerMs * (r - minQDelay + 1) <= UsPerMs * (q + 1) + list[i].sent
                BY <1>1, <3>2, DelayInTicks
            <4>3. /\ last.rcvd - minQDelay + 1 \in Int /\ r - minQDelay + 1 \in Int
                  /\ last.rcvd - minQDelay + 1 <= r - minQDelay + 1
                <5>1. last.rcvd <= r
                    BY <2>5
                <5> HIDE DEF last, r
                <5> QED
                    BY <1>1, <2>3, <4>1, <5>1
            <4>4. /\ UsPerMs * (last.rcvd - minQDelay + 1) <= UsPerMs * (r - minQDelay + 1)
                  /\ UsPerMs * (last.rcvd - minQDelay + 1) \in Int
                  /\ UsPerMs * (r - minQDelay + 1) \in Int
                <5> DEFINE x == last.rcvd - minQDelay + 1
                           y == r - minQDelay + 1
                <5>1. x \in Int /\ y \in Int /\ x <= y
                    BY <4>3
                <5> HIDE DEF x, y
                <5>2. UsPerMs * x <= UsPerMs * y /\ UsPerMs * x \in Int /\ UsPerMs * y \in Int
                    BY <5>1, Ticks
                <5> QED
                    BY <5>2 DEF x, y
            <4> HIDE DEF s, q, r, last
            <4> QED
                BY <1>1, <1>3, <2>4, <2>6, <4>1, <4>2, <4>4, SMTT(20)
        <3> QED
            BY <1>1, <3>1, <3>2, LatestIsLeast
    <2>8. lastQDelay * UsPerMs = UsPerMs * lastQDelay
        BY <1>1, VirtualQueueAssumption
    <2> HIDE DEF s, q
    <2> QED
        BY <1>1, <1>3, <1>5, <2>6, <2>7, <2>8, VirtualQueueAssumption DEF PreviousDeparture, s, q
<1> QED
    BY <1>4, <1>5

\* With services that take no time the last turn is reached.
LEMMA SomeTurnIsLast ==
    ASSUME QueueInv, NEW list, Admissible(list), Follows(list, vq)
    PROVE  \E service \in Services : LastTurn(list, LatestQDelay(list), service)
<1> DEFINE s == list[Len(list)].sent
           q == LatestQDelay(list)
           d == s + VqBaseDelay + UsPerMs * (q + 1)
<1>1. Len(list) \in Nat /\ \A i \in 1 .. Len(list) : list[i].sent \in Nat /\ list[i].sent <= s
    BY PacketOfReport
<1>2. s \in Nat /\ minQDelay \in Int
    BY PacketOfReport DEF QueueInv, QueueTypeOK
<1>3. q \in 0 .. MaxQDelay
    BY <1>2, LatestIsLeast
<1>4. UsPerMs * (q + 1) \in Int /\ UsPerMs * (q + 1) > 0
    <2>1. q + 1 \in Nat \ {0}
        BY <1>3, VirtualQueueAssumption
    <2> HIDE DEF q
    <2> QED
        BY <2>1, VirtualQueueAssumption
<1>5. PreviousDeparture < d
    BY BacklogFits
<1>6. PreviousDeparture \in Int
    BY VirtualQueueAssumption DEF PreviousDeparture, QueueInv, QueueTypeOK
<1>7. PreviousDeparture + Len(list) * 0 < d
    <2>1. Len(list) * 0 = 0
        BY <1>1
    <2> HIDE DEF d
    <2> QED
        BY <1>5, <1>6, <2>1
<1>8. \A i \in 1 .. Len(list) : list[i].sent + (Len(list) - i + 1) * 0 < d
    <2> TAKE i \in 1 .. Len(list)
    <2>1. (Len(list) - i + 1) * 0 = 0
        BY <1>1
    <2>2. list[i].sent < d
        <3> HIDE DEF q
        <3> QED
            BY <1>1, <1>2, <1>4, VirtualQueueAssumption
    <2> HIDE DEF d
    <2> QED
        BY <1>1, <2>1, <2>2
<1>9. LastTurn(list, q, 0)
    BY <1>7, <1>8 DEF LastTurn, LeavesBefore
<1> QED
    BY <1>9, VirtualQueueAssumption

-----------------------------------------------------------------------------
(* Every run of the virtual queue *)

\* The invariant holds of the empty queue.
LEMMA QueueStart == QueueInit => QueueInv
<1> SUFFICES ASSUME QueueInit PROVE QueueInv
    OBVIOUS
<1>1. QueueTypeOK
    <2>1. vq \in Seq(QDelayData)
        BY DEF QueueInit
    <2>2. minQDelay \in Int /\ lastQDelay \in 0 .. MaxQDelay /\ ivqSt \in Nat
        BY VirtualQueueAssumption DEF QueueInit
    <2>3. estimated \in BOOLEAN /\ stuck \in BOOLEAN
        BY DEF QueueInit
    <2> QED
        BY <2>1, <2>2, <2>3 DEF QueueTypeOK
<1> QED
    BY <1>1 DEF QueueInit, QueueInv, Backlog

\* Every report, used by updateInternalVQDelay to its end, keeps the invariant.
LEMMA QueueStep == QueueInv /\ Report => QueueInv'
<1> SUFFICES ASSUME QueueInv, Report PROVE QueueInv'
    OBVIOUS
<1> DEFINE list == vq'
           s == list[Len(list)].sent
           r == list[Len(list)].rcvd
           q == LatestQDelay(list)
<1>1. Admissible(list) /\ Follows(list, vq)
    BY DEF Report, Admissible
<1>2. /\ minQDelay' = Base(list, Len(list))
      /\ lastQDelay' = q
      /\ UpdateInternalVQDelay(list, q)
    BY DEF Report, EstiQDelay
<1>3. minQDelay \in Int /\ ivqSt \in Nat /\ ~stuck
    BY DEF QueueInv, QueueTypeOK
<1>4. s \in Nat /\ r \in Nat /\ Len(list) \in 1 .. Len(list)
    BY <1>1, PacketOfReport
<1>5. q \in 0 .. MaxQDelay /\ minQDelay' \in Int
    BY <1>1, <1>2, <1>3, <1>4, BaseIsLeast, LatestIsLeast
<1>6. s + UsPerMs * q < UsPerMs * (r - minQDelay' + 1)
    BY <1>1, <1>2, <1>3, LastDelayInTicks
<1>7. ivqSt' \in Nat /\ ivqSt' <= s
    <2>1. ivqSt <= s
        <3>1. CASE vq = <<>>
            <4>1. ivqSt = 0
                BY <3>1 DEF QueueInv
            <4> HIDE DEF s
            <4> QED
                BY <1>4, <4>1
        <3>2. CASE vq # <<>>
            <4>1. Len(vq) \in 1 .. Len(vq) /\ vq[Len(vq)] \in QDelayData
                BY <3>2 DEF QueueInv, QueueTypeOK
            <4>2. vq[Len(vq)].sent \in Nat /\ ivqSt <= vq[Len(vq)].sent
                BY <3>2, <4>1 DEF QueueInv, Backlog, QDelayData
            <4>3. vq[Len(vq)].sent <= s
                BY <1>1, <1>4, <4>1 DEF Follows
            <4> HIDE DEF s
            <4> QED
                BY <1>3, <1>4, <4>2, <4>3
        <3> QED
            BY <3>1, <3>2
    <2>2. ivqSt' \in {ivqSt, 0, s}
        BY <1>2 DEF UpdateInternalVQDelay
    <2> HIDE DEF s
    <2> QED
        BY <1>3, <1>4, <2>1, <2>2
<1>8. ~stuck'
    <2>1. \E service \in Services : LastTurn(list, q, service)
        BY <1>1, SomeTurnIsLast
    <2> HIDE DEF q, list
    <2> QED
        BY <1>2, <1>3, <2>1 DEF UpdateInternalVQDelay
<1>9. QueueTypeOK'
    <2>1. vq' \in Seq(QDelayData) /\ estimated' \in BOOLEAN
        BY DEF Report
    <2>2. stuck' \in BOOLEAN
        <3>1. stuck \in BOOLEAN
            BY DEF QueueInv, QueueTypeOK
        <3> QED
            BY <1>2, <3>1, Zenon DEF UpdateInternalVQDelay
    <2>3. lastQDelay' \in 0 .. MaxQDelay
        BY <1>2, <1>5
    <2> HIDE DEF list, q, s
    <2> QED
        BY <1>5, <1>7, <2>1, <2>2, <2>3 DEF QueueTypeOK
<1>10. Backlog'
    <2>1. UsPerMs * q \in Int /\ UsPerMs * (r - minQDelay' + 1) \in Int
        <3>1. q \in Int /\ r - minQDelay' + 1 \in Int
            <4> HIDE DEF q, r
            <4> QED
                BY <1>4, <1>5, VirtualQueueAssumption
        <3> HIDE DEF q, r
        <3> QED
            BY <3>1, Ticks
    <2>2. ivqSt' + UsPerMs * q < UsPerMs * (r - minQDelay' + 1)
        <3> HIDE DEF q, r, s
        <3> QED
            BY <1>4, <1>6, <1>7, <2>1
    <2> HIDE DEF q
    <2> QED
        BY <1>2, <1>7, <2>2 DEF Backlog
<1>11. vq' # <<>>
    BY DEF Report
<1> QED
    BY <1>8, <1>9, <1>10, <1>11 DEF QueueInv

\* The invariant holds of the virtual queue on its own.
LEMMA QueueInvariant == QueueSpec => []QueueInv
<1>1. QueueInv /\ [Report]_queueVars => QueueInv'
    <2>1. CASE Report
        BY <2>1, QueueStep
    <2>2. CASE UNCHANGED queueVars
        BY <2>2 DEF queueVars, QueueInv, QueueTypeOK, Backlog
    <2> QED
        BY <2>1, <2>2
<1> QED
    BY <1>1, QueueStart, PTL DEF QueueSpec

\* The virtual queue's variables stay within their types; in particular the
\* delay that estiQDelay reports is never above the limit it starts from.
THEOREM QueueTypes == QueueSpec => []QueueTypeOK
<1>1. QueueInv => QueueTypeOK
    BY DEF QueueInv
<1> QED
    BY <1>1, QueueInvariant, PTL

\* The loop of updateInternalVQDelay ends in every report, whatever packets
\* the reports name, as long as they name them in order: raising the estimated
\* bandwidth brings the virtual delay below the network's.
THEOREM LoopAlwaysEnds == QueueSpec => []LoopEnds
<1>1. QueueInv => LoopEnds
    BY DEF QueueInv, LoopEnds
<1> QED
    BY <1>1, QueueInvariant, PTL

-----------------------------------------------------------------------------
(* Numbers, ranges and lists *)

\* A number that is off by at most one turn, on the circle.
LEMMA OneTurn ==
    ASSUME NEW m \in Nat \ {0}, NEW x \in 0 .. m - 1
    PROVE  x % m = x /\ (x + m) % m = x /\ (x - m) % m = x
<1>1. x % m = x
    OBVIOUS
<1>2. (x + m) % m = x
    OBVIOUS
<1>3. (x - m) % m = x
    OBVIOUS
<1> QED
    BY <1>1, <1>2, <1>3

\* A member no greater than any other is the least one.
LEMMA MinIs ==
    ASSUME NEW S \in SUBSET Int, NEW m \in S, \A x \in S : m <= x
    PROVE  Min(S) = m
<1>1. \A x \in S : (\A y \in S : x <= y) => x = m
    OBVIOUS
<1> QED
    BY <1>1 DEF Min

\* A member no smaller than any other is the greatest one.
LEMMA MaxIs ==
    ASSUME NEW S \in SUBSET Int, NEW m \in S, \A x \in S : x <= m
    PROVE  Max(S) = m
<1>1. \A x \in S : (\A y \in S : x >= y) => x = m
    OBVIOUS
<1>2. \A y \in S : m >= y
    OBVIOUS
<1> QED
    BY <1>1, <1>2 DEF Max

\* How far b is behind a on the circle of numbers determines b.
LEMMA Distance ==
    ASSUME NEW a \in Sequences16, NEW b \in Sequences16
    PROVE  /\ Diff(a, b) \in 0 .. SeqMod - 1 /\ Diff(a, b) \in Int
           /\ b = a - Diff(a, b) \/ b = a - Diff(a, b) + SeqMod
           /\ b \in Int
BY SeqModAssumption DEF Sequences16, Diff

\* Two numbers at the same distance are the same.
LEMMA SameDistance ==
    ASSUME NEW a \in Sequences16, NEW b \in Sequences16, NEW c \in Sequences16,
           Diff(a, b) = Diff(a, c)
    PROVE  b = c
BY SeqModAssumption DEF Sequences16, Diff

\* oldest and newest are the furthest and the nearest behind ref of the numbers
\* in S, and no more than WrapFront apart.
Window(S, ref, oldest, newest) ==
    /\ oldest \in S /\ newest \in S
    /\ \A s \in S : Diff(ref, newest) <= Diff(ref, s) /\ Diff(ref, s) <= Diff(ref, oldest)
    /\ Diff(ref, oldest) - Diff(ref, newest) <= WrapFront

\* The proportions of the circle: what may share a block spans less than half.
LEMMA Halves ==
    /\ SeqMod \in Nat /\ SeqMod >= 4 /\ Half \in Nat /\ WrapFront \in Nat
    /\ 2 * WrapFront <= Half + 1 /\ Half + WrapFront < SeqMod /\ WrapFront + 1 < SeqMod
<1>1. /\ SeqMod \in Nat /\ SeqMod >= 4 /\ Half \in Nat /\ WrapFront \in Nat
      /\ 2 * WrapFront <= Half + 1 /\ Half + WrapFront < SeqMod
    BY SeqModAssumption, RfbHeaderAssumption, FlowAssumption DEF Sequences16
<1> QED
    BY <1>1

\* The cases of CalcCountEndSeq.
Front(S) == {s \in S : s <= Half}
Rear(S) == S \ Front(S)

\* The cases of CalcCountEndSeq: all numbers in one half, a wrap between them, or
\* the middle of the circle between them.
LEMMA CountEndCases ==
    ASSUME NEW S, S # {}
    PROVE  /\ Rear(S) = {} => CountEnd(S) = Span(Min(Front(S)), Max(Front(S)))
           /\ Front(S) = {} => CountEnd(S) = Span(Min(Rear(S)), Max(Rear(S)))
           /\ Rear(S) # {} /\ Front(S) # {} /\ HasWrapped(Front(S))
                => CountEnd(S) = Span(Min(Rear(S)), Max(Front(S)) + SeqMod)
           /\ Rear(S) # {} /\ Front(S) # {} /\ ~HasWrapped(Front(S))
                => CountEnd(S) = Span(Min(Front(S)), Max(Rear(S)))
<1>1. CASE Rear(S) = {}
    <2>1. Front(S) # {}
        BY <1>1 DEF Front, Rear
    <2> QED
        BY <1>1, <2>1, Zenon DEF CountEnd, Front, Rear
<1>2. CASE Front(S) = {}
    <2>1. Rear(S) # {}
        BY <1>2 DEF Front, Rear
    <2> QED
        BY <1>2, <2>1, Zenon DEF CountEnd, Front, Rear
<1>3. CASE Rear(S) # {} /\ Front(S) # {}
    <2>1. CASE HasWrapped(Front(S))
        BY <1>3, <2>1, Zenon DEF CountEnd, Front, Rear
    <2>2. CASE ~HasWrapped(Front(S))
        BY <1>3, <2>2, Zenon DEF CountEnd, Front, Rear
    <2> QED
        BY <1>3, <2>1, <2>2
<1> QED
    BY <1>1, <1>2, <1>3

\* CalcCountEndSeq finds where such a set begins and ends.
LEMMA CountEndOfWindow ==
    ASSUME NEW S \in SUBSET Sequences16, NEW ref \in Sequences16, NEW o, NEW n,
           Window(S, ref, o, n)
    PROVE  /\ CountEnd(S).count = Diff(ref, o) - Diff(ref, n) + 1
           /\ CountEnd(S).end = n
<1> DEFINE front == Front(S)
           rear == Rear(S)
           c == Diff(ref, o) - Diff(ref, n) + 1
<1>1. o \in Sequences16 /\ n \in Sequences16 /\ o \in S /\ n \in S /\ S # {}
    BY DEF Window
<1>2. /\ front = {s \in S : s <= Half} /\ rear = {s \in S : Half < s}
      /\ S \in SUBSET Int /\ front \in SUBSET Nat /\ rear \in SUBSET Int
    <2>1. S \in SUBSET Nat
        BY Halves DEF Sequences16
    <2>2. \A s \in S : s <= Half <=> ~(Half < s)
        BY <2>1, Halves
    <2>3. front = {s \in S : s <= Half} /\ rear = {s \in S : Half < s}
        BY <2>2 DEF Front, Rear
    <2>4. \A s \in S : s \in Nat /\ s \in Int
        BY <2>1
    <2> HIDE DEF front, rear
    <2>5. S \in SUBSET Int /\ front \in SUBSET Nat /\ rear \in SUBSET Int
        BY <2>3, <2>4
    <2> QED
        BY <2>3, <2>5
<1>3. c \in 1 .. WrapFront + 1 /\ c \in 0 .. SeqMod - 1
    BY <1>1, Halves, Distance DEF Window
<1>4. n \in 0 .. SeqMod - 1 /\ o \in 0 .. SeqMod - 1
    BY <1>1 DEF Sequences16
<1>5. c % SeqMod = c /\ n % SeqMod = n /\ (n + SeqMod) % SeqMod = n
    <2> HIDE DEF c
    <2> QED
        BY <1>3, <1>4, Halves, OneTurn
<1>6. /\ rear = {} => CountEnd(S) = Span(Min(front), Max(front))
      /\ front = {} => CountEnd(S) = Span(Min(rear), Max(rear))
      /\ rear # {} /\ front # {} =>
            IF Min(front) < WrapFront THEN CountEnd(S) = Span(Min(rear), Max(front) + SeqMod)
            ELSE CountEnd(S) = Span(Min(front), Max(rear))
    BY <1>1, CountEndCases DEF HasWrapped
<1> HIDE DEF front, rear
<1>7. CASE o <= n
    <2>1. /\ n - o + 1 = c
          /\ \A s \in S : o <= s /\ s <= n
        BY <1>1, <1>7, Halves DEF Window, Diff, Sequences16
    <2>2. CountEnd(S) = Span(o, n)
        <3>1. CASE n <= Half
            <4>1. front = S /\ rear = {}
                <5>1. \A s \in S : s <= Half /\ ~(Half < s)
                    BY <1>2, <1>4, <2>1, <3>1, Halves
                <5> QED
                    BY <1>2, <5>1
            <4>2. Min(front) = o /\ Max(front) = n
                BY <1>1, <1>2, <2>1, <4>1, MinIs, MaxIs
            <4> QED
                BY <1>6, <4>1, <4>2
        <3>2. CASE o > Half
            <4>1. front = {} /\ rear = S
                <5>1. \A s \in S : ~(s <= Half) /\ Half < s
                    BY <1>2, <1>4, <2>1, <3>2, Halves
                <5> QED
                    BY <1>2, <5>1
            <4>2. Min(rear) = o /\ Max(rear) = n
                BY <1>1, <1>2, <2>1, <4>1, MinIs, MaxIs
            <4> QED
                BY <1>6, <4>1, <4>2
        <3>3. CASE o <= Half /\ Half < n
            <4>1. o \in front /\ n \in rear /\ front \in SUBSET Int
                BY <1>1, <1>2, <3>3
            <4>2. \A s \in front : o <= s
                BY <1>2, <2>1
            <4>3. \A s \in rear : s <= n
                BY <1>2, <2>1
            <4>4. Min(front) = o /\ Max(rear) = n
                BY <1>2, <4>1, <4>2, <4>3, MinIs, MaxIs
            <4>5. o >= WrapFront
                BY <1>3, <1>4, <2>1, <3>3, Halves
            <4>6. ~(Min(front) < WrapFront)
                BY <1>4, <4>4, <4>5, Halves
            <4> QED
                BY <1>6, <4>1, <4>4, <4>6
        <3> QED
            BY <1>4, <3>1, <3>2, <3>3, Halves
    <2>3. (n - o + 1) % SeqMod = c
        BY <1>5, <2>1
    <2> QED
        BY <1>5, <2>2, <2>3 DEF Span
<1>8. CASE n < o
    <2>1. /\ n + SeqMod - o + 1 = c
          /\ \A s \in S : s >= o \/ s <= n
        BY <1>1, <1>8, Halves DEF Window, Diff, Sequences16
    <2>2. n < WrapFront /\ n <= Half /\ Half < o
        <3> HIDE DEF c
        <3> QED
            BY <1>3, <1>4, <2>1, Halves
    <2>3. n \in front /\ o \in rear
        BY <1>1, <1>2, <2>2
    <2>4. \A s \in front : s <= n
        BY <1>2, <1>4, <2>1, <2>2, Halves
    <2>5. \A s \in rear : o <= s
        BY <1>2, <1>4, <2>1, <2>2, Halves
    <2>6. Max(front) = n /\ Min(rear) = o
        <3>1. front \in SUBSET Int
            BY <1>2
        <3> QED
            BY <1>2, <2>3, <2>4, <2>5, <3>1, MinIs, MaxIs
    <2>7. Min(front) \in Int /\ Min(front) <= n
        <3>1. PICK m \in front : \A s \in front : m <= s
            BY <1>2, <2>3, LeastNat
        <3>2. Min(front) = m
            <4>1. front \in SUBSET Int
                BY <1>2
            <4> QED
                BY <3>1, <4>1, MinIs
        <3> QED
            BY <1>2, <2>3, <3>1, <3>2
    <2>8. Min(front) < WrapFront
        BY <1>4, <2>2, <2>7, Halves
    <2>9. CountEnd(S) = Span(o, n + SeqMod)
        BY <1>6, <2>3, <2>6, <2>8
    <2> DEFINE hi == n + SeqMod
    <2>10. (hi - o + 1) % SeqMod = c /\ hi % SeqMod = n
        <3> HIDE DEF c
        <3>1. hi - o + 1 = c
            BY <1>3, <1>4, <2>1, Halves
        <3>2. hi % SeqMod = n
            BY <1>5
        <3> HIDE DEF hi
        <3> QED
            BY <1>5, <3>1, <3>2
    <2>11. CountEnd(S) = Span(o, hi)
        BY <2>9
    <2> HIDE DEF hi
    <2> QED
        BY <2>10, <2>11 DEF Span
<1> QED
    BY <1>4, <1>7, <1>8

\* Numbers no more than WrapFront apart have an oldest and a newest one.
Near(S, ref) == \A s, t \in S : Diff(ref, s) - Diff(ref, t) <= WrapFront

\* Numbers that are near each other form a window with an oldest and a newest one.
LEMMA SomeWindow ==
    ASSUME NEW S \in SUBSET Sequences16, S # {}, NEW ref \in Sequences16, Near(S, ref)
    PROVE  \E o, n \in S : Window(S, ref, o, n)
<1> DEFINE Ages == {Diff(ref, s) : s \in S}
           Youths == {SeqMod - 1 - Diff(ref, s) : s \in S}
<1>1. \A s \in S : Diff(ref, s) \in 0 .. SeqMod - 1
    BY Distance
<1>2. Ages \in SUBSET Nat /\ Ages # {} /\ Youths \in SUBSET Nat /\ Youths # {}
    BY <1>1, Halves
<1>3. \E n \in S : \A s \in S : Diff(ref, n) <= Diff(ref, s)
    <2>1. \E t \in Ages : \A u \in Ages : t <= u
        <3> HIDE DEF Ages
        <3> QED
            BY <1>2, LeastNat
    <2> QED
        BY <2>1
<1>4. \E o \in S : \A s \in S : Diff(ref, s) <= Diff(ref, o)
    <2>1. \E t \in Youths : \A u \in Youths : t <= u
        <3> HIDE DEF Youths
        <3> QED
            BY <1>2, LeastNat
    <2>2. PICK o \in S : \A s \in S : SeqMod - 1 - Diff(ref, o) <= SeqMod - 1 - Diff(ref, s)
        BY <2>1
    <2>3. \A s \in S : Diff(ref, s) <= Diff(ref, o)
        <3> TAKE s \in S
        <3> DEFINE x == Diff(ref, s)
                   y == Diff(ref, o)
        <3>1. x \in Int /\ y \in Int /\ SeqMod - 1 - y <= SeqMod - 1 - x
            BY <1>1, <2>2
        <3> HIDE DEF x, y
        <3>2. x <= y
            BY <3>1, Halves
        <3> QED
            BY <3>2 DEF x, y
    <2> QED
        BY <2>3
<1> QED
    BY <1>3, <1>4 DEF Window, Near

\* The range of a block runs from its oldest number to its newest.
LEMMA RangeOfWindow ==
    ASSUME NEW S \in SUBSET Sequences16, NEW ref \in Sequences16, NEW o, NEW n,
           Window(S, ref, o, n)
    PROVE  LET c == CountEnd(S).count
               r == InRange(CountEnd(S))
           IN  /\ c \in 1 .. WrapFront + 1
               /\ r = [i \in 1 .. c |-> r[i]] /\ DOMAIN r = 1 .. c /\ Len(r) = c
               /\ \A i \in 1 .. c : r[i] \in Sequences16 /\ Diff(ref, r[i]) = Diff(ref, o) + 1 - i
               /\ \A s \in S : \E i \in 1 .. c : r[i] = s
<1> DEFINE c == CountEnd(S).count
           r == InRange(CountEnd(S))
           At(i) == n - c + i
<1>1. c = Diff(ref, o) - Diff(ref, n) + 1 /\ CountEnd(S).end = n
    BY CountEndOfWindow
<1>2. r = [i \in 1 .. c |-> At(i) % SeqMod]
    BY <1>1 DEF InRange
<1>3. o \in Sequences16 /\ n \in Sequences16
    BY DEF Window
<1>4. /\ Diff(ref, o) \in 0 .. SeqMod - 1 /\ Diff(ref, n) \in 0 .. SeqMod - 1
      /\ Diff(ref, n) <= Diff(ref, o) /\ Diff(ref, o) - Diff(ref, n) <= WrapFront
    BY <1>3, Distance DEF Window
<1>5. c \in 1 .. WrapFront + 1
    <2> HIDE DEF c
    <2> QED
        BY <1>1, <1>4, Halves
<1> HIDE DEF c, r
<1>6. ASSUME NEW i \in 1 .. c
      PROVE  r[i] \in Sequences16 /\ Diff(ref, r[i]) = Diff(ref, o) + 1 - i
    <2>1. n \in 0 .. SeqMod - 1 /\ At(i) \in Int /\ At(i) <= n /\ At(i) > n - SeqMod
        BY <1>3, <1>5, Halves DEF Sequences16
    <2>2. r[i] = At(i) % SeqMod
        BY <1>2
    <2>3. CASE At(i) >= 0
        <3>1. At(i) \in 0 .. SeqMod - 1
            BY <2>1, <2>3, Halves
        <3>2. At(i) % SeqMod = At(i)
            <4> HIDE DEF At
            <4> QED
                BY <3>1, Halves, OneTurn
        <3> QED
            BY <1>1, <1>3, <1>4, <1>5, <2>2, <3>1, <3>2, Halves DEF Diff, Sequences16
    <2>4. CASE At(i) < 0
        <3> DEFINE x == At(i) + SeqMod
        <3>1. x \in 0 .. SeqMod - 1 /\ At(i) = x - SeqMod
            BY <2>1, <2>4, Halves
        <3>2. r[i] = x
            <4> HIDE DEF At, x
            <4> QED
                BY <2>2, <3>1, Halves, OneTurn
        <3> QED
            BY <1>1, <1>3, <1>4, <1>5, <2>4, <3>1, <3>2, Halves DEF Diff, Sequences16
    <2> QED
        BY <2>1, <2>3, <2>4
<1>7. ASSUME NEW s \in S
      PROVE  \E i \in 1 .. c : r[i] = s
    <2> DEFINE i == Diff(ref, o) - Diff(ref, s) + 1
    <2>1. /\ s \in Sequences16 /\ Diff(ref, s) \in 0 .. SeqMod - 1
          /\ Diff(ref, n) <= Diff(ref, s) /\ Diff(ref, s) <= Diff(ref, o)
        BY Distance DEF Window
    <2>2. i \in 1 .. c
        BY <1>1, <1>4, <2>1
    <2>3. Diff(ref, r[i]) = Diff(ref, s) /\ r[i] \in Sequences16
        <3>1. Diff(ref, r[i]) = Diff(ref, o) + 1 - i /\ r[i] \in Sequences16
            <4> HIDE DEF i
            <4> QED
                BY <1>6, <2>2
        <3>2. Diff(ref, o) + 1 - i = Diff(ref, s)
            BY <1>4, <2>1
        <3> QED
            BY <3>1, <3>2
    <2>4. r[i] = s
        BY <2>1, <2>3, SameDistance
    <2> HIDE DEF i
    <2> QED
        BY <2>2, <2>4
<1>8. r = [i \in 1 .. c |-> r[i]] /\ DOMAIN r = 1 .. c /\ Len(r) = c
    BY <1>2, <1>5, Halves
<1> QED
    BY <1>5, <1>6, <1>7, <1>8 DEF c, r

-----------------------------------------------------------------------------
(* The numbers of a set in increasing order *)

\* The members of P up to p; the k-th member of P.
Upto(P, p) == {j \in P : j <= p}

Kth(P, k) == CHOOSE i \in P : Cardinality(Upto(P, i)) = k

\* Every finite set of integers is numbered from its least to its greatest member.
LEMMA KthInOrder ==
    ASSUME NEW P \in SUBSET Int, IsFiniteSet(P)
    PROVE  /\ Cardinality(P) \in Nat
           /\ \A k \in 1 .. Cardinality(P) : Kth(P, k) \in P
           /\ \A k, l \in 1 .. Cardinality(P) : k < l => Kth(P, k) < Kth(P, l)
           /\ \A p \in P : \E k \in 1 .. Cardinality(P) : Kth(P, k) = p
<1> DEFINE pos == [p \in P |-> Cardinality(Upto(P, p))]
<1>1. Cardinality(P) \in Nat
    BY FS_CardinalityType
<1>2. ASSUME NEW p \in P
      PROVE  /\ IsFiniteSet(Upto(P, p)) /\ Upto(P, p) \in SUBSET P /\ p \in Upto(P, p)
             /\ pos[p] \in 1 .. Cardinality(P)
    <2>1. Upto(P, p) \in SUBSET P /\ p \in Upto(P, p)
        BY DEF Upto
    <2>2. IsFiniteSet(Upto(P, p)) /\ Cardinality(Upto(P, p)) <= Cardinality(P)
        BY <2>1, FS_Subset
    <2>3. Cardinality(Upto(P, p)) \in Nat /\ Cardinality(Upto(P, p)) # 0
        BY <2>1, <2>2, FS_CardinalityType, FS_EmptySet
    <2> QED
        BY <1>1, <2>1, <2>2, <2>3
<1>3. ASSUME NEW p \in P, NEW q \in P, p < q
      PROVE  pos[p] < pos[q]
    <2>1. Upto(P, p) \in SUBSET Upto(P, q) /\ q \notin Upto(P, p)
        <3>1. p \in Int /\ q \in Int /\ \A j \in P : j \in Int
            OBVIOUS
        <3>2. (\A j \in P : j <= p => j <= q) /\ ~(q <= p)
            BY <1>3, <3>1
        <3> QED
            BY <3>2 DEF Upto
    <2>2. /\ IsFiniteSet(Upto(P, q)) /\ q \in Upto(P, q)
          /\ pos[p] \in Int /\ pos[q] \in Int
        BY <1>1, <1>2
    <2>3. /\ pos[p] <= pos[q]
          /\ pos[q] = pos[p] => Upto(P, q) = Upto(P, p)
        BY <2>1, <2>2, FS_Subset
    <2> HIDE DEF pos
    <2> QED
        BY <2>1, <2>2, <2>3
<1> HIDE DEF pos
<1>4. ASSUME NEW p \in P, NEW q \in P, pos[p] <= pos[q]
      PROVE  p <= q
    BY <1>1, <1>2, <1>3, <1>4
<1>5. pos \in Surjection(P, 1 .. Cardinality(P))
    <2>1. pos \in [P -> 1 .. Cardinality(P)]
        BY <1>2 DEF pos
    <2>2. \A p, q \in P : pos[p] = pos[q] => p = q
        <3> SUFFICES ASSUME NEW p \in P, NEW q \in P, pos[p] = pos[q] PROVE p = q
            OBVIOUS
        <3>1. pos[p] \in Int /\ pos[q] \in Int
            BY <1>1, <1>2
        <3>2. p <= q /\ q <= p
            BY <1>4, <3>1
        <3> QED
            BY <3>2
    <2>3. pos \in Injection(P, 1 .. Cardinality(P))
        BY <2>1, <2>2 DEF Injection, IsInjective
    <2>4. /\ IsFiniteSet(1 .. Cardinality(P))
          /\ Cardinality(1 .. Cardinality(P)) = Cardinality(P)
        <3>1. 1 \in Int /\ Cardinality(P) \in Int
            BY <1>1
        <3> QED
            BY <1>1, <3>1, FS_Interval
    <2> QED
        BY <2>3, <2>4, FS_Injection
<1>6. \A k \in 1 .. Cardinality(P) : \E p \in P : pos[p] = k
    BY <1>5 DEF Surjection
<1>7. \A k \in 1 .. Cardinality(P) : Kth(P, k) \in P /\ pos[Kth(P, k)] = k
    BY <1>6 DEF Kth, pos
<1>8. \A p \in P : Kth(P, pos[p]) = p
    <2> TAKE p \in P
    <2>1. pos[p] \in 1 .. Cardinality(P) /\ pos[p] \in Int
        BY <1>1, <1>2
    <2>2. Kth(P, pos[p]) \in P /\ pos[Kth(P, pos[p])] = pos[p]
        BY <1>7, <2>1
    <2>3. Kth(P, pos[p]) <= p /\ p <= Kth(P, pos[p])
        <3>1. pos[p] <= pos[p]
            BY <2>1
        <3> QED
            BY <1>4, <2>2, <3>1
    <2>4. p \in Int /\ Kth(P, pos[p]) \in Int
        BY <2>2
    <2> QED
        BY <2>3, <2>4
<1>9. ASSUME NEW k \in 1 .. Cardinality(P), NEW l \in 1 .. Cardinality(P), k < l
      PROVE  Kth(P, k) < Kth(P, l)
    <2>1. /\ Kth(P, k) \in P /\ pos[Kth(P, k)] = k
          /\ Kth(P, l) \in P /\ pos[Kth(P, l)] = l
        BY <1>7
    <2>2. Kth(P, k) \in Int /\ Kth(P, l) \in Int /\ k \in Int /\ l \in Int /\ ~(l < k) /\ l # k
        <3>1. \A p \in P : p \in Int
            OBVIOUS
        <3>2. k \in Int /\ l \in Int /\ ~(l < k) /\ l # k
            BY <1>1, <1>9
        <3> QED
            BY <2>1, <3>1, <3>2
    <2>3. ~(Kth(P, l) < Kth(P, k))
        BY <1>3, <2>1, <2>2
    <2>4. Kth(P, l) # Kth(P, k)
        BY <2>1, <2>2
    <2> QED
        BY <2>2, <2>3, <2>4
<1> QED
    BY <1>1, <1>2, <1>7, <1>8, <1>9

\* Listing some of the numbers of a block goes from the oldest to the newest.
LEMMA ListedInOrder ==
    ASSUME NEW S \in SUBSET Sequences16, NEW ref \in Sequences16, NEW o, NEW n,
           Window(S, ref, o, n), NEW D \in SUBSET S
    PROVE  LET list == Listed(D, InRange(CountEnd(S)))
           IN  /\ Len(list) \in Nat /\ DOMAIN list = 1 .. Len(list)
               /\ \A i \in 1 .. Len(list) : list[i] \in D
               /\ \A i, j \in 1 .. Len(list) : i < j => Diff(ref, list[j]) < Diff(ref, list[i])
               /\ \A d \in D : \E i \in 1 .. Len(list) : list[i] = d
<1> DEFINE c == CountEnd(S).count
           r == InRange(CountEnd(S))
           P == Places(D, r)
           list == Listed(D, r)
<1>1. /\ c \in 1 .. WrapFront + 1 /\ DOMAIN r = 1 .. c
      /\ \A i \in 1 .. c : r[i] \in Sequences16 /\ Diff(ref, r[i]) = Diff(ref, o) + 1 - i
      /\ \A s \in S : \E i \in 1 .. c : r[i] = s
    BY RangeOfWindow
<1>2. Diff(ref, o) \in Int
    BY Distance DEF Window
<1> HIDE DEF c, r
<1>3. P \in SUBSET Int /\ P \in SUBSET (1 .. c) /\ IsFiniteSet(P)
    <2>1. P \in SUBSET (1 .. c)
        BY <1>1 DEF Places
    <2>2. 1 \in Int /\ c \in Int
        BY <1>1, Halves
    <2>3. IsFiniteSet(1 .. c)
        BY <2>2, FS_Interval
    <2>4. \A i \in 1 .. c : i \in Int
        BY <2>2
    <2> HIDE DEF P
    <2>5. IsFiniteSet(P)
        BY <2>1, <2>3, FS_Subset
    <2> QED
        BY <2>1, <2>4, <2>5
<1>4. /\ Cardinality(P) \in Nat
      /\ \A k \in 1 .. Cardinality(P) : Kth(P, k) \in P
      /\ \A k, l \in 1 .. Cardinality(P) : k < l => Kth(P, k) < Kth(P, l)
      /\ \A p \in P : \E k \in 1 .. Cardinality(P) : Kth(P, k) = p
    <2> HIDE DEF P
    <2> QED
        BY <1>3, KthInOrder
<1>5. list = [k \in 1 .. Cardinality(P) |-> r[Kth(P, k)]]
    BY DEF Listed, Kth, Upto
<1>6. \A p \in P : r[p] \in D
    BY DEF Places
<1>7. \A d \in D : \E p \in P : r[p] = d
    BY <1>1 DEF Places
<1> HIDE DEF P, list
<1>8. Len(list) = Cardinality(P) /\ DOMAIN list = 1 .. Len(list)
    BY <1>4, <1>5
<1>9. \A k \in 1 .. Len(list) : list[k] = r[Kth(P, k)] /\ Kth(P, k) \in P
    BY <1>4, <1>5, <1>8
<1>10. ASSUME NEW i \in 1 .. Len(list), NEW j \in 1 .. Len(list), i < j
       PROVE  Diff(ref, list[j]) < Diff(ref, list[i])
    <2> DEFINE p == Kth(P, i)
               q == Kth(P, j)
    <2>1. p \in 1 .. c /\ q \in 1 .. c /\ p < q
        BY <1>3, <1>4, <1>8, <1>10
    <2>2. Diff(ref, list[i]) = Diff(ref, o) + 1 - p /\ Diff(ref, list[j]) = Diff(ref, o) + 1 - q
        <3>1. list[i] = r[p] /\ list[j] = r[q]
            BY <1>9
        <3> HIDE DEF p, q
        <3> QED
            BY <1>1, <2>1, <3>1
    <2> HIDE DEF p, q
    <2> QED
        BY <1>1, <1>2, <2>1, <2>2
<1>11. \A i \in 1 .. Len(list) : list[i] \in D
    BY <1>6, <1>9
<1>12. \A d \in D : \E i \in 1 .. Len(list) : list[i] = d
    BY <1>4, <1>7, <1>8, <1>9
<1> QED
    BY <1>4, <1>8, <1>10, <1>11, <1>12 DEF list, r

-----------------------------------------------------------------------------
(* One block, there and back *)

\* What a header holds of a packet received.
Stamp == [ts : Nat, ecn : 0 .. 3]

\* A block of one stream and the range and metrics written for it.
BlockType(b) ==
    /\ DOMAIN b \in SUBSET Sequences16
    /\ \A s \in DOMAIN b : b[s] \in Stamp

\* The numbers a block on the wire reports as received.
NumbersIn(w) == {InRange(w)[i] : i \in {j \in 1 .. w.count : w.metrics[j].received}}

\* w, on the wire, has the range and the numbers of b, and d, read from w, the
\* same numbers with the same stamps.
RoundTrip(b, w, d) ==
    /\ w.count = CountEnd(DOMAIN b).count /\ w.end = CountEnd(DOMAIN b).end
    /\ \E i \in 1 .. w.count : w.metrics[i].received
    /\ NumbersIn(w) = DOMAIN b
    /\ DOMAIN d = DOMAIN b
    /\ \A s \in DOMAIN b : d[s] \in Stamp /\ d[s].ts = b[s].ts

\* What has been written is read: the same numbers with the same stamps.
LEMMA BlockRoundTrip ==
    ASSUME NEW b, BlockType(b), NEW ref \in Sequences16, NEW o, NEW n,
           Window(DOMAIN b, ref, o, n), NEW t \in Nat,
           NEW w, w = SerializeBlock(b, t), NEW d, d = DeserializeBlock(w, t)
    PROVE  RoundTrip(b, w, d)
<1> DEFINE D == DOMAIN b
           r == InRange(CountEnd(D))
           c == CountEnd(D).count
           met(i) == IF r[i] \in D
                     THEN [received |-> TRUE, ecn |-> b[r[i]].ecn, ato |-> t - b[r[i]].ts]
                     ELSE NotReceived
           R == {i \in 1 .. c : r[i] \in D}
<1>1. /\ c \in 1 .. WrapFront + 1 /\ DOMAIN r = 1 .. c /\ Len(r) = c
      /\ \A s \in D : \E i \in 1 .. c : r[i] = s
    BY RangeOfWindow DEF BlockType
<1>2. o \in D
    BY DEF Window
<1>3. \A s \in D : b[s].ts \in Nat /\ b[s].ecn \in 0 .. 3
    BY DEF BlockType, Stamp
<1>4. /\ w.count = c /\ w.end = CountEnd(D).end
      /\ w.metrics = [i \in 1 .. c |-> met(i)]
    <2> HIDE DEF c
    <2> QED
        BY <1>1 DEF SerializeBlock, TsToAto
<1>5. InRange(w) = r
    BY <1>4 DEF InRange
<1> HIDE DEF r, c
<1>6. \A i \in 1 .. c : w.metrics[i].received <=> r[i] \in D
    BY <1>4 DEF NotReceived
<1>7. {j \in 1 .. w.count : w.metrics[j].received} = R
    <2> QED
        BY <1>4, <1>6
<1>8. {r[i] : i \in R} = D
    BY <1>1
<1>9. d = [s \in {r[i] : i \in R} |->
              LET m == w.metrics[CHOOSE i \in R : r[i] = s]
              IN  [ts |-> AtoToTs(m.ato, t), ecn |-> m.ecn]]
    <2> DEFINE Q == {j \in 1 .. w.count : w.metrics[j].received}
               q == InRange(w)
    <2>1. d = [s \in {q[i] : i \in Q} |->
                  LET m == w.metrics[CHOOSE i \in Q : q[i] = s]
                  IN  [ts |-> AtoToTs(m.ato, t), ecn |-> m.ecn]]
        BY DEF DeserializeBlock
    <2>2. Q = R /\ q = r
        BY <1>5, <1>7
    <2> HIDE DEF R, Q, q
    <2> QED
        BY <2>1, <2>2
<1>10. DOMAIN d = D
    BY <1>8, <1>9
<1>11. ASSUME NEW s \in D
       PROVE  d[s] \in Stamp /\ d[s].ts = b[s].ts
    <2> DEFINE i == CHOOSE i \in R : r[i] = s
    <2>1. i \in R /\ r[i] = s
        BY <1>8
    <2>2. d[s] = [ts |-> AtoToTs(w.metrics[i].ato, t), ecn |-> w.metrics[i].ecn]
        BY <1>8, <1>9
    <2> HIDE DEF i
    <2>3. w.metrics[i] = [received |-> TRUE, ecn |-> b[s].ecn, ato |-> t - b[s].ts]
        <3> QED
            BY <1>4, <2>1
    <2>4. w.metrics[i].ato = t - b[s].ts /\ w.metrics[i].ecn = b[s].ecn
        BY <2>3
    <2>5. AtoToTs(w.metrics[i].ato, t) = b[s].ts
        BY <1>3, <2>4 DEF AtoToTs
    <2> QED
        BY <1>3, <2>2, <2>4, <2>5 DEF Stamp
<1>12. \E i \in 1 .. w.count : w.metrics[i].received
    <2>1. PICK i \in 1 .. c : r[i] = o
        BY <1>1, <1>2
    <2> QED
        BY <1>2, <1>4, <1>6, <2>1
<1>13. NumbersIn(w) = D
    <2> HIDE DEF R
    <2> QED
        BY <1>5, <1>7, <1>8 DEF NumbersIn
<1> QED
    BY <1>4, <1>10, <1>11, <1>12, <1>13 DEF c, RoundTrip

-----------------------------------------------------------------------------
(* Headers of one stream *)

OneStream(h) ==
    /\ DOMAIN h.blocks \subseteq {Ssrc}
    /\ Ssrc \in DOMAIN h.blocks => DOMAIN h.blocks[Ssrc] # {}
    /\ BlockType(BlockIn(h, Ssrc))

\* The count of a block's range is positive and at most WrapFront + 1.
LEMMA CountOfWindow ==
    ASSUME NEW S \in SUBSET Sequences16, NEW ref \in Sequences16, NEW o, NEW n,
           Window(S, ref, o, n)
    PROVE  CountEnd(S).count \in 1 .. WrapFront + 1 /\ CountEnd(S).count \in Nat
<1> DEFINE c == CountEnd(S).count
<1>1. c \in 1 .. WrapFront + 1
    BY RangeOfWindow
<1> HIDE DEF c
<1>2. c \in Nat
    BY <1>1, Halves
<1> QED
    BY <1>1, <1>2 DEF c

\* The sum over nothing.
LEMMA SumOfNone ==
    ASSUME NEW v, DOMAIN v = {}
    PROVE  SumFunction(v) = 0
BY SumFunctionIsSum, TotalEmpty, FS_EmptySet

\* The sum over one index.
LEMMA SumOfOne ==
    ASSUME NEW v, NEW a, DOMAIN v = {a}, v[a] \in Int
    PROVE  SumFunction(v) = v[a]
<1>1. IsFiniteSet({a})
    BY FS_Singleton
<1> QED
    BY <1>1, SumFunctionIsSum, TotalOfOne

\* The octets of a block are whole words.
LEMMA BlockWords ==
    ASSUME NEW w, w.count \in Nat
    PROVE  /\ BlockOctets(w) \in Nat
           /\ BlockOctets(w) <= 8 + 2 * (w.count + 1)
           /\ 4 * ((20 + BlockOctets(w) - 4) \div 4 + 1) = 20 + BlockOctets(w)
<1> DEFINE c == w.count
           h == (c + 1) \div 2
<1>1. c % 2 \in 0 .. 1 /\ c + (c % 2) = 2 * h /\ h \in Nat
    OBVIOUS
<1>2. BlockOctets(w) = 8 + 4 * h
    BY <1>1 DEF BlockOctets
<1>3. 2 * h <= c + 1
    BY <1>1
<1> HIDE DEF h
<1>4. (20 + (8 + 4 * h) - 4) \div 4 = 6 + h
    BY <1>1
<1> QED
    BY <1>1, <1>2, <1>3, <1>4

\* A short header that has just been updated tells its length in words, and what
\* is serialized from it passes the asserts of Deserialize and reads the same.
LEMMA HeaderRoundTrip ==
    ASSUME NEW h, OneStream(h), DOMAIN h = {"blocks", "length", "reportTime", "monitored"},
           NEW ref \in Sequences16, Near(DOMAIN BlockIn(h, Ssrc), ref),
           h.reportTime \in Nat,
           h.length = (Octets(h.blocks) - 4) \div 4
    PROVE  LET packet == Serialize(h)
               f == Deserialize(packet)
           IN  /\ Deserializable(packet)
               /\ packet.reportTime = h.reportTime
               /\ f.reportTime = h.reportTime /\ f.monitored = h.monitored
               /\ DOMAIN f.blocks = DOMAIN h.blocks
               /\ ReportedNumbers(packet) = DOMAIN BlockIn(h, Ssrc)
               /\ DOMAIN BlockIn(f, Ssrc) = DOMAIN BlockIn(h, Ssrc)
               /\ \A s \in DOMAIN BlockIn(h, Ssrc) :
                    /\ BlockIn(f, Ssrc)[s] \in Stamp
                    /\ BlockIn(f, Ssrc)[s].ts = BlockIn(h, Ssrc)[s].ts
<1> DEFINE packet == Serialize(h)
           f == Deserialize(packet)
           t == h.reportTime
           B == h.blocks
           W == [ssrc \in DOMAIN B |-> SerializeBlock(B[ssrc], t)]
           reported == {ssrc \in DOMAIN W : \E i \in 1 .. W[ssrc].count : W[ssrc].metrics[i].received}
           F == [ssrc \in reported |-> DeserializeBlock(W[ssrc], t)]
<1>1. /\ packet.blocks = W /\ packet.length = h.length
      /\ packet.reportTime = t /\ packet.monitored = h.monitored
      /\ DOMAIN packet = {"blocks", "length", "reportTime", "monitored"}
    BY DEF Serialize
<1>2. f.blocks = F /\ f.reportTime = t /\ f.monitored = h.monitored
    <2> HIDE DEF packet, W
    <2>1. f = Updated([packet EXCEPT !.blocks = F])
        BY <1>1 DEF Deserialize
    <2> HIDE DEF F
    <2> QED
        BY <1>1, <2>1 DEF Updated
<1>3. DOMAIN W = DOMAIN B
    OBVIOUS
<1>4. CASE DOMAIN B = {}
    <2>1. DOMAIN W = {} /\ reported = {} /\ DOMAIN F = {}
        BY <1>3, <1>4
    <2>2. h.length = 4
        <3>1. SumFunction([ssrc \in DOMAIN B |-> BlockOctets(CountEnd(DOMAIN B[ssrc]))]) = 0
            BY <1>4, SumOfNone
        <3>2. Octets(B) = 20
            BY <3>1 DEF Octets
        <3> QED
            BY <3>2
    <2>3. Deserializable(packet)
        <3>1. SumFunction([ssrc \in DOMAIN W |-> BlockOctets(W[ssrc])]) = 0
            BY <2>1, SumOfNone
        <3> HIDE DEF packet, W
        <3> QED
            BY <1>1, <2>2, <3>1 DEF Deserializable
    <2>4. BlockIn(h, Ssrc) = <<>> /\ BlockIn(f, Ssrc) = <<>> /\ DOMAIN f.blocks = {}
        BY <1>2, <1>4, <2>1 DEF BlockIn
    <2>5. DOMAIN BlockIn(h, Ssrc) = {} /\ DOMAIN BlockIn(f, Ssrc) = {}
        BY <2>4
    <2>6. ReportedNumbers(packet) = {}
        <3> HIDE DEF packet, W
        <3> QED
            BY <1>1, <2>1 DEF ReportedNumbers
    <2>7. /\ DOMAIN f.blocks = DOMAIN h.blocks
          /\ DOMAIN BlockIn(f, Ssrc) = DOMAIN BlockIn(h, Ssrc)
          /\ \A s \in DOMAIN BlockIn(h, Ssrc) :
                    /\ BlockIn(f, Ssrc)[s] \in Stamp
                    /\ BlockIn(f, Ssrc)[s].ts = BlockIn(h, Ssrc)[s].ts
          /\ ReportedNumbers(packet) = DOMAIN BlockIn(h, Ssrc)
        <3> HIDE DEF f, packet
        <3> QED
            BY <1>4, <2>4, <2>5, <2>6
    <2>8. packet.reportTime = h.reportTime
        BY <1>1
    <2> QED
        BY <1>2, <2>3, <2>7, <2>8
<1>5. CASE DOMAIN B = {Ssrc}
    <2> DEFINE b == B[Ssrc]
               w == W[Ssrc]
    <2>1. b = BlockIn(h, Ssrc) /\ BlockType(b) /\ DOMAIN b # {} /\ Near(DOMAIN b, ref)
        BY <1>5 DEF BlockIn, OneStream
    <2>2. w = SerializeBlock(b, t)
        BY <1>5
    <2> HIDE DEF b
    <2>3. PICK o, n \in DOMAIN b : Window(DOMAIN b, ref, o, n)
        BY <2>1, SomeWindow DEF BlockType
    <2> DEFINE d == DeserializeBlock(w, t)
    <2>3a. RoundTrip(b, w, d)
        <3>1. t \in Nat /\ d = DeserializeBlock(w, t) /\ BlockType(b)
            BY <2>1
        <3> HIDE DEF w, d, t
        <3> QED
            BY <2>2, <2>3, <3>1, BlockRoundTrip
    <2>4. /\ w.count = CountEnd(DOMAIN b).count /\ w.end = CountEnd(DOMAIN b).end
          /\ \E i \in 1 .. w.count : w.metrics[i].received
          /\ NumbersIn(w) = DOMAIN b
          /\ DOMAIN d = DOMAIN b
          /\ \A s \in DOMAIN b : d[s] \in Stamp /\ d[s].ts = b[s].ts
        <3> HIDE DEF w, d
        <3> QED
            BY <2>3a DEF RoundTrip
    <2>5. CountEnd(DOMAIN b).count \in Nat
        BY <2>1, <2>3, CountOfWindow DEF BlockType
    <2>6. reported = {Ssrc}
        BY <1>3, <1>5, <2>4
    <2>7. F = [ssrc \in {Ssrc} |-> DeserializeBlock(W[ssrc], t)]
        <3> HIDE DEF W, reported
        <3> QED
            BY <2>6
    <2>8. DOMAIN F = {Ssrc} /\ F[Ssrc] = d
        <3> HIDE DEF W, reported
        <3> QED
            BY <2>7
    <2>9. BlockIn(f, Ssrc) = d
        <3> HIDE DEF F, f, d
        <3> QED
            BY <1>2, <2>8 DEF BlockIn
    <2>10. BlockOctets(w) = BlockOctets(CountEnd(DOMAIN b))
        <3> HIDE DEF w
        <3> QED
            BY <2>4 DEF BlockOctets
    <2>11. SumFunction([ssrc \in DOMAIN B |-> BlockOctets(CountEnd(DOMAIN B[ssrc]))])
              = BlockOctets(CountEnd(DOMAIN b))
        <3> DEFINE v == [ssrc \in DOMAIN B |-> BlockOctets(CountEnd(DOMAIN B[ssrc]))]
        <3>1. DOMAIN v = {Ssrc} /\ v[Ssrc] = BlockOctets(CountEnd(DOMAIN b))
            BY <1>5 DEF b
        <3>2. v[Ssrc] \in Int
            BY <2>5, <3>1, BlockWords
        <3> HIDE DEF v
        <3>3. SumFunction(v) = v[Ssrc]
            BY <3>1, <3>2, SumOfOne
        <3> QED
            BY <3>1, <3>3 DEF v
    <2>12. SumFunction([ssrc \in DOMAIN W |-> BlockOctets(W[ssrc])])
              = BlockOctets(CountEnd(DOMAIN b))
        <3> DEFINE v == [ssrc \in DOMAIN W |-> BlockOctets(W[ssrc])]
        <3>1. DOMAIN v = {Ssrc} /\ v[Ssrc] = BlockOctets(CountEnd(DOMAIN b))
            <4> HIDE DEF W
            <4> QED
                BY <1>3, <1>5, <2>10
        <3>2. v[Ssrc] \in Int
            BY <2>5, <3>1, BlockWords
        <3> HIDE DEF v
        <3>3. SumFunction(v) = v[Ssrc]
            BY <3>1, <3>2, SumOfOne
        <3> QED
            BY <3>1, <3>3 DEF v
    <2>13. Deserializable(packet)
        <3> DEFINE x == BlockOctets(CountEnd(DOMAIN b))
        <3>1. h.length = (20 + x - 4) \div 4
            <4>1. Octets(B) = 20 + x
                BY <2>11 DEF Octets
            <4>2. h.length = (Octets(B) - 4) \div 4
                OBVIOUS
            <4>3. x \in Int
                BY <2>5, BlockWords
            <4> HIDE DEF x, B
            <4> QED
                BY <4>1, <4>2, <4>3
        <3>2. 4 * ((20 + x - 4) \div 4 + 1) = 20 + x
            BY <2>5, BlockWords
        <3>3. 4 * (packet.length + 1) = 20 + x
            <4> HIDE DEF packet, x
            <4> QED
                BY <1>1, <3>1, <3>2
        <3> HIDE DEF packet, W, x
        <3>4. SumFunction([ssrc \in DOMAIN packet.blocks |-> BlockOctets(packet.blocks[ssrc])]) = x
            BY <1>1, <2>12 DEF x
        <3> QED
            BY <3>3, <3>4 DEF Deserializable
    <2>14. ReportedNumbers(packet) = DOMAIN b
        <3>1. Ssrc \in DOMAIN packet.blocks /\ packet.blocks[Ssrc] = w
            <4> HIDE DEF packet
            <4> QED
                BY <1>1, <1>3, <1>5
        <3> HIDE DEF packet, w
        <3> QED
            BY <2>4, <3>1 DEF ReportedNumbers, NumbersIn
    <2>15. /\ DOMAIN f.blocks = DOMAIN h.blocks
           /\ DOMAIN BlockIn(f, Ssrc) = DOMAIN BlockIn(h, Ssrc)
           /\ \A s \in DOMAIN BlockIn(h, Ssrc) :
                    /\ BlockIn(f, Ssrc)[s] \in Stamp
                    /\ BlockIn(f, Ssrc)[s].ts = BlockIn(h, Ssrc)[s].ts
           /\ ReportedNumbers(packet) = DOMAIN BlockIn(h, Ssrc)
        <3> HIDE DEF f, packet, F, d, w
        <3> QED
            BY <1>2, <1>5, <2>1, <2>4, <2>8, <2>9, <2>14
    <2>16. packet.reportTime = h.reportTime
        BY <1>1
    <2> QED
        BY <1>2, <2>13, <2>15, <2>16
<1>6. DOMAIN B = {} \/ DOMAIN B = {Ssrc}
    BY DEF OneStream
<1> QED
    BY <1>4, <1>5, <1>6

-----------------------------------------------------------------------------
(* What is under way *)

\* A parcel is a block that may reach the sender, with the time its report was or
\* will be sent and that time as the report tells it.  A line of parcels goes
\* from the one the sender sees first to the one the receiver is filling.
Landed(bs) == UNION {DOMAIN bs[i].block : i \in DOMAIN bs}
Seqs(net) == {net[k].seq : k \in DOMAIN net}
Live(net, bs) == Seqs(net) \cup Landed(bs)

\* The times of a packet in a parcel, by the receiver's clock and the sender's.
Dated(parcel, s, rec, now, ref) ==
    /\ parcel.block[s] \in Stamp
    /\ parcel.block[s].ts <= ElapsedMs(now, ref)
    /\ parcel.block[s].ts <= parcel.end /\ parcel.end <= parcel.block[s].ts + FbPeriod
    /\ parcel.at <= rec[s].sent + MaxLatency + FbPeriod * UsPerMs

\* Everything stays in order: seen from the number q to be sent next, packets
\* are older the further they have come, and none of what may end up in one
\* report is more than WrapFront older than the rest.
InLine(q, net, bs) ==
    /\ \A i, k \in DOMAIN net : i < k => Diff(q, net[k].seq) < Diff(q, net[i].seq)
    /\ \A i \in DOMAIN bs : \A s \in DOMAIN bs[i].block, k \in DOMAIN net :
            Diff(q, net[k].seq) < Diff(q, s)
    /\ \A i, j \in DOMAIN bs : i < j =>
            \A s \in DOMAIN bs[i].block, t \in DOMAIN bs[j].block : Diff(q, t) < Diff(q, s)
Together(q, net, bs) ==
    /\ \A i, k \in DOMAIN net : Diff(q, net[i].seq) - Diff(q, net[k].seq) <= WrapFront
    /\ \A i \in DOMAIN bs : Near(DOMAIN bs[i].block, q)
    /\ \A i \in DOMAIN bs : i + 1 \notin DOMAIN bs =>
            \A s \in DOMAIN bs[i].block, k \in DOMAIN net :
                Diff(q, s) - Diff(q, net[k].seq) <= WrapFront

\* Later packets were sent and received later.
SentInOrder(q, live, rec) ==
    \A s, t \in live : Diff(q, t) <= Diff(q, s) => rec[s].sent <= rec[t].sent
RcvdInOrder(q, bs) ==
    \A i, j \in DOMAIN bs : \A s \in DOMAIN bs[i].block, t \in DOMAIN bs[j].block :
        Diff(q, t) <= Diff(q, s) => bs[i].block[s].ts <= bs[j].block[t].ts

AllDated(bs, rec, now, ref) ==
    \A i \in DOMAIN bs : \A s \in DOMAIN bs[i].block : Dated(bs[i], s, rec, now, ref)
Travels(net, rec) == \A k \in DOMAIN net : rec[net[k].seq].sent = net[k].at

\* All of it, of a network and a line of parcels.
UnderWay(q, net, bs, rec, now, ref) ==
    /\ InLine(q, net, bs)
    /\ Together(q, net, bs)
    /\ SentInOrder(q, Live(net, bs), rec)
    /\ RcvdInOrder(q, bs)
    /\ AllDated(bs, rec, now, ref)
    /\ Travels(net, rec)

\* Parcels are numbered from 1.
Line(bs) == \E n \in Nat : DOMAIN bs = 1 .. n

-----------------------------------------------------------------------------
(* Losing *)

\* c holds the packets of b with their times, and leaves as b would.
SameParcel(c, b) ==
    /\ DOMAIN c.block = DOMAIN b.block /\ c.at = b.at /\ c.end = b.end
    /\ \A s \in DOMAIN b.block : c.block[s].ts = b.block[s].ts /\ c.block[s] \in Stamp

\* k parcels at the front have left and others may have been emptied.
Thinned(cs, bs, k) ==
    \A i \in DOMAIN cs : DOMAIN cs[i].block # {} =>
        /\ i + k \in DOMAIN bs /\ SameParcel(cs[i], bs[i + k])
        /\ i + k + 1 \in DOMAIN bs => i + 1 \in DOMAIN cs

\* k packets at the front have left.
Shorter(ms, net, k) == \A i \in DOMAIN ms : i + k \in DOMAIN net /\ ms[i] = net[i + k]

\* Losing packets or reports at the front keeps what is left in order.
LEMMA Thinning ==
    ASSUME NEW q, NEW net, NEW bs, NEW rec, NEW now, NEW ref,
           UnderWay(q, net, bs, rec, now, ref),
           NEW ms, NEW l \in Nat, Shorter(ms, net, l), DOMAIN ms \in SUBSET Nat,
           NEW cs, NEW k \in Nat, Thinned(cs, bs, k), DOMAIN cs \in SUBSET Nat
    PROVE  /\ UnderWay(q, ms, cs, rec, now, ref)
           /\ Live(ms, cs) \subseteq Live(net, bs)
<1>1. \A i \in DOMAIN cs : \A s \in DOMAIN cs[i].block :
            /\ i \in Nat /\ i + k \in DOMAIN bs /\ s \in DOMAIN bs[i + k].block
            /\ cs[i].block[s].ts = bs[i + k].block[s].ts /\ cs[i].block[s] \in Stamp
            /\ cs[i].at = bs[i + k].at /\ cs[i].end = bs[i + k].end
            /\ i + k + 1 \in DOMAIN bs => i + 1 \in DOMAIN cs
    BY DEF Thinned, SameParcel
<1>2. \A i \in DOMAIN ms : i \in Nat /\ i + l \in DOMAIN net /\ ms[i] = net[i + l]
    BY DEF Shorter
<1>3. Live(ms, cs) \subseteq Live(net, bs)
    <2>1. Seqs(ms) \subseteq Seqs(net)
        BY <1>2 DEF Seqs
    <2>2. Landed(cs) \subseteq Landed(bs)
        BY <1>1 DEF Landed
    <2> QED
        BY <2>1, <2>2 DEF Live
<1>4. InLine(q, ms, cs)
    <2>1. \A i, j \in DOMAIN ms : i < j => Diff(q, ms[j].seq) < Diff(q, ms[i].seq)
        <3> SUFFICES ASSUME NEW i \in DOMAIN ms, NEW j \in DOMAIN ms, i < j
                     PROVE  Diff(q, ms[j].seq) < Diff(q, ms[i].seq)
            OBVIOUS
        <3>1. i + l < j + l
            BY <1>2
        <3> QED
            BY <1>2, <3>1 DEF UnderWay, InLine
    <2>2. \A i \in DOMAIN cs : \A s \in DOMAIN cs[i].block, j \in DOMAIN ms :
            Diff(q, ms[j].seq) < Diff(q, s)
        BY <1>1, <1>2 DEF UnderWay, InLine
    <2>3. \A i, j \in DOMAIN cs : i < j =>
            \A s \in DOMAIN cs[i].block, t \in DOMAIN cs[j].block : Diff(q, t) < Diff(q, s)
        <3> SUFFICES ASSUME NEW i \in DOMAIN cs, NEW j \in DOMAIN cs, i < j,
                            NEW s \in DOMAIN cs[i].block, NEW t \in DOMAIN cs[j].block
                     PROVE  Diff(q, t) < Diff(q, s)
            OBVIOUS
        <3>1. i + k < j + k
            BY <1>1
        <3> QED
            BY <1>1, <3>1 DEF UnderWay, InLine
    <2> QED
        BY <2>1, <2>2, <2>3 DEF InLine
<1>5. Together(q, ms, cs)
    <2>1. \A i, j \in DOMAIN ms : Diff(q, ms[i].seq) - Diff(q, ms[j].seq) <= WrapFront
        BY <1>2 DEF UnderWay, Together
    <2>2. \A i \in DOMAIN cs : Near(DOMAIN cs[i].block, q)
        BY <1>1 DEF UnderWay, Together, Near
    <2>3. \A i \in DOMAIN cs : i + 1 \notin DOMAIN cs =>
            \A s \in DOMAIN cs[i].block, j \in DOMAIN ms :
                Diff(q, s) - Diff(q, ms[j].seq) <= WrapFront
        <3> SUFFICES ASSUME NEW i \in DOMAIN cs, i + 1 \notin DOMAIN cs,
                            NEW s \in DOMAIN cs[i].block, NEW j \in DOMAIN ms
                     PROVE  Diff(q, s) - Diff(q, ms[j].seq) <= WrapFront
            OBVIOUS
        <3>1. (i + k) + 1 \notin DOMAIN bs /\ i + k \in DOMAIN bs /\ s \in DOMAIN bs[i + k].block
            BY <1>1
        <3> QED
            BY <1>2, <3>1 DEF UnderWay, Together
    <2> QED
        BY <2>1, <2>2, <2>3 DEF Together
<1>6. SentInOrder(q, Live(ms, cs), rec)
    BY <1>3 DEF UnderWay, SentInOrder
<1>7. RcvdInOrder(q, cs)
    <2> SUFFICES ASSUME NEW i \in DOMAIN cs, NEW j \in DOMAIN cs,
                        NEW s \in DOMAIN cs[i].block, NEW t \in DOMAIN cs[j].block,
                        Diff(q, t) <= Diff(q, s)
                 PROVE  cs[i].block[s].ts <= cs[j].block[t].ts
        BY DEF RcvdInOrder
    <2>1. bs[i + k].block[s].ts <= bs[j + k].block[t].ts
        BY <1>1 DEF UnderWay, RcvdInOrder
    <2> QED
        BY <1>1, <2>1
<1>8. AllDated(cs, rec, now, ref)
    BY <1>1 DEF UnderWay, AllDated, Dated
<1>9. Travels(ms, rec)
    BY <1>2 DEF UnderWay, Travels
<1> QED
    BY <1>3, <1>4, <1>5, <1>6, <1>7, <1>8, <1>9 DEF UnderWay

-----------------------------------------------------------------------------
(* Arriving *)

\* The packet at the front of the network has been put into the last parcel.
Delivered(cs, bs, n, s, x) ==
    /\ DOMAIN cs = 1 .. n
    /\ \A i \in 1 .. n : i # n => cs[i] = bs[i]
    /\ cs[n].at = bs[n].at /\ cs[n].end = bs[n].end
    /\ cs[n].block = PutAt(bs[n].block, s, x)

\* A packet that arrives moves from the front of the network into the last parcel,
\* behind all that came before it, and everything stays in order.
LEMMA Arriving ==
    ASSUME NEW q \in Sequences16, NEW net, NEW bs, NEW rec, NEW now, NEW ref,
           UnderWay(q, net, bs, rec, now, ref), Live(net, bs) \subseteq Sequences16,
           NEW m \in Nat \ {0}, DOMAIN net = 1 .. m,
           NEW ms, Shorter(ms, net, 1), DOMAIN ms = 1 .. m - 1,
           NEW n \in Nat \ {0}, DOMAIN bs = 1 .. n,
           NEW x, x \in Stamp, x.ts = ElapsedMs(now, ref), x.ts \in Nat,
           x.ts <= bs[n].end, bs[n].end <= x.ts + FbPeriod,
           bs[n].at <= rec[net[1].seq].sent + MaxLatency + FbPeriod * UsPerMs,
           NEW cs, Delivered(cs, bs, n, net[1].seq, x)
    PROVE  /\ UnderWay(q, ms, cs, rec, now, ref)
           /\ Live(ms, cs) \subseteq Live(net, bs)
<1> DEFINE s == net[1].seq
<1>1. 1 \in DOMAIN net /\ n \in DOMAIN bs /\ n + 1 \notin DOMAIN bs /\ 1 \in Nat /\ n \in DOMAIN cs
    BY DEF Delivered
<1>2. /\ s \in Sequences16 /\ Diff(q, s) \in Int
      /\ \A k \in DOMAIN net : net[k].seq \in Sequences16 /\ Diff(q, net[k].seq) \in Int
      /\ \A i \in DOMAIN bs : \A u \in DOMAIN bs[i].block : u \in Sequences16 /\ Diff(q, u) \in Int
    <2>1. \A k \in DOMAIN net : net[k].seq \in Sequences16
        BY DEF Live, Seqs
    <2>2. \A i \in DOMAIN bs : \A u \in DOMAIN bs[i].block : u \in Sequences16
        BY DEF Live, Landed
    <2>3. \A u \in Sequences16 : Diff(q, u) \in Int
        BY Distance
    <2> QED
        BY <1>1, <2>1, <2>2, <2>3
<1>3. \A k \in DOMAIN ms : /\ k \in Nat /\ k + 1 \in DOMAIN net /\ ms[k] = net[k + 1]
                           /\ Diff(q, ms[k].seq) < Diff(q, s)
    <2> SUFFICES ASSUME NEW k \in DOMAIN ms
                 PROVE  /\ k \in Nat /\ k + 1 \in DOMAIN net /\ ms[k] = net[k + 1]
                        /\ Diff(q, ms[k].seq) < Diff(q, s)
        OBVIOUS
    <2>1. k \in Nat /\ k + 1 \in DOMAIN net /\ ms[k] = net[k + 1] /\ 1 < k + 1
        BY DEF Shorter
    <2> QED
        BY <1>1, <2>1 DEF UnderWay, InLine
<1>4. \A i \in DOMAIN bs : \A u \in DOMAIN bs[i].block : Diff(q, s) < Diff(q, u) /\ u # s
    BY <1>1, <1>2 DEF UnderWay, InLine
<1>5. /\ DOMAIN cs = DOMAIN bs
      /\ \A i \in DOMAIN cs : i # n => cs[i] = bs[i]
      /\ DOMAIN cs[n].block = DOMAIN bs[n].block \cup {s}
      /\ cs[n].block[s] = x
      /\ \A u \in DOMAIN bs[n].block : cs[n].block[u] = bs[n].block[u]
      /\ cs[n].at = bs[n].at /\ cs[n].end = bs[n].end
    <2> DEFINE b == bs[n].block
               c == cs[n].block
    <2>1. c = PutAt(b, s, x) /\ cs[n].at = bs[n].at /\ cs[n].end = bs[n].end
        BY DEF Delivered
    <2>2. DOMAIN cs = DOMAIN bs /\ \A i \in DOMAIN cs : i # n => cs[i] = bs[i]
        BY DEF Delivered
    <2>3. \A u \in DOMAIN b : u # s
        BY <1>1, <1>4
    <2> HIDE DEF b, c, s
    <2>4. DOMAIN c = DOMAIN b \cup {s} /\ c[s] = x /\ \A u \in DOMAIN b : c[u] = b[u]
        <3>1. /\ DOMAIN PutAt(b, s, x) = DOMAIN b \cup {s}
              /\ PutAt(b, s, x)[s] = x
              /\ \A u \in DOMAIN b : u # s => PutAt(b, s, x)[u] = b[u]
            BY DEF PutAt
        <3> QED
            BY <2>1, <2>3, <3>1
    <2> QED
        BY <2>1, <2>2, <2>4 DEF b, c
<1> HIDE DEF s
\* Every number in a parcel was there before, or it is the new one.
<1>6. \A i \in DOMAIN cs : \A u \in DOMAIN cs[i].block :
        /\ i \in DOMAIN bs /\ cs[i].at = bs[i].at /\ cs[i].end = bs[i].end
        /\ \/ u \in DOMAIN bs[i].block /\ cs[i].block[u] = bs[i].block[u] /\ u # s
           \/ u = s /\ i = n /\ cs[i].block[u] = x
    BY <1>4, <1>5
<1>7. \A i \in DOMAIN cs : \A u \in DOMAIN cs[i].block :
            u = s \/ (u \in Sequences16 /\ Diff(q, u) \in Int /\ Diff(q, s) < Diff(q, u))
    BY <1>2, <1>4, <1>6
<1>8. Live(ms, cs) \subseteq Live(net, bs)
    <2>1. Seqs(ms) \subseteq Seqs(net) /\ s \in Seqs(net)
        BY <1>1, <1>3 DEF Seqs, s
    <2>2. Landed(cs) \subseteq Landed(bs) \cup {s}
        BY <1>6 DEF Landed
    <2> QED
        BY <2>1, <2>2 DEF Live
<1>9. InLine(q, ms, cs)
    <2>1. \A i, j \in DOMAIN ms : i < j => Diff(q, ms[j].seq) < Diff(q, ms[i].seq)
        <3> SUFFICES ASSUME NEW i \in DOMAIN ms, NEW j \in DOMAIN ms, i < j
                     PROVE  Diff(q, ms[j].seq) < Diff(q, ms[i].seq)
            OBVIOUS
        <3>1. i + 1 < j + 1
            BY <1>3
        <3> QED
            BY <1>3, <3>1 DEF UnderWay, InLine
    <2>2. \A i \in DOMAIN cs : \A u \in DOMAIN cs[i].block, j \in DOMAIN ms :
            Diff(q, ms[j].seq) < Diff(q, u)
        <3> SUFFICES ASSUME NEW i \in DOMAIN cs, NEW u \in DOMAIN cs[i].block, NEW j \in DOMAIN ms
                     PROVE  Diff(q, ms[j].seq) < Diff(q, u)
            OBVIOUS
        <3>1. Diff(q, ms[j].seq) < Diff(q, s) /\ Diff(q, ms[j].seq) \in Int
            BY <1>2, <1>3
        <3> QED
            BY <1>2, <1>7, <3>1
    <2>3. \A i, j \in DOMAIN cs : i < j =>
            \A u \in DOMAIN cs[i].block, t \in DOMAIN cs[j].block : Diff(q, t) < Diff(q, u)
        <3> SUFFICES ASSUME NEW i \in DOMAIN cs, NEW j \in DOMAIN cs, i < j,
                            NEW u \in DOMAIN cs[i].block, NEW t \in DOMAIN cs[j].block
                     PROVE  Diff(q, t) < Diff(q, u)
            OBVIOUS
        <3>1. i # n /\ i \in DOMAIN bs /\ u \in DOMAIN bs[i].block /\ u # s
            <4>1. i # n
                BY <1>5
            <4> QED
                BY <1>6, <4>1
        <3>2. CASE t = s
            BY <1>4, <3>1, <3>2
        <3>3. CASE t # s
            BY <1>6, <3>1, <3>3 DEF UnderWay, InLine
        <3> QED
            BY <3>2, <3>3
    <2> QED
        BY <2>1, <2>2, <2>3 DEF InLine
<1>10. Together(q, ms, cs)
    <2>1. \A i, j \in DOMAIN ms : Diff(q, ms[i].seq) - Diff(q, ms[j].seq) <= WrapFront
        BY <1>3 DEF UnderWay, Together
    <2>2. \A i \in DOMAIN cs : Near(DOMAIN cs[i].block, q)
        <3> SUFFICES ASSUME NEW i \in DOMAIN cs,
                            NEW u \in DOMAIN cs[i].block, NEW t \in DOMAIN cs[i].block
                     PROVE  Diff(q, u) - Diff(q, t) <= WrapFront
            BY DEF Near
        <3>1. CASE t # s /\ u # s
            BY <1>6, <3>1 DEF UnderWay, Together, Near
        <3>2. CASE t = s /\ u # s
            <4>1. i = n /\ u \in DOMAIN bs[i].block
                BY <1>6, <1>5, <3>2, <1>4
            <4>2. Diff(q, u) - Diff(q, net[1].seq) <= WrapFront
                BY <1>1, <4>1 DEF UnderWay, Together
            <4> QED
                BY <3>2, <4>2 DEF s
        <3>3. CASE u = s
            <4>1. t = s \/ (Diff(q, t) \in Int /\ Diff(q, s) < Diff(q, t))
                BY <1>7
            <4>2. Diff(q, s) \in Int /\ WrapFront \in Nat
                BY <1>2, Halves
            <4> QED
                BY <3>3, <4>1, <4>2
        <3> QED
            BY <3>1, <3>2, <3>3
    <2>3. \A i \in DOMAIN cs : i + 1 \notin DOMAIN cs =>
            \A u \in DOMAIN cs[i].block, j \in DOMAIN ms :
                Diff(q, u) - Diff(q, ms[j].seq) <= WrapFront
        <3> SUFFICES ASSUME NEW i \in DOMAIN cs, i + 1 \notin DOMAIN cs,
                            NEW u \in DOMAIN cs[i].block, NEW j \in DOMAIN ms
                     PROVE  Diff(q, u) - Diff(q, ms[j].seq) <= WrapFront
            OBVIOUS
        <3>1. j + 1 \in DOMAIN net /\ ms[j] = net[j + 1]
            BY <1>3
        <3>2. CASE u # s
            BY <1>5, <1>6, <3>1, <3>2 DEF UnderWay, Together
        <3>3. CASE u = s
            BY <1>1, <3>1, <3>3 DEF UnderWay, Together, s
        <3> QED
            BY <3>2, <3>3
    <2> QED
        BY <2>1, <2>2, <2>3 DEF Together
<1>11. SentInOrder(q, Live(ms, cs), rec)
    BY <1>8 DEF UnderWay, SentInOrder
<1>12. RcvdInOrder(q, cs)
    <2> SUFFICES ASSUME NEW i \in DOMAIN cs, NEW j \in DOMAIN cs,
                        NEW u \in DOMAIN cs[i].block, NEW t \in DOMAIN cs[j].block,
                        Diff(q, t) <= Diff(q, u)
                 PROVE  cs[i].block[u].ts <= cs[j].block[t].ts
        BY DEF RcvdInOrder
    <2>1. CASE t # s /\ u # s
        BY <1>6, <2>1 DEF UnderWay, RcvdInOrder
    <2>2. CASE t = s /\ u # s
        <3>1. bs[i].block[u].ts <= ElapsedMs(now, ref) /\ cs[i].block[u] = bs[i].block[u]
            BY <1>6, <2>2 DEF UnderWay, AllDated, Dated
        <3>2. cs[j].block[t].ts = ElapsedMs(now, ref)
            BY <1>6, <2>2
        <3> QED
            BY <3>1, <3>2
    <2>3. CASE u = s
        <3>1. t = s
            BY <1>2, <1>7, <2>3
        <3> QED
            BY <1>6, <2>3, <3>1
    <2> QED
        BY <2>1, <2>2, <2>3
<1>13. AllDated(cs, rec, now, ref)
    <2> SUFFICES ASSUME NEW i \in DOMAIN cs, NEW u \in DOMAIN cs[i].block
                 PROVE  Dated(cs[i], u, rec, now, ref)
        BY DEF AllDated
    <2>1. CASE u # s
        <3>1. Dated(bs[i], u, rec, now, ref)
            BY <1>6, <2>1 DEF UnderWay, AllDated
        <3> QED
            BY <1>6, <2>1, <3>1 DEF Dated
    <2>2. CASE u = s
        <3>1. i = n /\ cs[i].block[u] = x /\ cs[i].at = bs[n].at /\ cs[i].end = bs[n].end
            BY <1>6, <2>2
        <3> QED
            BY <2>2, <3>1 DEF Dated, s
    <2> QED
        BY <2>1, <2>2
<1>14. Travels(ms, rec)
    BY <1>3 DEF UnderWay, Travels
<1> QED
    BY <1>8, <1>9, <1>10, <1>11, <1>12, <1>13, <1>14 DEF UnderWay

-----------------------------------------------------------------------------
(* Sending *)

\* When the next number is used, every other number is one older.
LEMMA AgeNext ==
    ASSUME NEW q \in Sequences16
    PROVE  /\ Inc(q) \in Sequences16 /\ Diff(q, q) = 0 /\ Diff(Inc(q), q) = 1
           /\ \A s \in Sequences16 : Diff(q, s) # SeqMod - 1 => Diff(Inc(q), s) = Diff(q, s) + 1
BY SeqModAssumption DEF Sequences16, Diff, Inc

\* The number q has been appended to the network.
Appended(ms, net, m, q, now) ==
    /\ DOMAIN ms = 1 .. m + 1
    /\ \A k \in 1 .. m : ms[k] = net[k]
    /\ ms[m + 1].seq = q /\ ms[m + 1].at = now

\* A packet that is sent goes behind all others and makes them one older; none is
\* so old that its number comes round.
LEMMA Sending ==
    ASSUME NEW q \in Sequences16, NEW net, NEW bs, NEW rec, NEW now \in Int, NEW ref,
           UnderWay(q, net, bs, rec, now, ref), Live(net, bs) \subseteq Sequences16,
           NEW m \in Nat, DOMAIN net = 1 .. m,
           NEW n \in Nat \ {0}, DOMAIN bs = 1 .. n,
           \A s \in Live(net, bs) : Diff(q, s) \in 1 .. SeqMod - 2 /\ rec[s].sent <= now,
           \A k \in DOMAIN net : Diff(q, net[k].seq) <= WrapFront,
           \A s \in DOMAIN bs[n].block : Diff(q, s) <= WrapFront,
           NEW rc, \A s \in Live(net, bs) : rc[s] = rec[s], rc[q].sent = now,
           NEW ms, Appended(ms, net, m, q, now)
    PROVE  /\ UnderWay(Inc(q), ms, bs, rc, now, ref)
           /\ Live(ms, bs) \subseteq Live(net, bs) \cup {q}
<1> DEFINE p == Inc(q)
           L == Live(net, bs)
<1>1. \A s \in L : /\ s \in Sequences16 /\ Diff(q, s) \in Int /\ Diff(p, s) \in Int
                   /\ Diff(p, s) = Diff(q, s) + 1 /\ 1 < Diff(p, s) /\ s # q
    <2> SUFFICES ASSUME NEW s \in L
                 PROVE  /\ s \in Sequences16 /\ Diff(q, s) \in Int /\ Diff(p, s) \in Int
                        /\ Diff(p, s) = Diff(q, s) + 1 /\ 1 < Diff(p, s) /\ s # q
        OBVIOUS
    <2>1. s \in Sequences16 /\ Diff(q, s) \in 1 .. SeqMod - 2 /\ Diff(q, s) # SeqMod - 1
        BY Halves
    <2>2. Diff(p, s) = Diff(q, s) + 1
        BY <2>1, AgeNext
    <2>3. s # q
        BY <2>1, AgeNext
    <2> HIDE DEF L, p
    <2> QED
        BY <2>1, <2>2, <2>3, Halves
<1>2. Diff(p, q) = 1 /\ p \in Sequences16
    BY AgeNext
<1>3. /\ \A k \in DOMAIN net : k \in 1 .. m /\ k \in Int /\ net[k].seq \in L
      /\ \A i \in DOMAIN bs : \A s \in DOMAIN bs[i].block : s \in L
    BY DEF Live, Seqs, Landed
<1> HIDE DEF p, L
<1>4. \A k \in DOMAIN ms : \/ k \in DOMAIN net /\ ms[k] = net[k] /\ k <= m
                           \/ k = m + 1 /\ ms[k].seq = q /\ ms[k].at = now
    BY DEF Appended
<1>5. Live(ms, bs) \subseteq L \cup {q}
    <2>1. Seqs(ms) \subseteq Seqs(net) \cup {q}
        BY <1>4 DEF Seqs
    <2> QED
        BY <2>1 DEF Live, L
<1>6. InLine(p, ms, bs)
    <2>1. \A i, k \in DOMAIN ms : i < k => Diff(p, ms[k].seq) < Diff(p, ms[i].seq)
        <3> SUFFICES ASSUME NEW i \in DOMAIN ms, NEW k \in DOMAIN ms, i < k
                     PROVE  Diff(p, ms[k].seq) < Diff(p, ms[i].seq)
            OBVIOUS
        <3>1. i \in DOMAIN net /\ ms[i] = net[i] /\ net[i].seq \in L
            <4>1. i # m + 1
                BY <1>3, <1>4
            <4> QED
                BY <1>3, <1>4, <4>1
        <3>2. CASE k \in DOMAIN net /\ ms[k] = net[k]
            <4>1. Diff(q, net[k].seq) < Diff(q, net[i].seq)
                BY <3>1, <3>2 DEF UnderWay, InLine
            <4>2. net[k].seq \in L
                BY <1>3, <3>2
            <4> DEFINE a == net[k].seq
                       b == net[i].seq
            <4>3. a \in L /\ b \in L /\ Diff(q, a) < Diff(q, b)
                BY <3>1, <4>1, <4>2
            <4> HIDE DEF a, b
            <4>4. Diff(p, a) < Diff(p, b)
                BY <1>1, <4>3
            <4> QED
                BY <3>1, <3>2, <4>4 DEF a, b
        <3>3. CASE ms[k].seq = q
            BY <1>1, <1>2, <3>1, <3>3
        <3> QED
            BY <1>4, <3>2, <3>3
    <2>2. \A i \in DOMAIN bs : \A s \in DOMAIN bs[i].block, k \in DOMAIN ms :
            Diff(p, ms[k].seq) < Diff(p, s)
        <3> SUFFICES ASSUME NEW i \in DOMAIN bs, NEW s \in DOMAIN bs[i].block, NEW k \in DOMAIN ms
                     PROVE  Diff(p, ms[k].seq) < Diff(p, s)
            OBVIOUS
        <3>1. s \in L
            BY <1>3
        <3>2. CASE k \in DOMAIN net /\ ms[k] = net[k]
            <4> DEFINE a == net[k].seq
            <4>1. a \in L /\ Diff(q, a) < Diff(q, s)
                BY <1>3, <3>2 DEF UnderWay, InLine
            <4> HIDE DEF a
            <4>2. Diff(p, a) < Diff(p, s)
                BY <1>1, <3>1, <4>1
            <4> QED
                BY <3>2, <4>2 DEF a
        <3>3. CASE ms[k].seq = q
            BY <1>1, <1>2, <3>1, <3>3
        <3> QED
            BY <1>4, <3>2, <3>3
    <2>3. \A i, j \in DOMAIN bs : i < j =>
            \A s \in DOMAIN bs[i].block, t \in DOMAIN bs[j].block : Diff(p, t) < Diff(p, s)
        <3> SUFFICES ASSUME NEW i \in DOMAIN bs, NEW j \in DOMAIN bs, i < j,
                            NEW s \in DOMAIN bs[i].block, NEW t \in DOMAIN bs[j].block
                     PROVE  Diff(p, t) < Diff(p, s)
            OBVIOUS
        <3>1. s \in L /\ t \in L /\ Diff(q, t) < Diff(q, s)
            BY <1>3 DEF UnderWay, InLine
        <3> QED
            BY <1>1, <3>1
    <2> QED
        BY <2>1, <2>2, <2>3 DEF InLine
<1>7. Together(p, ms, bs)
    <2>1. \A k \in DOMAIN ms : /\ Diff(p, ms[k].seq) \in Int /\ 1 <= Diff(p, ms[k].seq)
                               /\ Diff(p, ms[k].seq) <= WrapFront + 1
        <3> SUFFICES ASSUME NEW k \in DOMAIN ms
                     PROVE  /\ Diff(p, ms[k].seq) \in Int /\ 1 <= Diff(p, ms[k].seq)
                            /\ Diff(p, ms[k].seq) <= WrapFront + 1
            OBVIOUS
        <3>1. CASE k \in DOMAIN net /\ ms[k] = net[k]
            <4> DEFINE a == net[k].seq
            <4>1. a \in L /\ Diff(q, a) <= WrapFront
                BY <1>3, <3>1
            <4> HIDE DEF a
            <4>2. Diff(p, a) \in Int /\ 1 <= Diff(p, a) /\ Diff(p, a) <= WrapFront + 1
                BY <1>1, <4>1, Halves
            <4> QED
                BY <3>1, <4>2 DEF a
        <3>2. CASE ms[k].seq = q
            BY <1>2, <3>2, Halves
        <3> QED
            BY <1>4, <3>1, <3>2
    <2>2. \A i, k \in DOMAIN ms : Diff(p, ms[i].seq) - Diff(p, ms[k].seq) <= WrapFront
        BY <2>1, Halves
    <2>3. \A i \in DOMAIN bs : Near(DOMAIN bs[i].block, p)
        <3> SUFFICES ASSUME NEW i \in DOMAIN bs,
                            NEW s \in DOMAIN bs[i].block, NEW t \in DOMAIN bs[i].block
                     PROVE  Diff(p, s) - Diff(p, t) <= WrapFront
            BY DEF Near
        <3>1. s \in L /\ t \in L /\ Diff(q, s) - Diff(q, t) <= WrapFront
            BY <1>3 DEF UnderWay, Together, Near
        <3> QED
            BY <1>1, <3>1, Halves
    <2>4. \A i \in DOMAIN bs : i + 1 \notin DOMAIN bs =>
            \A s \in DOMAIN bs[i].block, k \in DOMAIN ms :
                Diff(p, s) - Diff(p, ms[k].seq) <= WrapFront
        <3> SUFFICES ASSUME NEW i \in DOMAIN bs, i + 1 \notin DOMAIN bs,
                            NEW s \in DOMAIN bs[i].block, NEW k \in DOMAIN ms
                     PROVE  Diff(p, s) - Diff(p, ms[k].seq) <= WrapFront
            OBVIOUS
        <3>1. i = n
            OBVIOUS
        <3>2. s \in L /\ Diff(q, s) <= WrapFront
            BY <1>3, <3>1
        <3>3. Diff(p, s) \in Int /\ Diff(p, s) <= WrapFront + 1
            BY <1>1, <3>2, Halves
        <3> QED
            BY <2>1, <3>3, Halves
    <2> QED
        BY <2>2, <2>3, <2>4 DEF Together
<1>8. SentInOrder(p, Live(ms, bs), rc)
    <2> SUFFICES ASSUME NEW s \in Live(ms, bs), NEW t \in Live(ms, bs), Diff(p, t) <= Diff(p, s)
                 PROVE  rc[s].sent <= rc[t].sent
        BY DEF SentInOrder
    <2>1. CASE s \in L /\ t \in L
        <3>1. Diff(q, t) <= Diff(q, s)
            BY <1>1, <2>1
        <3>2. rec[s].sent <= rec[t].sent
            BY <2>1, <3>1 DEF UnderWay, SentInOrder, L
        <3> QED
            BY <2>1, <3>2 DEF L
    <2>2. CASE s \in L /\ t = q
        BY <2>2 DEF L
    <2>3. CASE s = q
        <3>1. t = q
            BY <1>1, <1>2, <1>5, <2>3
        <3> QED
            BY <2>3, <3>1
    <2> QED
        BY <1>5, <2>1, <2>2, <2>3
<1>9. RcvdInOrder(p, bs)
    <2> SUFFICES ASSUME NEW i \in DOMAIN bs, NEW j \in DOMAIN bs,
                        NEW s \in DOMAIN bs[i].block, NEW t \in DOMAIN bs[j].block,
                        Diff(p, t) <= Diff(p, s)
                 PROVE  bs[i].block[s].ts <= bs[j].block[t].ts
        BY DEF RcvdInOrder
    <2>1. Diff(q, t) <= Diff(q, s)
        BY <1>1, <1>3
    <2> QED
        BY <2>1 DEF UnderWay, RcvdInOrder
<1>10. AllDated(bs, rc, now, ref)
    <2> SUFFICES ASSUME NEW i \in DOMAIN bs, NEW s \in DOMAIN bs[i].block
                 PROVE  Dated(bs[i], s, rc, now, ref)
        BY DEF AllDated
    <2>1. Dated(bs[i], s, rec, now, ref) /\ rc[s] = rec[s]
        BY <1>3 DEF UnderWay, AllDated, L
    <2> QED
        BY <2>1 DEF Dated
<1>11. Travels(ms, rc)
    <2> SUFFICES ASSUME NEW k \in DOMAIN ms PROVE rc[ms[k].seq].sent = ms[k].at
        BY DEF Travels
    <2>1. CASE k \in DOMAIN net /\ ms[k] = net[k]
        <3>1. rec[net[k].seq].sent = net[k].at /\ net[k].seq \in L
            BY <1>3, <2>1 DEF UnderWay, Travels
        <3> QED
            BY <2>1, <3>1 DEF L
    <2>2. CASE ms[k].seq = q /\ ms[k].at = now
        BY <2>2
    <2> QED
        BY <1>4, <2>1, <2>2
<1> QED
    BY <1>5, <1>6, <1>7, <1>8, <1>9, <1>10, <1>11 DEF UnderWay, p, L

-----------------------------------------------------------------------------
(* Time *)

\* The receiver's milliseconds grow with its clock, by FbPeriod over a period.
LEMMA ElapsedGrows ==
    ASSUME NEW a \in Int, NEW b \in Int, NEW ref \in Int, a <= b
    PROVE  /\ ElapsedMs(a, ref) \in Int /\ ElapsedMs(a, ref) <= ElapsedMs(b, ref)
           /\ ref <= a => ElapsedMs(a, ref) \in Nat
           /\ ElapsedMs(a + FbPeriod * RxUsPerMs, ref) = ElapsedMs(a, ref) + FbPeriod
<1> DEFINE x == a - ref
           y == b - ref
           u == RxUsPerMs
           e == x \div u
           f == y \div u
           z == x + FbPeriod * u
           g == z \div u
<1>1. x \in Int /\ y \in Int /\ x <= y /\ u \in Nat \ {0} /\ FbPeriod \in Nat
    BY CcfsReceiverAssumption
<1>2. z \in Int /\ (a + FbPeriod * RxUsPerMs) - ref = z
    BY CcfsReceiverAssumption
<1> HIDE DEF x, y, z, u
<1>3. e \in Int /\ u * e <= x /\ x < u * e + u
    BY <1>1
<1>4. f \in Int /\ u * f <= y /\ y < u * f + u
    BY <1>1
<1>5. g \in Int /\ u * g <= z /\ z < u * g + u
    BY <1>1, <1>2
<1>6. z = x + FbPeriod * u
    BY DEF z
<1> HIDE DEF e, f, g
<1>7. e <= f
    <2> SUFFICES ASSUME f < e PROVE FALSE
        BY <1>3, <1>4
    <2>1. u * (f + 1) <= u * e
        BY <1>1, <1>3, <1>4
    <2>2. u * (f + 1) = u * f + u
        BY <1>1, <1>3, <1>4
    <2> QED
        BY <1>1, <1>3, <1>4, <2>1, <2>2
<1>8. 0 <= x => e >= 0
    <2> SUFFICES ASSUME 0 <= x, e <= -1 PROVE FALSE
        BY <1>3
    <2>1. u * (e + 1) = u * e + u /\ u * (e + 1) <= 0
        BY <1>1, <1>3
    <2> QED
        BY <1>1, <1>3, <2>1
<1>9. g = e + FbPeriod
    <2> DEFINE h == e + FbPeriod
    <2>1. u * h = u * e + FbPeriod * u /\ h \in Int
        BY <1>1, <1>3
    <2> HIDE DEF h
    <2>2. u * h <= z /\ z < u * h + u
        BY <1>1, <1>3, <1>6, <2>1
    <2> DEFINE uh == u * h
               ug == u * g
    <2>3. uh \in Int /\ ug \in Int /\ u \in Int /\ u > 0
        BY <1>1, <1>5, <2>1
    <2>4. g < h => ug + u <= uh
        <3> SUFFICES ASSUME g < h PROVE ug + u <= uh
            OBVIOUS
        <3>1. u * (g + 1) <= u * h /\ u * (g + 1) = u * g + u
            BY <1>1, <1>5, <2>1
        <3> QED
            BY <3>1
    <2>5. h < g => uh + u <= ug
        <3> SUFFICES ASSUME h < g PROVE uh + u <= ug
            OBVIOUS
        <3>1. u * (h + 1) <= u * g /\ u * (h + 1) = u * h + u
            BY <1>1, <1>5, <2>1
        <3> QED
            BY <3>1
    <2>6. uh <= z /\ z < uh + u /\ ug <= z /\ z < ug + u
        BY <1>5, <2>2
    <2> HIDE DEF uh, ug
    <2>7. ~(g < h) /\ ~(h < g)
        BY <1>1, <1>2, <2>3, <2>4, <2>5, <2>6
    <2> QED
        BY <1>5, <2>1, <2>7 DEF h
<1>10. /\ ElapsedMs(a, ref) = e /\ ElapsedMs(b, ref) = f
       /\ ElapsedMs(a + FbPeriod * RxUsPerMs, ref) = g
    <2>1. ElapsedMs(a, ref) = e /\ ElapsedMs(b, ref) = f
        BY Zenon DEF ElapsedMs, e, f, x, y, u
    <2>2. ElapsedMs(a + FbPeriod * RxUsPerMs, ref) = ((a + FbPeriod * RxUsPerMs) - ref) \div u
        BY DEF ElapsedMs, u
    <2> QED
        BY <1>2, <2>1, <2>2, Zenon DEF g
<1>11. ref <= a => 0 <= x
    BY DEF x
<1> QED
    BY <1>3, <1>7, <1>8, <1>9, <1>10, <1>11

\* Time passing changes no order.
LEMMA Waiting ==
    ASSUME NEW q, NEW net, NEW bs, NEW rec, NEW now \in Int, NEW ref \in Int,
           UnderWay(q, net, bs, rec, now, ref)
    PROVE  UnderWay(q, net, bs, rec, now + 1, ref)
<1>1. ElapsedMs(now, ref) \in Int /\ ElapsedMs(now + 1, ref) \in Int
      /\ ElapsedMs(now, ref) <= ElapsedMs(now + 1, ref)
    <2>1. now + 1 \in Int /\ now <= now + 1 /\ now + 1 <= now + 1
        OBVIOUS
    <2> QED
        BY <2>1, ElapsedGrows
<1>2. \A i \in DOMAIN bs : \A s \in DOMAIN bs[i].block : Dated(bs[i], s, rec, now + 1, ref)
    <2> SUFFICES ASSUME NEW i \in DOMAIN bs, NEW s \in DOMAIN bs[i].block
                 PROVE  Dated(bs[i], s, rec, now + 1, ref)
        OBVIOUS
    <2>1. Dated(bs[i], s, rec, now, ref)
        BY DEF UnderWay, AllDated
    <2>2. bs[i].block[s].ts \in Int
        BY <2>1 DEF Dated, Stamp
    <2> QED
        BY <1>1, <2>1, <2>2 DEF Dated
<1> QED
    BY <1>2 DEF UnderWay, AllDated

-----------------------------------------------------------------------------
(* What the receiver does with its header *)

\* The fields of a header; its length field agrees with its blocks.
Fields == {"blocks", "length", "reportTime", "monitored"}

UpToDate(h) == h.length = (Octets(h.blocks) - 4) \div 4

\* A header without blocks is within the largest size.
LEMMA OctetsOfNone ==
    ASSUME NEW blocks, DOMAIN blocks = {}
    PROVE  Octets(blocks) = 20 /\ Octets(blocks) <= MaxOctets
<1>1. SumFunction([ssrc \in DOMAIN blocks |-> BlockOctets(CountEnd(DOMAIN blocks[ssrc]))]) = 0
    BY SumOfNone
<1>2. Octets(blocks) = 20
    BY <1>1 DEF Octets
<1>3. 28 + 2 * (WrapFront + 2) <= MaxOctets /\ WrapFront \in Nat /\ MaxOctets \in Nat
    BY FlowAssumption, RfbHeaderAssumption
<1> QED
    BY <1>2, <1>3

\* A header of one block of near numbers is within the largest size.
LEMMA OctetsOfOne ==
    ASSUME NEW blocks, DOMAIN blocks = {Ssrc}, NEW ref \in Sequences16,
           NEW S, S = DOMAIN blocks[Ssrc], S # {}, S \in SUBSET Sequences16, Near(S, ref)
    PROVE  Octets(blocks) \in Nat /\ Octets(blocks) <= MaxOctets
<1> DEFINE v == [ssrc \in DOMAIN blocks |-> BlockOctets(CountEnd(DOMAIN blocks[ssrc]))]
           c == CountEnd(S)
           n == c.count
<1>1. PICK old, new \in S : Window(S, ref, old, new)
    BY SomeWindow
<1>2. n \in 1 .. WrapFront + 1 /\ n \in Nat
    BY <1>1, CountOfWindow
<1>3. DOMAIN v = {Ssrc} /\ v[Ssrc] = BlockOctets(c)
    OBVIOUS
<1>4. BlockOctets(c) \in Nat /\ BlockOctets(c) <= 8 + 2 * (n + 1)
    <2> HIDE DEF c
    <2> QED
        BY <1>2, BlockWords
<1> HIDE DEF v, c, n
<1>5. SumFunction(v) = BlockOctets(c)
    BY <1>3, <1>4, SumOfOne
<1>6. Octets(blocks) = 20 + BlockOctets(c)
    BY <1>5 DEF Octets, v
<1>7. 28 + 2 * (WrapFront + 2) <= MaxOctets /\ WrapFront \in Nat /\ MaxOctets \in Nat
    BY FlowAssumption, RfbHeaderAssumption
<1> QED
    BY <1>2, <1>4, <1>6, <1>7

\* A header of one stream, near or empty, is within the largest size.
LEMMA ShortHeader ==
    ASSUME NEW h, OneStream(h), NEW ref \in Sequences16, Near(DOMAIN BlockIn(h, Ssrc), ref)
    PROVE  Octets(h.blocks) \in Nat /\ Octets(h.blocks) <= MaxOctets
<1> DEFINE B == h.blocks
<1>1. CASE DOMAIN B = {}
    <2> HIDE DEF B
    <2>1. Octets(B) = 20 /\ Octets(B) <= MaxOctets
        BY <1>1, OctetsOfNone
    <2> QED
        BY <2>1 DEF B
<1>2. CASE DOMAIN B = {Ssrc}
    <2> DEFINE S == DOMAIN B[Ssrc]
    <2>1. S # {} /\ S \in SUBSET Sequences16 /\ Near(S, ref)
        BY <1>2 DEF OneStream, BlockIn, BlockType
    <2> HIDE DEF B
    <2> QED
        BY <1>2, <2>1, OctetsOfOne DEF B
<1> QED
    BY <1>1, <1>2 DEF OneStream

\* UpdateLength changes the length alone, and sets it right when the size fits.
LEMMA Updating ==
    ASSUME NEW h, DOMAIN h = Fields
    PROVE  /\ DOMAIN Updated(h) = Fields
           /\ Updated(h).blocks = h.blocks
           /\ Updated(h).reportTime = h.reportTime
           /\ Updated(h).monitored = h.monitored
           /\ Octets(h.blocks) \in Int /\ Octets(h.blocks) <= MaxOctets => UpToDate(Updated(h))
<1>1. /\ DOMAIN Updated(h) = Fields
      /\ Updated(h).blocks = h.blocks
      /\ Updated(h).reportTime = h.reportTime
      /\ Updated(h).monitored = h.monitored
    BY DEF Updated, Fields
<1>2. ASSUME Octets(h.blocks) \in Int, Octets(h.blocks) <= MaxOctets
      PROVE  UpToDate(Updated(h))
    <2> DEFINE n == Octets(h.blocks)
    <2>1. ~(n > MaxOctets)
        <3>1. n \in Int /\ n <= MaxOctets /\ MaxOctets \in Nat
            BY <1>2, RfbHeaderAssumption
        <3> HIDE DEF n
        <3> QED
            BY <3>1
    <2>2. Updated(h) = [h EXCEPT !.length = (n - 4) \div 4]
        <3>1. Updated(h) = [h EXCEPT !.length = IF n > MaxOctets THEN @ ELSE (n - 4) \div 4]
            BY Zenon DEF Updated
        <3> HIDE DEF n
        <3> QED
            BY <2>1, <3>1
    <2> DEFINE len == (n - 4) \div 4
    <2>3. Updated(h).length = len
        <3> HIDE DEF len
        <3>1. Updated(h) = [h EXCEPT !.length = len]
            BY <2>2 DEF len
        <3> QED
            BY <3>1 DEF Fields
    <2> QED
        BY <1>1, <2>3 DEF UpToDate
<1> QED
    BY <1>1, <1>2

\* What AddFeedback stores of a packet received at ts.
NewStamp(ts) == [ts |-> ts, ecn |-> 0]

\* g is h with packet s received at ts, if it was not there.
Added(h, g, s, ts) ==
    /\ DOMAIN g = Fields /\ OneStream(g)
    /\ DOMAIN BlockIn(g, Ssrc) = DOMAIN BlockIn(h, Ssrc) \cup {s}
    /\ s \notin DOMAIN BlockIn(h, Ssrc) =>
        /\ BlockIn(g, Ssrc) = PutAt(BlockIn(h, Ssrc), s, NewStamp(ts))
        /\ \A ref \in Sequences16 : Near(DOMAIN BlockIn(g, Ssrc), ref) => UpToDate(g)

\* AddFeedback of a number that is not there adds it to the block and keeps the
\* header of one stream, its length right while the numbers are near.
LEMMA Adding ==
    ASSUME NEW h, DOMAIN h = Fields, OneStream(h), NEW seq \in Sequences16, NEW ts \in Nat,
           NEW g, g = AddFeedback(h, Ssrc, seq, ts, 0)
    PROVE  Added(h, g, seq, ts)
<1> DEFINE b == BlockIn(h, Ssrc)
           c == PutAt(b, seq, NewStamp(ts))
           B == PutAt(h.blocks, Ssrc, c)
           k == [h EXCEPT !.blocks = B]
<1>1. CASE seq \in DOMAIN b
    <2>1. Ssrc \in DOMAIN h.blocks /\ h.blocks[Ssrc] = b
        BY <1>1 DEF BlockIn
    <2>2. AddResult(h, Ssrc, seq, 0) \notin {"SRC", "ONE"}
        <3> HIDE DEF b
        <3>1. ~(0 > 3) /\ 0 <= 3
            OBVIOUS
        <3>2. AddResult(h, Ssrc, seq, 0) = "DUPLICATE"
            BY <1>1, <2>1, <3>1, Zenon DEF AddResult
        <3> QED
            BY <3>2
    <2>3. g = h
        BY <2>2 DEF AddFeedback
    <2>4. DOMAIN b = DOMAIN b \cup {seq}
        BY <1>1
    <2> QED
        BY <1>1, <2>3, <2>4 DEF Added
<1>2. CASE seq \notin DOMAIN b
    <2>1. AddResult(h, Ssrc, seq, 0) \in {"SRC", "ONE"}
        <3>1. ~(0 > 3) /\ 0 <= 3
            OBVIOUS
        <3>2. CASE Ssrc \notin DOMAIN h.blocks
            <4>1. AddResult(h, Ssrc, seq, 0) = "SRC"
                BY <3>1, <3>2, Zenon DEF AddResult
            <4> QED
                BY <4>1
        <3>3. CASE Ssrc \in DOMAIN h.blocks
            <4>1. seq \notin DOMAIN h.blocks[Ssrc]
                BY <1>2, <3>3 DEF BlockIn
            <4>2. AddResult(h, Ssrc, seq, 0) = "ONE"
                BY <3>1, <3>3, <4>1, Zenon DEF AddResult
            <4> QED
                BY <4>2
        <3> QED
            BY <3>2, <3>3
    <2>2. g = Updated(k)
        <3>1. g = Updated([h EXCEPT !.blocks =
                     PutAt(@, Ssrc, PutAt(BlockIn(h, Ssrc), seq, [ts |-> ts, ecn |-> 0]))])
            BY <2>1 DEF AddFeedback
        <3>2. [h EXCEPT !.blocks =
                     PutAt(@, Ssrc, PutAt(BlockIn(h, Ssrc), seq, [ts |-> ts, ecn |-> 0]))] = k
            BY DEF NewStamp
        <3> HIDE DEF k
        <3> QED
            BY <3>1, <3>2
    <2>3. DOMAIN k = Fields /\ k.blocks = B
        BY DEF Fields
    <2> HIDE DEF k
    <2>4. DOMAIN g = Fields /\ g.blocks = B
        BY <2>2, <2>3, Updating
    <2>5. DOMAIN B = {Ssrc} /\ B[Ssrc] = c
        <3>1. DOMAIN h.blocks \subseteq {Ssrc}
            BY DEF OneStream
        <3> HIDE DEF c
        <3> QED
            BY <3>1 DEF PutAt
    <2> HIDE DEF B
    <2>6. BlockIn(g, Ssrc) = c
        <3> HIDE DEF c
        <3> QED
            BY <2>4, <2>5 DEF BlockIn
    <2>7. DOMAIN c = DOMAIN b \cup {seq}
        <3> HIDE DEF b
        <3> QED
            BY DEF PutAt
    <2>8. BlockType(c)
        <3>1. NewStamp(ts) \in Stamp
            BY DEF NewStamp, Stamp
        <3>2. BlockType(b)
            BY DEF OneStream
        <3> HIDE DEF b
        <3> QED
            BY <3>1, <3>2 DEF PutAt, BlockType
    <2> HIDE DEF c, b
    <2>9. OneStream(g)
        <3>1. DOMAIN c # {}
            BY <2>7
        <3> QED
            BY <2>4, <2>5, <2>6, <2>8, <3>1 DEF OneStream
    <2>10. ASSUME NEW ref \in Sequences16, Near(DOMAIN BlockIn(g, Ssrc), ref)
           PROVE  UpToDate(g)
        <3>1. Octets(k.blocks) \in Nat /\ Octets(k.blocks) \in Int /\ Octets(k.blocks) <= MaxOctets
            BY <2>3, <2>4, <2>9, <2>10, ShortHeader
        <3> QED
            BY <2>2, <2>3, <3>1, Updating
    <2> QED
        BY <2>4, <2>6, <2>7, <2>9, <2>10 DEF b, c, Added
<1> QED
    BY <1>1, <1>2

\* CleanReportBlocks leaves a header of nothing with the right length.
LEMMA Cleaning ==
    ASSUME NEW h, DOMAIN h = Fields, NEW g, g = CleanReportBlocks(h)
    PROVE  DOMAIN g = Fields /\ g.blocks = <<>> /\ OneStream(g) /\ BlockIn(g, Ssrc) = <<>>
           /\ UpToDate(g)
<1> DEFINE k == [h EXCEPT !.blocks = <<>>]
<1>1. DOMAIN k = Fields /\ k.blocks = <<>> /\ g = Updated(k)
    BY DEF CleanReportBlocks, Fields
<1> HIDE DEF k
<1>2. DOMAIN g = Fields /\ g.blocks = <<>>
    BY <1>1, Updating
<1>3. BlockIn(g, Ssrc) = <<>> /\ OneStream(g)
    BY <1>2 DEF BlockIn, OneStream, BlockType
<1>4. UpToDate(g)
    <2>1. Octets(k.blocks) = 20 /\ Octets(k.blocks) <= MaxOctets
        BY <1>1, OctetsOfNone
    <2>2. Octets(k.blocks) \in Int
        BY <2>1
    <2> QED
        BY <1>1, <2>1, <2>2, Updating
<1> QED
    BY <1>2, <1>3, <1>4

-----------------------------------------------------------------------------
(* What the sender does with its records *)

\* The records of packets sent no longer ago than KeepTime are kept.
LEMMA Keeping ==
    ASSUME NEW records, NEW now \in Int, NEW kept, kept = Kept(records, now)
    PROVE  /\ DOMAIN kept \subseteq DOMAIN records
           /\ \A s \in DOMAIN kept : kept[s] = records[s]
           /\ \A s \in DOMAIN records :
                records[s].sent \in Nat /\ now <= records[s].sent + KeepTime * UsPerMs
                    => s \in DOMAIN kept
<1>1. ASSUME NEW s \in DOMAIN records, records[s].sent \in Nat,
             now <= records[s].sent + KeepTime * UsPerMs
      PROVE  Ms(records[s].sent) + KeepTime >= Ms(now)
    <2> DEFINE x == records[s].sent
               u == UsPerMs
               e == x \div u
               f == now \div u
               ue == u * e
               uf == u * f
               ku == KeepTime * u
    <2>1. x \in Nat /\ u \in Nat \ {0} /\ KeepTime \in Nat /\ now <= x + ku
        BY <1>1, VirtualQueueAssumption, LedgerAssumption
    <2> HIDE DEF x, u
    <2>2. e \in Int /\ ue <= x /\ x < ue + u
        BY <2>1
    <2>3. f \in Int /\ uf <= now /\ now < uf + u
        BY <2>1
    <2>4. ue \in Int /\ uf \in Int /\ ku \in Int
        BY <2>1, <2>2, <2>3
    <2> HIDE DEF e, f
    <2>5. e + KeepTime < f => (ue + ku) + u <= uf
        <3> SUFFICES ASSUME e + KeepTime < f PROVE (ue + ku) + u <= uf
            OBVIOUS
        <3>1. u * ((e + KeepTime) + 1) <= u * f
            BY <2>1, <2>2, <2>3
        <3>2. u * ((e + KeepTime) + 1) = (u * e + KeepTime * u) + u
            BY <2>1, <2>2
        <3> QED
            BY <3>1, <3>2
    <2> HIDE DEF ue, uf, ku
    <2>6. ~(e + KeepTime < f)
        BY <2>1, <2>2, <2>3, <2>4, <2>5
    <2>7. e + KeepTime >= f
        BY <2>1, <2>2, <2>3, <2>6
    <2> QED
        BY <2>7 DEF Ms, e, f, x, u
<1> QED
    BY <1>1 DEF Kept

\* What getNetRemains asks of a report: the newest number of it, and how many
\* numbers there are from the oldest to the newest.
LEMMA Reading ==
    ASSUME NEW f, DOMAIN f.blocks = {Ssrc}, NEW S, S = DOMAIN BlockIn(f, Ssrc),
           S \in SUBSET Sequences16, NEW q \in Sequences16, NEW o, NEW n, Window(S, q, o, n)
    PROVE  /\ EndSequence(f) = n
           /\ GetTotalReportCount(f) = Diff(q, o) - Diff(q, n) + 1
           /\ GetTotalReportCount(f) \in Nat \ {0}
<1> DEFINE v == [ssrc \in DOMAIN f.blocks |-> CountEnd(DOMAIN f.blocks[ssrc]).count]
           c == CountEnd(S).count
<1>1. CountEnd(S).count = Diff(q, o) - Diff(q, n) + 1 /\ CountEnd(S).end = n
    BY CountEndOfWindow
<1>2. c \in 1 .. WrapFront + 1 /\ c \in Nat
    BY CountOfWindow
<1>3. EndSequence(f) = n
    BY <1>1 DEF EndSequence
<1>4. DOMAIN v = {Ssrc} /\ v[Ssrc] = c
    BY DEF BlockIn
<1> HIDE DEF v, c
<1>5. SumFunction(v) = c
    BY <1>2, <1>4, SumOfOne
<1>6. GetTotalReportCount(f) = c
    BY <1>5 DEF GetTotalReportCount, v
<1> QED
    BY <1>1, <1>2, <1>3, <1>6, Halves DEF c

\* Sums of sizes.
LEMMA BytesAreNat ==
    ASSUME NEW records, NEW seqs, seqs \in SUBSET Sequences16,
           \A s \in seqs : records[s] \in SentRtpRecord
    PROVE  Bytes(seqs, records) \in Nat
<1> DEFINE v == [seq \in seqs |-> records[seq].size]
<1>1. IsFiniteSet(DOMAIN v)
    <2>1. 0 \in Int /\ SeqMod - 1 \in Int
        BY Halves
    <2>2. IsFiniteSet(Sequences16)
        BY <2>1, FS_Interval DEF Sequences16
    <2>3. DOMAIN v \in SUBSET Sequences16
        OBVIOUS
    <2> HIDE DEF v
    <2> QED
        BY <2>2, <2>3, FS_Subset
<1>2. \A x \in DOMAIN v : v[x] \in Nat
    BY DEF SentRtpRecord
<1>3. Bytes(seqs, records) = SumFunction(v)
    BY DEF Bytes
<1> HIDE DEF v
<1>4. \A x \in DOMAIN v : v[x] \in Int
    BY <1>2
<1>5. SumFunction(v) = Total(v, DOMAIN v)
    BY <1>1, <1>4, SumFunctionIsSum
<1>6. Total(v, DOMAIN v) \in Nat
    BY <1>1, <1>2, TotalNat
<1> QED
    BY <1>3, <1>5, <1>6

\* The sum of a list of naturals is their total over its indices.
LEMMA ListTotal ==
    ASSUME NEW n \in Nat, NEW v, DOMAIN v = 1 .. n, \A i \in 1 .. n : v[i] \in Nat
    PROVE  SumFunction(v) = Total(v, 1 .. n) /\ Total(v, 1 .. n) \in Nat
<1>1. Integers(v, n)
    BY DEF Integers
<1>2. SumFunction(v) = Total(v, 1 .. n)
    BY <1>1, SumFunctionIsTotal
<1>3. IsFiniteSet(1 .. n)
    BY FS_Interval
<1> DEFINE S == 1 .. n
<1>4. IsFiniteSet(S) /\ \A x \in S : v[x] \in Nat
    BY <1>3
<1> HIDE DEF S
<1>5. Total(v, S) \in Nat
    BY <1>4, TotalNat
<1> QED
    BY <1>2, <1>5 DEF S

\* A list cut after its first n members into p and r.
Cut(long, m, n, p, r) ==
    /\ DOMAIN p = 1 .. n /\ \A i \in 1 .. n : p[i] = long[i]
    /\ DOMAIN r = 1 .. m - n /\ \A i \in 1 .. m - n : r[i] = long[n + i]

\* The list a of length L has grown to long by d, and then been cut.
Slides(a, L, d, long, n, p, r) ==
    /\ DOMAIN a = 1 .. L /\ \A i \in 1 .. L : a[i] \in Nat
    /\ DOMAIN long = 1 .. L + 1 /\ (\A i \in 1 .. L : long[i] = a[i]) /\ long[L + 1] = d
    /\ Cut(long, L + 1, n, p, r)

\* The sum of a sliding window: add what enters, subtract what leaves.
LEMMA SlidingSum ==
    ASSUME NEW L \in Nat, NEW a, NEW d \in Nat, NEW g, NEW k \in 0 .. L + 1, NEW p, NEW r,
           Slides(a, L, d, g, k, p, r)
    PROVE  /\ SumFunction(r) \in Nat
           /\ SumFunction(r) = SumFunction(a) + d - SumFunction(p)
<1>0. /\ DOMAIN a = 1 .. L /\ \A i \in 1 .. L : a[i] \in Nat
      /\ DOMAIN g = 1 .. L + 1 /\ (\A i \in 1 .. L : g[i] = a[i]) /\ g[L + 1] = d
      /\ DOMAIN p = 1 .. k /\ \A i \in 1 .. k : p[i] = g[i]
      /\ DOMAIN r = 1 .. (L + 1) - k /\ \A i \in 1 .. (L + 1) - k : r[i] = g[k + i]
    BY DEF Slides, Cut
<1> DEFINE m == (L + 1) - k
<1>1. k \in Nat /\ m \in Nat /\ k + m = L + 1
    OBVIOUS
<1> HIDE DEF m
<1>2. DOMAIN r = 1 .. m /\ \A i \in 1 .. m : r[i] = g[k + i]
    BY <1>0 DEF m
<1>3. \A i \in 1 .. L + 1 : g[i] \in Nat
    <2> TAKE i \in 1 .. L + 1
    <2>1. i \in 1 .. L \/ i = L + 1
        OBVIOUS
    <2> QED
        BY <1>0, <2>1
<1>4. \A i \in 1 .. m : r[i] \in Nat
    <2> SUFFICES ASSUME NEW i \in 1 .. m PROVE r[i] \in Nat
        OBVIOUS
    <2>1. k + i \in 1 .. L + 1
        BY <1>1
    <2> QED
        BY <1>2, <1>3, <2>1
<1>5. \A i \in 1 .. k : p[i] \in Nat
    <2> SUFFICES ASSUME NEW i \in 1 .. k PROVE p[i] \in Nat
        OBVIOUS
    <2>1. i \in 1 .. L + 1
        BY <1>1
    <2> QED
        BY <1>0, <1>3, <2>1
<1>6. /\ SumFunction(a) = Total(a, 1 .. L) /\ Total(a, 1 .. L) \in Nat
      /\ SumFunction(p) = Total(p, 1 .. k) /\ Total(p, 1 .. k) \in Nat
      /\ SumFunction(r) = Total(r, 1 .. m) /\ Total(r, 1 .. m) \in Nat
    <2>1. SumFunction(a) = Total(a, 1 .. L) /\ Total(a, 1 .. L) \in Nat
        BY <1>0, ListTotal
    <2>2. SumFunction(p) = Total(p, 1 .. k) /\ Total(p, 1 .. k) \in Nat
        BY <1>0, <1>1, <1>5, ListTotal
    <2>3. SumFunction(r) = Total(r, 1 .. m) /\ Total(r, 1 .. m) \in Nat
        BY <1>1, <1>2, <1>4, ListTotal
    <2> QED
        BY <2>1, <2>2, <2>3
<1>7. Total(g, 1 .. L + 1) = d + Total(g, 1 .. L)
    <2>1. \A i \in 1 .. L + 1 : g[i] \in Int
        BY <1>3
    <2> QED
        BY <1>0, <2>1, TotalNext
<1>8. Total(g, 1 .. L) = Total(a, 1 .. L)
    <2>1. \A i \in 1 .. L : g[i] \in Int /\ g[i] = a[i]
        BY <1>0
    <2> QED
        BY <2>1, TotalAgrees
<1>9. Total(g, 1 .. k + m) = Total(g, 1 .. k) + Total(r, 1 .. m)
    <2>1. Integers(g, k + m)
        BY <1>1, <1>3 DEF Integers
    <2>2. Continues(r, g, k, m)
        BY <1>2 DEF Continues
    <2> QED
        BY <1>1, <2>1, <2>2, TotalSplit
<1>10. Total(g, 1 .. k) = Total(p, 1 .. k)
    <2>1. \A i \in 1 .. k : g[i] \in Int /\ g[i] = p[i]
        BY <1>0, <1>5
    <2> QED
        BY <1>1, <2>1, TotalAgrees
<1> DEFINE whole == Total(g, 1 .. L + 1)
           front == Total(p, 1 .. k)
           rest == Total(r, 1 .. m)
           old == Total(a, 1 .. L)
<1>11. whole = d + old /\ whole = front + rest
    <2>1. 1 .. k + m = 1 .. L + 1
        BY <1>1
    <2> QED
        BY <1>7, <1>8, <1>9, <1>10, <2>1
<1>12. /\ SumFunction(a) = old /\ old \in Nat
       /\ SumFunction(p) = front /\ front \in Nat
       /\ SumFunction(r) = rest /\ rest \in Nat
    BY <1>6
<1> HIDE DEF whole, front, rest, old
<1> QED
    BY <1>11, <1>12

-----------------------------------------------------------------------------
(* The window of periods *)

\* The periods that leave are those before the first recent one.
LEMMA Leaving ==
    ASSUME NEW w, NEW m \in Nat, Len(w) = m, DOMAIN w = 1 .. m,
           \A i \in 1 .. m : w[i].begin \in Nat, NEW end \in Int
    PROVE  /\ Outdated(w, end) \in 0 .. m
           /\ Outdated(w, end) < m => w[Outdated(w, end) + 1].begin + BrWindow >= end
<1> DEFINE recent == {j \in DOMAIN w : w[j].begin + BrWindow >= end}
           T == {m} \cup {i - 1 : i \in recent}
<1>1. T \in SUBSET Nat /\ T # {}
    OBVIOUS
<1>2. \E t \in T : \A u \in T : t <= u
    <2> HIDE DEF T
    <2> QED
        BY <1>1, LeastNat
<1>3. PICK t \in T : \A u \in T : t <= u
    BY <1>2
<1>4. Outdated(w, end) = Min(T)
    BY DEF Outdated
<1>5. T \in SUBSET Int
    <2> HIDE DEF T
    <2> QED
        BY <1>1
<1>6. Min(T) = t
    <2> HIDE DEF T
    <2> QED
        BY <1>3, <1>5, MinIs
<1>7. t \in 0 .. m
    <2>1. t \in Nat /\ t <= m
        <3>1. m \in T
            OBVIOUS
        <3> HIDE DEF T
        <3> QED
            BY <1>1, <1>3, <3>1
    <2> HIDE DEF T
    <2> QED
        BY <2>1
<1>8. ASSUME t < m PROVE w[t + 1].begin + BrWindow >= end
    <2>1. t # m
        BY <1>7, <1>8
    <2>2. PICK i \in recent : t = i - 1
        BY <1>3, <2>1
    <2>3. i = t + 1
        BY <2>2
    <2> QED
        BY <2>2, <2>3
<1> HIDE DEF T
<1> QED
    BY <1>4, <1>6, <1>7, <1>8

\* A period never begins more than a period before the one it follows, nor more
\* than BrWindow and a period after any other of the window.
InSteps(w) ==
    \A i, j \in DOMAIN w : i < j => w[i].begin <= w[j].begin + FbPeriod
Recent(w) ==
    \A i, j \in DOMAIN w : w[j].begin <= w[i].begin + BrWindow + FbPeriod

\* A list and what SubSeq makes of its two parts.
LEMMA Cutting ==
    ASSUME NEW S, NEW long \in Seq(S), NEW n \in 0 .. Len(long)
    PROVE  /\ Cut(long, Len(long), n, SubSeq(long, 1, n), SubSeq(long, n + 1, Len(long)))
           /\ SubSeq(long, n + 1, Len(long)) \in Seq(S)
<1> DEFINE m == Len(long)
           p == SubSeq(long, 1, n)
           r == SubSeq(long, n + 1, m)
<1>1. m \in Nat /\ \A i \in 1 .. m : long[i] \in S
    OBVIOUS
<1>2. n \in Nat /\ n <= m /\ n + 1 \in Int /\ 1 \in Int
    OBVIOUS
<1>3. /\ p \in Seq(S) /\ Len(p) = (IF 1 <= n THEN n - 1 + 1 ELSE 0)
      /\ \A i \in 1 .. n - 1 + 1 : p[i] = long[1 + i - 1]
    <2>1. \A i \in 1 .. n : long[i] \in S
        BY <1>1, <1>2
    <2> QED
        BY <1>2, <2>1, SubSeqProperties
<1>4. /\ r \in Seq(S) /\ Len(r) = (IF n + 1 <= m THEN m - (n + 1) + 1 ELSE 0)
      /\ \A i \in 1 .. m - (n + 1) + 1 : r[i] = long[(n + 1) + i - 1]
    <2>1. \A i \in n + 1 .. m : long[i] \in S
        BY <1>1, <1>2
    <2> QED
        BY <1>1, <1>2, <2>1, SubSeqProperties
<1> HIDE DEF m, p, r
<1>5. Len(p) = n /\ DOMAIN p = 1 .. n /\ \A i \in 1 .. n : p[i] = long[i]
    <2>1. n - 1 + 1 = n /\ \A i \in 1 .. n : 1 + i - 1 = i
        BY <1>2
    <2>2. Len(p) = n
        BY <1>2, <1>3
    <2> QED
        BY <1>3, <2>1, <2>2
<1>6. Len(r) = m - n /\ DOMAIN r = 1 .. m - n /\ \A i \in 1 .. m - n : r[i] = long[n + i]
    <2>1. m - (n + 1) + 1 = m - n /\ \A i \in 1 .. m - n : (n + 1) + i - 1 = n + i
        BY <1>1, <1>2
    <2>2. Len(r) = m - n
        BY <1>1, <1>2, <1>4
    <2> QED
        BY <1>4, <2>1, <2>2
<1> QED
    BY <1>4, <1>5, <1>6 DEF Cut, m, p, r

\* Every member of few is one or a member of many.
OnlyOf(few, many, one) ==
    \A i \in DOMAIN few : few[i] = one \/ \E j \in DOMAIN many : few[i] = many[j]

\* The members of a window that has slid.
LEMMA SlidMembers ==
    ASSUME NEW w, w \in Seq(BrFractionData), NEW d,
           NEW long, long = Append(w, d),
           NEW n \in 0 .. Len(w) + 1, NEW p, NEW r, Cut(long, Len(w) + 1, n, p, r)
    PROVE  OnlyOf(r, w, d)
<1> DEFINE L == Len(w)
<1>1. L \in Nat /\ DOMAIN w = 1 .. L
    OBVIOUS
<1>2. (\A i \in 1 .. L : long[i] = w[i]) /\ long[L + 1] = d
    OBVIOUS
<1>3. n \in 0 .. L + 1
    OBVIOUS
<1>4. DOMAIN r = 1 .. (L + 1) - n /\ \A i \in 1 .. (L + 1) - n : r[i] = long[n + i]
    BY DEF Cut
<1> HIDE DEF L
<1>5. \A i \in DOMAIN r : r[i] = long[n + i] /\ (n + i \in 1 .. L \/ n + i = L + 1)
    <2> SUFFICES ASSUME NEW i \in 1 .. (L + 1) - n
                 PROVE  r[i] = long[n + i] /\ (n + i \in 1 .. L \/ n + i = L + 1)
        BY <1>4
    <2> QED
        BY <1>1, <1>3, <1>4
<1> QED
    BY <1>1, <1>2, <1>5 DEF OnlyOf

\* The sums of its sizes.
LEMMA SlidSums ==
    ASSUME NEW w, w \in Seq(BrFractionData), NEW d, d \in BrFractionData,
           NEW long, long = Append(w, d),
           NEW n \in 0 .. Len(w) + 1, NEW p, NEW r, Cut(long, Len(w) + 1, n, p, r)
    PROVE  /\ PoppedBytes(r).sentBytes
                = PoppedBytes(w).sentBytes + d.sentBytes - PoppedBytes(p).sentBytes
           /\ PoppedBytes(r).rcvdBytes
                = PoppedBytes(w).rcvdBytes + d.rcvdBytes - PoppedBytes(p).rcvdBytes
           /\ PoppedBytes(r).sentBytes \in Nat /\ PoppedBytes(r).rcvdBytes \in Nat
<1> DEFINE L == Len(w)
<1>1. L \in Nat /\ DOMAIN w = 1 .. L /\ \A i \in 1 .. L : w[i] \in BrFractionData
    OBVIOUS
<1>2. /\ DOMAIN long = 1 .. L + 1
      /\ \A i \in 1 .. L : long[i] = w[i]
      /\ long[L + 1] = d
    OBVIOUS
<1>6. n \in 0 .. L + 1
    OBVIOUS
<1>7. DOMAIN r = 1 .. (L + 1) - n /\ \A i \in 1 .. (L + 1) - n : r[i] = long[n + i]
    BY DEF Cut
<1>8. DOMAIN p = 1 .. n /\ \A i \in 1 .. n : p[i] = long[i]
    BY DEF Cut
<1> HIDE DEF L
<1>3. \A i \in 1 .. L + 1 : long[i] \in BrFractionData
    <2> TAKE i \in 1 .. L + 1
    <2>1. i \in 1 .. L \/ i = L + 1
        BY <1>1
    <2> QED
        BY <1>1, <1>2, <2>1
<1>4. \A b \in BrFractionData : b.begin \in Nat /\ b.sentBytes \in Nat /\ b.rcvdBytes \in Nat
    BY DEF BrFractionData
<1>5. FbPeriod \in Nat /\ BrWindow \in Nat /\ d.begin \in Nat
    BY <1>4, CcfsReceiverAssumption, LedgerAssumption
<1>9. \A i \in DOMAIN r : n + i \in 1 .. L + 1 /\ r[i] = long[n + i] /\ i \in Int /\ n + i \in Int
                          /\ (n + i \in 1 .. L \/ n + i = L + 1)
    <2> SUFFICES ASSUME NEW i \in 1 .. (L + 1) - n
                 PROVE  n + i \in 1 .. L + 1 /\ r[i] = long[n + i] /\ i \in Int /\ n + i \in Int
                        /\ (n + i \in 1 .. L \/ n + i = L + 1)
        BY <1>7
    <2> QED
        BY <1>1, <1>6, <1>7
<1> DEFINE S(u) == [i \in DOMAIN u |-> u[i].sentBytes]
           R(u) == [i \in DOMAIN u |-> u[i].rcvdBytes]
<1>15. \A i \in 1 .. n : i \in 1 .. L + 1
    BY <1>1, <1>6
<1>16. SumFunction(S(r)) = SumFunction(S(w)) + d.sentBytes - SumFunction(S(p))
       /\ SumFunction(S(r)) \in Nat
    <2>1. /\ DOMAIN S(w) = 1 .. L /\ DOMAIN S(long) = 1 .. L + 1
          /\ DOMAIN S(p) = 1 .. n /\ DOMAIN S(r) = 1 .. (L + 1) - n
        BY <1>1, <1>2, <1>7, <1>8
    <2>2. \A i \in 1 .. L : S(w)[i] \in Nat /\ S(long)[i] = S(w)[i]
        <3> TAKE i \in 1 .. L
        <3>1. i \in 1 .. L + 1
            BY <1>1
        <3> QED
            BY <1>1, <1>2, <1>4, <3>1
    <2>3. d.sentBytes \in Nat /\ S(long)[L + 1] = d.sentBytes
        BY <1>1, <1>2, <1>4
    <2>4. \A i \in 1 .. n : S(p)[i] = S(long)[i]
        BY <1>2, <1>8, <1>15
    <2>5. \A i \in 1 .. (L + 1) - n : S(r)[i] = S(long)[n + i]
        BY <1>2, <1>7, <1>9
    <2>6. Slides(S(w), L, d.sentBytes, S(long), n, S(p), S(r))
        <3> HIDE DEF S
        <3> QED
            BY <2>1, <2>2, <2>3, <2>4, <2>5 DEF Slides, Cut
    <2> DEFINE e == d.sentBytes
               x == S(w)
               y == S(long)
               z == S(p)
               u == S(r)
    <2>7. e \in Nat /\ L \in Nat /\ n \in 0 .. L + 1 /\ Slides(x, L, e, y, n, z, u)
        BY <1>1, <1>6, <2>3, <2>6
    <2> HIDE DEF e, x, y, z, u, S
    <2>8. SumFunction(u) \in Nat /\ SumFunction(u) = SumFunction(x) + e - SumFunction(z)
        BY <2>7, SlidingSum
    <2> QED
        BY <2>8 DEF e, x, z, u
<1>17. SumFunction(R(r)) = SumFunction(R(w)) + d.rcvdBytes - SumFunction(R(p))
       /\ SumFunction(R(r)) \in Nat
    <2>1. /\ DOMAIN R(w) = 1 .. L /\ DOMAIN R(long) = 1 .. L + 1
          /\ DOMAIN R(p) = 1 .. n /\ DOMAIN R(r) = 1 .. (L + 1) - n
        BY <1>1, <1>2, <1>7, <1>8
    <2>2. \A i \in 1 .. L : R(w)[i] \in Nat /\ R(long)[i] = R(w)[i]
        <3> TAKE i \in 1 .. L
        <3>1. i \in 1 .. L + 1
            BY <1>1
        <3> QED
            BY <1>1, <1>2, <1>4, <3>1
    <2>3. d.rcvdBytes \in Nat /\ R(long)[L + 1] = d.rcvdBytes
        BY <1>1, <1>2, <1>4
    <2>4. \A i \in 1 .. n : R(p)[i] = R(long)[i]
        BY <1>2, <1>8, <1>15
    <2>5. \A i \in 1 .. (L + 1) - n : R(r)[i] = R(long)[n + i]
        BY <1>2, <1>7, <1>9
    <2>6. Slides(R(w), L, d.rcvdBytes, R(long), n, R(p), R(r))
        <3> HIDE DEF R
        <3> QED
            BY <2>1, <2>2, <2>3, <2>4, <2>5 DEF Slides, Cut
    <2> DEFINE e == d.rcvdBytes
               x == R(w)
               y == R(long)
               z == R(p)
               u == R(r)
    <2>7. e \in Nat /\ L \in Nat /\ n \in 0 .. L + 1 /\ Slides(x, L, e, y, n, z, u)
        BY <1>1, <1>6, <2>3, <2>6
    <2> HIDE DEF e, x, y, z, u, R
    <2>8. SumFunction(u) \in Nat /\ SumFunction(u) = SumFunction(x) + e - SumFunction(z)
        BY <2>7, SlidingSum
    <2> QED
        BY <2>8 DEF e, x, z, u
<1>18. \A u : /\ PoppedBytes(u).sentBytes = SumFunction(S(u))
              /\ PoppedBytes(u).rcvdBytes = SumFunction(R(u))
    BY DEF PoppedBytes
<1> HIDE DEF S, R
<1> QED
    BY <1>16, <1>17, <1>18

\* The order of its periods.
LEMMA SlidOrder ==
    ASSUME NEW w, w \in Seq(BrFractionData), NEW d, d \in BrFractionData,
           NEW long, long = Append(w, d),
           NEW n \in 0 .. Len(w) + 1, NEW p, NEW r, Cut(long, Len(w) + 1, n, p, r),
           InSteps(w), Recent(w), \A i \in DOMAIN w : w[i].begin <= d.begin + FbPeriod,
           n < Len(w) + 1 => long[n + 1].begin + BrWindow >= d.begin + FbPeriod
    PROVE  InSteps(r) /\ Recent(r)
<1> DEFINE L == Len(w)
<1>1. L \in Nat /\ DOMAIN w = 1 .. L /\ \A i \in 1 .. L : w[i] \in BrFractionData
    OBVIOUS
<1>2. /\ DOMAIN long = 1 .. L + 1
      /\ \A i \in 1 .. L : long[i] = w[i]
      /\ long[L + 1] = d
    OBVIOUS
<1>6. n \in 0 .. L + 1 /\ (n < L + 1 => long[n + 1].begin + BrWindow >= d.begin + FbPeriod)
    OBVIOUS
<1>7. DOMAIN r = 1 .. (L + 1) - n /\ \A i \in 1 .. (L + 1) - n : r[i] = long[n + i]
    BY DEF Cut
<1>8. DOMAIN p = 1 .. n /\ \A i \in 1 .. n : p[i] = long[i]
    BY DEF Cut
<1> HIDE DEF L
<1>3. \A i \in 1 .. L + 1 : long[i] \in BrFractionData
    <2> TAKE i \in 1 .. L + 1
    <2>1. i \in 1 .. L \/ i = L + 1
        BY <1>1
    <2> QED
        BY <1>1, <1>2, <2>1
<1>4. \A b \in BrFractionData : b.begin \in Nat /\ b.sentBytes \in Nat /\ b.rcvdBytes \in Nat
    BY DEF BrFractionData
<1>5. FbPeriod \in Nat /\ BrWindow \in Nat /\ d.begin \in Nat
    BY <1>4, CcfsReceiverAssumption, LedgerAssumption
<1>9. \A i \in DOMAIN r : n + i \in 1 .. L + 1 /\ r[i] = long[n + i] /\ i \in Int /\ n + i \in Int
                          /\ (n + i \in 1 .. L \/ n + i = L + 1)
    <2> SUFFICES ASSUME NEW i \in 1 .. (L + 1) - n
                 PROVE  n + i \in 1 .. L + 1 /\ r[i] = long[n + i] /\ i \in Int /\ n + i \in Int
                        /\ (n + i \in 1 .. L \/ n + i = L + 1)
        BY <1>7
    <2> QED
        BY <1>1, <1>6, <1>7
<1>11. InSteps(long)
    <2> SUFFICES ASSUME NEW i \in 1 .. L + 1, NEW j \in 1 .. L + 1, i < j
                 PROVE  long[i].begin <= long[j].begin + FbPeriod
        BY <1>2 DEF InSteps
    <2>1. i \in 1 .. L
        BY <1>1
    <2>2. CASE j \in 1 .. L
        BY <1>1, <1>2, <2>1, <2>2 DEF InSteps
    <2>3. CASE j = L + 1
        BY <1>1, <1>2, <2>1, <2>3
    <2> QED
        BY <1>1, <2>2, <2>3
<1>12. InSteps(r)
    <2> SUFFICES ASSUME NEW i \in DOMAIN r, NEW j \in DOMAIN r, i < j
                 PROVE  r[i].begin <= r[j].begin + FbPeriod
        BY DEF InSteps
    <2>1. n + i < n + j /\ n + i \in DOMAIN long /\ n + j \in DOMAIN long
        BY <1>2, <1>6, <1>9
    <2> QED
        BY <1>9, <1>11, <2>1 DEF InSteps
<1>13. Recent(r)
    <2> SUFFICES ASSUME NEW i \in DOMAIN r, NEW j \in DOMAIN r
                 PROVE  r[j].begin <= r[i].begin + BrWindow + FbPeriod
        BY DEF Recent
    <2>1. r[i].begin \in Nat /\ r[j].begin \in Nat
        BY <1>3, <1>4, <1>9
    <2>2. CASE n + j = L + 1
        <3>1. r[j] = d
            BY <1>2, <1>9, <2>2
        <3>2. n < L + 1 /\ n + 1 \in 1 .. L + 1 /\ n + 1 \in Int
            BY <1>1, <1>6, <1>9, <1>7
        <3>3. long[n + 1].begin + BrWindow >= d.begin + FbPeriod /\ long[n + 1].begin \in Nat
            BY <1>3, <1>4, <1>6, <3>2
        <3>4. long[n + 1].begin <= r[i].begin + FbPeriod
            <4>1. CASE i = 1
                <5>1. r[i] = long[n + 1]
                    BY <1>9, <4>1
                <5> DEFINE x == r[i].begin
                <5>2. x \in Nat /\ long[n + 1].begin = x
                    BY <2>1, <5>1
                <5> HIDE DEF x
                <5>3. x <= x + FbPeriod
                    BY <1>5, <5>2
                <5> QED
                    BY <5>2, <5>3 DEF x
            <4>2. CASE i # 1
                <5>1. n + 1 < n + i
                    BY <1>6, <1>7, <4>2
                <5>2. n + 1 \in DOMAIN long /\ n + i \in DOMAIN long
                    BY <1>2, <1>9, <3>2
                <5>3. long[n + 1].begin <= long[n + i].begin + FbPeriod
                    BY <1>11, <5>1, <5>2 DEF InSteps
                <5> QED
                    BY <1>9, <5>3
            <4> QED
                BY <4>1, <4>2
        <3> DEFINE x == long[n + 1].begin
                   y == r[i].begin
                   z == d.begin
        <3>5. x \in Nat /\ y \in Nat /\ z \in Nat /\ x + BrWindow >= z + FbPeriod /\ x <= y + FbPeriod
            BY <1>5, <2>1, <3>3, <3>4
        <3> HIDE DEF x, y, z
        <3>6. z <= y + BrWindow + FbPeriod
            BY <1>5, <3>5
        <3> QED
            BY <3>1, <3>6 DEF y, z
    <2>3. CASE n + j \in 1 .. L
        <3>1. r[j] = w[n + j] /\ n + j \in DOMAIN w
            BY <1>1, <1>2, <1>9, <2>3
        <3>2. CASE n + i \in 1 .. L
            <4>1. r[i] = w[n + i] /\ n + i \in DOMAIN w
                BY <1>1, <1>2, <1>9, <3>2
            <4> QED
                BY <3>1, <4>1 DEF Recent
        <3>3. CASE n + i = L + 1
            <4>1. r[i] = d /\ r[j].begin <= d.begin + FbPeriod
                BY <1>2, <1>9, <3>1, <3>3
            <4> QED
                BY <1>5, <2>1, <4>1
        <3> QED
            BY <1>9, <3>2, <3>3
    <2> QED
        BY <1>9, <2>2, <2>3
<1> QED
    BY <1>12, <1>13

\* A report as the sender may get it, seen from the number q to be sent next:
\* of one stream, of packets in the records, in order.
Readable(f, q, rec) ==
    LET b == BlockIn(f, Ssrc)
    IN  /\ DOMAIN f.blocks = {Ssrc}
        /\ BlockType(b) /\ DOMAIN b # {}
        /\ Near(DOMAIN b, q)
        /\ DOMAIN b \subseteq DOMAIN rec
        /\ \A s \in DOMAIN b : rec[s] \in SentRtpRecord
        /\ \A s, t \in DOMAIN b : Diff(q, t) <= Diff(q, s) =>
                rec[s].sent <= rec[t].sent /\ b[s].ts <= b[t].ts

\* Each entry is about a packet of the block.
About(list, b, rec) ==
    \A i \in 1 .. Len(list) : \E s \in DOMAIN b :
        list[i].sent = rec[s].sent /\ list[i].rcvd = b[s].ts

\* The list for the virtual queue names packets of the report in the order in
\* which they were sent and received.
LEMMA Parsing ==
    ASSUME NEW f, NEW q \in Sequences16, NEW rec, Readable(f, q, rec), NEW period,
           NEW list, list = ParseFeedback(f, rec, period).vq
    PROVE  Admissible(list) /\ About(list, BlockIn(f, Ssrc), rec)
<1> DEFINE b == BlockIn(f, Ssrc)
           S == DOMAIN b
           known == Known(f, rec)
           n == Len(known)
<1>1. S \in SUBSET Sequences16 /\ S # {} /\ Near(S, q) /\ S \subseteq DOMAIN rec
    BY DEF Readable, BlockType
<1>2. \A s \in S : b[s] \in Stamp /\ rec[s] \in SentRtpRecord
    BY DEF Readable, BlockType
<1>3. \A s \in S : b[s].ts \in Nat /\ rec[s].sent \in Nat
    BY <1>2 DEF Stamp, SentRtpRecord
<1>4. \A s, t \in S : Diff(q, t) <= Diff(q, s) => rec[s].sent <= rec[t].sent /\ b[s].ts <= b[t].ts
    BY DEF Readable
<1>5. PICK o \in S, m \in S : Window(S, q, o, m)
    BY <1>1, SomeWindow
<1>6. known = Listed(S, InRange(CountEnd(S)))
    <2>1. S \cap DOMAIN rec = S
        BY <1>1
    <2> QED
        BY <2>1 DEF Known, RangeIn
<1>7. list = [i \in DOMAIN known |-> [sent |-> rec[known[i]].sent, rcvd |-> b[known[i]].ts]]
    BY DEF ParseFeedback
<1> HIDE DEF b
<1>8. /\ n \in Nat /\ DOMAIN known = 1 .. n
      /\ \A i \in 1 .. n : known[i] \in S
      /\ \A i, j \in 1 .. n : i < j => Diff(q, known[j]) < Diff(q, known[i])
      /\ \A d \in S : \E i \in 1 .. n : known[i] = d
    <2> HIDE DEF S, known
    <2>1. S \in SUBSET S
        OBVIOUS
    <2> QED
        BY <1>1, <1>5, <1>6, <2>1, ListedInOrder
<1> HIDE DEF S, known, n
<1> DEFINE Entry(s) == [sent |-> rec[s].sent, rcvd |-> b[s].ts]
<1>16. \A s \in S : Entry(s) \in QDelayData /\ Entry(s).sent = rec[s].sent /\ Entry(s).rcvd = b[s].ts
    <2> TAKE s \in S
    <2>1. rec[s].sent \in Nat /\ b[s].ts \in Nat
        BY <1>3
    <2> QED
        BY <2>1 DEF QDelayData
<1>17. list = [i \in DOMAIN known |-> Entry(known[i])]
    BY <1>7
<1> HIDE DEF Entry
<1>9. DOMAIN list = 1 .. n /\ \A i \in 1 .. n : list[i] = Entry(known[i])
    BY <1>8, <1>17
<1>10. \A i \in 1 .. n : list[i] \in QDelayData
    BY <1>8, <1>9, <1>16
<1>11. list \in Seq(QDelayData) /\ Len(list) = n
    <2> DEFINE g(i) == Entry(known[i])
    <2>2. \A i \in 1 .. n : g(i) \in QDelayData
        BY <1>9, <1>10
    <2>3. list = [i \in 1 .. n |-> g(i)]
        BY <1>8, <1>17
    <2> HIDE DEF g
    <2> QED
        BY <1>8, <2>2, <2>3
<1>12. n # 0
    <2>1. PICK d \in S : TRUE
        BY <1>5
    <2> QED
        BY <1>8, <2>1
<1>13. list # <<>>
    BY <1>11, <1>12
<1>14. InOrder(list)
    <2> SUFFICES ASSUME NEW i \in 1 .. n, NEW j \in 1 .. n, i <= j
                 PROVE  list[i].sent <= list[j].sent /\ list[i].rcvd <= list[j].rcvd
        BY <1>11 DEF InOrder
    <2>1. known[i] \in S /\ known[j] \in S /\ list[i].sent = rec[known[i]].sent
          /\ list[j].sent = rec[known[j]].sent /\ list[i].rcvd = b[known[i]].ts
          /\ list[j].rcvd = b[known[j]].ts
        BY <1>8, <1>9, <1>16
    <2>2. CASE i = j
        <3>1. list[i].sent \in Nat /\ list[i].rcvd \in Nat
            BY <1>3, <2>1
        <3> QED
            BY <2>2, <3>1
    <2>3. CASE i < j
        <3>1. Diff(q, known[j]) < Diff(q, known[i]) /\ Diff(q, known[j]) \in Int
              /\ Diff(q, known[i]) \in Int
            BY <1>1, <1>8, <2>1, <2>3, Distance
        <3>2. Diff(q, known[j]) <= Diff(q, known[i])
            BY <3>1
        <3> QED
            BY <1>4, <2>1, <3>2
    <2> QED
        BY <1>8, <2>2, <2>3
<1>15. About(list, b, rec)
    <2> SUFFICES ASSUME NEW i \in 1 .. n
                 PROVE  \E s \in DOMAIN b : list[i].sent = rec[s].sent /\ list[i].rcvd = b[s].ts
        BY <1>11 DEF About
    <2>1. known[i] \in S /\ S = DOMAIN b
        BY <1>8 DEF S
    <2> QED
        BY <1>9, <1>16, <2>1
<1> QED
    BY <1>11, <1>13, <1>14, <1>15 DEF Admissible, b

\* The packet received last is one of the report.
LEMMA LatestIsListed ==
    ASSUME NEW f, NEW q \in Sequences16, NEW rec, Readable(f, q, rec)
    PROVE  LatestRtp(f) \subseteq DOMAIN BlockIn(f, Ssrc)
<1> DEFINE b == BlockIn(f, Ssrc)
           S == DOMAIN b
           list == MetricList(f, Ssrc)
<1>1. S \in SUBSET Sequences16 /\ S # {} /\ Near(S, q)
    BY DEF Readable, BlockType
<1>2. PICK o \in S, m \in S : Window(S, q, o, m)
    BY <1>1, SomeWindow
<1>3. list = Listed(S, InRange(CountEnd(S)))
    BY DEF MetricList, RangeIn
<1>4. DOMAIN list = 1 .. Len(list) /\ \A i \in 1 .. Len(list) : list[i] \in S
    <2> HIDE DEF S, list
    <2>1. S \in SUBSET S
        OBVIOUS
    <2> QED
        BY <1>1, <1>2, <1>3, <2>1, ListedInOrder
<1>5. LatestRtp(f) \subseteq {list[i] : i \in DOMAIN list}
    BY DEF LatestRtp
<1> QED
    BY <1>4, <1>5

\* Sizes that parseFeedback adds up.
LEMMA ParsedBytes ==
    ASSUME NEW f, NEW q \in Sequences16, NEW rec, Readable(f, q, rec), NEW period,
           DOMAIN rec \in SUBSET Sequences16, \A s \in DOMAIN rec : rec[s] \in SentRtpRecord
    PROVE  /\ ParseFeedback(f, rec, period).txedBytes \in Nat
           /\ ParseFeedback(f, rec, period).rxedBytes \in Nat
<1>1. SentIn(period, rec) \subseteq DOMAIN rec
    BY DEF SentIn
<1>2. Bytes(SentIn(period, rec), rec) \in Nat
    BY <1>1, BytesAreNat
<1> DEFINE known == Known(f, rec)
           rxed == {known[i] : i \in DOMAIN known}
           S == DOMAIN BlockIn(f, Ssrc)
<1>3. S \in SUBSET Sequences16 /\ S # {} /\ Near(S, q) /\ S \subseteq DOMAIN rec
    BY DEF Readable, BlockType
<1>4. PICK o \in S, m \in S : Window(S, q, o, m)
    BY <1>3, SomeWindow
<1>5. S \cap DOMAIN rec \in SUBSET S /\ known = Listed(S \cap DOMAIN rec, InRange(CountEnd(S)))
    BY DEF Known, RangeIn
<1>6. DOMAIN known = 1 .. Len(known) /\ \A i \in 1 .. Len(known) : known[i] \in S \cap DOMAIN rec
    <2> HIDE DEF S, known
    <2> QED
        BY <1>3, <1>4, <1>5, ListedInOrder
<1>7. rxed \subseteq S \cap DOMAIN rec
    BY <1>6
<1>8. Bytes(rxed, rec) \in Nat
    <2> HIDE DEF rxed, S
    <2> QED
        BY <1>3, <1>7, BytesAreNat
<1> QED
    BY <1>2, <1>8 DEF ParseFeedback

\* Milliseconds of the sender's clock.
LEMMA MsGrows ==
    ASSUME NEW a \in Nat, NEW b \in Nat
    PROVE  /\ Ms(a) \in Nat
           /\ a <= b => Ms(a) <= Ms(b)
BY VirtualQueueAssumption DEF Ms

\* A period ends at most a period after the packet it is found by was sent.
LEMMA PeriodBegins ==
    ASSUME NEW f, f.monitored = FbPeriod, NEW x, x = BlockIn(f, Ssrc),
           NEW s, x[s].ts \in Nat, f.reportTime \in Nat,
           x[s].ts <= f.reportTime, f.reportTime <= x[s].ts + FbPeriod,
           sentRtp[s].sent \in Nat, NEW p, p = LastPeriodMs(f, s)
    PROVE  /\ p.begin \in Nat /\ p.end \in Nat
           /\ Ms(sentRtp[s].sent) >= FbPeriod /\ Ms(sentRtp[s].sent) + FbPeriod < TimeMod =>
                /\ p.begin <= Ms(sentRtp[s].sent) /\ Ms(sentRtp[s].sent) <= p.begin + FbPeriod
                /\ p.end = p.begin + FbPeriod
<1> DEFINE m == Ms(sentRtp[s].sent)
           e == m + (f.reportTime - x[s].ts)
<1>1. m \in Nat
    BY MsGrows
<1>2. FbPeriod \in Nat /\ TimeMod \in Nat \ {0}
    BY CcfsReceiverAssumption, LedgerAssumption
<1>3. p.begin = (e - FbPeriod) % TimeMod /\ p.end = e % TimeMod
    BY DEF LastPeriodMs
<1> HIDE DEF m
<1>4. e \in Nat /\ m <= e /\ e <= m + FbPeriod
    BY <1>1, <1>2
<1> HIDE DEF e
<1>5. (e - FbPeriod) % TimeMod \in Nat /\ e % TimeMod \in Nat
    BY <1>2, <1>4
<1>6. ASSUME m >= FbPeriod, m + FbPeriod < TimeMod
      PROVE  /\ p.begin <= m /\ m <= p.begin + FbPeriod /\ p.end = p.begin + FbPeriod
    <2>1. e \in 0 .. TimeMod - 1 /\ e - FbPeriod \in 0 .. TimeMod - 1
        BY <1>1, <1>2, <1>4, <1>6
    <2>2. e % TimeMod = e /\ (e - FbPeriod) % TimeMod = e - FbPeriod
        BY <1>2, <2>1, OneTurn
    <2> QED
        BY <1>1, <1>2, <1>3, <1>4, <2>1, <2>2
<1> QED
    BY <1>3, <1>5, <1>6 DEF m

-----------------------------------------------------------------------------
(* The parcels of the program *)

\* A report of the network as the sender reads it.
Read(r) == Deserialize(r.packet)

\* The reports in the network, and the block the receiver is filling.
ParcelsOf(net, filling, event, ref) ==
    [i \in 1 .. Len(net) + 1 |->
        IF i <= Len(net)
        THEN [block |-> BlockIn(Read(net[i]), Ssrc), at |-> net[i].at,
              end |-> net[i].packet.reportTime]
        ELSE [block |-> filling, at |-> event, end |-> ElapsedMs(event, ref)]]

\* The parcels, one by one: the reports in the network, then the block being filled.
LEMMA ParcelsAre ==
    ASSUME NEW S, NEW net \in Seq(S), NEW filling, NEW event, NEW ref,
           NEW bs, bs = ParcelsOf(net, filling, event, ref)
    PROVE  /\ Len(net) \in Nat /\ Len(net) + 1 \in Nat \ {0}
           /\ DOMAIN net = 1 .. Len(net) /\ DOMAIN bs = 1 .. Len(net) + 1
           /\ \A i \in 1 .. Len(net) :
                /\ bs[i].block = BlockIn(Read(net[i]), Ssrc)
                /\ bs[i].at = net[i].at
                /\ bs[i].end = net[i].packet.reportTime
           /\ bs[Len(net) + 1].block = filling
           /\ bs[Len(net) + 1].at = event
           /\ bs[Len(net) + 1].end = ElapsedMs(event, ref)
<1> DEFINE Reported(i) == [block |-> BlockIn(Read(net[i]), Ssrc), at |-> net[i].at,
                           end |-> net[i].packet.reportTime]
           open == [block |-> filling, at |-> event, end |-> ElapsedMs(event, ref)]
           L == Len(net)
<1>1. L \in Nat /\ DOMAIN net = 1 .. L
    OBVIOUS
<1>2. bs = [i \in 1 .. L + 1 |-> IF i <= L THEN Reported(i) ELSE open]
    BY DEF ParcelsOf
<1>3. \A i : /\ Reported(i).block = BlockIn(Read(net[i]), Ssrc)
             /\ Reported(i).at = net[i].at /\ Reported(i).end = net[i].packet.reportTime
    OBVIOUS
<1>4. open.block = filling /\ open.at = event /\ open.end = ElapsedMs(event, ref)
    OBVIOUS
<1> HIDE DEF Reported, open, L
<1>5. \A i \in 1 .. L : bs[i] = Reported(i)
    BY <1>1, <1>2
<1>6. bs[L + 1] = open /\ DOMAIN bs = 1 .. L + 1
    BY <1>1, <1>2
<1> QED
    BY <1>1, <1>3, <1>4, <1>5, <1>6 DEF L

\* The reports in the network are of one stream.
Streams(net) == \A i \in DOMAIN net : OneStream(Read(net[i]))

\* The receiver has sent the block it was filling.
LEMMA Posting ==
    ASSUME NEW S, NEW net \in Seq(S), NEW filling, NEW event, NEW ref, Streams(net),
           NEW bs, bs = ParcelsOf(net, filling, event, ref),
           NEW r, OneStream(Read(r)), DOMAIN BlockIn(Read(r), Ssrc) = DOMAIN filling,
           r.at = event, r.packet.reportTime = ElapsedMs(event, ref),
           \A s \in DOMAIN filling : BlockIn(Read(r), Ssrc)[s].ts = filling[s].ts,
           NEW later, NEW cs, cs = ParcelsOf(Append(net, r), <<>>, later, ref)
    PROVE  Thinned(cs, bs, 0) /\ DOMAIN cs \in SUBSET Nat
<1> DEFINE L == Len(net)
           long == Append(net, r)
<1>1. /\ L \in Nat /\ DOMAIN bs = 1 .. L + 1 /\ DOMAIN net = 1 .. L
      /\ \A i \in 1 .. L :
            /\ bs[i].block = BlockIn(Read(net[i]), Ssrc)
            /\ bs[i].at = net[i].at /\ bs[i].end = net[i].packet.reportTime
      /\ bs[L + 1].block = filling /\ bs[L + 1].at = event /\ bs[L + 1].end = ElapsedMs(event, ref)
    BY ParcelsAre
<1>2. long \in Seq(S \cup {r}) /\ Len(long) = L + 1 /\ long[L + 1] = r
      /\ \A i \in 1 .. L : long[i] = net[i]
    OBVIOUS
<1>3. /\ DOMAIN cs = 1 .. (L + 1) + 1
      /\ \A i \in 1 .. L + 1 :
            /\ cs[i].block = BlockIn(Read(long[i]), Ssrc)
            /\ cs[i].at = long[i].at /\ cs[i].end = long[i].packet.reportTime
      /\ cs[(L + 1) + 1].block = <<>>
    <2> HIDE DEF long, L
    <2>1. cs = ParcelsOf(long, <<>>, later, ref)
        BY DEF long
    <2> QED
        BY <1>2, <2>1, ParcelsAre
<1> HIDE DEF L, long
<1>4. ASSUME NEW i \in 1 .. L PROVE SameParcel(cs[i], bs[i])
    <2>0. i \in 1 .. L + 1 /\ long[i] = net[i]
        BY <1>1, <1>2
    <2>1. cs[i].block = bs[i].block /\ cs[i].at = bs[i].at /\ cs[i].end = bs[i].end
        BY <1>1, <1>3, <2>0
    <2>2. \A s \in DOMAIN bs[i].block : bs[i].block[s] \in Stamp
        BY <1>1 DEF Streams, OneStream, BlockType
    <2> QED
        BY <2>1, <2>2 DEF SameParcel
<1>5. SameParcel(cs[L + 1], bs[L + 1])
    <2>1. /\ cs[L + 1].block = BlockIn(Read(r), Ssrc) /\ cs[L + 1].at = event
          /\ cs[L + 1].end = ElapsedMs(event, ref)
        BY <1>1, <1>2, <1>3
    <2>2. \A s \in DOMAIN filling : BlockIn(Read(r), Ssrc)[s] \in Stamp
        BY DEF OneStream, BlockType
    <2> QED
        BY <1>1, <2>1, <2>2 DEF SameParcel
<1>6. ASSUME NEW i \in DOMAIN cs, DOMAIN cs[i].block # {}
      PROVE  /\ i + 0 \in DOMAIN bs /\ SameParcel(cs[i], bs[i + 0])
             /\ i + 0 + 1 \in DOMAIN bs => i + 1 \in DOMAIN cs
    <2>1. i # (L + 1) + 1
        BY <1>3, <1>6
    <2>2. i \in Nat /\ (i \in 1 .. L \/ i = L + 1)
        BY <1>1, <1>3, <2>1
    <2>3. i + 0 = i
        BY <2>2
    <2> QED
        BY <1>1, <1>3, <1>4, <1>5, <2>2, <2>3
<1> QED
    BY <1>1, <1>3, <1>6 DEF Thinned

\* A report has left the network.
LEMMA Taking ==
    ASSUME NEW S, NEW net \in Seq(S), net # <<>>, NEW filling, NEW event, NEW ref,
           Streams(net), BlockType(filling),
           NEW bs, bs = ParcelsOf(net, filling, event, ref),
           NEW cs, cs = ParcelsOf(Tail(net), filling, event, ref)
    PROVE  /\ Thinned(cs, bs, 1) /\ DOMAIN cs \in SUBSET Nat
           /\ \A i \in DOMAIN cs : i + 1 \in DOMAIN bs /\ i + 1 > 1 /\ cs[i].block = bs[i + 1].block
<1> DEFINE L == Len(net)
           short == Tail(net)
<1>1. /\ L \in Nat /\ DOMAIN bs = 1 .. L + 1 /\ DOMAIN net = 1 .. L
      /\ \A i \in 1 .. L :
            /\ bs[i].block = BlockIn(Read(net[i]), Ssrc)
            /\ bs[i].at = net[i].at /\ bs[i].end = net[i].packet.reportTime
      /\ bs[L + 1].block = filling /\ bs[L + 1].at = event /\ bs[L + 1].end = ElapsedMs(event, ref)
    BY ParcelsAre
<1>2. L # 0 /\ short \in Seq(S) /\ Len(short) = L - 1 /\ \A i \in 1 .. L - 1 : short[i] = net[i + 1]
    OBVIOUS
<1>3. /\ DOMAIN cs = 1 .. (L - 1) + 1
      /\ \A i \in 1 .. L - 1 :
            /\ cs[i].block = BlockIn(Read(short[i]), Ssrc)
            /\ cs[i].at = short[i].at /\ cs[i].end = short[i].packet.reportTime
      /\ cs[(L - 1) + 1].block = filling /\ cs[(L - 1) + 1].at = event
      /\ cs[(L - 1) + 1].end = ElapsedMs(event, ref)
    <2> HIDE DEF short, L
    <2>1. cs = ParcelsOf(short, filling, event, ref)
        BY DEF short
    <2> QED
        BY <1>2, <2>1, ParcelsAre
<1> HIDE DEF L, short
<1>4. \A i \in DOMAIN bs : \A s \in DOMAIN bs[i].block : bs[i].block[s] \in Stamp
    <2> TAKE i \in DOMAIN bs
    <2>1. CASE i \in 1 .. L
        BY <1>1, <2>1 DEF Streams, OneStream, BlockType
    <2>2. CASE i = L + 1
        BY <1>1, <2>2 DEF BlockType
    <2> QED
        BY <1>1, <2>1, <2>2
<1>5. ASSUME NEW i \in DOMAIN cs
      PROVE  /\ i \in Nat /\ i + 1 \in DOMAIN bs /\ i + 1 > 1
             /\ cs[i].block = bs[i + 1].block /\ cs[i].at = bs[i + 1].at /\ cs[i].end = bs[i + 1].end
             /\ i + 1 + 1 \in DOMAIN bs => i + 1 \in DOMAIN cs
    <2>1. i \in Nat /\ i >= 1 /\ i + 1 \in DOMAIN bs /\ (i \in 1 .. L - 1 \/ i = (L - 1) + 1)
        BY <1>1, <1>2, <1>3
    <2>2. CASE i \in 1 .. L - 1
        <3>1. i + 1 \in 1 .. L /\ short[i] = net[i + 1]
            BY <1>1, <1>2, <2>2
        <3>2. i + 1 + 1 \in DOMAIN bs => i + 1 \in DOMAIN cs
            BY <1>1, <1>3, <2>1, <2>2
        <3>3. cs[i].block = bs[i + 1].block /\ cs[i].at = bs[i + 1].at /\ cs[i].end = bs[i + 1].end
            BY <1>1, <1>3, <2>2, <3>1
        <3> QED
            BY <2>1, <3>2, <3>3
    <2>3. CASE i = (L - 1) + 1
        <3>1. i + 1 = L + 1 /\ (L - 1) + 1 = L
            BY <1>1, <1>2, <2>3
        <3> QED
            BY <1>1, <1>3, <2>1, <2>3, <3>1
    <2> QED
        BY <2>1, <2>2, <2>3
<1>6. \A i \in DOMAIN cs : SameParcel(cs[i], bs[i + 1])
    BY <1>4, <1>5 DEF SameParcel
<1> QED
    BY <1>5, <1>6 DEF Thinned

\* The receiver has been stopped: the block it was filling never leaves.
LEMMA Stopping ==
    ASSUME NEW S, NEW net \in Seq(S), NEW filling, NEW event, NEW ref, Streams(net),
           NEW bs, bs = ParcelsOf(net, filling, event, ref),
           NEW cs, cs = ParcelsOf(net, <<>>, Never, ref)
    PROVE  Thinned(cs, bs, 0) /\ DOMAIN cs \in SUBSET Nat
<1> DEFINE L == Len(net)
<1>1. /\ L \in Nat /\ DOMAIN bs = 1 .. L + 1 /\ DOMAIN net = 1 .. L
      /\ \A i \in 1 .. L :
            /\ bs[i].block = BlockIn(Read(net[i]), Ssrc)
            /\ bs[i].at = net[i].at /\ bs[i].end = net[i].packet.reportTime
    BY ParcelsAre
<1>2. /\ DOMAIN cs = 1 .. L + 1
      /\ \A i \in 1 .. L :
            /\ cs[i].block = BlockIn(Read(net[i]), Ssrc)
            /\ cs[i].at = net[i].at /\ cs[i].end = net[i].packet.reportTime
      /\ cs[L + 1].block = <<>>
    BY ParcelsAre
<1> HIDE DEF L
<1>3. ASSUME NEW i \in DOMAIN cs, DOMAIN cs[i].block # {}
      PROVE  /\ i + 0 \in DOMAIN bs /\ SameParcel(cs[i], bs[i + 0])
             /\ i + 0 + 1 \in DOMAIN bs => i + 1 \in DOMAIN cs
    <2>1. i # L + 1
        BY <1>2, <1>3
    <2>2. i \in Nat /\ i \in 1 .. L /\ i + 0 = i
        BY <1>1, <1>2, <2>1
    <2>3. \A s \in DOMAIN bs[i].block : bs[i].block[s] \in Stamp
        BY <1>1, <2>2 DEF Streams, OneStream, BlockType
    <2>4. SameParcel(cs[i], bs[i])
        BY <1>1, <1>2, <2>2, <2>3 DEF SameParcel
    <2> QED
        BY <1>1, <1>2, <2>2, <2>4
<1> QED
    BY <1>1, <1>2, <1>3 DEF Thinned

-----------------------------------------------------------------------------
(* The inductive invariant *)

\* The block the receiver is filling; after a stop it never leaves.
Filling == IF fbEvent = Never THEN <<>> ELSE BlockIn(fbHeader, Ssrc)

Parcels == ParcelsOf(reportNet, Filling, fbEvent, refPoint)

\* The packets the sender may still hear of.
Alive == Live(dataNet, Parcels)

\* Nothing was sent later than now or is longer than MaxLatency in the network.
Recently(net, now) ==
    \A i \in DOMAIN net : net[i].at \in Nat /\ net[i].at <= now /\ now <= net[i].at + MaxLatency

\* A packet in the network.
DataPackets == [seq : Sequences16, at : Nat]

\* The networks.
NetInv ==
    /\ clock \in StartTime .. MaxTime
    /\ dataNet \in Seq(DataPackets)
    /\ \E S : reportNet \in Seq(S)
    /\ Recently(dataNet, clock) /\ Recently(reportNet, clock)
    /\ mishaps \in 0 .. MaxMishaps

\* The receiver's clock and timer.
TimerInv ==
    /\ refPoint \in Nat /\ refPoint <= clock
    /\ fbEvent \in Nat \cup {Never}
    /\ fbEvent # Never =>
        refPoint # 0 /\ clock <= fbEvent /\ fbEvent <= clock + FbPeriod * RxUsPerMs
    /\ refPoint = 0 => BlockIn(fbHeader, Ssrc) = <<>> /\ reportNet = <<>> /\ vq = <<>>

\* The numbers sent are the last before sequence; those the sender may still
\* hear of it has not learned, and there are as many in flight as it thinks.
NumbersInv ==
    /\ sequence \in Sequences16
    /\ Cardinality(sent) \in 0 .. MaxPackets
    /\ sent = {s \in Sequences16 : Diff(sequence, s) \in 1 .. Cardinality(sent)}
    /\ learned \subseteq sent
    /\ Alive \subseteq sent \ learned
    /\ inflightPktCount \in Nat
    /\ \A s \in Alive : Diff(sequence, s) <= inflightPktCount

\* The records of the packets the sender may still hear of are kept.
RecordsInv ==
    /\ DOMAIN sentRtp \subseteq Sequences16
    /\ firstSend \in BOOLEAN /\ lastSentRtp \in Sequences16
    /\ IF firstSend THEN DOMAIN sentRtp = {} ELSE lastSentRtp \in DOMAIN sentRtp
    /\ \A s \in DOMAIN sentRtp :
        /\ sentRtp[s] \in SentRtpRecord
        /\ StartTime <= sentRtp[s].sent /\ sentRtp[s].sent <= clock
        /\ sentRtp[s].totSent <= sentRtp[lastSentRtp].totSent
    /\ Alive \subseteq DOMAIN sentRtp

\* A report in the network can be read, and reads as what was written.
WellFormed(r) ==
    /\ r.packet.reportTime \in Nat
    /\ Deserializable(r.packet)
    /\ Read(r).reportTime = r.packet.reportTime /\ Read(r).monitored = FbPeriod
    /\ OneStream(Read(r))
    /\ ReportedNumbers(r.packet) = DOMAIN BlockIn(Read(r), Ssrc)

\* The headers, at the receiver and in the network.
HeaderInv ==
    /\ DOMAIN fbHeader = Fields /\ OneStream(fbHeader)
    /\ waiting \in BOOLEAN
    /\ waiting \/ remoteSsrc = Ssrc
    /\ fbEvent # Never => UpToDate(fbHeader)
    /\ \A i \in DOMAIN reportNet : WellFormed(reportNet[i])

\* What is under way is in order.
OrderInv == UnderWay(sequence, dataNet, Parcels, sentRtp, clock, refPoint)

\* Everything in the parcels was received no earlier than x.
After(x, bs) == \A i \in DOMAIN bs : \A s \in DOMAIN bs[i].block : x <= bs[i].block[s].ts

\* What the virtual queue holds is older than what the sender may still hear of.
PastInv ==
    \A j \in DOMAIN vq :
        /\ vq[j].sent <= clock /\ vq[j].rcvd <= ElapsedMs(clock, refPoint)
        /\ \A s \in Alive : vq[j].sent <= sentRtp[s].sent
        /\ After(vq[j].rcvd, Parcels)

\* No period begins before the simulation, and none ends after the width of
\* its times.
NoTimeWrap == FbPeriod <= Ms(StartTime) /\ Ms(MaxTime) + FbPeriod < TimeMod

\* The periods in the window, which are no later than those to come.
PeriodsInv ==
    /\ brFractionWindow \in Seq(BrFractionData)
    /\ totSentBytes = PoppedBytes(brFractionWindow).sentBytes /\ totSentBytes \in Nat
    /\ totRcvdBytes = PoppedBytes(brFractionWindow).rcvdBytes /\ totRcvdBytes \in Nat
    /\ NoTimeWrap =>
        /\ InSteps(brFractionWindow) /\ Recent(brFractionWindow)
        /\ \A i \in DOMAIN brFractionWindow :
            /\ brFractionWindow[i].begin <= Ms(clock)
            /\ \A s \in Alive : brFractionWindow[i].begin <= Ms(sentRtp[s].sent)

\* No assertion has failed.
FaultInv == fault = "none" /\ headerFault = FALSE

\* What a step that only moves or loses something leaves alone.
SenderInv == RecordsInv /\ PastInv /\ PeriodsInv /\ QueueInv

\* The inductive invariant.
FlowInv ==
    /\ NetInv
    /\ TimerInv
    /\ NumbersInv
    /\ HeaderInv
    /\ OrderInv
    /\ SenderInv
    /\ FaultInv

-----------------------------------------------------------------------------
(* Facts of every state *)

\* What is left was still received no earlier than x.
LEMMA AfterThinned ==
    ASSUME NEW x, NEW bs, After(x, bs), NEW cs, NEW k \in Nat, Thinned(cs, bs, k)
    PROVE  After(x, cs)
<1> SUFFICES ASSUME NEW i \in DOMAIN cs, NEW s \in DOMAIN cs[i].block
             PROVE  x <= cs[i].block[s].ts
    BY DEF After
<1>1. i + k \in DOMAIN bs /\ SameParcel(cs[i], bs[i + k])
    BY DEF Thinned
<1> QED
    BY <1>1 DEF SameParcel, After

\* What the assumptions say of the times.
LEMMA FlowConstants ==
    /\ MaxLatency \in Nat /\ FbPeriod \in Nat \ {0} /\ UsPerMs \in Nat \ {0} /\ RxUsPerMs = UsPerMs
    /\ StartTime \in Nat \ {0} /\ MaxTime \in Nat /\ KeepTime \in Nat
    /\ FbPeriod * UsPerMs \in Nat /\ KeepTime * UsPerMs \in Nat
    /\ KeepTime * UsPerMs >= 2 * MaxLatency + FbPeriod * UsPerMs
<1>1. /\ MaxLatency \in Nat /\ FbPeriod \in Nat \ {0} /\ UsPerMs \in Nat \ {0} /\ RxUsPerMs = UsPerMs
      /\ StartTime \in Nat \ {0} /\ MaxTime \in Nat /\ KeepTime \in Nat
      /\ KeepTime * UsPerMs >= 2 * MaxLatency + FbPeriod * UsPerMs
    BY FlowAssumption, CcfsReceiverAssumption, VirtualQueueAssumption, LedgerAssumption
<1> QED
    BY <1>1

\* The parcels in a state of the invariant.
LEMMA ParcelsNow ==
    ASSUME FlowInv
    PROVE  /\ Len(reportNet) + 1 \in Nat \ {0} /\ DOMAIN Parcels = 1 .. Len(reportNet) + 1
           /\ DOMAIN reportNet = 1 .. Len(reportNet)
           /\ \A i \in 1 .. Len(reportNet) :
                /\ Parcels[i].block = BlockIn(Read(reportNet[i]), Ssrc)
                /\ Parcels[i].at = reportNet[i].at
                /\ Parcels[i].end = reportNet[i].packet.reportTime
           /\ Parcels[Len(reportNet) + 1].block = Filling
           /\ Parcels[Len(reportNet) + 1].at = fbEvent
           /\ Parcels[Len(reportNet) + 1].end = ElapsedMs(fbEvent, refPoint)
           /\ Streams(reportNet) /\ BlockType(Filling)
<1>1. PICK S : reportNet \in Seq(S)
    BY DEF FlowInv, NetInv
<1>2. Streams(reportNet)
    BY DEF FlowInv, HeaderInv, WellFormed, Streams
<1>3. BlockType(Filling)
    BY DEF FlowInv, HeaderInv, OneStream, Filling, BlockType
<1> QED
    BY <1>1, <1>2, <1>3, ParcelsAre DEF Parcels

\* Numbers and records of what the sender may still hear of.
LEMMA AliveNow ==
    ASSUME FlowInv
    PROVE  /\ Alive \subseteq Sequences16
           /\ \A s \in Alive :
                /\ s \in sent /\ s \notin learned
                /\ Diff(sequence, s) \in 1 .. MaxPackets /\ Diff(sequence, s) <= Cardinality(sent)
                /\ s \in DOMAIN sentRtp
                /\ sentRtp[s] \in SentRtpRecord /\ sentRtp[s].sent \in Nat
                /\ StartTime <= sentRtp[s].sent /\ sentRtp[s].sent <= clock
           /\ \A k \in DOMAIN dataNet : dataNet[k].seq \in Alive
           /\ \A i \in DOMAIN Parcels : DOMAIN Parcels[i].block \subseteq Alive
<1>1. Alive \subseteq sent \ learned /\ Alive \subseteq DOMAIN sentRtp
      /\ sent = {s \in Sequences16 : Diff(sequence, s) \in 1 .. Cardinality(sent)}
      /\ Cardinality(sent) \in 0 .. MaxPackets
    BY DEF FlowInv, NumbersInv, SenderInv, RecordsInv
<1>2. \A s \in DOMAIN sentRtp :
        /\ sentRtp[s] \in SentRtpRecord
        /\ StartTime <= sentRtp[s].sent /\ sentRtp[s].sent <= clock
    BY DEF FlowInv, SenderInv, RecordsInv
<1>3. \A r \in SentRtpRecord : r.sent \in Nat
    BY DEF SentRtpRecord
<1>4. MaxPackets \in Nat
    BY FlowAssumption, SeqModAssumption
<1>5. \A k \in DOMAIN dataNet : dataNet[k].seq \in Alive
    BY DEF Alive, Live, Seqs
<1>6. \A i \in DOMAIN Parcels : DOMAIN Parcels[i].block \subseteq Alive
    BY DEF Alive, Live, Landed
<1>7. \A s \in Alive : s \in sent /\ s \in Sequences16 /\ Diff(sequence, s) \in 1 .. Cardinality(sent)
    BY <1>1
<1>8. \A s \in Alive : Diff(sequence, s) \in 1 .. MaxPackets /\ Diff(sequence, s) <= Cardinality(sent)
    BY <1>1, <1>4, <1>7
<1> HIDE DEF Alive
<1> QED
    BY <1>1, <1>2, <1>3, <1>5, <1>6, <1>7, <1>8

\* A step that only moves or loses packets and reports keeps what the sender
\* knows about them.
LEMMA Passing ==
    ASSUME FlowInv, UNCHANGED <<clock, sequence, sent, learned, ledgerVars, queueVars>>,
           Alive' \subseteq Alive,
           \A j \in DOMAIN vq : /\ After(vq[j].rcvd, Parcels')
                                /\ vq[j].rcvd <= ElapsedMs(clock, refPoint')
    PROVE  NumbersInv' /\ SenderInv' /\ fault' = "none"
<1>1. NumbersInv'
    BY DEF FlowInv, NumbersInv, ledgerVars
<1>2. RecordsInv'
    BY DEF FlowInv, SenderInv, RecordsInv, ledgerVars
<1>3. PastInv'
    BY DEF FlowInv, SenderInv, PastInv, ledgerVars, queueVars
<1>4. PeriodsInv'
    BY DEF FlowInv, SenderInv, PeriodsInv, ledgerVars
<1>5. QueueInv'
    BY DEF FlowInv, SenderInv, QueueInv, QueueTypeOK, Backlog, queueVars
<1>6. fault' = "none"
    BY DEF FlowInv, FaultInv, ledgerVars
<1> QED
    BY <1>1, <1>2, <1>3, <1>4, <1>5, <1>6 DEF SenderInv

-----------------------------------------------------------------------------
(* Losses and stops *)

\* The same when parcels have left and others have been emptied.
LEMMA PassingThinned ==
    ASSUME FlowInv, UNCHANGED <<clock, sequence, sent, learned, refPoint, ledgerVars, queueVars>>,
           NEW k \in Nat, Thinned(Parcels', Parcels, k), DOMAIN Parcels' \in SUBSET Nat,
           NEW l \in Nat, Shorter(dataNet', dataNet, l), DOMAIN dataNet' \in SUBSET Nat
    PROVE  NumbersInv' /\ SenderInv' /\ fault' = "none" /\ OrderInv'
<1>1. UnderWay(sequence, dataNet, Parcels, sentRtp, clock, refPoint)
    BY DEF FlowInv, OrderInv
<1>2. /\ UnderWay(sequence, dataNet', Parcels', sentRtp, clock, refPoint)
      /\ Live(dataNet', Parcels') \subseteq Live(dataNet, Parcels)
    BY <1>1, Thinning
<1>3. OrderInv'
    BY <1>2 DEF OrderInv, ledgerVars
<1>4. Alive' \subseteq Alive
    BY <1>2 DEF Alive
<1>5. \A j \in DOMAIN vq : /\ After(vq[j].rcvd, Parcels')
                           /\ vq[j].rcvd <= ElapsedMs(clock, refPoint')
    <2> TAKE j \in DOMAIN vq
    <2>1. After(vq[j].rcvd, Parcels) /\ vq[j].rcvd <= ElapsedMs(clock, refPoint)
        BY DEF FlowInv, SenderInv, PastInv
    <2> QED
        BY <2>1, AfterThinned
<1> QED
    BY <1>3, <1>4, <1>5, Passing

\* Nothing has left a network that has not changed.
LEMMA SameNet ==
    ASSUME NEW S, NEW net \in Seq(S)
    PROVE  Shorter(net, net, 0) /\ DOMAIN net \in SUBSET Nat
<1>1. DOMAIN net = 1 .. Len(net) /\ Len(net) \in Nat
    OBVIOUS
<1>2. \A i \in DOMAIN net : i + 0 = i
    BY <1>1
<1> QED
    BY <1>1, <1>2 DEF Shorter

\* The first of a network has left it, and the rest has kept its order and times.
LEMMA TailOfNet ==
    ASSUME NEW S, NEW net \in Seq(S), net # <<>>
    PROVE  /\ Tail(net) \in Seq(S) /\ Len(Tail(net)) = Len(net) - 1
           /\ Shorter(Tail(net), net, 1) /\ DOMAIN Tail(net) \in SUBSET Nat
           /\ \A now : Recently(net, now) => Recently(Tail(net), now)
           /\ DOMAIN Tail(net) = 1 .. Len(net) - 1 /\ Len(net) \in Nat \ {0}
           /\ DOMAIN net = 1 .. Len(net)
           /\ \A i \in DOMAIN Tail(net) : i + 1 \in DOMAIN net /\ Tail(net)[i] = net[i + 1]
<1> DEFINE t == Tail(net)
           L == Len(net)
<1>1. L \in Nat \ {0} /\ DOMAIN net = 1 .. L
    OBVIOUS
<1>2. t \in Seq(S) /\ Len(t) = L - 1 /\ DOMAIN t = 1 .. L - 1
    OBVIOUS
<1>3. \A i \in 1 .. L - 1 : t[i] = net[i + 1]
    OBVIOUS
<1> HIDE DEF t, L
<1>4. \A i \in DOMAIN t : i + 1 \in DOMAIN net /\ t[i] = net[i + 1]
    BY <1>1, <1>2, <1>3
<1>5. \A now : Recently(net, now) => Recently(t, now)
    BY <1>4 DEF Recently
<1>6. DOMAIN t \in SUBSET Nat
    BY <1>1, <1>2
<1>7. Shorter(t, net, 1)
    BY <1>4 DEF Shorter
<1>8. t \in Seq(S) /\ Len(t) = L - 1 /\ DOMAIN t = 1 .. L - 1
    BY <1>2
<1> QED
    BY <1>1, <1>4, <1>5, <1>6, <1>7, <1>8 DEF t, L

\* Times in the virtual queue and in the window.
LEMMA TimesNow ==
    ASSUME FlowInv
    PROVE  /\ \A j \in DOMAIN vq : vq[j].sent \in Nat /\ vq[j].rcvd \in Nat
           /\ \A i \in DOMAIN brFractionWindow : brFractionWindow[i].begin \in Nat
           /\ clock \in Nat /\ refPoint \in Nat /\ refPoint <= clock
           /\ ElapsedMs(clock, refPoint) \in Nat
<1>1. vq \in Seq(QDelayData) /\ brFractionWindow \in Seq(BrFractionData)
    BY DEF FlowInv, SenderInv, PeriodsInv, QueueInv, QueueTypeOK
<1>2. /\ \A j \in DOMAIN vq : vq[j] \in QDelayData
      /\ \A i \in DOMAIN brFractionWindow : brFractionWindow[i] \in BrFractionData
    BY <1>1
<1>3. (\A x \in QDelayData : x.sent \in Nat /\ x.rcvd \in Nat)
      /\ (\A x \in BrFractionData : x.begin \in Nat)
    BY DEF QDelayData, BrFractionData
<1>4. clock \in Nat /\ refPoint \in Nat /\ refPoint <= clock
    BY FlowConstants DEF FlowInv, NetInv, TimerInv
<1>5. ElapsedMs(clock, refPoint) \in Nat
    BY <1>4, ElapsedGrows
<1> QED
    BY <1>2, <1>3, <1>4, <1>5

\* Nothing has left the parcels when they have not changed.
LEMMA SameParcels ==
    ASSUME FlowInv
    PROVE  Thinned(Parcels, Parcels, 0) /\ DOMAIN Parcels \in SUBSET Nat
<1> DEFINE L == Len(reportNet)
<1>1. /\ L + 1 \in Nat /\ DOMAIN Parcels = 1 .. L + 1
    BY ParcelsNow
<1>2. \A i \in DOMAIN Parcels : \A s \in DOMAIN Parcels[i].block : Parcels[i].block[s] \in Stamp
    BY DEF FlowInv, OrderInv, UnderWay, AllDated, Dated
<1> HIDE DEF L
<1>3. \A i \in DOMAIN Parcels : i + 0 = i
    BY <1>1
<1>4. \A i \in DOMAIN Parcels : SameParcel(Parcels[i], Parcels[i])
    BY <1>2 DEF SameParcel
<1>5. Thinned(Parcels, Parcels, 0)
    BY <1>3, <1>4 DEF Thinned
<1> QED
    BY <1>1, <1>5

\* The receiver stops: its block never leaves.
LEMMA StopStep == FlowInv /\ Stop => FlowInv'
<1> SUFFICES ASSUME FlowInv, Stop PROVE FlowInv'
    OBVIOUS
<1>1. /\ fbEvent # Never /\ fbEvent' = Never /\ waiting' = TRUE
      /\ UNCHANGED <<remoteSsrc, refPoint, fbHeader, headerFault>>
      /\ mishaps < MaxMishaps /\ mishaps' = mishaps + 1
      /\ UNCHANGED <<clock, sequence, dataNet, reportNet, sent, learned>>
      /\ UNCHANGED <<ledgerVars, queueVars>>
    BY DEF Stop, StopApplication
<1>2. PICK S : reportNet \in Seq(S)
    BY DEF FlowInv, NetInv
<1>3. Parcels' = ParcelsOf(reportNet, <<>>, Never, refPoint)
    BY <1>1 DEF Parcels, Filling
<1>4. Streams(reportNet)
    BY ParcelsNow
<1>5. Thinned(Parcels', Parcels, 0) /\ DOMAIN Parcels' \in SUBSET Nat
    BY <1>2, <1>3, <1>4, Stopping DEF Parcels
<1>6. Shorter(dataNet', dataNet, 0) /\ DOMAIN dataNet' \in SUBSET Nat
    BY <1>1, SameNet DEF FlowInv, NetInv
<1>7. NumbersInv' /\ SenderInv' /\ fault' = "none" /\ OrderInv'
    BY <1>1, <1>5, <1>6, PassingThinned
<1>8. NetInv'
    <2>1. mishaps' \in 0 .. MaxMishaps
        BY <1>1, FlowAssumption DEF FlowInv, NetInv
    <2> QED
        BY <1>1, <1>2, <2>1 DEF FlowInv, NetInv
<1>9. TimerInv'
    BY <1>1 DEF FlowInv, TimerInv, queueVars
<1>10. HeaderInv'
    BY <1>1 DEF FlowInv, HeaderInv
<1>11. FaultInv'
    BY <1>1, <1>7 DEF FlowInv, FaultInv
<1> QED
    BY <1>7, <1>8, <1>9, <1>10, <1>11 DEF FlowInv

\* A packet is lost.
LEMMA LosePacketStep == FlowInv /\ LosePacket => FlowInv'
<1> SUFFICES ASSUME FlowInv, LosePacket PROVE FlowInv'
    OBVIOUS
<1>1. /\ mishaps < MaxMishaps /\ mishaps' = mishaps + 1
      /\ dataNet # <<>> /\ dataNet' = Tail(dataNet)
      /\ UNCHANGED <<clock, sequence, reportNet, sent, learned>>
      /\ UNCHANGED <<rxVars, ledgerVars, queueVars>>
    BY DEF LosePacket
<1>2. /\ dataNet' \in Seq(DataPackets) /\ Shorter(dataNet', dataNet, 1)
      /\ DOMAIN dataNet' \in SUBSET Nat /\ Recently(dataNet', clock)
    BY <1>1, TailOfNet DEF FlowInv, NetInv
<1>3. Parcels' = Parcels
    BY <1>1 DEF Parcels, Filling, rxVars
<1>4. Thinned(Parcels', Parcels, 0) /\ DOMAIN Parcels' \in SUBSET Nat
    BY <1>3, SameParcels
<1>5. refPoint' = refPoint
    BY <1>1 DEF rxVars
<1>6. NumbersInv' /\ SenderInv' /\ fault' = "none" /\ OrderInv'
    BY <1>1, <1>2, <1>4, <1>5, PassingThinned
<1>7. NetInv'
    <2>1. mishaps' \in 0 .. MaxMishaps
        BY <1>1, FlowAssumption DEF FlowInv, NetInv
    <2> QED
        BY <1>1, <1>2, <2>1 DEF FlowInv, NetInv
<1>8. TimerInv'
    BY <1>1 DEF FlowInv, TimerInv, queueVars, rxVars
<1>9. HeaderInv'
    BY <1>1 DEF FlowInv, HeaderInv, rxVars
<1>10. FaultInv'
    BY <1>1, <1>6 DEF FlowInv, FaultInv, rxVars
<1> QED
    BY <1>6, <1>7, <1>8, <1>9, <1>10 DEF FlowInv

\* A report leaves the network, whoever takes it.
LEMMA ReportGone ==
    ASSUME FlowInv, reportNet # <<>>, reportNet' = Tail(reportNet),
           UNCHANGED <<refPoint, fbHeader, fbEvent>>
    PROVE  /\ Thinned(Parcels', Parcels, 1) /\ DOMAIN Parcels' \in SUBSET Nat
           /\ \A i \in DOMAIN Parcels' :
                /\ i + 1 \in DOMAIN Parcels /\ i + 1 > 1
                /\ Parcels'[i].block = Parcels[i + 1].block
           /\ \E S : reportNet' \in Seq(S)
           /\ Recently(reportNet', clock)
           /\ \A i \in DOMAIN reportNet' : WellFormed(reportNet'[i])
<1>1. PICK S : reportNet \in Seq(S)
    BY DEF FlowInv, NetInv
<1>2. Recently(reportNet, clock) /\ \A i \in DOMAIN reportNet : WellFormed(reportNet[i])
    BY DEF FlowInv, NetInv, HeaderInv
<1>3. /\ reportNet' \in Seq(S) /\ Recently(reportNet', clock)
      /\ \A i \in DOMAIN reportNet' : i + 1 \in DOMAIN reportNet /\ reportNet'[i] = reportNet[i + 1]
    BY <1>1, <1>2, TailOfNet
<1>4. \A i \in DOMAIN reportNet' : WellFormed(reportNet'[i])
    BY <1>2, <1>3
<1>5. Streams(reportNet) /\ BlockType(Filling)
    BY ParcelsNow
<1>6. Parcels' = ParcelsOf(Tail(reportNet), Filling, fbEvent, refPoint)
    BY DEF Parcels, Filling
<1>7. /\ Thinned(Parcels', Parcels, 1) /\ DOMAIN Parcels' \in SUBSET Nat
      /\ \A i \in DOMAIN Parcels' :
            i + 1 \in DOMAIN Parcels /\ i + 1 > 1 /\ Parcels'[i].block = Parcels[i + 1].block
    BY <1>1, <1>5, <1>6, Taking DEF Parcels
<1> QED
    BY <1>3, <1>4, <1>7

\* A report is lost.
LEMMA LoseReportStep == FlowInv /\ LoseReport => FlowInv'
<1> SUFFICES ASSUME FlowInv, LoseReport PROVE FlowInv'
    OBVIOUS
<1>1. /\ mishaps < MaxMishaps /\ mishaps' = mishaps + 1
      /\ reportNet # <<>> /\ reportNet' = Tail(reportNet)
      /\ UNCHANGED <<clock, sequence, dataNet, sent, learned>>
      /\ UNCHANGED <<rxVars, ledgerVars, queueVars>>
    BY DEF LoseReport
<1>2. UNCHANGED <<waiting, remoteSsrc, refPoint, fbHeader, fbEvent, headerFault>>
    BY <1>1 DEF rxVars
<1>3. /\ Thinned(Parcels', Parcels, 1) /\ DOMAIN Parcels' \in SUBSET Nat
      /\ \E S : reportNet' \in Seq(S)
      /\ Recently(reportNet', clock)
      /\ \A i \in DOMAIN reportNet' : WellFormed(reportNet'[i])
    BY <1>1, <1>2, ReportGone
<1>4. Shorter(dataNet', dataNet, 0) /\ DOMAIN dataNet' \in SUBSET Nat
    BY <1>1, SameNet DEF FlowInv, NetInv
<1>5. NumbersInv' /\ SenderInv' /\ fault' = "none" /\ OrderInv'
    BY <1>1, <1>2, <1>3, <1>4, PassingThinned
<1>6. NetInv'
    <2>1. mishaps' \in 0 .. MaxMishaps
        BY <1>1, FlowAssumption DEF FlowInv, NetInv
    <2> QED
        BY <1>1, <1>3, <2>1 DEF FlowInv, NetInv
<1>7. TimerInv'
    <2>1. refPoint # 0
        BY <1>1 DEF FlowInv, TimerInv
    <2> QED
        BY <1>1, <1>2, <2>1 DEF FlowInv, TimerInv
<1>8. HeaderInv'
    BY <1>2, <1>3 DEF FlowInv, HeaderInv
<1>9. FaultInv'
    BY <1>2, <1>5 DEF FlowInv, FaultInv
<1> QED
    BY <1>5, <1>6, <1>7, <1>8, <1>9 DEF FlowInv

\* The clock moves: nothing overdue is left behind it.
LEMMA TickStep == FlowInv /\ Tick => FlowInv'
<1> SUFFICES ASSUME FlowInv, Tick PROVE FlowInv'
    OBVIOUS
<1>1. /\ clock < MaxTime /\ fbEvent # clock /\ clock' = clock + 1
      /\ InTime(dataNet) /\ InTime(reportNet)
      /\ UNCHANGED <<sequence, dataNet, reportNet, mishaps, sent, learned>>
      /\ UNCHANGED <<rxVars, ledgerVars, queueVars>>
    BY DEF Tick
<1>2. UNCHANGED <<waiting, remoteSsrc, refPoint, fbHeader, fbEvent, headerFault>>
      /\ UNCHANGED <<sentRtp, firstSend, lastSentRtp, inflightPktCount, brFractionWindow,
                     totSentBytes, totRcvdBytes, fault, vq, minQDelay, lastQDelay, ivqSt,
                     estimated, stuck>>
    BY <1>1 DEF rxVars, ledgerVars, queueVars
<1>3. Parcels' = Parcels /\ Alive' = Alive
    BY <1>1, <1>2 DEF Parcels, Filling, Alive
<1>4. clock \in Nat /\ refPoint \in Nat /\ refPoint <= clock /\ clock' \in StartTime .. MaxTime
    BY <1>1, FlowConstants DEF FlowInv, NetInv, TimerInv
<1>5. NetInv'
    <2>1. ASSUME NEW net, Recently(net, clock), InTime(net) PROVE Recently(net, clock + 1)
        BY <1>4, <2>1, FlowConstants DEF Recently, InTime
    <2>2. Recently(dataNet, clock + 1) /\ Recently(reportNet, clock + 1)
        BY <1>1, <2>1 DEF FlowInv, NetInv
    <2> QED
        BY <1>1, <1>4, <2>2 DEF FlowInv, NetInv
<1>6. TimerInv'
    <2> DEFINE p == FbPeriod * RxUsPerMs
    <2>1. p \in Nat
        BY FlowConstants
    <2>2. fbEvent # Never => fbEvent \in Nat /\ clock <= fbEvent /\ fbEvent <= clock + p
        BY DEF FlowInv, TimerInv
    <2> HIDE DEF p
    <2>3. fbEvent # Never => clock + 1 <= fbEvent /\ fbEvent <= clock + 1 + p
        BY <1>1, <1>4, <2>1, <2>2
    <2> QED
        BY <1>1, <1>2, <1>4, <2>3 DEF FlowInv, TimerInv, p
<1>7. NumbersInv'
    BY <1>1, <1>2, <1>3 DEF FlowInv, NumbersInv
<1>8. HeaderInv'
    BY <1>1, <1>2 DEF FlowInv, HeaderInv
<1>9. OrderInv'
    <2>1. UnderWay(sequence, dataNet, Parcels, sentRtp, clock, refPoint)
        BY DEF FlowInv, OrderInv
    <2>2. UnderWay(sequence, dataNet, Parcels, sentRtp, clock + 1, refPoint)
        BY <1>4, <2>1, Waiting
    <2> QED
        BY <1>1, <1>2, <1>3, <2>2 DEF OrderInv
<1>10. SenderInv'
    <2>1. RecordsInv'
        <3>1. \A s \in DOMAIN sentRtp : sentRtp[s].sent \in Nat /\ sentRtp[s].sent <= clock
            BY DEF FlowInv, SenderInv, RecordsInv, SentRtpRecord
        <3>2. \A s \in DOMAIN sentRtp : sentRtp[s].sent <= clock + 1
            BY <1>4, <3>1
        <3> QED
            BY <1>1, <1>2, <1>3, <3>2 DEF FlowInv, SenderInv, RecordsInv
    <2>2. PastInv'
        <3>1. ElapsedMs(clock, refPoint) \in Int /\ ElapsedMs(clock + 1, refPoint) \in Int
              /\ ElapsedMs(clock, refPoint) <= ElapsedMs(clock + 1, refPoint)
            <4>1. clock \in Int /\ clock + 1 \in Int /\ refPoint \in Int /\ clock <= clock + 1
                BY <1>4
            <4> QED
                BY <4>1, ElapsedGrows
        <3>2. \A j \in DOMAIN vq : vq[j].sent \in Nat /\ vq[j].rcvd \in Nat
            BY TimesNow
        <3>3. \A j \in DOMAIN vq : /\ vq[j].sent <= clock + 1
                                   /\ vq[j].rcvd <= ElapsedMs(clock + 1, refPoint)
            BY <1>4, <3>1, <3>2 DEF FlowInv, SenderInv, PastInv
        <3> QED
            BY <1>1, <1>2, <1>3, <3>3 DEF FlowInv, SenderInv, PastInv
    <2>3. PeriodsInv'
        <3>1. Ms(clock) \in Nat /\ Ms(clock + 1) \in Nat /\ Ms(clock) <= Ms(clock + 1)
            <4>1. clock + 1 \in Nat /\ clock <= clock + 1
                BY <1>4
            <4> QED
                BY <1>4, <4>1, MsGrows
        <3>2. \A i \in DOMAIN brFractionWindow : brFractionWindow[i].begin \in Nat
            BY TimesNow
        <3>3. NoTimeWrap => \A i \in DOMAIN brFractionWindow :
                                brFractionWindow[i].begin <= Ms(clock + 1)
            BY <3>1, <3>2 DEF FlowInv, SenderInv, PeriodsInv
        <3> QED
            BY <1>1, <1>2, <1>3, <3>3 DEF FlowInv, SenderInv, PeriodsInv
    <2>4. QueueInv'
        BY <1>2 DEF FlowInv, SenderInv, QueueInv, QueueTypeOK, Backlog
    <2> QED
        BY <2>1, <2>2, <2>3, <2>4 DEF SenderInv
<1>11. FaultInv'
    BY <1>2 DEF FlowInv, FaultInv
<1> QED
    BY <1>5, <1>6, <1>7, <1>8, <1>9, <1>10, <1>11 DEF FlowInv

\* SetTimes sets the two times of a header and nothing else.
LEMMA Stamping ==
    ASSUME NEW h, DOMAIN h = Fields, NEW t, NEW m, NEW g, g = SetTimes(h, t, m)
    PROVE  /\ DOMAIN g = Fields /\ g.blocks = h.blocks /\ g.length = h.length
           /\ g.reportTime = t /\ g.monitored = m
           /\ BlockIn(g, Ssrc) = BlockIn(h, Ssrc)
           /\ OneStream(h) => OneStream(g)
<1>1. /\ DOMAIN g = Fields /\ g.blocks = h.blocks /\ g.length = h.length
      /\ g.reportTime = t /\ g.monitored = m
    BY DEF SetTimes, Fields
<1>2. BlockIn(g, Ssrc) = BlockIn(h, Ssrc)
    BY <1>1 DEF BlockIn
<1> QED
    BY <1>1, <1>2 DEF OneStream

\* A report as it leaves the receiver.
LEMMA Posted ==
    ASSUME FlowInv, fbEvent = clock, NEW h, h = Stamped(clock), NEW r,
           r.packet = Serialize(h)
    PROVE  /\ Serializable(h) /\ DOMAIN h = Fields
           /\ WellFormed(r) /\ r.packet.reportTime = ElapsedMs(clock, refPoint)
           /\ DOMAIN BlockIn(Read(r), Ssrc) = DOMAIN BlockIn(fbHeader, Ssrc)
           /\ \A s \in DOMAIN BlockIn(fbHeader, Ssrc) :
                BlockIn(Read(r), Ssrc)[s].ts = BlockIn(fbHeader, Ssrc)[s].ts
           /\ ReportedNumbers(r.packet) = DOMAIN BlockIn(fbHeader, Ssrc)
           /\ Filling = BlockIn(fbHeader, Ssrc) /\ fbEvent # Never /\ refPoint # 0
<1> DEFINE b == BlockIn(fbHeader, Ssrc)
           n == Len(reportNet) + 1
<1>1. clock \in Nat /\ refPoint \in Nat /\ refPoint <= clock /\ ElapsedMs(clock, refPoint) \in Nat
    BY TimesNow
<1>2. fbEvent # Never
    BY <1>1 DEF Never
<1>3. Filling = b /\ refPoint # 0 /\ UpToDate(fbHeader)
    BY <1>2 DEF Filling, FlowInv, TimerInv, HeaderInv
<1>4. DOMAIN fbHeader = Fields /\ OneStream(fbHeader)
    BY DEF FlowInv, HeaderInv
<1>5. /\ DOMAIN h = Fields /\ h.blocks = fbHeader.blocks /\ h.length = fbHeader.length
      /\ h.reportTime = ElapsedMs(clock, refPoint) /\ h.monitored = FbPeriod
      /\ BlockIn(h, Ssrc) = b /\ OneStream(h)
    BY <1>4, Stamping DEF Stamped
<1>6. n \in DOMAIN Parcels /\ Parcels[n].block = b /\ Parcels[n].end = ElapsedMs(clock, refPoint)
    BY <1>3, ParcelsNow
<1>7. Near(DOMAIN b, sequence) /\ sequence \in Sequences16
    <2>1. Near(DOMAIN Parcels[n].block, sequence)
        BY <1>6 DEF FlowInv, OrderInv, UnderWay, Together
    <2> QED
        BY <1>6, <2>1 DEF FlowInv, NumbersInv
<1>8. \A s \in DOMAIN b : /\ b[s].ts \in Nat /\ b[s].ts <= h.reportTime
                          /\ h.reportTime <= b[s].ts + FbPeriod
    <2> TAKE s \in DOMAIN b
    <2>1. Dated(Parcels[n], s, sentRtp, clock, refPoint)
        BY <1>6 DEF FlowInv, OrderInv, UnderWay, AllDated
    <2>2. b[s] \in Stamp /\ b[s].ts <= h.reportTime /\ h.reportTime <= b[s].ts + FbPeriod
        BY <1>5, <1>6, <2>1 DEF Dated
    <2> QED
        BY <2>2 DEF Stamp
<1>9. Serializable(h)
    <2> SUFFICES ASSUME NEW ssrc \in DOMAIN h.blocks, NEW s \in DOMAIN h.blocks[ssrc]
                 PROVE  TsToAto(h.blocks[ssrc][s].ts, h.reportTime) \in 0 .. MaxAto
        BY DEF Serializable
    <2>1. ssrc = Ssrc /\ h.blocks[ssrc] = b
        BY <1>5 DEF OneStream, BlockIn
    <2>2. b[s].ts \in Nat /\ b[s].ts <= h.reportTime /\ h.reportTime <= b[s].ts + FbPeriod
        BY <1>8, <2>1
    <2> DEFINE ts == b[s].ts
               rt == h.reportTime
    <2>3. ts \in Nat /\ rt \in Nat /\ ts <= rt /\ rt <= ts + FbPeriod
        BY <1>1, <1>5, <2>2
    <2> HIDE DEF ts, rt
    <2>4. FbPeriod \in Nat /\ MaxAto \in Nat /\ FbPeriod <= MaxAto
        BY FlowConstants, FlowAssumption, RfbHeaderAssumption
    <2>5. rt - ts \in 0 .. MaxAto
        BY <2>3, <2>4
    <2> QED
        BY <2>1, <2>5 DEF TsToAto, ts, rt
<1>10. h.length = (Octets(h.blocks) - 4) \div 4
    BY <1>3, <1>5 DEF UpToDate
<1>11. LET packet == Serialize(h)
           f == Deserialize(packet)
       IN  /\ Deserializable(packet)
           /\ packet.reportTime = h.reportTime
           /\ f.reportTime = h.reportTime /\ f.monitored = h.monitored
           /\ DOMAIN f.blocks = DOMAIN h.blocks
           /\ ReportedNumbers(packet) = DOMAIN BlockIn(h, Ssrc)
           /\ DOMAIN BlockIn(f, Ssrc) = DOMAIN BlockIn(h, Ssrc)
           /\ \A s \in DOMAIN BlockIn(h, Ssrc) :
                /\ BlockIn(f, Ssrc)[s] \in Stamp
                /\ BlockIn(f, Ssrc)[s].ts = BlockIn(h, Ssrc)[s].ts
    <2>1. h.reportTime \in Nat /\ DOMAIN h = {"blocks", "length", "reportTime", "monitored"}
          /\ Near(DOMAIN BlockIn(h, Ssrc), sequence)
        BY <1>1, <1>5, <1>7 DEF Fields
    <2> HIDE DEF b
    <2> QED
        BY <1>5, <1>7, <1>10, <2>1, HeaderRoundTrip
<1> DEFINE f == Read(r)
<1>12. /\ Deserializable(r.packet) /\ r.packet.reportTime = h.reportTime
       /\ f.reportTime = h.reportTime /\ f.monitored = FbPeriod
       /\ DOMAIN f.blocks = DOMAIN h.blocks
       /\ ReportedNumbers(r.packet) = DOMAIN b
       /\ DOMAIN BlockIn(f, Ssrc) = DOMAIN b
       /\ \A s \in DOMAIN b : BlockIn(f, Ssrc)[s] \in Stamp /\ BlockIn(f, Ssrc)[s].ts = b[s].ts
    BY <1>5, <1>11 DEF Read
<1> HIDE DEF f
<1>13. OneStream(f)
    <2>1. DOMAIN f.blocks \subseteq {Ssrc}
        BY <1>5, <1>12 DEF OneStream
    <2>2. Ssrc \in DOMAIN f.blocks => DOMAIN f.blocks[Ssrc] # {}
        <3>1. Ssrc \in DOMAIN f.blocks => f.blocks[Ssrc] = BlockIn(f, Ssrc)
            BY DEF BlockIn
        <3>2. Ssrc \in DOMAIN h.blocks => DOMAIN b # {}
            BY <1>5 DEF OneStream, BlockIn
        <3> QED
            BY <1>12, <3>1, <3>2
    <2>3. BlockType(BlockIn(f, Ssrc))
        <3>1. DOMAIN b \in SUBSET Sequences16
            BY <1>4 DEF OneStream, BlockType
        <3> QED
            BY <1>12, <3>1 DEF BlockType
    <2> QED
        BY <2>1, <2>2, <2>3 DEF OneStream
<1>14. WellFormed(r)
    <2>1. r.packet.reportTime \in Nat
        BY <1>1, <1>5, <1>12
    <2> QED
        BY <1>12, <1>13, <2>1 DEF WellFormed, f
<1> QED
    BY <1>2, <1>3, <1>5, <1>9, <1>12, <1>14 DEF f, b

\* The receiver's timer: the block goes into the network as a report, and a new
\* one begins.
LEMMA SendReportStep == FlowInv /\ SendReport => FlowInv'
<1> SUFFICES ASSUME FlowInv, SendReport PROVE FlowInv'
    OBVIOUS
<1> DEFINE h == Stamped(clock)
           r == [packet |-> Serialize(h), at |-> clock]
           p == FbPeriod * RxUsPerMs
<1>1. /\ fbEvent = clock /\ fbEvent' = clock + p
      /\ fbHeader' = CleanReportBlocks(h) /\ headerFault' = ~Serializable(h)
      /\ UNCHANGED <<waiting, remoteSsrc, refPoint>>
      /\ reportNet' = Append(reportNet, r)
      /\ UNCHANGED <<clock, sequence, dataNet, mishaps, sent, learned>>
      /\ UNCHANGED <<ledgerVars, queueVars>>
    BY DEF SendReport, FbTimerHandler
<1>2. r.packet = Serialize(h) /\ r.at = clock
    OBVIOUS
<1>3. p \in Nat /\ clock \in Nat /\ p > 0
    BY TimesNow, FlowConstants
<1> HIDE DEF h, r, p
<1>4. /\ Serializable(h) /\ DOMAIN h = Fields
      /\ WellFormed(r) /\ r.packet.reportTime = ElapsedMs(clock, refPoint)
      /\ DOMAIN BlockIn(Read(r), Ssrc) = DOMAIN BlockIn(fbHeader, Ssrc)
      /\ \A s \in DOMAIN BlockIn(fbHeader, Ssrc) :
            BlockIn(Read(r), Ssrc)[s].ts = BlockIn(fbHeader, Ssrc)[s].ts
      /\ Filling = BlockIn(fbHeader, Ssrc) /\ fbEvent # Never /\ refPoint # 0
    BY <1>1, <1>2, Posted DEF h
<1>5. /\ DOMAIN fbHeader' = Fields /\ fbHeader'.blocks = <<>> /\ OneStream(fbHeader')
      /\ BlockIn(fbHeader', Ssrc) = <<>> /\ UpToDate(fbHeader')
    <2> DEFINE g == fbHeader'
    <2>1. g = CleanReportBlocks(h)
        BY <1>1
    <2> HIDE DEF g
    <2>2. DOMAIN g = Fields /\ g.blocks = <<>> /\ OneStream(g) /\ BlockIn(g, Ssrc) = <<>> /\ UpToDate(g)
        BY <1>4, <2>1, Cleaning
    <2> QED
        BY <2>2 DEF g
<1>6. fbEvent' # Never
    BY <1>1, <1>3 DEF Never
<1>7. PICK S : reportNet \in Seq(S)
    BY DEF FlowInv, NetInv
<1>8. Parcels' = ParcelsOf(Append(reportNet, r), <<>>, fbEvent', refPoint)
    BY <1>1, <1>5, <1>6 DEF Parcels, Filling
<1>9. Thinned(Parcels', Parcels, 0) /\ DOMAIN Parcels' \in SUBSET Nat
    <2>1. OneStream(Read(r)) /\ Streams(reportNet)
        BY <1>4, ParcelsNow DEF WellFormed
    <2>2. /\ DOMAIN BlockIn(Read(r), Ssrc) = DOMAIN Filling
          /\ r.at = fbEvent /\ r.packet.reportTime = ElapsedMs(fbEvent, refPoint)
          /\ \A s \in DOMAIN Filling : BlockIn(Read(r), Ssrc)[s].ts = Filling[s].ts
        BY <1>1, <1>2, <1>4
    <2>3. Parcels = ParcelsOf(reportNet, Filling, fbEvent, refPoint)
        BY DEF Parcels
    <2> QED
        BY <1>7, <1>8, <2>1, <2>2, <2>3, Posting
<1>10. Shorter(dataNet', dataNet, 0) /\ DOMAIN dataNet' \in SUBSET Nat
    BY <1>1, SameNet DEF FlowInv, NetInv
<1>11. NumbersInv' /\ SenderInv' /\ fault' = "none" /\ OrderInv'
    BY <1>1, <1>9, <1>10, PassingThinned
<1>12. /\ reportNet' \in Seq(S \cup {r}) /\ DOMAIN reportNet = 1 .. Len(reportNet)
       /\ DOMAIN reportNet' = 1 .. Len(reportNet) + 1
       /\ reportNet'[Len(reportNet) + 1] = r /\ Len(reportNet) \in Nat
       /\ \A i \in 1 .. Len(reportNet) : reportNet'[i] = reportNet[i]
    BY <1>1, <1>7
<1>13. \A i \in DOMAIN reportNet' : reportNet'[i] = r \/ \E j \in DOMAIN reportNet : reportNet'[i] = reportNet[j]
    <2> TAKE i \in DOMAIN reportNet'
    <2>1. i \in 1 .. Len(reportNet) \/ i = Len(reportNet) + 1
        BY <1>12
    <2> QED
        BY <1>12, <2>1
<1>14. NetInv'
    <2>1. Recently(reportNet, clock)
        BY DEF FlowInv, NetInv
    <2>2. r.at \in Nat /\ r.at <= clock /\ clock <= r.at + MaxLatency
        BY <1>2, <1>3, FlowConstants
    <2>3. Recently(reportNet', clock)
        BY <1>13, <2>1, <2>2 DEF Recently
    <2> QED
        BY <1>1, <1>12, <2>3 DEF FlowInv, NetInv
<1>15. TimerInv'
    <2>1. fbEvent' \in Nat /\ clock <= fbEvent' /\ fbEvent' <= clock + p
        BY <1>1, <1>3
    <2> QED
        BY <1>1, <1>4, <1>5, <2>1 DEF FlowInv, TimerInv, p
<1>16. HeaderInv'
    <2>1. \A i \in DOMAIN reportNet' : WellFormed(reportNet'[i])
        BY <1>4, <1>13 DEF FlowInv, HeaderInv
    <2> QED
        BY <1>1, <1>5, <2>1 DEF FlowInv, HeaderInv
<1>17. FaultInv'
    BY <1>1, <1>4, <1>11 DEF FlowInv, FaultInv
<1> QED
    BY <1>11, <1>14, <1>15, <1>16, <1>17 DEF FlowInv

\* The parcels when the receiver has put a packet into the block it is filling.
LEMMA ParcelsDelivered ==
    ASSUME NEW S, NEW net \in Seq(S), NEW b, NEW event, NEW ref, NEW s, NEW x,
           NEW bs, bs = ParcelsOf(net, b, event, ref),
           NEW cs, cs = ParcelsOf(net, PutAt(b, s, x), event, ref)
    PROVE  Delivered(cs, bs, Len(net) + 1, s, x)
<1> DEFINE L == Len(net)
           c == PutAt(b, s, x)
<1>1. /\ L \in Nat /\ DOMAIN bs = 1 .. L + 1
      /\ bs[L + 1].block = b /\ bs[L + 1].at = event /\ bs[L + 1].end = ElapsedMs(event, ref)
    BY ParcelsAre
<1>2. /\ DOMAIN cs = 1 .. L + 1
      /\ cs[L + 1].block = c /\ cs[L + 1].at = event /\ cs[L + 1].end = ElapsedMs(event, ref)
    <2> HIDE DEF c
    <2>1. cs = ParcelsOf(net, c, event, ref)
        BY DEF c
    <2> QED
        BY <2>1, ParcelsAre
<1>3. ASSUME NEW i \in 1 .. L + 1, i # L + 1 PROVE cs[i] = bs[i]
    <2>1. i <= L /\ i \in 1 .. L + 1
        BY <1>1, <1>3
    <2> HIDE DEF c, L
    <2> DEFINE Sent(j) == [block |-> BlockIn(Read(net[j]), Ssrc), at |-> net[j].at,
                           end |-> net[j].packet.reportTime]
    <2>2. bs[i] = Sent(i) /\ cs[i] = Sent(i)
        BY <2>1 DEF ParcelsOf, L
    <2> QED
        BY <2>2
<1> QED
    BY <1>1, <1>2, <1>3 DEF Delivered

\* A packet received no earlier than y joins what was received no earlier than y.
LEMMA AfterDelivered ==
    ASSUME NEW y, NEW bs, After(y, bs), NEW n \in Nat \ {0}, DOMAIN bs = 1 .. n,
           NEW s, NEW x, y <= x.ts, NEW cs, Delivered(cs, bs, n, s, x)
    PROVE  After(y, cs)
<1> SUFFICES ASSUME NEW i \in 1 .. n, NEW t \in DOMAIN cs[i].block
             PROVE  y <= cs[i].block[t].ts
    BY DEF After, Delivered
<1>1. CASE i # n
    BY <1>1 DEF Delivered, After
<1>2. CASE i = n
    <2> DEFINE b == bs[n].block
               c == cs[n].block
    <2>1. c = PutAt(b, s, x)
        BY DEF Delivered
    <2> HIDE DEF c
    <2>2. DOMAIN c = DOMAIN b \cup {s} /\ c[s] = x /\ \A z \in DOMAIN b : z # s => c[z] = b[z]
        BY <2>1 DEF PutAt
    <2>3. n \in DOMAIN bs
        OBVIOUS
    <2>4. \A z \in DOMAIN b : y <= b[z].ts
        BY <2>3 DEF After
    <2> HIDE DEF b
    <2>5. \A z \in DOMAIN c : y <= c[z].ts
        BY <2>2, <2>4
    <2> QED
        BY <1>2, <2>5 DEF c
<1> QED
    BY <1>1, <1>2

\* The network of packets without its first.
LEMMA FirstArrives ==
    ASSUME NEW S, NEW net \in Seq(S), net # <<>>, NEW ms,
           ms = [j \in 1 .. (Len(net) - 1) |-> IF j < 1 THEN net[j] ELSE net[j + 1]]
    PROVE  /\ ms \in Seq(S) /\ Shorter(ms, net, 1) /\ DOMAIN ms = 1 .. Len(net) - 1
           /\ Len(net) \in Nat \ {0} /\ DOMAIN net = 1 .. Len(net) /\ net[1] \in S
           /\ \A now : Recently(net, now) => Recently(ms, now)
           /\ \A j \in 1 .. Len(net) - 1 : ms[j] = net[j + 1]
<1> DEFINE L == Len(net)
           g(j) == net[j + 1]
<1>1. L \in Nat \ {0} /\ DOMAIN net = 1 .. L
    OBVIOUS
<1>2. DOMAIN ms = 1 .. L - 1
    OBVIOUS
<1>3. \A j \in 1 .. L - 1 : ms[j] = net[j + 1] /\ j + 1 \in DOMAIN net
    BY <1>1
<1>4. \A j \in DOMAIN net : net[j] \in S
    OBVIOUS
<1>5. ms = [j \in 1 .. L - 1 |-> g(j)]
    BY <1>2, <1>3
<1>6. \A j \in 1 .. L - 1 : g(j) \in S
    BY <1>3, <1>4
<1>7. ms \in Seq(S)
    <2>1. L - 1 \in Nat
        BY <1>1
    <2> HIDE DEF g, L
    <2> QED
        BY <1>5, <1>6, <2>1
<1> HIDE DEF L
<1>8. Shorter(ms, net, 1)
    BY <1>2, <1>3 DEF Shorter
<1>9. \A now : Recently(net, now) => Recently(ms, now)
    BY <1>2, <1>3 DEF Recently
<1>10. net[1] \in S
    BY <1>1, <1>4
<1> QED
    BY <1>1, <1>2, <1>3, <1>7, <1>8, <1>9, <1>10 DEF L

\* Before the first packet has arrived there is nothing in the parcels, whatever
\* the receiver's clock will be.
LEMMA FirstParcels ==
    ASSUME FlowInv, refPoint = 0, NEW event, NEW ref,
           NEW bs, bs = ParcelsOf(reportNet, BlockIn(fbHeader, Ssrc), event, ref)
    PROVE  UnderWay(sequence, dataNet, bs, sentRtp, clock, ref) /\ Live(dataNet, bs) \subseteq Alive
<1>1. reportNet = <<>> /\ BlockIn(fbHeader, Ssrc) = <<>>
    BY DEF FlowInv, TimerInv
<1>2. \A i \in DOMAIN bs : DOMAIN bs[i].block = {}
    <2>1. PICK S : reportNet \in Seq(S)
        BY DEF FlowInv, NetInv
    <2> DEFINE b == BlockIn(fbHeader, Ssrc)
    <2>2. b = <<>>
        BY <1>1
    <2> HIDE DEF b
    <2>3. DOMAIN bs = 1 .. Len(reportNet) + 1 /\ bs[Len(reportNet) + 1].block = b
        <3>1. bs = ParcelsOf(reportNet, b, event, ref)
            BY DEF b
        <3> QED
            BY <2>1, <3>1, ParcelsAre
    <2>4. Len(reportNet) = 0
        BY <1>1
    <2>5. DOMAIN bs = {1} /\ bs[1].block = <<>>
        BY <2>2, <2>3, <2>4
    <2> QED
        BY <2>5
<1>3. UnderWay(sequence, dataNet, Parcels, sentRtp, clock, refPoint)
    BY DEF FlowInv, OrderInv
<1>4. Landed(bs) = {}
    BY <1>2 DEF Landed
<1>5. Live(dataNet, bs) \subseteq Alive
    BY <1>4 DEF Alive, Live
<1>6. InLine(sequence, dataNet, bs)
    BY <1>2, <1>3 DEF UnderWay, InLine
<1>7. Together(sequence, dataNet, bs)
    BY <1>2, <1>3 DEF UnderWay, Together, Near
<1>8. SentInOrder(sequence, Live(dataNet, bs), sentRtp)
    BY <1>3, <1>5 DEF UnderWay, SentInOrder, Alive
<1>9. RcvdInOrder(sequence, bs) /\ AllDated(bs, sentRtp, clock, ref) /\ Travels(dataNet, sentRtp)
    BY <1>2, <1>3 DEF UnderWay, RcvdInOrder, AllDated
<1> QED
    BY <1>5, <1>6, <1>7, <1>8, <1>9 DEF UnderWay

\* What the receiver does with the packet it gets.
LEMMA Received ==
    ASSUME FlowInv, Arrive(1), dataNet # <<>>,
           NEW now, now = ElapsedMs(clock, refPoint'), NEW s, s = dataNet[1].seq
    PROVE  /\ refPoint' = IF refPoint = 0 THEN clock ELSE refPoint
           /\ fbEvent' = IF refPoint = 0 THEN clock + FbPeriod * RxUsPerMs ELSE fbEvent
           /\ waiting' = FALSE /\ remoteSsrc' = Ssrc /\ headerFault' = FALSE
           /\ now \in Nat /\ refPoint' \in Nat \ {0} /\ refPoint' <= clock
           /\ s \in Sequences16
           /\ DOMAIN fbHeader' = Fields /\ OneStream(fbHeader')
           /\ DOMAIN BlockIn(fbHeader', Ssrc) = DOMAIN BlockIn(fbHeader, Ssrc) \cup {s}
           /\ s \notin DOMAIN BlockIn(fbHeader, Ssrc) =>
                /\ BlockIn(fbHeader', Ssrc) = PutAt(BlockIn(fbHeader, Ssrc), s, NewStamp(now))
                /\ \A ref \in Sequences16 :
                    Near(DOMAIN BlockIn(fbHeader', Ssrc), ref) => UpToDate(fbHeader')
<1>1. waiting \/ remoteSsrc = Ssrc
    BY DEF FlowInv, HeaderInv
<1>2. /\ refPoint' = IF refPoint = 0 THEN clock ELSE refPoint
      /\ fbEvent' = IF refPoint = 0 THEN clock + FbPeriod * RxUsPerMs ELSE fbEvent
      /\ waiting' = FALSE /\ remoteSsrc' = Ssrc /\ headerFault' = FALSE
      /\ fbHeader' = AddFeedback(fbHeader, Ssrc, s, now, 0)
    BY <1>1 DEF Arrive, RecvPacket
<1>3. clock \in Nat \ {0} /\ refPoint \in Nat /\ refPoint <= clock
    BY TimesNow, FlowConstants DEF FlowInv, NetInv
<1>4. refPoint' \in Nat \ {0} /\ refPoint' <= clock
    BY <1>2, <1>3
<1>5. now \in Nat
    <2> DEFINE ref == refPoint'
    <2>1. clock \in Int /\ ref \in Int /\ ref <= clock /\ clock <= clock
        BY <1>3, <1>4
    <2> HIDE DEF ref
    <2>2. ElapsedMs(clock, ref) \in Nat
        BY <2>1, ElapsedGrows
    <2> QED
        BY <2>2 DEF ref
<1>6. s \in Sequences16
    <2>1. 1 \in DOMAIN dataNet /\ dataNet[1] \in DataPackets
        BY DEF FlowInv, NetInv
    <2> QED
        BY <2>1 DEF DataPackets
<1>7. DOMAIN fbHeader = Fields /\ OneStream(fbHeader)
    BY DEF FlowInv, HeaderInv
<1>8. fbHeader' = AddFeedback(fbHeader, Ssrc, s, now, 0)
    BY <1>2
<1>9. Added(fbHeader, fbHeader', s, now)
    BY <1>5, <1>6, <1>7, <1>8, Adding
<1> QED
    BY <1>2, <1>4, <1>5, <1>6, <1>9 DEF Added

\* What has arrived while the timer runs will be in the next report.
LEMMA ArrivedRunning ==
    ASSUME FlowInv, Arrive(1), dataNet # <<>>, refPoint = 0 \/ fbEvent # Never
    PROVE  /\ OrderInv' /\ Alive' \subseteq Alive
           /\ \A j \in DOMAIN vq : /\ After(vq[j].rcvd, Parcels')
                                   /\ vq[j].rcvd <= ElapsedMs(clock, refPoint')
           /\ UpToDate(fbHeader')
<1> DEFINE now == ElapsedMs(clock, refPoint')
           seq == dataNet[1].seq
           b == BlockIn(fbHeader, Ssrc)
           bs == ParcelsOf(reportNet, b, fbEvent', refPoint')
           p == FbPeriod * RxUsPerMs
           n == Len(reportNet) + 1
           x == NewStamp(now)
<1>1. /\ refPoint' = IF refPoint = 0 THEN clock ELSE refPoint
      /\ fbEvent' = IF refPoint = 0 THEN clock + p ELSE fbEvent
      /\ now \in Nat /\ refPoint' \in Nat \ {0} /\ refPoint' <= clock
      /\ seq \in Sequences16
      /\ seq \notin DOMAIN b =>
            /\ BlockIn(fbHeader', Ssrc) = PutAt(b, seq, x)
            /\ \A ref \in Sequences16 : Near(DOMAIN BlockIn(fbHeader', Ssrc), ref) => UpToDate(fbHeader')
    BY Received
<1>2. PICK S : reportNet \in Seq(S)
    BY DEF FlowInv, NetInv
<1>3. /\ dataNet' \in Seq(DataPackets) /\ Shorter(dataNet', dataNet, 1)
      /\ DOMAIN dataNet' = 1 .. Len(dataNet) - 1
      /\ Len(dataNet) \in Nat \ {0} /\ DOMAIN dataNet = 1 .. Len(dataNet)
      /\ UNCHANGED <<clock, sequence, reportNet, sentRtp, vq>>
    <2>1. dataNet' = [j \in 1 .. (Len(dataNet) - 1) |-> IF j < 1 THEN dataNet[j] ELSE dataNet[j + 1]]
        BY DEF Arrive
    <2>2. dataNet \in Seq(DataPackets)
        BY DEF FlowInv, NetInv
    <2>3. UNCHANGED <<clock, sequence, reportNet, sentRtp, vq>>
        BY DEF Arrive, ledgerVars, queueVars
    <2> QED
        BY <2>1, <2>2, <2>3, FirstArrives
<1>4. clock \in Nat /\ p \in Nat /\ fbEvent' \in Nat /\ clock <= fbEvent' /\ fbEvent' <= clock + p
    <2>1. clock \in Nat /\ p \in Nat
        BY TimesNow, FlowConstants
    <2>2. fbEvent # Never => fbEvent \in Nat /\ clock <= fbEvent /\ fbEvent <= clock + p
        BY DEF FlowInv, TimerInv
    <2>3. refPoint = 0 \/ fbEvent # Never
        OBVIOUS
    <2> HIDE DEF p
    <2>4. CASE refPoint = 0
        BY <1>1, <2>1, <2>4
    <2>5. CASE refPoint # 0
        <3>1. fbEvent' = fbEvent
            BY <1>1, <2>5
        <3> QED
            BY <2>1, <2>2, <2>3, <2>5, <3>1
    <2> QED
        BY <2>4, <2>5
<1>5. fbEvent' # Never
    BY <1>4 DEF Never
<1>6. UnderWay(sequence, dataNet, bs, sentRtp, clock, refPoint') /\ Live(dataNet, bs) \subseteq Alive
    <2>1. CASE refPoint = 0
        BY <2>1, FirstParcels
    <2>2. CASE refPoint # 0
        <3>1. refPoint' = refPoint /\ fbEvent' = fbEvent /\ Filling = b
            BY <1>1, <2>2 DEF Filling
        <3>2. bs = Parcels
            BY <3>1 DEF Parcels
        <3> QED
            BY <3>1, <3>2 DEF FlowInv, OrderInv, Alive
    <2> QED
        BY <2>1, <2>2
<1>7. n \in Nat \ {0} /\ DOMAIN bs = 1 .. n /\ bs[n].block = b /\ bs[n].at = fbEvent'
      /\ bs[n].end = ElapsedMs(fbEvent', refPoint')
    BY <1>2, ParcelsAre
<1>8. 1 \in DOMAIN dataNet
    BY <1>3
<1>9. seq \notin DOMAIN b
    <2>1. InLine(sequence, dataNet, bs)
        BY <1>6 DEF UnderWay
    <2>2. \A s \in DOMAIN b : Diff(sequence, seq) < Diff(sequence, s)
        BY <1>7, <1>8, <2>1 DEF InLine
    <2>3. Diff(sequence, seq) \in Int
        BY <1>1, Distance DEF FlowInv, NumbersInv
    <2> HIDE DEF seq, b
    <2> QED
        BY <2>2, <2>3
<1>10. x \in Stamp /\ x.ts = now
    BY <1>1 DEF NewStamp, Stamp
<1>11. now <= bs[n].end /\ bs[n].end <= now + FbPeriod
    <2> DEFINE e == fbEvent'
               ref == refPoint'
    <2>1. clock \in Int /\ e \in Int /\ ref \in Int /\ clock + p \in Int /\ clock <= e /\ e <= clock + p
        BY <1>1, <1>4
    <2> HIDE DEF e, ref
    <2>2. ElapsedMs(clock, ref) <= ElapsedMs(e, ref) /\ ElapsedMs(e, ref) <= ElapsedMs(clock + p, ref)
        BY <2>1, ElapsedGrows
    <2>3. ElapsedMs(clock + p, ref) = ElapsedMs(clock, ref) + FbPeriod
        BY <2>1, ElapsedGrows
    <2> QED
        BY <1>7, <2>2, <2>3 DEF e, ref
<1>12. bs[n].at <= sentRtp[seq].sent + MaxLatency + FbPeriod * UsPerMs
    <2>1. sentRtp[seq].sent = dataNet[1].at
        BY <1>6, <1>8 DEF UnderWay, Travels
    <2>2. dataNet[1].at \in Nat /\ clock <= dataNet[1].at + MaxLatency
        BY <1>8 DEF FlowInv, NetInv, Recently
    <2> DEFINE a == dataNet[1].at
               e == fbEvent'
    <2>3. p = FbPeriod * UsPerMs /\ MaxLatency \in Nat
        BY FlowConstants
    <2>4. a \in Nat /\ clock <= a + MaxLatency /\ e \in Nat /\ e <= clock + p
        BY <1>4, <2>2
    <2> HIDE DEF a, e, p
    <2>5. e <= a + MaxLatency + p
        BY <1>4, <2>3, <2>4
    <2> QED
        BY <1>7, <2>1, <2>3, <2>5 DEF a, e
<1>13. Parcels' = ParcelsOf(reportNet, PutAt(b, seq, x), fbEvent', refPoint')
    BY <1>1, <1>3, <1>5, <1>9 DEF Parcels, Filling
<1>14. Delivered(Parcels', bs, n, seq, x)
    BY <1>2, <1>13, ParcelsDelivered
<1>15. Alive \subseteq Sequences16
    BY AliveNow
<1>16. /\ UnderWay(sequence, dataNet', Parcels', sentRtp, clock, refPoint')
       /\ Live(dataNet', Parcels') \subseteq Live(dataNet, bs)
    <2> DEFINE ms == dataNet'
               cs == Parcels'
               ref == refPoint'
               m == Len(dataNet)
    <2>1. UnderWay(sequence, dataNet, bs, sentRtp, clock, ref) /\ Live(dataNet, bs) \subseteq Sequences16
        BY <1>6, <1>15
    <2>2. sequence \in Sequences16
        BY DEF FlowInv, NumbersInv
    <2>3. m \in Nat \ {0} /\ DOMAIN dataNet = 1 .. m /\ Shorter(ms, dataNet, 1) /\ DOMAIN ms = 1 .. m - 1
        BY <1>3
    <2>4. /\ x \in Stamp /\ x.ts = ElapsedMs(clock, ref) /\ x.ts \in Nat
          /\ x.ts <= bs[n].end /\ bs[n].end <= x.ts + FbPeriod
        BY <1>1, <1>10, <1>11
    <2>5. bs[n].at <= sentRtp[dataNet[1].seq].sent + MaxLatency + FbPeriod * UsPerMs
        BY <1>12
    <2>6. Delivered(cs, bs, n, dataNet[1].seq, x)
        BY <1>14
    <2> HIDE DEF ms, cs, ref, m, bs, n, x, seq
    <2>7. UnderWay(sequence, ms, cs, sentRtp, clock, ref) /\ Live(ms, cs) \subseteq Live(dataNet, bs)
        BY <1>7, <2>1, <2>2, <2>3, <2>4, <2>5, <2>6, Arriving
    <2> QED
        BY <2>7 DEF ms, cs, ref
<1>17. OrderInv'
    BY <1>3, <1>16 DEF OrderInv
<1>18. Alive' \subseteq Alive
    BY <1>6, <1>16 DEF Alive
<1>19. \A j \in DOMAIN vq : After(vq[j].rcvd, Parcels') /\ vq[j].rcvd <= now
    <2>1. CASE refPoint = 0
        <3>1. vq = <<>>
            BY <2>1 DEF FlowInv, TimerInv
        <3> QED
            BY <3>1
    <2>2. CASE refPoint # 0
        <3> TAKE j \in DOMAIN vq
        <3>1. refPoint' = refPoint /\ fbEvent' = fbEvent /\ Filling = b
            BY <1>1, <2>2 DEF Filling
        <3>2. bs = Parcels
            BY <3>1 DEF Parcels
        <3>3. After(vq[j].rcvd, bs) /\ vq[j].rcvd <= now
            BY <3>1, <3>2 DEF FlowInv, SenderInv, PastInv
        <3>4. vq[j].rcvd <= x.ts
            BY <1>10, <3>3
        <3> HIDE DEF bs, x, n, seq
        <3>5. After(vq[j].rcvd, Parcels')
            BY <1>7, <1>14, <3>3, <3>4, AfterDelivered
        <3> QED
            BY <3>3, <3>5
    <2> QED
        BY <2>1, <2>2
<1>20. UpToDate(fbHeader')
    <2>1. Together(sequence, dataNet', Parcels')
        BY <1>16 DEF UnderWay
    <2>2. n \in DOMAIN Parcels' /\ Parcels'[n].block = BlockIn(fbHeader', Ssrc)
        BY <1>1, <1>7, <1>9, <1>14 DEF Delivered
    <2>3. Near(DOMAIN BlockIn(fbHeader', Ssrc), sequence) /\ sequence \in Sequences16
        BY <2>1, <2>2 DEF Together, FlowInv, NumbersInv
    <2> QED
        BY <1>1, <1>9, <2>3
<1> QED
    BY <1>17, <1>18, <1>19, <1>20

\* What has arrived after a stop never leaves the receiver.
LEMMA ArrivedStopped ==
    ASSUME FlowInv, Arrive(1), dataNet # <<>>, refPoint # 0, fbEvent = Never
    PROVE  /\ OrderInv' /\ Alive' \subseteq Alive
           /\ \A j \in DOMAIN vq : /\ After(vq[j].rcvd, Parcels')
                                   /\ vq[j].rcvd <= ElapsedMs(clock, refPoint')
           /\ fbEvent' = Never
<1>1. refPoint' = refPoint /\ fbEvent' = Never
    BY Received
<1>2. dataNet' = [j \in 1 .. (Len(dataNet) - 1) |-> IF j < 1 THEN dataNet[j] ELSE dataNet[j + 1]]
      /\ UNCHANGED <<clock, sequence, reportNet, sent, learned>>
      /\ UNCHANGED <<ledgerVars, queueVars>>
    BY DEF Arrive
<1>3. Shorter(dataNet', dataNet, 1) /\ DOMAIN dataNet' = 1 .. Len(dataNet) - 1 /\ Len(dataNet) \in Nat
    BY <1>2, FirstArrives DEF FlowInv, NetInv
<1>4. DOMAIN dataNet' \in SUBSET Nat
    BY <1>3
<1>5. Parcels' = Parcels
    BY <1>1, <1>2 DEF Parcels, Filling
<1>6. Thinned(Parcels', Parcels, 0) /\ DOMAIN Parcels' \in SUBSET Nat
    BY <1>5, SameParcels
<1>7. OrderInv'
    BY <1>1, <1>2, <1>3, <1>4, <1>6, PassingThinned
<1>8. Alive' \subseteq Alive
    <2>1. Live(dataNet', Parcels') \subseteq Live(dataNet, Parcels)
        BY <1>3, <1>4, <1>6, Thinning DEF FlowInv, OrderInv
    <2> QED
        BY <2>1 DEF Alive
<1>9. \A j \in DOMAIN vq : After(vq[j].rcvd, Parcels') /\ vq[j].rcvd <= ElapsedMs(clock, refPoint')
    BY <1>1, <1>5 DEF FlowInv, SenderInv, PastInv
<1> QED
    BY <1>1, <1>7, <1>8, <1>9

\* The first packet of the network reaches the receiver.
LEMMA ArriveStep == FlowInv /\ dataNet # <<>> /\ Arrive(1) => FlowInv'
<1> SUFFICES ASSUME FlowInv, dataNet # <<>>, Arrive(1) PROVE FlowInv'
    OBVIOUS
<1>1. /\ dataNet' = [j \in 1 .. (Len(dataNet) - 1) |-> IF j < 1 THEN dataNet[j] ELSE dataNet[j + 1]]
      /\ UNCHANGED <<clock, sequence, reportNet, mishaps, sent, learned>>
      /\ UNCHANGED <<ledgerVars, queueVars>>
    BY DEF Arrive
<1>2. /\ refPoint' = IF refPoint = 0 THEN clock ELSE refPoint
      /\ fbEvent' = IF refPoint = 0 THEN clock + FbPeriod * RxUsPerMs ELSE fbEvent
      /\ waiting' = FALSE /\ remoteSsrc' = Ssrc /\ headerFault' = FALSE
      /\ refPoint' \in Nat \ {0} /\ refPoint' <= clock
      /\ DOMAIN fbHeader' = Fields /\ OneStream(fbHeader')
    BY Received
<1>3. /\ OrderInv' /\ Alive' \subseteq Alive
      /\ \A j \in DOMAIN vq : /\ After(vq[j].rcvd, Parcels')
                              /\ vq[j].rcvd <= ElapsedMs(clock, refPoint')
      /\ fbEvent' # Never => UpToDate(fbHeader')
    BY ArrivedRunning, ArrivedStopped
<1>4. NumbersInv' /\ SenderInv' /\ fault' = "none"
    BY <1>1, <1>3, Passing
<1>5. NetInv'
    <2>1. dataNet \in Seq(DataPackets) /\ Recently(dataNet, clock)
        BY DEF FlowInv, NetInv
    <2>2. dataNet' \in Seq(DataPackets) /\ Recently(dataNet', clock)
        BY <1>1, <2>1, FirstArrives
    <2> QED
        BY <1>1, <2>2 DEF FlowInv, NetInv
<1>6. TimerInv'
    <2> DEFINE p == FbPeriod * RxUsPerMs
    <2>1. p \in Nat /\ clock \in Nat
        BY FlowConstants, TimesNow
    <2>2. fbEvent # Never => fbEvent \in Nat /\ clock <= fbEvent /\ fbEvent <= clock + p
        BY DEF FlowInv, TimerInv
    <2>3. fbEvent \in Nat \cup {Never}
        BY DEF FlowInv, TimerInv
    <2> HIDE DEF p
    <2>4. fbEvent' \in Nat \cup {Never}
          /\ (fbEvent' # Never => fbEvent' \in Nat /\ clock <= fbEvent' /\ fbEvent' <= clock + p)
        BY <1>2, <2>1, <2>2, <2>3 DEF p
    <2> QED
        BY <1>1, <1>2, <2>4 DEF TimerInv, p
<1>7. HeaderInv'
    BY <1>1, <1>2, <1>3 DEF FlowInv, HeaderInv
<1>8. FaultInv'
    BY <1>2, <1>4 DEF FaultInv
<1> QED
    BY <1>3, <1>4, <1>5, <1>6, <1>7, <1>8 DEF FlowInv

\* No record the sender will need is too old.
LEMMA KeepAlive ==
    ASSUME FlowInv
    PROVE  \A s \in Alive : clock <= sentRtp[s].sent + KeepTime * UsPerMs
<1> DEFINE K == KeepTime * UsPerMs
           p == FbPeriod * UsPerMs
           L == Len(reportNet)
<1>1. /\ MaxLatency \in Nat /\ p \in Nat /\ K \in Nat /\ K >= 2 * MaxLatency + p
      /\ clock \in Nat
    BY FlowConstants, TimesNow
<1>2. \A s \in Alive : sentRtp[s].sent \in Nat
    BY AliveNow
<1>3. ASSUME NEW k \in DOMAIN dataNet
      PROVE  clock <= sentRtp[dataNet[k].seq].sent + K
    <2>1. sentRtp[dataNet[k].seq].sent = dataNet[k].at
        BY DEF FlowInv, OrderInv, UnderWay, Travels
    <2>2. dataNet[k].at \in Nat /\ clock <= dataNet[k].at + MaxLatency
        BY DEF FlowInv, NetInv, Recently
    <2> DEFINE a == dataNet[k].at
    <2>3. a \in Nat /\ clock <= a + MaxLatency
        BY <2>2
    <2> HIDE DEF a, K, p
    <2>4. clock <= a + K
        BY <1>1, <2>3
    <2> QED
        BY <2>1, <2>4 DEF a, K
<1>4. ASSUME NEW i \in DOMAIN Parcels, NEW s \in DOMAIN Parcels[i].block
      PROVE  clock <= sentRtp[s].sent + K
    <2>1. Parcels[i].at <= sentRtp[s].sent + MaxLatency + p
        BY DEF FlowInv, OrderInv, UnderWay, AllDated, Dated
    <2>2. Parcels[i].at \in Nat /\ clock <= Parcels[i].at + MaxLatency
        <3> DEFINE D == DOMAIN Parcels
        <3>1. L + 1 \in Nat \ {0} /\ D = 1 .. L + 1 /\ DOMAIN reportNet = 1 .. L
            BY ParcelsNow
        <3>2. L \in Nat /\ i \in D
            BY DEF FlowInv, NetInv
        <3> HIDE DEF L, D
        <3>5. i \in 1 .. L \/ i = L + 1
            BY <3>1, <3>2
        <3> USE DEF L
        <3>3. CASE i \in 1 .. L
            <4>1. Parcels[i].at = reportNet[i].at
                BY <3>3, ParcelsNow
            <4>2. reportNet[i].at \in Nat /\ clock <= reportNet[i].at + MaxLatency
                BY <3>1, <3>3 DEF FlowInv, NetInv, Recently
            <4> QED
                BY <4>1, <4>2
        <3>4. CASE i = L + 1
            <4>1. Parcels[i].at = fbEvent /\ Parcels[i].block = Filling
                BY <3>4, ParcelsNow
            <4>2. fbEvent # Never
                BY <4>1 DEF Filling
            <4>3. fbEvent \in Nat /\ clock <= fbEvent
                BY <4>2 DEF FlowInv, TimerInv
            <4> QED
                BY <1>1, <4>1, <4>3
        <3> QED
            BY <3>3, <3>4, <3>5
    <2>3. sentRtp[s].sent \in Nat
        BY <1>2, AliveNow
    <2> DEFINE a == Parcels[i].at
               t == sentRtp[s].sent
    <2>4. a \in Nat /\ t \in Nat /\ clock <= a + MaxLatency /\ a <= t + MaxLatency + p
        BY <2>1, <2>2, <2>3
    <2> HIDE DEF a, t, K, p
    <2>5. clock <= t + K
        BY <1>1, <2>4
    <2> QED
        BY <2>5 DEF t, K
<1> SUFFICES ASSUME NEW s \in Alive PROVE clock <= sentRtp[s].sent + K
    OBVIOUS
<1> HIDE DEF K
<1>5. \/ \E k \in DOMAIN dataNet : s = dataNet[k].seq
      \/ \E i \in DOMAIN Parcels : s \in DOMAIN Parcels[i].block
    BY DEF Alive, Live, Seqs, Landed
<1> QED
    BY <1>3, <1>4, <1>5

\* The n numbers before q.
Before(q, n) == {s \in Sequences16 : Diff(q, s) \in 1 .. n}

\* The oldest age is followed by 0.
LEMMA OldestAge ==
    ASSUME NEW q \in Sequences16, NEW s \in Sequences16, Diff(q, s) = SeqMod - 1
    PROVE  Diff(Inc(q), s) = 0
BY SeqModAssumption DEF Sequences16, Diff, Inc

\* The numbers sent are those of the ages up to their count.
LEMMA NumberSent ==
    ASSUME NEW q \in Sequences16, NEW count \in 0 .. SeqMod - 2,
           Cardinality(Before(q, count)) = count
    PROVE  /\ q \notin Before(q, count) /\ Cardinality(Before(q, count) \cup {q}) = count + 1
           /\ Before(q, count) \cup {q} = Before(Inc(q), count + 1)
<1> DEFINE old == Before(q, count)
           now == old \cup {q}
<1>0. old = {s \in Sequences16 : Diff(q, s) \in 1 .. count}
    BY DEF Before
<1>1. Diff(q, q) = 0 /\ Inc(q) \in Sequences16 /\ Diff(Inc(q), q) = 1
      /\ \A s \in Sequences16 : Diff(q, s) # SeqMod - 1 => Diff(Inc(q), s) = Diff(q, s) + 1
    BY AgeNext
<1>2. SeqMod \in Nat /\ SeqMod >= 4 /\ count \in Nat /\ count <= SeqMod - 2
    BY SeqModAssumption
<1>3. q \notin old
    <2> SUFFICES ASSUME q \in old PROVE FALSE
        OBVIOUS
    <2>1. Diff(q, q) \in 1 .. count
        BY <1>0
    <2> QED
        BY <1>1, <1>2, <2>1
<1>4. IsFiniteSet(old)
    <2>1. IsFiniteSet(Sequences16)
        BY <1>2, FS_Interval DEF Sequences16
    <2> QED
        BY <1>0, <2>1, FS_Subset
<1>5. Cardinality(now) = count + 1
    BY <1>3, <1>4, FS_AddElement
<1>6. \A s \in Sequences16 : Diff(q, s) \in 0 .. SeqMod - 1
    BY Distance
<1>7. ASSUME NEW s \in Sequences16
      PROVE  s \in now <=> Diff(Inc(q), s) \in 1 .. count + 1
    <2> DEFINE d == Diff(q, s)
               e == Diff(Inc(q), s)
    <2>1. d \in 0 .. SeqMod - 1 /\ e \in 0 .. SeqMod - 1
        BY <1>1, <1>6, Distance
    <2>2. s \in now <=> d \in 1 .. count \/ s = q
        BY <1>0 DEF d
    <2>3. s = q <=> d = 0
        BY <1>1, SameDistance
    <2>4. d # SeqMod - 1 => e = d + 1
        BY <1>1
    <2>5. d = SeqMod - 1 => e = 0
        BY OldestAge
    <2> HIDE DEF d, e
    <2>6. s \in now <=> e \in 1 .. count + 1
        BY <1>2, <2>1, <2>2, <2>3, <2>4, <2>5
    <2> QED
        BY <2>6 DEF e
<1>8. now \subseteq Sequences16
    BY <1>0
<1> QED
    BY <1>3, <1>5, <1>7, <1>8 DEF Before

\* processSendPacket2 adds a record and keeps those the sender will need.
LEMMA SentRecords ==
    ASSUME FlowInv, NEW size \in Nat, ProcessSendPacket2(clock, sequence, size)
    PROVE  /\ DOMAIN sentRtp' \subseteq DOMAIN sentRtp \cup {sequence}
           /\ sequence \in DOMAIN sentRtp' /\ lastSentRtp' = sequence
           /\ sentRtp'[sequence] \in SentRtpRecord /\ sentRtp'[sequence].sent = clock
           /\ \A s \in DOMAIN sentRtp' : s # sequence =>
                /\ sentRtp'[s] = sentRtp[s]
                /\ sentRtp'[s].totSent <= sentRtp'[sequence].totSent
           /\ \A s \in Alive : s # sequence /\ s \in DOMAIN sentRtp' /\ sentRtp'[s] = sentRtp[s]
<1> DEFINE before == IF firstSend THEN sentRtp ELSE WithRecord(sentRtp, lastSentRtp)
           total == size + (IF firstSend THEN 0 ELSE before[lastSentRtp].totSent)
           new == [sent |-> clock, size |-> size, totSent |-> total]
           pre == PutAt(before, sequence, new)
<1>1. sentRtp' = Kept(pre, clock) /\ lastSentRtp' = sequence
    BY DEF ProcessSendPacket2
<1>2. /\ firstSend \in BOOLEAN
      /\ IF firstSend THEN DOMAIN sentRtp = {} ELSE lastSentRtp \in DOMAIN sentRtp
      /\ \A s \in DOMAIN sentRtp : sentRtp[s] \in SentRtpRecord
                                   /\ sentRtp[s].totSent <= sentRtp[lastSentRtp].totSent
    BY DEF FlowInv, SenderInv, RecordsInv
<1>3. before = sentRtp
    BY <1>2 DEF WithRecord
<1>4. \A r \in SentRtpRecord : r.sent \in Nat /\ r.totSent \in Nat
    BY DEF SentRtpRecord
<1>5. clock \in Nat
    BY TimesNow
<1>6. total \in Nat /\ \A s \in DOMAIN sentRtp : sentRtp[s].totSent <= total
    <2> HIDE DEF before
    <2>1. CASE firstSend
        BY <1>2, <2>1
    <2>2. CASE ~firstSend
        <3> DEFINE last == sentRtp[lastSentRtp].totSent
        <3>1. last \in Nat /\ total = size + last
            BY <1>2, <1>3, <1>4, <2>2
        <3>2. \A s \in DOMAIN sentRtp : sentRtp[s].totSent \in Nat /\ sentRtp[s].totSent <= last
            BY <1>2, <1>4
        <3> HIDE DEF last
        <3> QED
            BY <3>1, <3>2
    <2> QED
        BY <2>1, <2>2
<1> HIDE DEF before, total
<1>7. new \in SentRtpRecord /\ new.sent = clock /\ new.totSent = total
    BY <1>5, <1>6 DEF SentRtpRecord
<1> HIDE DEF new
<1>8. /\ DOMAIN pre = DOMAIN sentRtp \cup {sequence} /\ pre[sequence] = new
      /\ \A s \in DOMAIN sentRtp : s # sequence => pre[s] = sentRtp[s]
    BY <1>3 DEF PutAt
<1> HIDE DEF pre
<1> DEFINE kept == sentRtp'
<1>9. /\ DOMAIN kept \subseteq DOMAIN pre
      /\ \A s \in DOMAIN kept : kept[s] = pre[s]
      /\ \A s \in DOMAIN pre : pre[s].sent \in Nat /\ clock <= pre[s].sent + KeepTime * UsPerMs
                                => s \in DOMAIN kept
    <2>1. kept = Kept(pre, clock) /\ clock \in Int
        BY <1>1, <1>5
    <2> HIDE DEF kept
    <2> QED
        BY <2>1, Keeping
<1>10. sequence \in DOMAIN kept
    <2> DEFINE K == KeepTime * UsPerMs
    <2>1. K \in Nat
        BY FlowConstants
    <2> HIDE DEF K, kept
    <2>2. pre[sequence].sent \in Nat /\ clock <= pre[sequence].sent + K
        BY <1>5, <1>7, <1>8, <2>1
    <2> QED
        BY <1>8, <1>9, <2>2 DEF K
<1>11. \A s \in Alive : s # sequence /\ s \in DOMAIN sentRtp /\ sentRtp[s].sent \in Nat
    <2> TAKE s \in Alive
    <2>1. Diff(sequence, s) \in 1 .. MaxPackets /\ s \in DOMAIN sentRtp /\ sentRtp[s].sent \in Nat
        BY AliveNow
    <2>2. Diff(sequence, sequence) = 0
        BY AgeNext DEF FlowInv, NumbersInv
    <2> QED
        BY <2>1, <2>2
<1>12. \A s \in Alive : s \in DOMAIN kept /\ kept[s] = sentRtp[s]
    <2> HIDE DEF kept
    <2> TAKE s \in Alive
    <2>1. s \in DOMAIN pre /\ pre[s] = sentRtp[s]
        BY <1>8, <1>11
    <2>2. clock <= sentRtp[s].sent + KeepTime * UsPerMs
        BY KeepAlive
    <2>3. s \in DOMAIN kept
        BY <1>9, <1>11, <2>1, <2>2
    <2> QED
        BY <1>9, <2>1, <2>3
<1> HIDE DEF kept
<1>13. \A s \in DOMAIN kept : s # sequence => kept[s] = sentRtp[s] /\ kept[s].totSent <= kept[sequence].totSent
    BY <1>6, <1>7, <1>8, <1>9, <1>10
<1>14. DOMAIN kept \subseteq DOMAIN sentRtp \cup {sequence} /\ kept[sequence] = new
    BY <1>8, <1>9, <1>10
<1> QED
    BY <1>1, <1>7, <1>10, <1>11, <1>12, <1>13, <1>14 DEF kept

\* SendOverSleep sends a packet and records it.
LEMMA SendStep ==
    ASSUME NEW size \in Sizes, FlowInv, SendOverSleep(size)
    PROVE  FlowInv'
<1>1. /\ Cardinality(sent) < MaxPackets /\ RateBound
      /\ ProcessSendPacket2(clock, sequence, size)
      /\ dataNet' = Append(dataNet, [seq |-> sequence, at |-> clock])
      /\ sent' = sent \cup {sequence} /\ sequence' = Inc(sequence)
      /\ UNCHANGED <<clock, reportNet, mishaps, learned>>
      /\ UNCHANGED rxVars
    BY DEF SendOverSleep
<1>2. /\ firstSend' = FALSE /\ inflightPktCount' = inflightPktCount + 1
      /\ UNCHANGED <<brFractionWindow, totSentBytes, totRcvdBytes, fault>>
      /\ UNCHANGED <<vq, minQDelay, lastQDelay, ivqSt, estimated, stuck>>
    BY <1>1 DEF ProcessSendPacket2, queueVars
<1>3. UNCHANGED <<waiting, remoteSsrc, refPoint, fbHeader, fbEvent, headerFault>>
    BY <1>1 DEF rxVars
<1>4. size \in Nat
    BY FlowAssumption
<1>5. /\ DOMAIN sentRtp' \subseteq DOMAIN sentRtp \cup {sequence}
      /\ sequence \in DOMAIN sentRtp' /\ lastSentRtp' = sequence
      /\ sentRtp'[sequence] \in SentRtpRecord /\ sentRtp'[sequence].sent = clock
      /\ \A s \in DOMAIN sentRtp' : s # sequence =>
            /\ sentRtp'[s] = sentRtp[s]
            /\ sentRtp'[s].totSent <= sentRtp'[sequence].totSent
      /\ \A s \in Alive : s # sequence /\ s \in DOMAIN sentRtp' /\ sentRtp'[s] = sentRtp[s]
    BY <1>1, <1>4, SentRecords
<1>6. sequence \in Sequences16 /\ clock \in Nat /\ inflightPktCount \in Nat
    BY TimesNow DEF FlowInv, NumbersInv
<1>7. Parcels' = Parcels
    BY <1>1, <1>3 DEF Parcels, Filling
<1> DEFINE m == Len(dataNet)
           n == Len(reportNet) + 1
           c == Cardinality(sent)
<1>8. /\ m \in Nat /\ DOMAIN dataNet = 1 .. m
      /\ Appended(dataNet', dataNet, m, sequence, clock)
      /\ dataNet' \in Seq(DataPackets) /\ DOMAIN dataNet' = 1 .. m + 1
      /\ \A i \in DOMAIN dataNet' : \/ i \in DOMAIN dataNet /\ dataNet'[i] = dataNet[i]
                                    \/ dataNet'[i] = [seq |-> sequence, at |-> clock]
    <2> DEFINE new == [seq |-> sequence, at |-> clock]
    <2>1. dataNet \in Seq(DataPackets)
        BY DEF FlowInv, NetInv
    <2>2. new \in DataPackets /\ new.seq = sequence /\ new.at = clock
        BY <1>6 DEF DataPackets
    <2>3. dataNet' = Append(dataNet, new)
        BY <1>1
    <2> HIDE DEF new
    <2>4. /\ m \in Nat /\ DOMAIN dataNet = 1 .. m /\ DOMAIN dataNet' = 1 .. m + 1
          /\ dataNet'[m + 1] = new /\ dataNet' \in Seq(DataPackets)
          /\ \A k \in 1 .. m : dataNet'[k] = dataNet[k]
        BY <2>1, <2>2, <2>3
    <2>5. Appended(dataNet', dataNet, m, sequence, clock)
        BY <2>2, <2>4 DEF Appended
    <2> HIDE DEF m
    <2>6. \A i \in 1 .. m + 1 : i \in 1 .. m \/ i = m + 1
        BY <2>4
    <2> QED
        BY <2>4, <2>5, <2>6 DEF new
<1>9. n \in Nat \ {0} /\ DOMAIN Parcels = 1 .. n /\ Parcels[n].block = Filling
    BY ParcelsNow
<1>10. c \in 0 .. SeqMod - 2 /\ MaxPackets \in 1 .. SeqMod - 1 /\ c + 1 \in 0 .. MaxPackets
    <2>1. c \in 0 .. MaxPackets /\ MaxPackets \in 1 .. SeqMod - 1 /\ c < MaxPackets
        BY <1>1, FlowAssumption DEF FlowInv, NumbersInv
    <2> HIDE DEF c
    <2> QED
        BY <2>1, SeqModAssumption
<1>11. \A s \in Alive : Diff(sequence, s) \in 1 .. SeqMod - 2 /\ sentRtp[s].sent <= clock
    <2> TAKE s \in Alive
    <2>1. Diff(sequence, s) \in 1 .. MaxPackets /\ Diff(sequence, s) <= c /\ sentRtp[s].sent <= clock
        BY AliveNow
    <2> HIDE DEF c
    <2> QED
        BY <1>10, <2>1, SeqModAssumption
<1>12. /\ \A k \in DOMAIN dataNet : Diff(sequence, dataNet[k].seq) <= WrapFront
       /\ \A s \in DOMAIN Filling : Diff(sequence, s) <= WrapFront
    BY <1>1 DEF RateBound, TravellingNumbers, PendingNumbers, Filling
<1>13. /\ UnderWay(Inc(sequence), dataNet', Parcels, sentRtp', clock, refPoint)
       /\ Live(dataNet', Parcels) \subseteq Live(dataNet, Parcels) \cup {sequence}
    <2> DEFINE ms == dataNet'
               rc == sentRtp'
    <2>1. UnderWay(sequence, dataNet, Parcels, sentRtp, clock, refPoint)
          /\ Live(dataNet, Parcels) \subseteq Sequences16
        BY AliveNow DEF FlowInv, OrderInv, Alive
    <2>2. \A s \in Live(dataNet, Parcels) :
            Diff(sequence, s) \in 1 .. SeqMod - 2 /\ sentRtp[s].sent <= clock
        BY <1>11 DEF Alive
    <2>3. \A s \in Live(dataNet, Parcels) : rc[s] = sentRtp[s]
        BY <1>5 DEF Alive
    <2>4. rc[sequence].sent = clock /\ Appended(ms, dataNet, m, sequence, clock)
        BY <1>5, <1>8
    <2>5. clock \in Int /\ \A s \in DOMAIN Parcels[n].block : Diff(sequence, s) <= WrapFront
        BY <1>6, <1>9, <1>12
    <2> HIDE DEF ms, rc, m, n
    <2>6. /\ UnderWay(Inc(sequence), ms, Parcels, rc, clock, refPoint)
          /\ Live(ms, Parcels) \subseteq Live(dataNet, Parcels) \cup {sequence}
        BY <1>6, <1>8, <1>9, <1>12, <2>1, <2>2, <2>3, <2>4, <2>5, Sending
    <2> QED
        BY <2>6 DEF ms, rc
<1>14. OrderInv'
    BY <1>1, <1>3, <1>7, <1>13 DEF OrderInv
<1>15. Alive' \subseteq Alive \cup {sequence}
    BY <1>7, <1>13 DEF Alive
<1>16. /\ sequence \notin sent /\ Cardinality(sent') = c + 1
       /\ sent' = {s \in Sequences16 : Diff(Inc(sequence), s) \in 1 .. c + 1}
    <2> DEFINE numbers == sent'
    <2>1. sent = Before(sequence, c)
        BY DEF FlowInv, NumbersInv, Before
    <2>2. c = Cardinality(sent) /\ numbers = sent \cup {sequence}
        BY <1>1
    <2> HIDE DEF c, numbers
    <2>3. Cardinality(Before(sequence, c)) = c
        BY <2>1, <2>2
    <2>4. /\ sequence \notin Before(sequence, c)
          /\ Cardinality(Before(sequence, c) \cup {sequence}) = c + 1
          /\ Before(sequence, c) \cup {sequence} = Before(Inc(sequence), c + 1)
        BY <1>6, <1>10, <2>3, NumberSent
    <2>5. numbers = Before(Inc(sequence), c + 1) /\ Cardinality(numbers) = c + 1 /\ sequence \notin sent
        BY <2>1, <2>2, <2>4
    <2> QED
        BY <2>5 DEF numbers, Before
<1>17. NumbersInv'
    <2>1. sequence' \in Sequences16 /\ Diff(sequence', sequence) = 1
          /\ \A s \in Sequences16 : Diff(sequence, s) # SeqMod - 1
                                        => Diff(sequence', s) = Diff(sequence, s) + 1
        BY <1>1, <1>6, AgeNext
    <2>2. learned \subseteq sent /\ Alive \subseteq sent \ learned
          /\ \A s \in Alive : Diff(sequence, s) <= inflightPktCount
        BY DEF FlowInv, NumbersInv
    <2>3. learned' \subseteq sent' /\ Alive' \subseteq sent' \ learned'
        BY <1>1, <1>15, <1>16, <2>2
    <2>4. ASSUME NEW s \in Alive' PROVE Diff(sequence', s) <= inflightPktCount'
        <3>1. CASE s \in Alive
            <4> DEFINE d == Diff(sequence, s)
            <4>1. d \in 1 .. SeqMod - 2 /\ d <= inflightPktCount /\ s \in Sequences16
                BY <1>11, <2>2, <3>1, AliveNow
            <4>2. d # SeqMod - 1 => Diff(sequence', s) = d + 1
                BY <2>1, <4>1
            <4> HIDE DEF d
            <4> QED
                BY <1>2, <1>6, <4>1, <4>2, SeqModAssumption
        <3>2. CASE s = sequence
            BY <1>2, <1>6, <2>1, <3>2
        <3> QED
            BY <1>15, <3>1, <3>2
    <2>5. inflightPktCount' \in Nat
        BY <1>2, <1>6
    <2>6. Cardinality(sent') \in 0 .. MaxPackets
          /\ sent' = {s \in Sequences16 : Diff(sequence', s) \in 1 .. Cardinality(sent')}
        BY <1>1, <1>10, <1>16
    <2> QED
        BY <2>1, <2>3, <2>4, <2>5, <2>6 DEF NumbersInv
<1>18. RecordsInv'
    <2>1. /\ DOMAIN sentRtp \subseteq Sequences16
          /\ \A s \in DOMAIN sentRtp : /\ sentRtp[s] \in SentRtpRecord
                                       /\ StartTime <= sentRtp[s].sent /\ sentRtp[s].sent <= clock
        BY DEF FlowInv, SenderInv, RecordsInv
    <2>2. StartTime <= clock
        BY FlowConstants DEF FlowInv, NetInv
    <2> DEFINE rc == sentRtp'
    <2>3. \A r \in SentRtpRecord : r.totSent \in Nat
        BY DEF SentRtpRecord
    <2>4. ASSUME NEW s \in DOMAIN rc
          PROVE  /\ rc[s] \in SentRtpRecord
                 /\ StartTime <= rc[s].sent /\ rc[s].sent <= clock
                 /\ rc[s].totSent <= rc[sequence].totSent
        <3>1. CASE s = sequence
            <4>1. rc[s] \in SentRtpRecord /\ rc[s].sent = clock
                BY <1>5, <3>1
            <4>2. rc[s].totSent \in Nat
                BY <2>3, <4>1
            <4> HIDE DEF rc
            <4> QED
                BY <1>6, <2>2, <3>1, <4>1, <4>2
        <3>2. CASE s # sequence
            BY <1>5, <2>1, <3>2
        <3> QED
            BY <3>1, <3>2
    <2>5. Alive' \subseteq DOMAIN rc
        BY <1>5, <1>15
    <2>6. DOMAIN rc \subseteq Sequences16
        BY <1>5, <1>6, <2>1
    <2> QED
        BY <1>1, <1>2, <1>5, <1>6, <2>4, <2>5, <2>6 DEF RecordsInv
<1>19. PastInv'
    <2> SUFFICES ASSUME NEW j \in DOMAIN vq
                 PROVE  /\ vq[j].sent <= clock /\ vq[j].rcvd <= ElapsedMs(clock, refPoint)
                        /\ \A s \in Alive' : vq[j].sent <= sentRtp'[s].sent
                        /\ After(vq[j].rcvd, Parcels)
        BY <1>1, <1>2, <1>3, <1>7 DEF PastInv
    <2>1. /\ vq[j].sent <= clock /\ vq[j].rcvd <= ElapsedMs(clock, refPoint)
          /\ \A s \in Alive : vq[j].sent <= sentRtp[s].sent
          /\ After(vq[j].rcvd, Parcels)
        BY DEF FlowInv, SenderInv, PastInv
    <2>2. \A s \in Alive' : vq[j].sent <= sentRtp'[s].sent
        BY <1>5, <1>15, <2>1
    <2> QED
        BY <2>1, <2>2
<1>20. PeriodsInv'
    <2>1. ASSUME NoTimeWrap, NEW i \in DOMAIN brFractionWindow, NEW s \in Alive'
          PROVE  brFractionWindow[i].begin <= Ms(sentRtp'[s].sent)
        BY <1>5, <1>15, <2>1 DEF FlowInv, SenderInv, PeriodsInv
    <2> QED
        BY <1>1, <1>2, <2>1 DEF FlowInv, SenderInv, PeriodsInv
<1>21. QueueInv'
    BY <1>2 DEF FlowInv, SenderInv, QueueInv, QueueTypeOK, Backlog
<1>22. SenderInv'
    BY <1>18, <1>19, <1>20, <1>21 DEF SenderInv
<1>23. NetInv'
    <2>1. Recently(dataNet, clock)
        BY DEF FlowInv, NetInv
    <2>2. clock <= clock + MaxLatency
        BY <1>6, FlowConstants
    <2>3. Recently(dataNet', clock)
        BY <1>6, <1>8, <2>1, <2>2 DEF Recently
    <2> QED
        BY <1>1, <1>8, <2>3 DEF FlowInv, NetInv
<1>24. TimerInv' /\ HeaderInv' /\ FaultInv'
    BY <1>1, <1>2, <1>3 DEF FlowInv, TimerInv, HeaderInv, FaultInv
<1> QED
    BY <1>14, <1>17, <1>22, <1>23, <1>24 DEF FlowInv

-----------------------------------------------------------------------------
(* A report reaches the sender *)

\* The first report in the network, as the sender reads it.
LEMMA FirstReport ==
    ASSUME FlowInv, reportNet # <<>>, NEW f, f = Read(Head(reportNet)),
           NEW b, b = BlockIn(f, Ssrc)
    PROVE  /\ Deserializable(Head(reportNet).packet)
           /\ f.monitored = FbPeriod /\ f.reportTime \in Nat /\ OneStream(f)
           /\ DOMAIN b = ReportedNumbers(Head(reportNet).packet)
           /\ 1 \in DOMAIN Parcels /\ b = Parcels[1].block /\ f.reportTime = Parcels[1].end
           /\ DOMAIN b \subseteq Alive
           /\ Ssrc \in DOMAIN f.blocks => Readable(f, sequence, sentRtp)
<1> DEFINE r == Head(reportNet)
           L == Len(reportNet)
<1>1. L \in Nat \ {0} /\ r = reportNet[1] /\ DOMAIN reportNet = 1 .. L
    BY DEF FlowInv, NetInv
<1>2. 1 \in 1 .. L /\ 1 \in 1 .. L + 1
    <2> HIDE DEF L
    <2> QED
        BY <1>1
<1> HIDE DEF r
<1>3. WellFormed(r)
    BY <1>1, <1>2 DEF FlowInv, HeaderInv
<1>4. 1 \in DOMAIN Parcels /\ b = Parcels[1].block /\ Parcels[1].end = r.packet.reportTime
    BY <1>1, <1>2, ParcelsNow DEF r
<1>5. /\ Deserializable(r.packet) /\ f.monitored = FbPeriod /\ f.reportTime \in Nat
      /\ f.reportTime = r.packet.reportTime /\ OneStream(f)
      /\ DOMAIN b = ReportedNumbers(r.packet)
    BY <1>3 DEF WellFormed, r
<1>6. DOMAIN b \subseteq Alive
    BY <1>4, AliveNow
<1>7. ASSUME Ssrc \in DOMAIN f.blocks PROVE Readable(f, sequence, sentRtp)
    <2>1. DOMAIN f.blocks = {Ssrc} /\ BlockType(b) /\ DOMAIN b # {}
        BY <1>5, <1>7 DEF OneStream, BlockIn
    <2>2. Near(DOMAIN b, sequence)
        BY <1>4 DEF FlowInv, OrderInv, UnderWay, Together
    <2>3. DOMAIN b \subseteq DOMAIN sentRtp /\ \A s \in DOMAIN b : sentRtp[s] \in SentRtpRecord
        BY <1>6, AliveNow
    <2>4. \A s, t \in DOMAIN b : Diff(sequence, t) <= Diff(sequence, s) =>
            sentRtp[s].sent <= sentRtp[t].sent
        BY <1>6 DEF FlowInv, OrderInv, UnderWay, SentInOrder, Alive
    <2>5. \A s, t \in DOMAIN b : Diff(sequence, t) <= Diff(sequence, s) => b[s].ts <= b[t].ts
        BY <1>4 DEF FlowInv, OrderInv, UnderWay, RcvdInOrder
    <2> QED
        BY <2>1, <2>2, <2>3, <2>4, <2>5 DEF Readable
<1> QED
    BY <1>4, <1>5, <1>6, <1>7 DEF r

\* What stays under way is newer than what the report is about.
LEMMA StillAlive ==
    ASSUME FlowInv, reportNet # <<>>, reportNet' = Tail(reportNet),
           UNCHANGED <<dataNet, refPoint, fbHeader, fbEvent>>,
           NEW b, b = BlockIn(Read(Head(reportNet)), Ssrc)
    PROVE  /\ Alive' \subseteq Alive
           /\ \A t \in Alive', s \in DOMAIN b :
                Diff(sequence, t) < Diff(sequence, s) /\ t # s
           /\ \A s \in DOMAIN b : After(b[s].ts, Parcels')
<1>1. /\ DOMAIN Parcels' \in SUBSET Nat
      /\ \A i \in DOMAIN Parcels' :
            i + 1 \in DOMAIN Parcels /\ i + 1 > 1 /\ Parcels'[i].block = Parcels[i + 1].block
    BY ReportGone
<1>2. 1 \in DOMAIN Parcels /\ b = Parcels[1].block /\ DOMAIN b \subseteq Alive
    BY FirstReport
<1>3. InLine(sequence, dataNet, Parcels) /\ RcvdInOrder(sequence, Parcels)
    BY DEF FlowInv, OrderInv, UnderWay
<1>4. \A t \in Alive' : \/ \E k \in DOMAIN dataNet : t = dataNet[k].seq
                        \/ \E i \in DOMAIN Parcels' : t \in DOMAIN Parcels'[i].block
    BY DEF Alive, Live, Seqs, Landed
<1>5. Alive' \subseteq Alive
    BY <1>1, <1>4, AliveNow
<1>6. \A s \in Alive : Diff(sequence, s) \in Int
    BY AliveNow, Distance DEF FlowInv, NumbersInv
<1> HIDE DEF Alive
<1>7. ASSUME NEW t \in Alive', NEW s \in DOMAIN b
      PROVE  Diff(sequence, t) < Diff(sequence, s)
    <2>1. CASE \E k \in DOMAIN dataNet : t = dataNet[k].seq
        BY <1>2, <1>3, <2>1 DEF InLine
    <2>2. CASE \E i \in DOMAIN Parcels' : t \in DOMAIN Parcels'[i].block
        <3>1. PICK i \in DOMAIN Parcels' : t \in DOMAIN Parcels'[i].block
            BY <2>2
        <3>2. i + 1 \in DOMAIN Parcels /\ 1 < i + 1 /\ t \in DOMAIN Parcels[i + 1].block
            <4>1. i + 1 > 1 /\ i \in Nat
                BY <1>1
            <4> QED
                BY <1>1, <3>1, <4>1
        <3> QED
            BY <1>2, <1>3, <3>2 DEF InLine
    <2> QED
        BY <1>4, <2>1, <2>2
<1>8. ASSUME NEW t \in Alive', NEW s \in DOMAIN b PROVE t # s
    BY <1>2, <1>6, <1>7, <1>8
<1>9. ASSUME NEW s \in DOMAIN b PROVE After(b[s].ts, Parcels')
    <2> SUFFICES ASSUME NEW i \in DOMAIN Parcels', NEW t \in DOMAIN Parcels'[i].block
                 PROVE  b[s].ts <= Parcels'[i].block[t].ts
        BY DEF After
    <2>1. t \in Alive'
        BY DEF Alive, Live, Landed
    <2>2. Diff(sequence, t) <= Diff(sequence, s)
        <3>1. Diff(sequence, t) < Diff(sequence, s)
            BY <1>7, <2>1
        <3>2. Diff(sequence, t) \in Int /\ Diff(sequence, s) \in Int
            BY <1>2, <1>5, <1>6, <2>1
        <3> QED
            BY <3>1, <3>2
    <2>3. i + 1 \in DOMAIN Parcels /\ Parcels'[i].block = Parcels[i + 1].block
        BY <1>1
    <2>4. b[s].ts <= Parcels[i + 1].block[t].ts
        BY <1>2, <1>3, <2>2, <2>3 DEF RcvdInOrder
    <2> QED
        BY <2>3, <2>4
<1> QED
    BY <1>5, <1>7, <1>8, <1>9

\* getNetRemains finds no fault, inserts no record, and leaves enough packets
\* in flight for those that are still under way.
LEMMA Counting ==
    ASSUME FlowInv, reportNet # <<>>, NEW f, f = Read(Head(reportNet)),
           NEW b, b = BlockIn(f, Ssrc), TakeFeedback(f)
    PROVE  /\ sentRtp' = sentRtp /\ fault' = "none" /\ UNCHANGED <<firstSend, lastSentRtp>>
           /\ inflightPktCount' \in Nat
           /\ Readable(f, sequence, sentRtp)
           /\ \A d \in Int : (\A s \in DOMAIN b : d < Diff(sequence, s)) => d <= inflightPktCount'
<1>1. /\ Ssrc \in DOMAIN f.blocks /\ fault' = NetRemainsFault(f) /\ sentRtp' = Asked(f)
      /\ inflightPktCount' = IF fault' # "none" THEN inflightPktCount
                             ELSE inflightPktCount - GetTotalReportCount(f)
      /\ UNCHANGED <<firstSend, lastSentRtp>>
    BY DEF TakeFeedback
<1>2. Readable(f, sequence, sentRtp) /\ DOMAIN b \subseteq Alive
    BY <1>1, FirstReport
<1>3. /\ DOMAIN f.blocks = {Ssrc} /\ DOMAIN b \in SUBSET Sequences16 /\ DOMAIN b # {}
      /\ Near(DOMAIN b, sequence) /\ sequence \in Sequences16
    BY <1>2 DEF Readable, BlockType, FlowInv, NumbersInv
<1>4. PICK o \in DOMAIN b, n \in DOMAIN b : Window(DOMAIN b, sequence, o, n)
    BY <1>3, SomeWindow
<1> DEFINE A == Diff(sequence, o)
           N == Diff(sequence, n)
           c == GetTotalReportCount(f)
<1>5. EndSequence(f) = n /\ c = A - N + 1
    BY <1>3, <1>4, Reading
<1>6. /\ n \in DOMAIN sentRtp /\ A \in Int /\ N \in Int /\ N >= 1
      /\ inflightPktCount \in Nat /\ A <= inflightPktCount
    <2>1. n \in Alive /\ o \in Alive
        BY <1>2
    <2>2. N \in 1 .. MaxPackets /\ A \in 1 .. MaxPackets /\ n \in DOMAIN sentRtp
        BY <2>1, AliveNow
    <2>3. inflightPktCount \in Nat /\ A <= inflightPktCount
        BY <2>1 DEF FlowInv, NumbersInv
    <2> HIDE DEF A, N
    <2> QED
        BY <2>2, <2>3, FlowAssumption, SeqModAssumption
<1>7. lastSentRtp \in DOMAIN sentRtp /\ sentRtp[n].totSent <= sentRtp[lastSentRtp].totSent
      /\ sentRtp[n].totSent \in Nat /\ sentRtp[lastSentRtp].totSent \in Nat
    <2>1. \A s \in DOMAIN sentRtp : /\ sentRtp[s] \in SentRtpRecord
                                    /\ sentRtp[s].totSent <= sentRtp[lastSentRtp].totSent
        BY DEF FlowInv, SenderInv, RecordsInv
    <2>2. lastSentRtp \in DOMAIN sentRtp
        BY <1>6 DEF FlowInv, SenderInv, RecordsInv
    <2>3. \A r \in SentRtpRecord : r.totSent \in Nat
        BY DEF SentRtpRecord
    <2> QED
        BY <1>6, <2>1, <2>2, <2>3
<1>8. Asked(f) = sentRtp
    BY <1>5, <1>6, <1>7 DEF Asked, WithRecord
<1> HIDE DEF A, N, c
<1>9. ~(inflightPktCount < c) /\ c \in Int
    BY <1>5, <1>6
<1>10. ~(sentRtp[lastSentRtp].totSent < sentRtp[n].totSent)
    BY <1>7
<1>11. NetRemainsFault(f) = "none"
    BY <1>5, <1>8, <1>9, <1>10 DEF NetRemainsFault, c
<1>12. inflightPktCount' = inflightPktCount - c
    BY <1>1, <1>11 DEF c
<1>13. inflightPktCount' \in Nat /\ N - 1 <= inflightPktCount'
    BY <1>5, <1>6, <1>12
<1>14. ASSUME NEW d \in Int, \A s \in DOMAIN b : d < Diff(sequence, s)
       PROVE  d <= inflightPktCount'
    <2>1. d < N
        BY <1>4, <1>14 DEF N
    <2> QED
        BY <1>6, <1>13, <2>1
<1> QED
    BY <1>1, <1>2, <1>8, <1>11, <1>13, <1>14

\* What every report does but for the virtual queue and the periods.
LEMMA ReportReceived ==
    ASSUME FlowInv, reportNet # <<>>, NEW b, b = BlockIn(Read(Head(reportNet)), Ssrc),
           reportNet' = Tail(reportNet),
           UNCHANGED <<clock, sequence, dataNet, mishaps, sent>>,
           UNCHANGED <<waiting, remoteSsrc, refPoint, fbHeader, fbEvent>>,
           headerFault' = ~Deserializable(Head(reportNet).packet),
           sentRtp' = sentRtp, fault' = "none", UNCHANGED <<firstSend, lastSentRtp>>,
           inflightPktCount' \in Nat, \A t \in Alive' : Diff(sequence, t) <= inflightPktCount',
           learned \subseteq learned', learned' \subseteq learned \cup DOMAIN b
    PROVE  NetInv' /\ TimerInv' /\ NumbersInv' /\ HeaderInv' /\ OrderInv' /\ RecordsInv' /\ FaultInv'
<1>1. /\ Thinned(Parcels', Parcels, 1) /\ DOMAIN Parcels' \in SUBSET Nat
      /\ \E S : reportNet' \in Seq(S)
      /\ Recently(reportNet', clock)
      /\ \A i \in DOMAIN reportNet' : WellFormed(reportNet'[i])
    BY ReportGone
<1>2. /\ Alive' \subseteq Alive
      /\ \A t \in Alive', s \in DOMAIN b : t # s
    BY StillAlive
<1>3. DOMAIN b \subseteq Alive /\ Deserializable(Head(reportNet).packet)
    BY FirstReport
<1>4. Shorter(dataNet', dataNet, 0) /\ DOMAIN dataNet' \in SUBSET Nat
    BY SameNet DEF FlowInv, NetInv
<1>5. OrderInv'
    <2>1. UnderWay(sequence, dataNet, Parcels, sentRtp, clock, refPoint)
        BY DEF FlowInv, OrderInv
    <2>2. UnderWay(sequence, dataNet', Parcels', sentRtp, clock, refPoint)
        BY <1>1, <1>4, <2>1, Thinning
    <2> QED
        BY <2>2 DEF OrderInv
<1>6. NetInv'
    BY <1>1 DEF FlowInv, NetInv
<1>7. TimerInv'
    <2>1. refPoint # 0
        BY DEF FlowInv, TimerInv
    <2> QED
        BY <2>1 DEF FlowInv, TimerInv
<1>8. NumbersInv'
    <2>1. /\ learned \subseteq sent /\ Alive \subseteq sent \ learned
          /\ sequence \in Sequences16 /\ Cardinality(sent) \in 0 .. MaxPackets
          /\ sent = {s \in Sequences16 : Diff(sequence, s) \in 1 .. Cardinality(sent)}
        BY DEF FlowInv, NumbersInv
    <2>2. learned' \subseteq sent'
        BY <1>3, <2>1
    <2>3. Alive' \subseteq sent' \ learned'
        BY <1>2, <2>1
    <2> QED
        BY <2>1, <2>2, <2>3 DEF NumbersInv
<1>9. HeaderInv'
    BY <1>1 DEF FlowInv, HeaderInv
<1>10. RecordsInv'
    BY <1>2 DEF FlowInv, SenderInv, RecordsInv
<1>11. FaultInv'
    BY <1>3 DEF FaultInv
<1> QED
    BY <1>5, <1>6, <1>7, <1>8, <1>9, <1>10, <1>11

\* A report that the virtual queue is not given.
LEMMA QueueKept ==
    ASSUME FlowInv, reportNet # <<>>, reportNet' = Tail(reportNet),
           UNCHANGED <<clock, dataNet, refPoint, fbHeader, fbEvent>>,
           sentRtp' = sentRtp, UNCHANGED <<brFractionWindow, totSentBytes, totRcvdBytes>>,
           UNCHANGED queueVars
    PROVE  PastInv' /\ PeriodsInv' /\ QueueInv'
<1>1. Thinned(Parcels', Parcels, 1)
    BY ReportGone
<1>2. Alive' \subseteq Alive
    BY StillAlive
<1>3. UNCHANGED <<vq, minQDelay, lastQDelay, ivqSt, estimated, stuck>>
    BY DEF queueVars
<1>4. PastInv'
    <2> SUFFICES ASSUME NEW j \in DOMAIN vq
                 PROVE  /\ vq[j].sent <= clock /\ vq[j].rcvd <= ElapsedMs(clock, refPoint)
                        /\ \A s \in Alive' : vq[j].sent <= sentRtp[s].sent
                        /\ After(vq[j].rcvd, Parcels')
        BY <1>3 DEF PastInv
    <2>1. /\ vq[j].sent <= clock /\ vq[j].rcvd <= ElapsedMs(clock, refPoint)
          /\ \A s \in Alive : vq[j].sent <= sentRtp[s].sent
          /\ After(vq[j].rcvd, Parcels)
        BY DEF FlowInv, SenderInv, PastInv
    <2>2. After(vq[j].rcvd, Parcels')
        BY <1>1, <2>1, AfterThinned
    <2> QED
        BY <1>2, <2>1, <2>2
<1>5. PeriodsInv'
    BY <1>2 DEF FlowInv, SenderInv, PeriodsInv
<1>6. QueueInv'
    BY <1>3 DEF FlowInv, SenderInv, QueueInv, QueueTypeOK, Backlog
<1> QED
    BY <1>4, <1>5, <1>6

\* A report that the virtual queue is given is one it can be given: its packets
\* are in order and follow those it holds.
LEMMA QueueFed ==
    ASSUME FlowInv, reportNet # <<>>, reportNet' = Tail(reportNet),
           UNCHANGED <<clock, dataNet, refPoint, fbHeader, fbEvent>>, sentRtp' = sentRtp,
           NEW f, f = Read(Head(reportNet)), Readable(f, sequence, sentRtp),
           NEW period, vq' = ParseFeedback(f, sentRtp, period).vq
    PROVE  /\ PastInv'
           /\ vq' \in Seq(QDelayData) /\ vq' # <<>> /\ InOrder(vq') /\ Follows(vq', vq)
<1> DEFINE b == BlockIn(f, Ssrc)
           list == vq'
           rec == sentRtp
<1>1. Admissible(list) /\ About(list, b, rec)
    <2>1. sequence \in Sequences16 /\ list = ParseFeedback(f, rec, period).vq
        BY DEF FlowInv, NumbersInv
    <2> HIDE DEF list, rec
    <2>2. Readable(f, sequence, rec)
        BY DEF rec
    <2> QED
        BY <2>1, <2>2, Parsing DEF b
<1>2. /\ 1 \in DOMAIN Parcels /\ b = Parcels[1].block /\ DOMAIN b \subseteq Alive
    BY FirstReport
<1>3. /\ Alive' \subseteq Alive
      /\ \A t \in Alive', s \in DOMAIN b : Diff(sequence, t) < Diff(sequence, s)
      /\ \A s \in DOMAIN b : After(b[s].ts, Parcels')
    BY StillAlive
<1>4. \A s \in Alive : Diff(sequence, s) \in Int
    BY AliveNow, Distance DEF FlowInv, NumbersInv
<1>5. ASSUME NEW s \in DOMAIN b
      PROVE  /\ rec[s].sent <= clock /\ b[s].ts <= ElapsedMs(clock, refPoint)
             /\ \A t \in Alive' : rec[s].sent <= rec[t].sent
             /\ \A j \in DOMAIN vq : vq[j].sent <= rec[s].sent /\ vq[j].rcvd <= b[s].ts
    <2>1. s \in Alive /\ rec[s].sent <= clock
        BY <1>2, AliveNow
    <2>2. Dated(Parcels[1], s, rec, clock, refPoint)
        BY <1>2 DEF FlowInv, OrderInv, UnderWay, AllDated
    <2>3. b[s].ts <= ElapsedMs(clock, refPoint)
        BY <1>2, <2>2 DEF Dated
    <2>4. ASSUME NEW t \in Alive' PROVE rec[s].sent <= rec[t].sent
        <3>1. t \in Alive /\ Diff(sequence, t) < Diff(sequence, s)
            BY <1>3
        <3>2. Diff(sequence, t) <= Diff(sequence, s)
            BY <1>4, <2>1, <3>1
        <3> QED
            BY <2>1, <3>1, <3>2 DEF FlowInv, OrderInv, UnderWay, SentInOrder, Alive
    <2>5. ASSUME NEW j \in DOMAIN vq PROVE vq[j].sent <= rec[s].sent /\ vq[j].rcvd <= b[s].ts
        <3>1. (\A t \in Alive : vq[j].sent <= rec[t].sent) /\ After(vq[j].rcvd, Parcels)
            BY DEF FlowInv, SenderInv, PastInv
        <3> QED
            BY <1>2, <2>1, <3>1 DEF After
    <2> QED
        BY <2>1, <2>3, <2>4, <2>5
<1>6. list \in Seq(QDelayData) /\ list # <<>> /\ InOrder(list) /\ DOMAIN list = 1 .. Len(list)
    BY <1>1 DEF Admissible
<1>7. DOMAIN vq = 1 .. Len(vq)
    BY DEF FlowInv, SenderInv, QueueInv, QueueTypeOK
<1> HIDE DEF list, b
<1>8. \A i \in 1 .. Len(list) : \E s \in DOMAIN b : list[i].sent = rec[s].sent /\ list[i].rcvd = b[s].ts
    BY <1>1 DEF About
<1>9. Follows(list, vq)
    <2> SUFFICES ASSUME NEW i \in 1 .. Len(list), NEW j \in 1 .. Len(vq)
                 PROVE  list[i].sent >= vq[j].sent /\ list[i].rcvd >= vq[j].rcvd
        BY DEF Follows
    <2>1. PICK s \in DOMAIN b : list[i].sent = rec[s].sent /\ list[i].rcvd = b[s].ts
        BY <1>8
    <2>2. vq[j].sent <= rec[s].sent /\ vq[j].rcvd <= b[s].ts
        BY <1>5, <1>7
    <2> QED
        BY <2>1, <2>2
<1>10. PastInv'
    <2> SUFFICES ASSUME NEW j \in DOMAIN list
                 PROVE  /\ list[j].sent <= clock /\ list[j].rcvd <= ElapsedMs(clock, refPoint)
                        /\ \A s \in Alive' : list[j].sent <= rec[s].sent
                        /\ After(list[j].rcvd, Parcels')
        BY DEF PastInv, list, rec
    <2>1. PICK s \in DOMAIN b : list[j].sent = rec[s].sent /\ list[j].rcvd = b[s].ts
        BY <1>6, <1>8
    <2> QED
        BY <1>3, <1>5, <2>1
<1> QED
    BY <1>6, <1>9, <1>10 DEF list

\* The period of a report, with its bytes, goes to the end of the window.
LEMMA PeriodAdded ==
    ASSUME FlowInv, reportNet # <<>>, reportNet' = Tail(reportNet),
           UNCHANGED <<clock, dataNet, refPoint, fbHeader, fbEvent>>, sentRtp' = sentRtp,
           NEW f, f = Read(Head(reportNet)), Readable(f, sequence, sentRtp),
           NEW b, b = BlockIn(f, Ssrc), NEW latest \in DOMAIN b,
           NEW period, period = LastPeriodMs(f, latest),
           NEW parsed, parsed = ParseFeedback(f, sentRtp, period),
           UpdateBrFractionWindow(period, parsed)
    PROVE  PeriodsInv'
<1> DEFINE win == brFractionWindow
           new == [begin |-> period.begin, sentBytes |-> parsed.txedBytes,
                 rcvdBytes |-> parsed.rxedBytes]
           all == Append(win, new)
           L == Len(win)
           k == Outdated(all, period.end)
           gone == SubSeq(all, 1, k)
           left == SubSeq(all, k + 1, Len(all))
           t == sentRtp[latest].sent
<1>1. /\ brFractionWindow' = left
      /\ totSentBytes' = totSentBytes + parsed.txedBytes - PoppedBytes(gone).sentBytes
      /\ totRcvdBytes' = totRcvdBytes + parsed.rxedBytes - PoppedBytes(gone).rcvdBytes
    BY DEF UpdateBrFractionWindow
<1>2. /\ win \in Seq(BrFractionData)
      /\ totSentBytes = PoppedBytes(win).sentBytes /\ totSentBytes \in Nat
      /\ totRcvdBytes = PoppedBytes(win).rcvdBytes /\ totRcvdBytes \in Nat
      /\ NoTimeWrap =>
            /\ InSteps(win) /\ Recent(win)
            /\ \A i \in DOMAIN win : /\ win[i].begin <= Ms(clock)
                                   /\ \A s \in Alive : win[i].begin <= Ms(sentRtp[s].sent)
    BY DEF FlowInv, SenderInv, PeriodsInv
<1>3. /\ f.monitored = FbPeriod /\ f.reportTime \in Nat
      /\ 1 \in DOMAIN Parcels /\ b = Parcels[1].block /\ f.reportTime = Parcels[1].end
      /\ DOMAIN b \subseteq Alive
    BY FirstReport
<1>4. latest \in Alive /\ t \in Nat /\ StartTime <= t /\ t <= clock
    BY <1>3, AliveNow
<1>5. b[latest].ts \in Nat /\ b[latest].ts <= f.reportTime /\ f.reportTime <= b[latest].ts + FbPeriod
    <2>1. Dated(Parcels[1], latest, sentRtp, clock, refPoint)
        BY <1>3 DEF FlowInv, OrderInv, UnderWay, AllDated
    <2> QED
        BY <1>3, <2>1 DEF Dated, Stamp
<1>6. /\ period.begin \in Nat /\ period.end \in Nat
      /\ Ms(t) >= FbPeriod /\ Ms(t) + FbPeriod < TimeMod =>
            /\ period.begin <= Ms(t) /\ Ms(t) <= period.begin + FbPeriod
            /\ period.end = period.begin + FbPeriod
    BY <1>3, <1>4, <1>5, PeriodBegins
<1>7. parsed.txedBytes \in Nat /\ parsed.rxedBytes \in Nat
    <2>1. /\ DOMAIN sentRtp \in SUBSET Sequences16 /\ sequence \in Sequences16
          /\ \A s \in DOMAIN sentRtp : sentRtp[s] \in SentRtpRecord
        BY DEF FlowInv, SenderInv, RecordsInv, NumbersInv
    <2> QED
        BY <2>1, ParsedBytes
<1>8. /\ new \in BrFractionData /\ new.begin = period.begin
      /\ new.sentBytes = parsed.txedBytes /\ new.rcvdBytes = parsed.rxedBytes
    BY <1>6, <1>7 DEF BrFractionData
<1> HIDE DEF new
<1>9. /\ L \in Nat /\ all \in Seq(BrFractionData) /\ Len(all) = L + 1 /\ DOMAIN all = 1 .. L + 1
      /\ all[L + 1] = new
    BY <1>2, <1>8
<1> HIDE DEF win, L, all
<1>10. \A i \in 1 .. L + 1 : all[i].begin \in Nat
    <2>1. \A i \in 1 .. L + 1 : all[i] \in BrFractionData
        BY <1>9
    <2> QED
        BY <2>1 DEF BrFractionData
<1>11. k \in 0 .. L + 1 /\ (k < L + 1 => all[k + 1].begin + BrWindow >= period.end)
    <2> DEFINE M == L + 1
               e == period.end
    <2>1. M \in Nat /\ Len(all) = M /\ DOMAIN all = 1 .. M /\ e \in Int
          /\ \A i \in 1 .. M : all[i].begin \in Nat
        BY <1>6, <1>9, <1>10
    <2> HIDE DEF M, e
    <2>2. /\ Outdated(all, e) \in 0 .. M
          /\ Outdated(all, e) < M => all[Outdated(all, e) + 1].begin + BrWindow >= e
        BY <2>1, Leaving
    <2> QED
        BY <2>2 DEF M, e
<1> HIDE DEF k
<1>12. Cut(all, L + 1, k, gone, left) /\ left \in Seq(BrFractionData)
    <2>1. k \in 0 .. Len(all)
        BY <1>9, <1>11
    <2> QED
        BY <1>9, <2>1, Cutting
<1> HIDE DEF gone, left
<1>13. /\ PoppedBytes(left).sentBytes = PoppedBytes(win).sentBytes + new.sentBytes - PoppedBytes(gone).sentBytes
       /\ PoppedBytes(left).rcvdBytes = PoppedBytes(win).rcvdBytes + new.rcvdBytes - PoppedBytes(gone).rcvdBytes
       /\ PoppedBytes(left).sentBytes \in Nat /\ PoppedBytes(left).rcvdBytes \in Nat
    BY <1>2, <1>8, <1>11, <1>12, SlidSums DEF win, L, all
<1>14. \A i \in DOMAIN left : left[i] = new \/ \E j \in DOMAIN win : left[i] = win[j]
    <2>1. /\ win \in Seq(BrFractionData) /\ all = Append(win, new)
          /\ k \in 0 .. Len(win) + 1 /\ Cut(all, Len(win) + 1, k, gone, left)
        BY <1>2, <1>11, <1>12 DEF win, L, all
    <2>2. OnlyOf(left, win, new)
        BY <2>1, SlidMembers
    <2> QED
        BY <2>2 DEF OnlyOf
<1>15. /\ totSentBytes' = PoppedBytes(left).sentBytes /\ totSentBytes' \in Nat
       /\ totRcvdBytes' = PoppedBytes(left).rcvdBytes /\ totRcvdBytes' \in Nat
    BY <1>1, <1>2, <1>8, <1>13
<1>16. ASSUME NoTimeWrap
       PROVE  /\ InSteps(left) /\ Recent(left)
              /\ \A i \in DOMAIN left : /\ left[i].begin <= Ms(clock)
                                     /\ \A s \in Alive' : left[i].begin <= Ms(sentRtp[s].sent)
    <2> DEFINE m == Ms(t)
               n == Ms(clock)
               x == Ms(StartTime)
               y == Ms(MaxTime)
    <2>1. clock \in StartTime .. MaxTime /\ StartTime \in Nat /\ MaxTime \in Nat /\ FbPeriod \in Nat
          /\ TimeMod \in Nat
        BY FlowConstants, LedgerAssumption DEF FlowInv, NetInv
    <2>2. m \in Nat /\ n \in Nat /\ x \in Nat /\ y \in Nat /\ x <= m /\ m <= n /\ n <= y
        <3>1. clock \in Nat /\ StartTime <= t /\ t <= clock /\ clock <= MaxTime
            BY <1>4, <2>1
        <3> HIDE DEF t
        <3>2. t \in Nat /\ MaxTime \in Nat /\ StartTime \in Nat
            BY <1>4, <2>1
        <3> QED
            BY <3>1, <3>2, MsGrows
    <2>3. FbPeriod <= x /\ y + FbPeriod < TimeMod
        BY <1>16 DEF NoTimeWrap
    <2>4. new.begin <= m /\ m <= new.begin + FbPeriod /\ period.end = new.begin + FbPeriod /\ new.begin \in Nat
        <3>1. Ms(t) >= FbPeriod /\ Ms(t) + FbPeriod < TimeMod
            <4> HIDE DEF m, n, x, y
            <4>1. m >= FbPeriod /\ m + FbPeriod < TimeMod
                BY <2>1, <2>2, <2>3
            <4> QED
                BY <4>1 DEF m
        <3> QED
            BY <1>6, <1>8, <3>1
    <2>5. \A i \in DOMAIN win : win[i].begin \in Nat /\ win[i].begin <= m
        <3>1. \A i \in DOMAIN win : win[i] \in BrFractionData
            BY <1>2
        <3> QED
            BY <1>2, <1>4, <1>16, <3>1 DEF BrFractionData, win
    <2> HIDE DEF m, n, x, y, t
    <2>6. \A i \in DOMAIN win : win[i].begin <= new.begin + FbPeriod
        BY <2>1, <2>2, <2>4, <2>5
    <2>7. InSteps(left) /\ Recent(left)
        <3>1. InSteps(win) /\ Recent(win)
            BY <1>2, <1>16 DEF win
        <3>2. k < L + 1 => all[k + 1].begin + BrWindow >= new.begin + FbPeriod
            BY <1>11, <2>4
        <3> QED
            BY <1>2, <1>8, <1>11, <1>12, <2>6, <3>1, <3>2, SlidOrder DEF win, L, all
    <2>8. new.begin <= n
        BY <2>2, <2>4
    <2>9. ASSUME NEW s \in Alive' PROVE new.begin <= Ms(sentRtp[s].sent)
        <3>1. s \in Alive /\ Diff(sequence, s) < Diff(sequence, latest)
            BY StillAlive
        <3>2. Diff(sequence, s) \in Int /\ Diff(sequence, latest) \in Int
            BY <1>4, <3>1, AliveNow, Distance DEF FlowInv, NumbersInv
        <3>3. t <= sentRtp[s].sent
            BY <1>4, <3>1, <3>2 DEF FlowInv, OrderInv, UnderWay, SentInOrder, Alive, t
        <3>4. sentRtp[s].sent \in Nat
            BY <3>1, AliveNow
        <3> DEFINE z == Ms(sentRtp[s].sent)
        <3>5. m <= z /\ z \in Nat
            BY <1>4, <3>3, <3>4, MsGrows DEF m
        <3> HIDE DEF z
        <3>6. new.begin <= z
            BY <2>2, <2>4, <3>5
        <3> QED
            BY <3>6 DEF z
    <2>10. \A i \in DOMAIN win : /\ win[i].begin <= Ms(clock)
                               /\ \A s \in Alive' : win[i].begin <= Ms(sentRtp[s].sent)
        <3>1. Alive' \subseteq Alive
            BY StillAlive
        <3> QED
            BY <1>2, <1>16, <3>1 DEF win
    <2> QED
        BY <1>14, <2>7, <2>8, <2>9, <2>10 DEF n
<1>17. left = brFractionWindow'
    BY <1>1
<1> DEFINE v == brFractionWindow'
<1>18. left = v
    BY <1>17
<1> HIDE DEF v
<1>19. /\ v \in Seq(BrFractionData)
       /\ totSentBytes' = PoppedBytes(v).sentBytes /\ totRcvdBytes' = PoppedBytes(v).rcvdBytes
       /\ NoTimeWrap =>
            /\ InSteps(v) /\ Recent(v)
            /\ \A i \in DOMAIN v : /\ v[i].begin <= Ms(clock)
                                   /\ \A s \in Alive' : v[i].begin <= Ms(sentRtp[s].sent)
    BY <1>12, <1>15, <1>16, <1>18
<1> QED
    BY <1>15, <1>19 DEF PeriodsInv, v

\* A report of nothing.
LEMMA EmptyReport ==
    ASSUME FlowInv, NEW inFull, RecvFeedback(inFull),
           NEW f, f = Read(Head(reportNet)), EmptyFeedback(f)
    PROVE  FlowInv'
<1> DEFINE b == BlockIn(f, Ssrc)
<1>1. /\ reportNet # <<>> /\ reportNet' = Tail(reportNet)
      /\ headerFault' = ~Deserializable(Head(reportNet).packet)
      /\ learned' = learned \cup Taught(f)
      /\ UNCHANGED <<clock, sequence, dataNet, mishaps, sent>>
      /\ UNCHANGED <<waiting, remoteSsrc, refPoint, fbHeader, fbEvent>>
    BY DEF RecvFeedback, Read
<1>2. /\ sentRtp' = sentRtp /\ UNCHANGED <<firstSend, lastSentRtp, inflightPktCount>>
      /\ UNCHANGED <<brFractionWindow, totSentBytes, totRcvdBytes, fault>>
      /\ UNCHANGED queueVars /\ Ssrc \notin DOMAIN f.blocks
    BY DEF EmptyFeedback, ledgerVars
<1>3. learned' = learned
    BY <1>1, <1>2 DEF Taught
<1>4. Alive' \subseteq Alive
    BY <1>1, StillAlive
<1>5. /\ inflightPktCount' \in Nat /\ \A t \in Alive' : Diff(sequence, t) <= inflightPktCount'
      /\ fault' = "none"
    BY <1>2, <1>4 DEF FlowInv, NumbersInv, FaultInv
<1> HIDE DEF b
<1>6. NetInv' /\ TimerInv' /\ NumbersInv' /\ HeaderInv' /\ OrderInv' /\ RecordsInv' /\ FaultInv'
    BY <1>1, <1>2, <1>3, <1>5, ReportReceived
<1>7. PastInv' /\ PeriodsInv' /\ QueueInv'
    BY <1>1, <1>2, QueueKept
<1> QED
    BY <1>6, <1>7 DEF FlowInv, SenderInv

\* Every other report, but for the virtual queue and the periods.
LEMMA ReportTaken ==
    ASSUME FlowInv, NEW inFull, RecvFeedback(inFull),
           NEW f, f = Read(Head(reportNet)), TakeFeedback(f)
    PROVE  /\ NetInv' /\ TimerInv' /\ NumbersInv' /\ HeaderInv' /\ OrderInv' /\ RecordsInv'
           /\ FaultInv'
           /\ sentRtp' = sentRtp /\ Readable(f, sequence, sentRtp)
<1> DEFINE b == BlockIn(f, Ssrc)
<1>1. /\ reportNet # <<>> /\ reportNet' = Tail(reportNet)
      /\ headerFault' = ~Deserializable(Head(reportNet).packet)
      /\ learned' = learned \cup Taught(f)
      /\ UNCHANGED <<clock, sequence, dataNet, mishaps, sent>>
      /\ UNCHANGED <<waiting, remoteSsrc, refPoint, fbHeader, fbEvent>>
    BY DEF RecvFeedback, Read
<1>2. /\ sentRtp' = sentRtp /\ fault' = "none" /\ UNCHANGED <<firstSend, lastSentRtp>>
      /\ inflightPktCount' \in Nat
      /\ Readable(f, sequence, sentRtp)
      /\ \A d \in Int : (\A s \in DOMAIN b : d < Diff(sequence, s)) => d <= inflightPktCount'
    BY <1>1, Counting
<1>3. Taught(f) \subseteq DOMAIN b
    BY DEF Taught
<1>4. /\ Alive' \subseteq Alive
      /\ \A t \in Alive', s \in DOMAIN b : Diff(sequence, t) < Diff(sequence, s)
    BY <1>1, StillAlive
<1>5. ASSUME NEW t \in Alive' PROVE Diff(sequence, t) <= inflightPktCount'
    <2>1. Diff(sequence, t) \in Int
        BY <1>4, AliveNow, Distance DEF FlowInv, NumbersInv
    <2> QED
        BY <1>2, <1>4, <2>1
<1> HIDE DEF b
<1>6. learned \subseteq learned' /\ learned' \subseteq learned \cup DOMAIN b
    BY <1>1, <1>3
<1>7. NetInv' /\ TimerInv' /\ NumbersInv' /\ HeaderInv' /\ OrderInv' /\ RecordsInv' /\ FaultInv'
    BY <1>1, <1>2, <1>5, <1>6, ReportReceived DEF b
<1> QED
    BY <1>2, <1>7

\* A report that SkipFeedback ignores: the records and the virtual queue keep what
\* they hold of the packets still under way.
LEMMA SkippedReport ==
    ASSUME FlowInv, NEW inFull, RecvFeedback(inFull),
           NEW f, f = Read(Head(reportNet)), SkipFeedback(f)
    PROVE  FlowInv'
<1>1. /\ reportNet # <<>> /\ reportNet' = Tail(reportNet)
      /\ UNCHANGED <<clock, dataNet, refPoint, fbHeader, fbEvent>>
    BY DEF RecvFeedback
<1>2. /\ TakeFeedback(f) /\ UNCHANGED <<brFractionWindow, totSentBytes, totRcvdBytes>>
      /\ UNCHANGED queueVars
    BY DEF SkipFeedback
<1>3. /\ NetInv' /\ TimerInv' /\ NumbersInv' /\ HeaderInv' /\ OrderInv' /\ RecordsInv' /\ FaultInv'
      /\ sentRtp' = sentRtp
    BY <1>2, ReportTaken
<1>4. PastInv' /\ PeriodsInv' /\ QueueInv'
    BY <1>1, <1>2, <1>3, QueueKept
<1> QED
    BY <1>3, <1>4 DEF FlowInv, SenderInv

\* A report that is used is a Report of the virtual queue.
LEMMA UsedReport ==
    ASSUME FlowInv, NEW inFull \in BOOLEAN, RecvFeedback(inFull),
           NEW f, f = Read(Head(reportNet)), UseFeedback(f, inFull)
    PROVE  FlowInv' /\ Report
<1>1. /\ reportNet # <<>> /\ reportNet' = Tail(reportNet)
      /\ UNCHANGED <<clock, dataNet, refPoint, fbHeader, fbEvent>>
    BY DEF RecvFeedback
<1>2. TakeFeedback(f)
    BY DEF UseFeedback
<1>3. /\ NetInv' /\ TimerInv' /\ NumbersInv' /\ HeaderInv' /\ OrderInv' /\ RecordsInv' /\ FaultInv'
      /\ sentRtp' = sentRtp /\ Readable(f, sequence, sentRtp)
    BY <1>2, ReportTaken
<1>4. PICK latest \in Anchor(f) :
        LET period == LastPeriodMs(f, latest)
        IN  \E parsed \in {ParseFeedback(f, sentRtp', period)} :
                /\ UpdateBrFractionWindow(period, parsed)
                /\ EstiFwdBwPre(parsed, inFull)
                /\ vq' = parsed.vq
                /\ EstiQDelay(vq')
    BY DEF UseFeedback
<1> DEFINE period == LastPeriodMs(f, latest)
           parsed == ParseFeedback(f, sentRtp, period)
<1>5. /\ UpdateBrFractionWindow(period, parsed) /\ EstiFwdBwPre(parsed, inFull)
      /\ vq' = parsed.vq /\ EstiQDelay(vq')
    BY <1>3, <1>4
<1>6. latest \in DOMAIN BlockIn(f, Ssrc)
    <2>1. latest \in LatestRtp(f)
        BY DEF Anchor
    <2>2. sequence \in Sequences16
        BY DEF FlowInv, NumbersInv
    <2> QED
        BY <1>3, <2>1, <2>2, LatestIsListed
<1>7. PeriodsInv'
    <2> HIDE DEF parsed, period
    <2>1. period = LastPeriodMs(f, latest) /\ parsed = ParseFeedback(f, sentRtp, period)
        BY DEF period, parsed
    <2> QED
        BY <1>1, <1>3, <1>5, <1>6, <2>1, PeriodAdded
<1>8. /\ PastInv'
      /\ vq' \in Seq(QDelayData) /\ vq' # <<>> /\ InOrder(vq') /\ Follows(vq', vq)
    <2>1. vq' = ParseFeedback(f, sentRtp, period).vq
        BY <1>5
    <2> HIDE DEF parsed, period
    <2> QED
        BY <1>1, <1>3, <2>1, QueueFed
<1>9. QueueInv
    BY DEF FlowInv, SenderInv
<1>10. estimated' \in BOOLEAN
    <2>1. estimated' = (estimated \/ parsed.txedBytes > parsed.rxedSentBytes
                            \/ (parsed.txedBytes = parsed.rxedSentBytes /\ inFull))
        BY <1>5 DEF EstiFwdBwPre
    <2> HIDE DEF parsed
    <2> QED
        BY <2>1, Zenon
<1>11. Report
    BY <1>5, <1>8, <1>9, <1>10 DEF Report, QueueInv
<1>12. QueueInv'
    BY <1>9, <1>11, QueueStep
<1> QED
    BY <1>3, <1>7, <1>8, <1>11, <1>12 DEF FlowInv, SenderInv

\* A report reaches the sender, whichever way RecvPacket takes, and the virtual queue
\* gets a report of packets in order, or none.
LEMMA RecvFeedbackStep ==
    ASSUME FlowInv, NEW inFull \in BOOLEAN, RecvFeedback(inFull)
    PROVE  FlowInv' /\ [Report]_queueVars
<1> DEFINE f == Read(Head(reportNet))
<1>1. ProcessFeedback2(f, inFull)
    BY DEF RecvFeedback, Read
<1> HIDE DEF f
<1>2. f = Read(Head(reportNet))
    BY DEF f
<1>3. CASE EmptyFeedback(f)
    <2>1. UNCHANGED queueVars
        BY <1>3 DEF EmptyFeedback
    <2> QED
        BY <1>2, <1>3, <2>1, EmptyReport
<1>4. CASE SkipFeedback(f)
    <2>1. UNCHANGED queueVars
        BY <1>4 DEF SkipFeedback
    <2> QED
        BY <1>2, <1>4, <2>1, SkippedReport
<1>5. CASE UseFeedback(f, inFull)
    BY <1>2, <1>5, UsedReport
<1> QED
    BY <1>1, <1>3, <1>4, <1>5 DEF ProcessFeedback2

-----------------------------------------------------------------------------
(* Every run *)

\* The initial states satisfy the invariant.
LEMMA FlowStart == Init => FlowInv
<1> SUFFICES ASSUME Init PROVE FlowInv
    OBVIOUS
<1>1. /\ clock = StartTime /\ sequence \in Sequences16 /\ dataNet = <<>> /\ reportNet = <<>>
      /\ mishaps = 0 /\ sent = {} /\ learned = {}
    BY FlowAssumption DEF Init
<1>2. /\ waiting = TRUE /\ refPoint = 0 /\ fbHeader = EmptyRfb /\ fbEvent = Never
      /\ headerFault = FALSE
    BY DEF Init, RxInit
<1>3. /\ sentRtp = <<>> /\ firstSend = TRUE /\ lastSentRtp = 0 /\ inflightPktCount = 0
      /\ brFractionWindow = <<>> /\ totSentBytes = 0 /\ totRcvdBytes = 0 /\ fault = "none"
    BY DEF Init, LedgerInit
<1>4. QueueInv /\ vq = <<>>
    BY QueueStart DEF Init, QueueInit
<1>5. BlockIn(fbHeader, Ssrc) = <<>> /\ DOMAIN fbHeader = Fields /\ OneStream(fbHeader)
    <2>1. /\ DOMAIN EmptyRfb = Fields /\ EmptyRfb.blocks = <<>>
        BY DEF EmptyRfb, Fields
    <2>2. BlockIn(EmptyRfb, Ssrc) = <<>>
        BY <2>1 DEF BlockIn
    <2> QED
        BY <1>2, <2>1, <2>2 DEF OneStream, BlockType
<1>6. /\ DOMAIN Parcels = {1} /\ Parcels[1].block = <<>>
    <2>1. reportNet \in Seq({}) /\ Len(reportNet) = 0
        BY <1>1
    <2>2. Filling = <<>>
        BY <1>2 DEF Filling
    <2>3. DOMAIN Parcels = 1 .. Len(reportNet) + 1 /\ Parcels[Len(reportNet) + 1].block = Filling
        <3> DEFINE S == Nat
        <3>1. Parcels = ParcelsOf(reportNet, Filling, fbEvent, refPoint) /\ reportNet \in Seq(S)
            BY <1>1 DEF Parcels
        <3> HIDE DEF S, Parcels
        <3> QED
            BY <3>1, ParcelsAre
    <2> QED
        BY <2>1, <2>2, <2>3
<1>7. DOMAIN dataNet = {} /\ Alive = {} /\ DOMAIN Parcels[1].block = {}
    BY <1>1, <1>6 DEF Alive, Live, Seqs, Landed
<1>8. StartTime \in Nat \ {0} /\ MaxTime \in Nat /\ StartTime <= MaxTime /\ MaxMishaps \in Nat
      /\ MaxPackets \in Nat /\ 0 \in Sequences16
    BY FlowAssumption, SeqModAssumption DEF Sequences16
<1>9. NetInv
    BY <1>1, <1>8 DEF NetInv, Recently
<1>10. TimerInv
    BY <1>1, <1>2, <1>4, <1>5, <1>8 DEF TimerInv, Never
<1>11. NumbersInv
    <2>1. Cardinality(sent) = 0
        BY <1>1, FS_EmptySet
    <2> QED
        BY <1>1, <1>3, <1>7, <1>8, <2>1 DEF NumbersInv
<1>12. HeaderInv
    BY <1>1, <1>2, <1>5 DEF HeaderInv
<1>13. OrderInv
    <2>1. InLine(sequence, dataNet, Parcels)
        BY <1>6, <1>7 DEF InLine
    <2>2. Together(sequence, dataNet, Parcels)
        BY <1>6, <1>7 DEF Together, Near
    <2>3. SentInOrder(sequence, Live(dataNet, Parcels), sentRtp)
        BY <1>7 DEF SentInOrder, Alive
    <2>4. RcvdInOrder(sequence, Parcels) /\ AllDated(Parcels, sentRtp, clock, refPoint)
        BY <1>6, <1>7 DEF RcvdInOrder, AllDated
    <2>5. Travels(dataNet, sentRtp)
        BY <1>7 DEF Travels
    <2> QED
        BY <2>1, <2>2, <2>3, <2>4, <2>5 DEF OrderInv, UnderWay
<1>14. RecordsInv
    BY <1>3, <1>7, <1>8 DEF RecordsInv
<1>15. PastInv
    BY <1>4 DEF PastInv
<1>16. PeriodsInv
    <2> DEFINE v == [i \in DOMAIN brFractionWindow |-> brFractionWindow[i].sentBytes]
               u == [i \in DOMAIN brFractionWindow |-> brFractionWindow[i].rcvdBytes]
    <2>1. DOMAIN v = {} /\ DOMAIN u = {} /\ DOMAIN brFractionWindow = {}
        BY <1>3
    <2> HIDE DEF v, u
    <2>2. SumFunction(v) = 0 /\ SumFunction(u) = 0
        BY <2>1, SumOfNone
    <2>3. PoppedBytes(brFractionWindow).sentBytes = 0 /\ PoppedBytes(brFractionWindow).rcvdBytes = 0
        BY <2>2 DEF PoppedBytes, v, u
    <2>4. brFractionWindow \in Seq(BrFractionData)
        BY <1>3
    <2> QED
        BY <1>3, <2>1, <2>3, <2>4 DEF PeriodsInv, InSteps, Recent
<1>17. FaultInv
    BY <1>2, <1>3 DEF FaultInv
<1> QED
    BY <1>4, <1>9, <1>10, <1>11, <1>12, <1>13, <1>14, <1>15, <1>16, <1>17 DEF FlowInv, SenderInv

\* Where the network keeps the order, the first packet in it is the next.
LEMMA InOrderArrival ==
    ASSUME FlowInv, Reach = 1, NEW i \in 1 .. Min({Reach, Len(dataNet)})
    PROVE  i = 1 /\ dataNet # <<>>
<1> DEFINE L == Len(dataNet)
<1>1. L \in Nat /\ (dataNet = <<>> => L = 0)
    BY DEF FlowInv, NetInv
<1>2. CASE L = 0
    <2> DEFINE S == {1, 0}
    <2>1. S \in SUBSET Int /\ 0 \in S /\ \A x \in S : 0 <= x
        OBVIOUS
    <2> HIDE DEF S
    <2>2. Min(S) = 0
        BY <2>1, MinIs
    <2>3. S = {Reach, L}
        BY <1>2 DEF S
    <2> QED
        BY <2>2, <2>3
<1>3. CASE L # 0
    <2> DEFINE S == {1, L}
    <2>1. S \in SUBSET Int /\ 1 \in S /\ \A x \in S : 1 <= x
        BY <1>1, <1>3
    <2> HIDE DEF S
    <2>2. Min(S) = 1
        BY <2>1, MinIs
    <2>3. S = {Reach, L}
        BY DEF S
    <2> QED
        BY <1>1, <1>3, <2>2, <2>3
<1> QED
    BY <1>2, <1>3

\* Every step keeps the invariant and is a Report of the virtual queue or leaves
\* it alone.
LEMMA FlowStep == ASSUME Reach = 1 PROVE FlowInv /\ [Next]_vars => FlowInv' /\ [Report]_queueVars
<1> SUFFICES ASSUME FlowInv, [Next]_vars PROVE FlowInv' /\ [Report]_queueVars
    OBVIOUS
<1>1. CASE \E size \in Sizes : SendOverSleep(size)
    BY <1>1, SendStep DEF SendOverSleep, ProcessSendPacket2
<1>2. CASE \E inFull \in BOOLEAN : RecvFeedback(inFull)
    BY <1>2, RecvFeedbackStep
<1>3. CASE Stop
    BY <1>3, StopStep DEF Stop
<1>4. CASE \E i \in 1 .. Min({Reach, Len(dataNet)}) : Arrive(i)
    <2>1. dataNet # <<>> /\ Arrive(1)
        BY <1>4, InOrderArrival
    <2> QED
        BY <2>1, ArriveStep DEF Arrive
<1>5. CASE SendReport
    BY <1>5, SendReportStep DEF SendReport
<1>6. CASE LosePacket
    BY <1>6, LosePacketStep DEF LosePacket
<1>7. CASE LoseReport
    BY <1>7, LoseReportStep DEF LoseReport
<1>8. CASE Tick
    BY <1>8, TickStep DEF Tick
<1>9. CASE UNCHANGED vars
    <2>1. UNCHANGED flowVars /\ UNCHANGED rxVars /\ UNCHANGED ledgerVars /\ UNCHANGED queueVars
        BY <1>9 DEF vars
    <2>2. UNCHANGED <<clock, sequence, dataNet, reportNet, mishaps, sent, learned>>
          /\ UNCHANGED <<waiting, remoteSsrc, refPoint, fbHeader, fbEvent, headerFault>>
          /\ UNCHANGED <<sentRtp, firstSend, lastSentRtp, inflightPktCount, brFractionWindow,
                         totSentBytes, totRcvdBytes, fault>>
          /\ UNCHANGED <<vq, minQDelay, lastQDelay, ivqSt, estimated, stuck>>
        BY <2>1 DEF flowVars, rxVars, ledgerVars, queueVars
    <2>3. Parcels' = Parcels /\ Alive' = Alive
        BY <2>2 DEF Parcels, Filling, Alive
    <2>4. NetInv' /\ TimerInv' /\ NumbersInv' /\ HeaderInv' /\ OrderInv'
        BY <2>2, <2>3 DEF FlowInv, NetInv, TimerInv, NumbersInv, HeaderInv, OrderInv
    <2>5. RecordsInv' /\ PastInv' /\ PeriodsInv' /\ QueueInv' /\ FaultInv'
        BY <2>2, <2>3 DEF FlowInv, SenderInv, RecordsInv, PastInv, PeriodsInv, QueueInv,
                          QueueTypeOK, Backlog, FaultInv
    <2> QED
        BY <2>1, <2>4, <2>5 DEF FlowInv, SenderInv
<1> QED
    BY <1>1, <1>2, <1>3, <1>4, <1>5, <1>6, <1>7, <1>8, <1>9 DEF Next

\* The inductive invariant holds in every state where the network keeps the order.
LEMMA FlowInvariant == ASSUME Reach = 1 PROVE Spec => []FlowInv /\ [][Report]_queueVars
<1>1. FlowInv /\ [Next]_vars => FlowInv' /\ [Report]_queueVars
    BY FlowStep
<1> QED
    BY <1>1, FlowStart, PTL DEF Spec

-----------------------------------------------------------------------------
(* What the runs check, for every value of the constants *)

\* Every variable keeps its type, on both sides and in the network.
THEOREM FlowTypes == ASSUME Reach = 1 PROVE Spec => []TypeOK
<1>1. FlowInv => TypeOK
    <2> SUFFICES ASSUME FlowInv PROVE TypeOK
        OBVIOUS
    <2>1. /\ clock \in StartTime .. MaxTime /\ sequence \in Sequences16
          /\ mishaps \in 0 .. MaxMishaps
          /\ sent \subseteq Sequences16 /\ learned \subseteq Sequences16
          /\ inflightPktCount \in Nat
        BY DEF FlowInv, NetInv, NumbersInv
    <2>2. \A i \in DOMAIN dataNet : dataNet[i] \in [seq : Sequences16, at : Nat]
        <3>1. dataNet \in Seq(DataPackets)
            BY DEF FlowInv, NetInv
        <3>2. \A i \in DOMAIN dataNet : dataNet[i] \in DataPackets
            BY <3>1
        <3> QED
            BY <3>2 DEF DataPackets
    <2>3. \A i \in DOMAIN reportNet : reportNet[i].packet.reportTime \in Nat
        BY DEF FlowInv, HeaderInv, WellFormed
    <2>4. RxTypeOK
        <3>1. ASSUME NEW ssrc \in DOMAIN fbHeader.blocks, NEW s \in DOMAIN fbHeader.blocks[ssrc]
              PROVE  s \in Sequences16 /\ fbHeader.blocks[ssrc][s] \in [ts : Nat, ecn : 0 .. 3]
            BY DEF FlowInv, HeaderInv, OneStream, BlockIn, BlockType, Stamp
        <3>2. /\ waiting \in BOOLEAN /\ refPoint \in Nat /\ fbEvent \in Nat \cup {Never}
              /\ headerFault \in BOOLEAN /\ DOMAIN fbHeader = Fields
            BY DEF FlowInv, HeaderInv, TimerInv, FaultInv
        <3> QED
            BY <3>1, <3>2 DEF RxTypeOK, Fields
    <2>5. LedgerTypeOK
        <3>1. \A i \in DOMAIN brFractionWindow : brFractionWindow[i] \in BrFractionData
            BY DEF FlowInv, SenderInv, PeriodsInv
        <3> QED
            BY <2>1, <3>1 DEF LedgerTypeOK, FlowInv, SenderInv, RecordsInv, PeriodsInv, FaultInv
    <2>6. QueueTypeOK
        BY DEF FlowInv, SenderInv, QueueInv
    <2> QED
        BY <2>1, <2>2, <2>3, <2>4, <2>5, <2>6 DEF TypeOK
<1> QED
    BY <1>1, FlowInvariant, PTL

\* No assert fails: the sender never hears of more packets than are in flight, nor
\* of bytes it has not sent, and every report that is sent is neither too old nor
\* too long for the headers, and can be read.
THEOREM FlowAsserts == ASSUME Reach = 1 PROVE Spec => []NoAssertFails
<1>1. FlowInv => NoAssertFails
    BY DEF FlowInv, FaultInv, NoAssertFails
<1> QED
    BY <1>1, FlowInvariant, PTL

\* The loop of updateInternalVQDelay ends for every report the sender can receive
\* over a network that delays and loses but keeps the order.
THEOREM FlowLoopEnds == ASSUME Reach = 1 PROVE Spec => []LoopEnds
<1>1. FlowInv => LoopEnds
    BY DEF FlowInv, SenderInv, QueueInv, LoopEnds
<1> QED
    BY <1>1, FlowInvariant, PTL

\* The sender and its network drive the virtual queue only as CcfsVirtualQueue
\* says: every step is a Report of packets in order, or leaves the queue alone.
THEOREM FlowFeedsQueue == ASSUME Reach = 1 PROVE Spec => VirtualQueueSpec
<1>1. Init => QueueInit
    BY DEF Init
<1> QED
    BY <1>1, FlowInvariant, PTL DEF VirtualQueueSpec, QueueSpec, Spec

\* The bitrate fraction is of the last periods only: the totals are those of the
\* periods in the window and none stays more than a period beyond BrWindow, as
\* long as the times of the run fit in their width.
THEOREM FlowWindow == ASSUME Reach = 1, NoTimeWrap PROVE Spec => []WindowIsRecent
<1>1. FlowInv => WindowIsRecent
    BY DEF FlowInv, SenderInv, PeriodsInv, Recent, WindowIsRecent
<1> QED
    BY <1>1, FlowInvariant, PTL

-----------------------------------------------------------------------------
(* The refinement *)

\* The state that FeedbackLoop sees.

\* A step that leaves the packets and reports alone is a stutter of the loop.
LEMMA SameLoop ==
    ASSUME UNCHANGED <<sent, dataNet, fbHeader, reportNet, learned>>
    PROVE  UNCHANGED Loop!loopVars
BY DEF Loop!loopVars, TravellingNumbers, PendingNumbers

\* The number to be sent next is new.
LEMMA FreshNumber ==
    ASSUME FlowInv
    PROVE  sequence \notin sent
<1>1. /\ sequence \in Sequences16 /\ Cardinality(sent) \in 0 .. MaxPackets
      /\ sent = {s \in Sequences16 : Diff(sequence, s) \in 1 .. Cardinality(sent)}
    BY DEF FlowInv, NumbersInv
<1>2. Diff(sequence, sequence) = 0
    BY <1>1, AgeNext
<1> DEFINE c == Cardinality(sent)
<1>3. sequence \in sent => Diff(sequence, sequence) \in 1 .. c
    BY <1>1
<1> HIDE DEF c
<1> QED
    BY <1>2, <1>3

\* The number at the front of the network is there once.
LEMMA FrontLeaves ==
    ASSUME FlowInv, dataNet # <<>>,
           NEW ms, DOMAIN ms = 1 .. Len(dataNet) - 1,
           \A i \in DOMAIN ms : i + 1 \in DOMAIN dataNet /\ ms[i] = dataNet[i + 1]
    PROVE  /\ {ms[i].seq : i \in DOMAIN ms} = TravellingNumbers \ {dataNet[1].seq}
           /\ dataNet[1].seq \in TravellingNumbers /\ dataNet[1].seq \in Sequences16
<1> DEFINE L == Len(dataNet)
<1>1. L \in Nat \ {0} /\ DOMAIN dataNet = 1 .. L /\ \A i \in 1 .. L : dataNet[i] \in DataPackets
    BY DEF FlowInv, NetInv
<1>2. \A i, k \in DOMAIN dataNet : i < k => Diff(sequence, dataNet[k].seq) < Diff(sequence, dataNet[i].seq)
    BY DEF FlowInv, OrderInv, UnderWay, InLine
<1>3. \A i \in 1 .. L : dataNet[i].seq \in Sequences16
    BY <1>1 DEF DataPackets
<1>4. \A i \in 1 .. L : Diff(sequence, dataNet[i].seq) \in Int
    BY <1>3, Distance DEF FlowInv, NumbersInv
<1> HIDE DEF L
<1>5. 1 \in 1 .. L
    BY <1>1
<1>6. \A k \in 1 .. L : k # 1 => dataNet[k].seq # dataNet[1].seq
    <2> TAKE k \in 1 .. L
    <2> HAVE k # 1
    <2>1. 1 < k
        BY <1>1
    <2>2. Diff(sequence, dataNet[k].seq) < Diff(sequence, dataNet[1].seq)
        BY <1>1, <1>2, <1>5, <2>1
    <2> QED
        BY <1>4, <1>5, <2>2
<1>7. \A k \in 1 .. L : k # 1 => k - 1 \in 1 .. L - 1 /\ (k - 1) + 1 = k
    BY <1>1
<1>8. \A i \in DOMAIN ms : i + 1 \in 1 .. L /\ i + 1 # 1 /\ ms[i] = dataNet[i + 1]
    BY <1>1
<1>9. DOMAIN ms = 1 .. L - 1
    BY DEF L
<1>10. ASSUME NEW s \in TravellingNumbers, s # dataNet[1].seq
       PROVE  \E i \in DOMAIN ms : s = ms[i].seq
    <2>1. PICK k \in 1 .. L : s = dataNet[k].seq
        BY <1>1 DEF TravellingNumbers
    <2>2. k # 1
        BY <1>10, <2>1
    <2>3. k - 1 \in DOMAIN ms /\ ms[k - 1] = dataNet[k]
        BY <1>7, <1>8, <1>9, <2>2
    <2> QED
        BY <2>1, <2>3
<1>11. ASSUME NEW i \in DOMAIN ms
       PROVE  ms[i].seq \in TravellingNumbers /\ ms[i].seq # dataNet[1].seq
    BY <1>1, <1>6, <1>8 DEF TravellingNumbers
<1> DEFINE rest == {ms[i].seq : i \in DOMAIN ms}
<1>12. rest \subseteq TravellingNumbers \ {dataNet[1].seq}
    BY <1>11
<1>13. TravellingNumbers \ {dataNet[1].seq} \subseteq rest
    BY <1>10
<1>14. dataNet[1].seq \in TravellingNumbers /\ dataNet[1].seq \in Sequences16
    BY <1>1, <1>3, <1>5 DEF TravellingNumbers
<1>15. rest = TravellingNumbers \ {dataNet[1].seq}
    <2> HIDE DEF rest
    <2> QED
        BY <1>12, <1>13
<1> QED
    BY <1>14, <1>15

\* SendOverSleep is Send: the number is one that is not in use.
LEMMA LoopSends ==
    ASSUME FlowInv, NEW size, SendOverSleep(size)
    PROVE  Loop!Next
<1>1. /\ dataNet' = Append(dataNet, [seq |-> sequence, at |-> clock])
      /\ sent' = sent \cup {sequence}
      /\ UNCHANGED <<reportNet, learned, fbHeader>>
    BY DEF SendOverSleep, rxVars
<1>2. TravellingNumbers' = TravellingNumbers \cup {sequence}
    <2> DEFINE L == Len(dataNet)
               p == [seq |-> sequence, at |-> clock]
    <2>1. L \in Nat /\ DOMAIN dataNet = 1 .. L /\ DOMAIN dataNet' = 1 .. L + 1
          /\ dataNet'[L + 1] = p /\ p.seq = sequence
          /\ \A i \in 1 .. L : dataNet'[i] = dataNet[i]
        BY <1>1 DEF FlowInv, NetInv
    <2> HIDE DEF L, p
    <2>2. \A i \in 1 .. L + 1 : i \in 1 .. L \/ i = L + 1
        BY <2>1
    <2>3. L + 1 \in 1 .. L + 1 /\ \A i \in 1 .. L : i \in 1 .. L + 1
        BY <2>1
    <2>4. ASSUME NEW s \in TravellingNumbers' PROVE s \in TravellingNumbers \cup {sequence}
        BY <2>1, <2>2 DEF TravellingNumbers
    <2>5. ASSUME NEW s \in TravellingNumbers \cup {sequence} PROVE s \in TravellingNumbers'
        BY <2>1, <2>3 DEF TravellingNumbers
    <2> QED
        BY <2>4, <2>5
<1>3. sequence \in Sequences16 /\ sequence \notin sent
    BY FreshNumber DEF FlowInv, NumbersInv
<1>4. PendingNumbers' = PendingNumbers
    BY <1>1 DEF PendingNumbers
<1>5. Loop!Send(sequence)
    BY <1>1, <1>2, <1>3, <1>4 DEF Loop!Send
<1> QED
    BY <1>3, <1>5 DEF Loop!Next

\* A packet lost is Lose.
LEMMA LoopLoses == FlowInv /\ LosePacket => Loop!Next
<1> SUFFICES ASSUME FlowInv, LosePacket PROVE Loop!Next
    OBVIOUS
<1> DEFINE p == dataNet[1].seq
<1>1. /\ dataNet # <<>> /\ dataNet' = Tail(dataNet)
      /\ UNCHANGED <<sent, reportNet, learned, fbHeader>>
    BY DEF LosePacket, rxVars
<1>2. /\ DOMAIN dataNet' = 1 .. Len(dataNet) - 1
      /\ \A i \in DOMAIN dataNet' : i + 1 \in DOMAIN dataNet /\ dataNet'[i] = dataNet[i + 1]
    BY <1>1, TailOfNet DEF FlowInv, NetInv
<1>3. /\ {dataNet'[i].seq : i \in DOMAIN dataNet'} = TravellingNumbers \ {p}
      /\ p \in TravellingNumbers /\ p \in Sequences16
    BY <1>1, <1>2, FrontLeaves
<1>4. TravellingNumbers' = TravellingNumbers \ {p}
    BY <1>3 DEF TravellingNumbers
<1>5. PendingNumbers' = PendingNumbers
    BY <1>1 DEF PendingNumbers
<1> HIDE DEF p
<1>6. Loop!Lose(p)
    BY <1>1, <1>3, <1>4, <1>5 DEF Loop!Lose
<1> QED
    BY <1>3, <1>6 DEF Loop!Next

\* A packet that reaches the receiver is Arrive.
LEMMA LoopArrives == FlowInv /\ dataNet # <<>> /\ Arrive(1) => Loop!Next
<1> SUFFICES ASSUME FlowInv, dataNet # <<>>, Arrive(1) PROVE Loop!Next
    OBVIOUS
<1> DEFINE p == dataNet[1].seq
<1>1. /\ dataNet' = [j \in 1 .. (Len(dataNet) - 1) |-> IF j < 1 THEN dataNet[j] ELSE dataNet[j + 1]]
      /\ UNCHANGED <<sent, reportNet, learned>>
    BY DEF Arrive
<1>2. /\ DOMAIN dataNet' = 1 .. Len(dataNet) - 1
      /\ \A i \in DOMAIN dataNet' : i + 1 \in DOMAIN dataNet /\ dataNet'[i] = dataNet[i + 1]
    <2>1. dataNet \in Seq(DataPackets)
        BY DEF FlowInv, NetInv
    <2> DEFINE ms == dataNet'
    <2>2. ms = [j \in 1 .. (Len(dataNet) - 1) |-> IF j < 1 THEN dataNet[j] ELSE dataNet[j + 1]]
        BY <1>1
    <2> HIDE DEF ms
    <2>3. /\ Shorter(ms, dataNet, 1) /\ DOMAIN ms = 1 .. Len(dataNet) - 1
        BY <2>1, <2>2, FirstArrives
    <2> QED
        BY <2>3 DEF Shorter, ms
<1>3. /\ {dataNet'[i].seq : i \in DOMAIN dataNet'} = TravellingNumbers \ {p}
      /\ p \in TravellingNumbers /\ p \in Sequences16
    BY <1>2, FrontLeaves
<1>4. TravellingNumbers' = TravellingNumbers \ {p}
    BY <1>3 DEF TravellingNumbers
<1>5. PendingNumbers' = PendingNumbers \cup {p}
    BY Received DEF PendingNumbers
<1> HIDE DEF p
<1>6. Loop!Arrive(p)
    BY <1>1, <1>3, <1>4, <1>5 DEF Loop!Arrive
<1> QED
    BY <1>3, <1>6 DEF Loop!Next

\* The numbers of the reports of a network.
NumbersOf(net) == [i \in DOMAIN net |-> ReportedNumbers(net[i].packet)]

\* The numbers of the reports in the network, one set for each.
LEMMA NumbersAre ==
    ASSUME NEW S, NEW net \in Seq(S), NEW T, T = {ReportedNumbers(r.packet) : r \in S}
    PROVE  /\ NumbersOf(net) \in Seq(T) /\ Len(NumbersOf(net)) = Len(net)
           /\ \A i \in 1 .. Len(net) : NumbersOf(net)[i] = ReportedNumbers(net[i].packet)
<1> DEFINE L == Len(net)
           g(i) == ReportedNumbers(net[i].packet)
<1>1. L \in Nat /\ DOMAIN net = 1 .. L /\ \A i \in 1 .. L : net[i] \in S
    OBVIOUS
<1>2. \A i \in 1 .. L : g(i) \in T
    BY <1>1
<1>3. NumbersOf(net) = [i \in 1 .. L |-> g(i)]
    BY <1>1 DEF NumbersOf
<1>4. \A i \in 1 .. L : [j \in 1 .. L |-> g(j)][i] = g(i)
    OBVIOUS
<1> HIDE DEF g, L
<1>5. [i \in 1 .. L |-> g(i)] \in Seq(T) /\ Len([i \in 1 .. L |-> g(i)]) = L
    BY <1>1, <1>2
<1> QED
    BY <1>3, <1>4, <1>5 DEF g, L

\* The first report leaves, and its numbers.
LEMMA FirstNumbersLeave ==
    ASSUME NEW S, NEW net \in Seq(S), net # <<>>
    PROVE  /\ NumbersOf(net) # <<>> /\ Head(NumbersOf(net)) = ReportedNumbers(Head(net).packet)
           /\ NumbersOf(Tail(net)) = Tail(NumbersOf(net))
<1> DEFINE T == {ReportedNumbers(r.packet) : r \in S}
           s == NumbersOf(net)
           t == NumbersOf(Tail(net))
           L == Len(net)
<1>1. /\ L \in Nat \ {0} /\ Head(net) = net[1] /\ Tail(net) \in Seq(S) /\ Len(Tail(net)) = L - 1
      /\ \A i \in 1 .. L - 1 : Tail(net)[i] = net[i + 1]
    OBVIOUS
<1>2. s \in Seq(T) /\ Len(s) = L /\ \A i \in 1 .. L : s[i] = ReportedNumbers(net[i].packet)
    BY NumbersAre
<1>3. /\ t \in Seq(T) /\ Len(t) = L - 1
      /\ \A i \in 1 .. L - 1 : t[i] = ReportedNumbers(Tail(net)[i].packet)
    BY <1>1, NumbersAre
<1> HIDE DEF s, t, L, T
<1>4. s # <<>> /\ Head(s) = s[1] /\ 1 \in 1 .. L
    BY <1>1, <1>2
<1>5. Tail(s) \in Seq(T) /\ Len(Tail(s)) = L - 1 /\ \A i \in 1 .. L - 1 : Tail(s)[i] = s[i + 1]
    BY <1>2, <1>4, HeadTailProperties
<1>6. \A i \in 1 .. L - 1 : t[i] = Tail(s)[i]
    <2> TAKE i \in 1 .. L - 1
    <2>1. i + 1 \in 1 .. L
        BY <1>1
    <2> QED
        BY <1>1, <1>2, <1>3, <1>5, <2>1
<1>7. t = Tail(s)
    BY <1>3, <1>5, <1>6, SeqEqual
<1> QED
    BY <1>1, <1>2, <1>4, <1>7 DEF s, t

\* A report joins the network, and its numbers.
LEMMA NumbersJoin ==
    ASSUME NEW S, NEW net \in Seq(S), NEW r
    PROVE  NumbersOf(Append(net, r)) = Append(NumbersOf(net), ReportedNumbers(r.packet))
<1> DEFINE P == S \cup {r}
           T == {ReportedNumbers(x.packet) : x \in P}
           s == NumbersOf(net)
           long == Append(net, r)
           t == NumbersOf(long)
           new == ReportedNumbers(r.packet)
           u == Append(s, new)
           L == Len(net)
<1>1. /\ L \in Nat /\ net \in Seq(P) /\ long \in Seq(P) /\ Len(long) = L + 1
      /\ long[L + 1] = r /\ \A i \in 1 .. L : long[i] = net[i]
    OBVIOUS
<1>2. s \in Seq(T) /\ Len(s) = L /\ \A i \in 1 .. L : s[i] = ReportedNumbers(net[i].packet)
    BY <1>1, NumbersAre
<1>3. /\ t \in Seq(T) /\ Len(t) = L + 1
      /\ \A i \in 1 .. L + 1 : t[i] = ReportedNumbers(long[i].packet)
    BY <1>1, NumbersAre
<1>4. new \in T
    OBVIOUS
<1> HIDE DEF s, t, L, T, long, new
<1>5. u \in Seq(T) /\ Len(u) = L + 1 /\ u[L + 1] = new /\ \A i \in 1 .. L : u[i] = s[i]
    BY <1>2, <1>4
<1>6. \A i \in 1 .. L + 1 : t[i] = u[i]
    <2> TAKE i \in 1 .. L + 1
    <2>1. i \in 1 .. L \/ i = L + 1
        BY <1>1
    <2>2. CASE i \in 1 .. L
        BY <1>1, <1>2, <1>3, <1>5, <2>2
    <2>3. CASE i = L + 1
        BY <1>1, <1>3, <1>5, <2>3 DEF new
    <2> QED
        BY <2>1, <2>2, <2>3
<1> HIDE DEF u
<1>7. t = u
    BY <1>3, <1>5, <1>6, SeqEqual
<1> QED
    BY <1>7 DEF s, t, u, long, new

\* The receiver's timer is Report: the report tells of what was pending, after
\* serialization.
LEMMA LoopReports == FlowInv /\ SendReport => Loop!Next
<1> SUFFICES ASSUME FlowInv, SendReport PROVE Loop!Next
    OBVIOUS
<1> DEFINE h == Stamped(clock)
           r == [packet |-> Serialize(h), at |-> clock]
<1>1. /\ fbEvent = clock /\ fbHeader' = CleanReportBlocks(h)
      /\ reportNet' = Append(reportNet, r)
      /\ UNCHANGED <<dataNet, sent, learned>>
    BY DEF SendReport, FbTimerHandler
<1>2. r.packet = Serialize(h) /\ h = Stamped(clock)
    OBVIOUS
<1> HIDE DEF h, r
<1>3. DOMAIN h = Fields /\ ReportedNumbers(r.packet) = PendingNumbers
    BY <1>1, <1>2, Posted DEF PendingNumbers
<1>4. PendingNumbers' = {}
    <2> DEFINE g == fbHeader'
    <2>1. g = CleanReportBlocks(h)
        BY <1>1
    <2> HIDE DEF g
    <2>2. BlockIn(g, Ssrc) = <<>>
        BY <1>3, <2>1, Cleaning
    <2> QED
        BY <2>2 DEF PendingNumbers, g
<1>5. PICK S : reportNet \in Seq(S)
    BY DEF FlowInv, NetInv
<1>6. NumbersOf(reportNet') = Append(NumbersOf(reportNet), PendingNumbers)
    BY <1>1, <1>3, <1>5, NumbersJoin
<1>7. UNCHANGED <<sent, TravellingNumbers, learned>>
    BY <1>1 DEF TravellingNumbers
<1>8. Loop!Report
    BY <1>4, <1>6, <1>7 DEF Loop!Report, NumbersOf
<1> QED
    BY <1>8 DEF Loop!Next

\* A report lost is Ignore.
LEMMA LoopForgets == FlowInv /\ LoseReport => Loop!Next
<1> SUFFICES ASSUME FlowInv, LoseReport PROVE Loop!Next
    OBVIOUS
<1>1. /\ reportNet # <<>> /\ reportNet' = Tail(reportNet)
      /\ UNCHANGED <<dataNet, sent, learned, fbHeader>>
    BY DEF LoseReport, rxVars
<1>2. PICK S : reportNet \in Seq(S)
    BY DEF FlowInv, NetInv
<1>3. NumbersOf(reportNet) # <<>> /\ NumbersOf(reportNet') = Tail(NumbersOf(reportNet))
    BY <1>1, <1>2, FirstNumbersLeave
<1>4. UNCHANGED <<sent, TravellingNumbers, PendingNumbers, learned>>
    BY <1>1 DEF TravellingNumbers, PendingNumbers
<1>5. Loop!Ignore
    BY <1>3, <1>4 DEF Loop!Ignore, NumbersOf
<1> QED
    BY <1>5 DEF Loop!Next

\* A report that reaches the sender is Learn, and names nothing learned before, or
\* it is Ignore when the sender skips it.
LEMMA LoopLearns ==
    ASSUME FlowInv, NEW inFull, RecvFeedback(inFull)
    PROVE  Loop!Next
<1> DEFINE f == Read(Head(reportNet))
           b == BlockIn(f, Ssrc)
           first == ReportedNumbers(Head(reportNet).packet)
<1>1. /\ reportNet # <<>> /\ reportNet' = Tail(reportNet)
      /\ ProcessFeedback2(f, inFull) /\ learned' = learned \cup Taught(f)
      /\ UNCHANGED <<dataNet, sent, fbHeader>>
    BY DEF RecvFeedback, Read
<1>2. DOMAIN b = first /\ DOMAIN b \subseteq Alive
    BY <1>1, FirstReport
<1>3. Alive \subseteq sent \ learned /\ Alive \subseteq DOMAIN sentRtp
    BY DEF FlowInv, NumbersInv, SenderInv, RecordsInv
<1>4. sentRtp' = sentRtp
    <2> HIDE DEF f
    <2>1. CASE EmptyFeedback(f)
        BY <2>1 DEF EmptyFeedback, ledgerVars
    <2>2. CASE TakeFeedback(f)
        <3>1. f = Read(Head(reportNet))
            BY DEF f
        <3> QED
            BY <1>1, <2>2, <3>1, Counting
    <2> QED
        BY <1>1, <2>1, <2>2 DEF ProcessFeedback2, SkipFeedback, UseFeedback
<1>5. Taught(f) = {} \/ Taught(f) = DOMAIN b
    BY <1>2, <1>3, <1>4 DEF Taught
<1>6. PICK S : reportNet \in Seq(S)
    BY DEF FlowInv, NetInv
<1>7. /\ NumbersOf(reportNet) # <<>> /\ NumbersOf(reportNet') = Tail(NumbersOf(reportNet))
      /\ Head(NumbersOf(reportNet)) = first
    BY <1>1, <1>6, FirstNumbersLeave
<1>8. UNCHANGED <<sent, TravellingNumbers, PendingNumbers>>
    BY <1>1 DEF TravellingNumbers, PendingNumbers
<1> HIDE DEF f, b, first
<1>9. CASE Taught(f) = {}
    <2>1. learned' = learned
        BY <1>1, <1>9
    <2>2. Loop!Ignore
        BY <1>7, <1>8, <2>1 DEF Loop!Ignore, NumbersOf
    <2> QED
        BY <2>2 DEF Loop!Next
<1>10. CASE Taught(f) = DOMAIN b
    <2>1. learned' = learned \cup Head(NumbersOf(reportNet))
        BY <1>1, <1>2, <1>7, <1>10
    <2>2. Head(NumbersOf(reportNet)) \cap learned = {}
        BY <1>2, <1>3, <1>7
    <2>3. Loop!Learn
        BY <1>7, <1>8, <2>1, <2>2 DEF Loop!Learn, NumbersOf
    <2> QED
        BY <2>3 DEF Loop!Next
<1> QED
    BY <1>5, <1>9, <1>10

\* The initial states map to the initial state of the loop.
LEMMA LoopStart == Init => Loop!Init
<1> SUFFICES ASSUME Init PROVE Loop!Init
    OBVIOUS
<1>1. sent = {} /\ learned = {} /\ dataNet = <<>> /\ reportNet = <<>> /\ fbHeader = EmptyRfb
    BY DEF Init, RxInit
<1>2. TravellingNumbers = {}
    BY <1>1 DEF TravellingNumbers
<1>3. PendingNumbers = {}
    BY <1>1 DEF PendingNumbers, BlockIn, EmptyRfb
<1>4. NumbersOf(reportNet) = <<>>
    BY <1>1 DEF NumbersOf
<1> QED
    BY <1>1, <1>2, <1>3, <1>4 DEF Loop!Init, NumbersOf

\* Every step maps to a step of the loop or a stutter.
LEMMA LoopStep ==
    ASSUME Reach = 1
    PROVE  FlowInv /\ [Next]_vars => [Loop!Next]_(Loop!loopVars)
<1> SUFFICES ASSUME FlowInv, [Next]_vars PROVE Loop!Next \/ UNCHANGED Loop!loopVars
    OBVIOUS
<1>1. CASE \E size \in Sizes : SendOverSleep(size)
    BY <1>1, LoopSends
<1>2. CASE \E inFull \in BOOLEAN : RecvFeedback(inFull)
    BY <1>2, LoopLearns
<1>3. CASE Stop
    BY <1>3, SameLoop DEF Stop, StopApplication
<1>4. CASE \E i \in 1 .. Min({Reach, Len(dataNet)}) : Arrive(i)
    <2>1. dataNet # <<>> /\ Arrive(1)
        BY <1>4, InOrderArrival
    <2> QED
        BY <2>1, LoopArrives
<1>5. CASE SendReport
    BY <1>5, LoopReports
<1>6. CASE LosePacket
    BY <1>6, LoopLoses
<1>7. CASE LoseReport
    BY <1>7, LoopForgets
<1>8. CASE Tick
    BY <1>8, SameLoop DEF Tick, rxVars
<1>9. CASE UNCHANGED vars
    BY <1>9, SameLoop DEF vars, flowVars, rxVars
<1> QED
    BY <1>1, <1>2, <1>3, <1>4, <1>5, <1>6, <1>7, <1>8, <1>9 DEF Next

\* The headers, timers and records keep the promise of FeedbackLoop.
THEOREM FlowImplementsLoop == ASSUME Reach = 1 PROVE Spec => ImplementsLoop
<1>1. FlowInv /\ [Next]_vars => [Loop!Next]_(Loop!loopVars)
    BY LoopStep
<1> QED
    BY <1>1, LoopStart, FlowInvariant, PTL DEF ImplementsLoop, Spec, Loop!Spec
=============================================================================
