-------------------------- MODULE RmcatSenderProofs --------------------------
(***************************************************************************)
(* Machine-checked proofs about RmcatSender, for every set of packet       *)
(* sizes, rates and codec intervals and every length of the buffer.        *)
(*                                                                         *)
(* The inductive invariant adds to the properties that are proved: of the  *)
(* three kinds of events only overslept packets ever lose their handle,    *)
(* and whatever sends the next packet is due no earlier than what is owed  *)
(* to the packet before.                                                   *)
(***************************************************************************)
EXTENDS RmcatSender, SequenceTheorems, InductionLemmas, TLAPS

EnqueueEvent == [in : Nat, handle : BOOLEAN]
SendEvent == [in : Nat, slept : Nat, handle : BOOLEAN]
OversleepEvent == [in : Nat, size : Sizes, handle : BOOLEAN]

Types ==
    /\ algo \in {"ccfs", "nada"}
    /\ stage \in {"created", "started", "stopped"}
    /\ paused \in BOOLEAN
    /\ buffer \in Seq(Sizes)
    /\ enqueues \in Seq(EnqueueEvent)
    /\ sends \in Seq(SendEvent)
    /\ oversleeps \in Seq(OversleepEvent)
    /\ nextSendIn \in Nat
    /\ rSend \in Rates
    /\ owed \in Nat

\* Only the event scheduled last can be cancelled.
LastHandle(s) == \A i \in 1 .. Len(s) : i < Len(s) => ~s[i].handle
NoHandle(s) == \A i \in 1 .. Len(s) : ~s[i].handle

\* The member EventIds refer to the only EnqueuePacket, the only SendPacket and
\* the SendOverSleep scheduled last.
Handles ==
    /\ \A i \in 1 .. Len(enqueues) : enqueues[i].handle
    /\ LastHandle(oversleeps)
    /\ stage = "created" => ~paused

\* What sends the next packet is not due before the interval owed has passed.
OwedIsWaitedFor ==
    /\ Ccfs \/ stage = "created" => owed = 0
    /\ Active =>
          IF sends = <<>> THEN owed <= nextSendIn ELSE owed <= sends[1].in

\* The inductive invariant.
IInv == Types /\ Handles /\ TimerIffBacklog /\ QuietUnlessActive /\ OwedIsWaitedFor

-----------------------------------------------------------------------------
(* Events *)

\* The first event scheduled is the only one.
LEMMA ScheduleFirst == ASSUME NEW e PROVE Schedule(<<>>, e) = <<e>>
  BY DEF Schedule

\* Running the only event leaves none.
LEMMA RemoveOnly ==
  ASSUME NEW S, NEW s \in Seq(S), Len(s) = 1, NEW i \in 1 .. Len(s)
  PROVE  RemoveAt(s, i) = <<>>
  BY DEF RemoveAt

\* At most one event is none or one.
LEMMA AtMostOne ==
  ASSUME NEW S, NEW s \in Seq(S), Len(s) <= 1, s # <<>>
  PROVE  Len(s) = 1
<1> DEFINE n == Len(s)
<1>1. n \in Nat /\ n # 0 /\ n <= 1
  BY EmptySeq
<1> HIDE DEF n
<1>2. n = 1
  BY <1>1
<1> QED
  BY <1>2 DEF n

\* Cancelling the only event leaves none, and cancelling none changes nothing.
LEMMA CancelOnly ==
  ASSUME NEW S, NEW s \in Seq(S), Len(s) <= 1, \A i \in 1 .. Len(s) : s[i].handle
  PROVE  Cancel(s) = <<>>
<1>1. CASE s = <<>>
  BY <1>1 DEF Cancel
<1>2. CASE s # <<>>
  <2>1. Len(s) = 1
    BY <1>2, AtMostOne
  <2>2. Cancel(s) = SubSeq(s, 1, 0)
    BY <2>1 DEF Cancel
  <2> QED
    BY <2>1, <2>2, SubSeqEmpty
<1> QED
  BY <1>1, <1>2

LEMMA ScheduleOversleep ==
  ASSUME NEW s \in Seq(OversleepEvent), NEW e \in OversleepEvent
  PROVE  /\ Schedule(s, e) \in Seq(OversleepEvent)
         /\ Len(Schedule(s, e)) = Len(s) + 1
         /\ LastHandle(Schedule(s, e))
<1> DEFINE t == [i \in 1 .. Len(s) |-> [s[i] EXCEPT !.handle = FALSE]]
<1>1. Len(s) \in Nat /\ \A i \in 1 .. Len(s) : s[i] \in OversleepEvent
  BY ElementOfSeq, LenProperties
<1>2. \A i \in 1 .. Len(s) : t[i] \in OversleepEvent /\ ~t[i].handle
  BY <1>1 DEF OversleepEvent
<1>3. t \in Seq(OversleepEvent) /\ Len(t) = Len(s)
  <2>1. t \in [1 .. Len(s) -> OversleepEvent]
    BY <1>2
  <2> QED
    BY <1>1, <2>1, IsASeq, LenProperties
<1>4. Schedule(s, e) = Append(t, e)
  BY DEF Schedule
<1> HIDE DEF t
<1>5. /\ Append(t, e) \in Seq(OversleepEvent)
      /\ Len(Append(t, e)) = Len(t) + 1
      /\ \A i \in 1 .. Len(t) : Append(t, e)[i] = t[i]
  BY <1>3, AppendProperties
<1> QED
  BY <1>1, <1>2, <1>3, <1>4, <1>5 DEF LastHandle

LEMMA CancelOversleep ==
  ASSUME NEW s \in Seq(OversleepEvent), LastHandle(s)
  PROVE  /\ Cancel(s) \in Seq(OversleepEvent)
         /\ NoHandle(Cancel(s))
         /\ Len(Cancel(s)) <= Len(s)
<1> DEFINE n == Len(s)
<1>1. n \in Nat
  BY LenProperties
<1>2. CASE n > 0 /\ s[n].handle
  <2>1. Cancel(s) = SubSeq(s, 1, n - 1)
    BY <1>2 DEF Cancel
  <2>2. /\ SubSeq(s, 1, n - 1) \in Seq(OversleepEvent)
        /\ Len(SubSeq(s, 1, n - 1)) = n - 1
        /\ \A i \in 1 .. n - 1 : SubSeq(s, 1, n - 1)[i] = s[i]
    <3>1. n - 1 \in Int /\ \A i \in 1 .. n - 1 : s[i] \in OversleepEvent
      BY <1>1, ElementOfSeq
    <3> HIDE DEF n
    <3> QED
      BY <1>1, <1>2, <3>1, SubSeqProperties
  <2> QED
    BY <1>1, <2>1, <2>2 DEF LastHandle, NoHandle
<1>3. CASE ~(n > 0 /\ s[n].handle)
  BY <1>1, <1>3 DEF Cancel, LastHandle, NoHandle
<1> QED
  BY <1>2, <1>3

LEMMA RemoveOversleep ==
  ASSUME NEW s \in Seq(OversleepEvent), NEW i \in 1 .. Len(s)
  PROVE  /\ RemoveAt(s, i) \in Seq(OversleepEvent)
         /\ Len(RemoveAt(s, i)) = Len(s) - 1
         /\ LastHandle(s) => LastHandle(RemoveAt(s, i))
         /\ NoHandle(s) => NoHandle(RemoveAt(s, i))
<1> DEFINE n == Len(s)
           r == SubSeq(s, 1, i - 1) \o SubSeq(s, i + 1, n)
<1>1. n \in Nat /\ i \in Nat /\ 1 <= i /\ i <= n
  BY LenProperties
<1>2. /\ SubSeq(s, 1, i - 1) \in Seq(OversleepEvent)
      /\ Len(SubSeq(s, 1, i - 1)) = i - 1
      /\ \A j \in 1 .. i - 1 : SubSeq(s, 1, i - 1)[j] = s[j]
  <2>1. i - 1 \in Int /\ \A j \in 1 .. i - 1 : s[j] \in OversleepEvent
    BY <1>1, ElementOfSeq
  <2> HIDE DEF n
  <2> QED
    BY <1>1, <2>1, SubSeqProperties
<1>3. /\ SubSeq(s, i + 1, n) \in Seq(OversleepEvent)
      /\ Len(SubSeq(s, i + 1, n)) = n - i
      /\ \A j \in 1 .. n - i : SubSeq(s, i + 1, n)[j] = s[i + j]
  <2>1. i + 1 \in Int /\ \A j \in i + 1 .. n : s[j] \in OversleepEvent
    BY <1>1, ElementOfSeq
  <2> HIDE DEF n
  <2> QED
    BY <1>1, <2>1, SubSeqProperties
<1>4. /\ r \in Seq(OversleepEvent) /\ Len(r) = n - 1
      /\ \A j \in 1 .. n - 1 : r[j] = IF j < i THEN s[j] ELSE s[j + 1]
  <2> DEFINE front == SubSeq(s, 1, i - 1)
             rest == SubSeq(s, i + 1, n)
  <2> HIDE DEF front, rest, n
  <2>1. /\ front \o rest \in Seq(OversleepEvent)
        /\ Len(front \o rest) = Len(front) + Len(rest)
        /\ \A j \in 1 .. Len(front) + Len(rest) : (front \o rest)[j] =
                IF j <= Len(front) THEN front[j] ELSE rest[j - Len(front)]
    BY <1>2, <1>3, ConcatProperties DEF front, rest
  <2>2. /\ Len(front) = i - 1 /\ Len(rest) = n - i
        /\ \A j \in 1 .. i - 1 : front[j] = s[j]
        /\ \A j \in 1 .. n - i : rest[j] = s[i + j]
    BY <1>2, <1>3 DEF front, rest
  <2>3. ASSUME NEW j \in 1 .. n - 1
        PROVE  (front \o rest)[j] = IF j < i THEN s[j] ELSE s[j + 1]
    BY <1>1, <2>1, <2>2
  <2> QED
    BY <1>1, <2>1, <2>2, <2>3 DEF front, rest
<1>5. RemoveAt(s, i) = r
  BY DEF RemoveAt
<1> HIDE DEF n, r
<1>6. LastHandle(s) => LastHandle(r)
  BY <1>1, <1>4 DEF LastHandle, n
<1>7. NoHandle(s) => NoHandle(r)
  BY <1>1, <1>4 DEF NoHandle, n
<1> QED
  BY <1>4, <1>5, <1>6, <1>7 DEF n

LEMMA ElapseOversleep ==
  ASSUME NEW s \in Seq(OversleepEvent), Due(s) = {}
  PROVE  /\ Elapse(s) \in Seq(OversleepEvent)
         /\ Len(Elapse(s)) = Len(s)
         /\ LastHandle(s) => LastHandle(Elapse(s))
         /\ NoHandle(s) => NoHandle(Elapse(s))
<1>1. Len(s) \in Nat /\ \A i \in 1 .. Len(s) : s[i] \in OversleepEvent /\ s[i].in # 0
  BY ElementOfSeq, LenProperties DEF Due
<1>2. \A i \in 1 .. Len(s) : Elapse(s)[i] \in OversleepEvent /\ Elapse(s)[i].handle = s[i].handle
  BY <1>1 DEF Elapse, OversleepEvent
<1>3. Elapse(s) \in [1 .. Len(s) -> OversleepEvent]
  BY <1>2 DEF Elapse
<1>4. Elapse(s) \in Seq(OversleepEvent) /\ Len(Elapse(s)) = Len(s)
  BY <1>1, <1>3, IsASeq, LenProperties
<1> QED
  BY <1>2, <1>4 DEF LastHandle, NoHandle

\* The pacing interval is a number.
LEMMA IntervalType ==
  ASSUME NEW size \in Sizes, NEW rate \in Rates
  PROVE  Interval(size, rate) \in Nat
<1>1. size \in Nat /\ rate \in Nat \ {0} /\ BitTime \in Nat
  BY SenderAssumption
<1>2. size * BitTime \in Nat
  BY <1>1
<1> QED
  BY <1>1, <1>2 DEF Interval

\* A sequence of one event.
LEMMA Single ==
  ASSUME NEW S, NEW e \in S
  PROVE  <<e>> \in Seq(S) /\ Len(<<e>>) = 1 /\ <<e>>[1] = e /\ <<e>> # <<>>
  OBVIOUS

-----------------------------------------------------------------------------
(* What the invariant says of the events *)

\* A packet of the codec is due only in an active sender.
LEMMA EnqueueDue ==
  ASSUME IInv, NEW i \in Due(enqueues)
  PROVE  Active /\ RemoveAt(enqueues, i) = <<>>
<1>1. i \in 1 .. Len(enqueues) /\ enqueues \in Seq(EnqueueEvent)
  BY DEF Due, IInv, Types
<1>2. Active /\ Len(enqueues) = 1
  BY <1>1 DEF IInv, QuietUnlessActive
<1> QED
  BY <1>1, <1>2, RemoveOnly

\* When the pacing timer fires there is something to send, and nothing is owed.
LEMMA SendDue ==
  ASSUME IInv, NEW i \in Due(sends)
  PROVE  /\ Active /\ ~Ccfs /\ buffer # <<>> /\ owed = 0
         /\ RemoveAt(sends, i) = <<>>
         /\ sends[i] \in SendEvent
<1>1. i \in 1 .. Len(sends) /\ sends[i].in = 0 /\ sends \in Seq(SendEvent) /\ owed \in Nat
  BY DEF Due, IInv, Types
<1>2. Len(sends) = 1 /\ ~Ccfs /\ buffer # <<>> /\ i = 1
  <2>1. Len(sends) = IF Ccfs \/ buffer = <<>> THEN 0 ELSE 1
    BY DEF IInv, TimerIffBacklog
  <2>2. Len(sends) # 0
    BY <1>1
  <2>3. Len(sends) = 1 /\ ~(Ccfs \/ buffer = <<>>)
    BY <2>1, <2>2
  <2> QED
    BY <1>1, <2>3
<1>3. sends # <<>>
  BY <1>2
<1>4. Active
  BY <1>3 DEF IInv, QuietUnlessActive
<1>5. owed <= 0
  BY <1>1, <1>2, <1>3, <1>4 DEF IInv, OwedIsWaitedFor
<1> QED
  <2>1. owed = 0
    BY <1>1, <1>5
  <2>2. RemoveAt(sends, i) = <<>>
    BY <1>1, <1>2, RemoveOnly
  <2>3. sends[i] \in SendEvent
    BY <1>1, ElementOfSeq
  <2> QED
    BY <1>2, <1>4, <2>1, <2>2, <2>3

\* Cancelling leaves nothing but packets that oversleep without a handle.
LEMMA Quieted ==
  ASSUME IInv, Quiesce
  PROVE  /\ enqueues' = <<>> /\ sends' = <<>> /\ buffer' = <<>>
         /\ oversleeps' \in Seq(OversleepEvent)
         /\ NoHandle(oversleeps') /\ Len(oversleeps') <= Len(oversleeps)
<1>1. enqueues \in Seq(EnqueueEvent) /\ sends \in Seq(SendEvent)
      /\ oversleeps \in Seq(OversleepEvent) /\ LastHandle(oversleeps)
  BY DEF IInv, Types, Handles
<1>2. /\ Len(enqueues) <= 1 /\ \A i \in 1 .. Len(enqueues) : enqueues[i].handle
      /\ Len(sends) <= 1 /\ \A i \in 1 .. Len(sends) : sends[i].handle
  BY DEF IInv, Handles, TimerIffBacklog, QuietUnlessActive
<1>3. Cancel(enqueues) = <<>> /\ Cancel(sends) = <<>>
  BY <1>1, <1>2, CancelOnly
<1> QED
  BY <1>1, <1>3, CancelOversleep DEF Quiesce

\* Empty sequences have the types of the events and of the buffer.
LEMMA NoEvents ==
  /\ <<>> \in Seq(EnqueueEvent) /\ <<>> \in Seq(SendEvent)
  /\ <<>> \in Seq(OversleepEvent) /\ <<>> \in Seq(Sizes)
  /\ Len(<<>>) = 0
  BY EmptySeq

-----------------------------------------------------------------------------
(* Every step preserves the invariant *)

LEMMA InitInv == Init => IInv
<1> SUFFICES ASSUME Init PROVE IInv
  OBVIOUS
<1>1. Types
  BY NoEvents DEF Init, Types
<1>2. Handles
  BY NoEvents DEF Init, Handles, LastHandle
<1>3. TimerIffBacklog
  BY NoEvents DEF Init, TimerIffBacklog
<1>4. QuietUnlessActive
  BY NoEvents DEF Init, QuietUnlessActive, Active
<1>5. OwedIsWaitedFor
  BY DEF Init, OwedIsWaitedFor, Active
<1> QED
  BY <1>1, <1>2, <1>3, <1>4, <1>5 DEF IInv

LEMMA StartInv == ASSUME IInv, StartApplication PROVE IInv'
<1> DEFINE e == [in |-> 0, handle |-> TRUE]
<1>1. ~Active /\ ~paused /\ owed = 0
  BY DEF IInv, Handles, OwedIsWaitedFor, StartApplication, Active
<1>2. /\ enqueues = <<>> /\ sends = <<>> /\ buffer = <<>>
  <2>1. Len(enqueues) = 0 /\ sends = <<>> /\ buffer = <<>>
    BY <1>1 DEF IInv, QuietUnlessActive
  <2> QED
    BY <2>1, EmptySeq DEF IInv, Types
<1>3. /\ enqueues' = <<e>> /\ sends' = <<>> /\ buffer' = <<>>
      /\ oversleeps' = oversleeps /\ owed' = 0 /\ nextSendIn' = 0 /\ rSend' \in Rates
      /\ stage' = "started" /\ ~paused' /\ paused' = paused /\ fault' = fault /\ algo' = algo
  BY <1>1, <1>2, ScheduleFirst DEF StartApplication
<1>4. <<e>> \in Seq(EnqueueEvent) /\ Len(<<e>>) = 1 /\ <<e>>[1] = e
  <2>1. e \in EnqueueEvent
    BY DEF EnqueueEvent
  <2> QED
    BY <2>1, Single
<1>5. Types'
  BY <1>3, <1>4, NoEvents DEF IInv, Types
<1>6. Handles'
  BY <1>3, <1>4 DEF IInv, Handles
<1>7. TimerIffBacklog'
  BY <1>3, NoEvents DEF IInv, TimerIffBacklog
<1>8. QuietUnlessActive'
  BY <1>3, <1>4 DEF QuietUnlessActive, Active
<1>9. OwedIsWaitedFor'
  BY <1>3 DEF OwedIsWaitedFor
<1> QED
  BY <1>5, <1>6, <1>7, <1>8, <1>9 DEF IInv

LEMMA QuiesceInv == ASSUME IInv, StopApplication \/ Pause PROVE IInv'
<1>1. Quiesce
  BY DEF StopApplication, Pause
<1>2. /\ enqueues' = <<>> /\ sends' = <<>> /\ buffer' = <<>>
      /\ oversleeps' \in Seq(OversleepEvent) /\ NoHandle(oversleeps')
  BY <1>1, Quieted
<1>3. /\ stage' \in {"started", "stopped"} /\ paused' \in BOOLEAN /\ ~Active'
      /\ UNCHANGED <<algo, nextSendIn, rSend, owed, fault>>
  BY DEF StopApplication, Pause, Active, IInv, Types
<1>4. Types'
  BY <1>2, <1>3, NoEvents DEF IInv, Types
<1>5. Handles'
  BY <1>2, <1>3, NoEvents DEF Handles, LastHandle, NoHandle
<1>6. TimerIffBacklog'
  BY <1>2, <1>3, NoEvents DEF IInv, TimerIffBacklog
<1>7. QuietUnlessActive'
  BY <1>2, <1>3, NoEvents DEF QuietUnlessActive, NoHandle
<1>8. OwedIsWaitedFor'
  BY <1>3 DEF IInv, OwedIsWaitedFor, Ccfs
<1> QED
  BY <1>4, <1>5, <1>6, <1>7, <1>8 DEF IInv

LEMMA ResumeInv == ASSUME IInv, Resume PROVE IInv'
<1> DEFINE e == [in |-> 0, handle |-> TRUE]
<1>1. ~Active
  BY DEF Resume, Active
<1>2. /\ enqueues = <<>> /\ sends = <<>> /\ buffer = <<>>
  <2>1. Len(enqueues) = 0 /\ sends = <<>> /\ buffer = <<>>
    BY <1>1 DEF IInv, QuietUnlessActive
  <2> QED
    BY <2>1, EmptySeq DEF IInv, Types
<1>3. /\ enqueues' = <<e>> /\ sends' = <<>> /\ buffer' = <<>>
      /\ oversleeps' = oversleeps /\ owed' = 0 /\ nextSendIn' = 0 /\ rSend' \in Rates
      /\ stage' = stage /\ stage' = "started" /\ paused' = FALSE /\ fault' = fault /\ algo' = algo
  BY <1>2, ScheduleFirst DEF Resume
<1>4. <<e>> \in Seq(EnqueueEvent) /\ Len(<<e>>) = 1 /\ <<e>>[1] = e
  <2>1. e \in EnqueueEvent
    BY DEF EnqueueEvent
  <2> QED
    BY <2>1, Single
<1>5. Types'
  BY <1>3, <1>4, NoEvents DEF IInv, Types
<1>6. Handles'
  BY <1>3, <1>4 DEF IInv, Handles
<1>7. TimerIffBacklog'
  BY <1>3, NoEvents DEF IInv, TimerIffBacklog
<1>8. QuietUnlessActive'
  BY <1>3, <1>4 DEF QuietUnlessActive, Active
<1>9. OwedIsWaitedFor'
  BY <1>3 DEF OwedIsWaitedFor
<1> QED
  BY <1>5, <1>6, <1>7, <1>8, <1>9 DEF IInv

LEMMA EnqueueInv == ASSUME IInv, EnqueuePacket PROVE IInv'
<1>1. PICK i \in Due(enqueues), size \in Sizes, next \in CodecIntervals :
        LET pushed == Append(buffer, size) IN
        /\ enqueues' = Schedule(RemoveAt(enqueues, i), [in |-> next, handle |-> TRUE])
        /\ \/ Ccfs /\ buffer' = pushed /\ UNCHANGED sends
           \/ Ccfs /\ buffer' = <<>> /\ UNCHANGED sends
           \/ /\ ~Ccfs
              /\ buffer' = pushed
              /\ sends' = IF Len(pushed) = 1
                          THEN Schedule(sends, TimerForFirst)
                          ELSE sends
  BY DEF EnqueuePacket
<1> DEFINE e == [in |-> next, handle |-> TRUE]
           f == TimerForFirst
           pushed == Append(buffer, size)
<1>2. Active /\ RemoveAt(enqueues, i) = <<>>
  BY EnqueueDue
<1>3. UNCHANGED <<algo, stage, paused, oversleeps, nextSendIn, rSend, owed, fault>>
  BY DEF EnqueuePacket
<1>4. e \in EnqueueEvent /\ f \in SendEvent
  BY SenderAssumption DEF EnqueueEvent, SendEvent, TimerForFirst, IInv, Types
<1>5. enqueues' = <<e>>
  BY <1>1, <1>2, ScheduleFirst
<1>6. /\ <<e>> \in Seq(EnqueueEvent) /\ Len(<<e>>) = 1 /\ <<e>>[1] = e
      /\ <<f>> \in Seq(SendEvent) /\ Len(<<f>>) = 1 /\ <<f>>[1] = f /\ <<f>> # <<>>
      /\ f.handle
  BY <1>4, Single DEF TimerForFirst
<1>7. pushed \in Seq(Sizes) /\ Len(pushed) = Len(buffer) + 1 /\ pushed # <<>>
      /\ Len(buffer) \in Nat
  <2>1. buffer \in Seq(Sizes)
    BY DEF IInv, Types
  <2>2. pushed \in Seq(Sizes) /\ Len(pushed) = Len(buffer) + 1 /\ Len(buffer) \in Nat
    BY <2>1, AppendProperties, LenProperties
  <2>3. Len(pushed) # 0
    BY <2>2
  <2> QED
    BY <2>2, <2>3, EmptySeq
<1>8. \/ /\ buffer' \in Seq(Sizes)
         /\ sends' = sends
         /\ Ccfs \/ (buffer' # <<>> /\ buffer # <<>>)
      \/ ~Ccfs /\ buffer' = pushed /\ sends' = <<f>>
  <2>1. CASE Ccfs
    BY <1>1, <1>7, <2>1, NoEvents
  <2>2. CASE ~Ccfs /\ Len(pushed) = 1
    <3>1. buffer = <<>>
      BY <1>7, <2>2, EmptySeq DEF IInv, Types
    <3>2. sends = <<>>
      BY <3>1, EmptySeq DEF IInv, TimerIffBacklog, Types
    <3> QED
      BY <1>1, <2>2, <3>2, ScheduleFirst
  <2>3. CASE ~Ccfs /\ Len(pushed) # 1
    <3>1. buffer # <<>>
      BY <1>7, <2>3, EmptySeq
    <3> QED
      BY <1>1, <1>7, <2>3, <3>1
  <2> QED
    BY <2>1, <2>2, <2>3
<1> HIDE DEF pushed, e
<1>9. Types'
  BY <1>3, <1>5, <1>6, <1>7, <1>8 DEF IInv, Types
<1>10. Handles'
  <2>1. \A j \in 1 .. Len(enqueues') : enqueues'[j].handle
    BY <1>5, <1>6 DEF e
  <2> QED
    BY <1>3, <2>1 DEF IInv, Handles
<1>11. TimerIffBacklog'
  BY <1>3, <1>6, <1>7, <1>8 DEF IInv, TimerIffBacklog, Ccfs
<1>12. QuietUnlessActive'
  BY <1>2, <1>3, <1>5, <1>6 DEF QuietUnlessActive, Active
<1>13. OwedIsWaitedFor'
  <2>1. Active' /\ stage' # "created" /\ (Ccfs' <=> Ccfs) /\ owed' = owed
        /\ nextSendIn' = nextSendIn
    BY <1>2, <1>3 DEF Active, Ccfs
  <2>2. Ccfs => owed = 0
    BY DEF IInv, OwedIsWaitedFor
  <2>3. IF sends = <<>> THEN owed <= nextSendIn ELSE owed <= sends[1].in
    BY <1>2 DEF IInv, OwedIsWaitedFor
  <2>4. IF sends' = <<>> THEN owed' <= nextSendIn' ELSE owed' <= sends'[1].in
    <3>1. CASE sends' = sends
      BY <2>1, <2>3, <3>1
    <3>2. CASE ~Ccfs /\ buffer' = pushed /\ sends' = <<f>> /\ sends' # sends
      <4>1. owed <= nextSendIn
        <5>1. CASE sends = <<>>
          BY <2>3, <5>1
        <5>2. CASE sends # <<>>
          <6>1. Len(pushed) # 1
            BY <1>7, <1>8, <3>2, <5>2, EmptySeq DEF IInv, TimerIffBacklog, Types
          <6>2. sends' = sends
            BY <1>1, <3>2, <6>1 DEF pushed
          <6> QED
            BY <3>2, <6>2
        <5> QED
          BY <5>1, <5>2
      <4>2. f.in = nextSendIn
        BY DEF TimerForFirst
      <4> HIDE DEF f
      <4> QED
        BY <1>6, <2>1, <3>2, <4>1, <4>2
    <3> QED
      BY <1>8, <3>1, <3>2
  <2> QED
    BY <2>1, <2>2, <2>4 DEF OwedIsWaitedFor
<1> QED
  BY <1>9, <1>10, <1>11, <1>12, <1>13 DEF IInv

LEMMA SendInv == ASSUME IInv, SendPacket PROVE IInv'
<1> DEFINE gap == Interval(Head(buffer), rSend)
           g == [in |-> gap, slept |-> gap, handle |-> TRUE]
<1>1. PICK i \in Due(sends) :
        LET left == RemoveAt(sends, i) IN
        \/ buffer = <<>>
        \/ /\ buffer # <<>>
           /\ buffer' = Tail(buffer)
           /\ \E over \in 0 .. sends[i].slept \div OversleepDivisor :
                oversleeps' = Schedule(oversleeps, [in |-> over, size |-> Head(buffer),
                                                    handle |-> TRUE])
           /\ IF Tail(buffer) = <<>>
              THEN /\ nextSendIn' = gap
                   /\ sends' = left
              ELSE /\ sends' = Schedule(left, g)
                   /\ UNCHANGED nextSendIn
           /\ owed' = gap
           /\ UNCHANGED fault
  BY DEF SendPacket, Rearmed
<1>2. /\ Active /\ ~Ccfs /\ buffer # <<>>
      /\ RemoveAt(sends, i) = <<>>
      /\ sends[i] \in SendEvent
  BY SendDue
<1>3. UNCHANGED <<algo, stage, paused, enqueues, rSend>>
  BY DEF SendPacket
<1>4. Head(buffer) \in Sizes /\ Head(buffer) \in Nat /\ Tail(buffer) \in Seq(Sizes)
  <2>1. Head(buffer) \in Sizes /\ Tail(buffer) \in Seq(Sizes)
    BY <1>2, HeadTailProperties DEF IInv, Types
  <2> QED
    BY <2>1, SenderAssumption
<1>5. gap \in Nat
  BY <1>4, IntervalType DEF IInv, Types
<1>6. g \in SendEvent
  BY <1>5 DEF SendEvent
<1>7. PICK over \in 0 .. sends[i].slept \div OversleepDivisor :
        oversleeps' = Schedule(oversleeps, [in |-> over, size |-> Head(buffer), handle |-> TRUE])
  BY <1>1, <1>2
<1>8. oversleeps' \in Seq(OversleepEvent) /\ LastHandle(oversleeps')
  <2>1. over \in Nat
    <3>1. sends[i].slept \in Nat /\ OversleepDivisor \in Nat \ {0}
      BY <1>2, SenderAssumption DEF SendEvent
    <3> QED
      BY <3>1
  <2>2. [in |-> over, size |-> Head(buffer), handle |-> TRUE] \in OversleepEvent
    BY <1>4, <2>1 DEF OversleepEvent
  <2> QED
    BY <1>7, <2>2, ScheduleOversleep DEF IInv, Types
<1> HIDE DEF gap, g
<1>9. /\ buffer' = Tail(buffer) /\ owed' = gap /\ fault' = fault
      /\ \/ buffer' = <<>> /\ sends' = <<>> /\ nextSendIn' = gap
         \/ buffer' # <<>> /\ sends' = <<g>> /\ nextSendIn' = nextSendIn
  BY <1>1, <1>2, ScheduleFirst
<1>10. <<g>> \in Seq(SendEvent) /\ Len(<<g>>) = 1 /\ <<g>>[1] = g /\ <<g>> # <<>>
       /\ g.in = gap /\ g.handle
  <2>1. g.in = gap /\ g.handle
    BY DEF g
  <2> QED
    BY <1>6, <2>1, Single
<1>11. Types'
  BY <1>3, <1>4, <1>5, <1>8, <1>9, <1>10, NoEvents DEF IInv, Types
<1>12. Handles'
  BY <1>3, <1>8 DEF IInv, Handles
<1>13. TimerIffBacklog'
  BY <1>2, <1>3, <1>9, <1>10, NoEvents DEF IInv, TimerIffBacklog, Ccfs
<1>14. QuietUnlessActive'
  BY <1>2, <1>3 DEF IInv, QuietUnlessActive, Active
<1>15. OwedIsWaitedFor'
  <2>1. ~Ccfs' /\ stage' # "created"
    BY <1>2, <1>3 DEF Active, Ccfs
  <2>2. IF sends' = <<>> THEN owed' <= nextSendIn' ELSE owed' <= sends'[1].in
    BY <1>5, <1>9, <1>10
  <2> QED
    BY <2>1, <2>2 DEF OwedIsWaitedFor
<1> QED
  BY <1>11, <1>12, <1>13, <1>14, <1>15 DEF IInv

LEMMA OverSleepInv == ASSUME IInv, SendOverSleep PROVE IInv'
<1>1. PICK i \in Due(oversleeps) : oversleeps' = RemoveAt(oversleeps, i)
  BY DEF SendOverSleep
<1>2. UNCHANGED <<algo, stage, paused, buffer, enqueues, sends, nextSendIn, rSend, owed, fault>>
  BY DEF SendOverSleep
<1>3. /\ oversleeps' \in Seq(OversleepEvent) /\ LastHandle(oversleeps')
      /\ NoHandle(oversleeps) => NoHandle(oversleeps')
  BY <1>1, RemoveOversleep DEF IInv, Types, Handles, Due
<1>4. Types' /\ Handles'
  BY <1>2, <1>3 DEF IInv, Types, Handles
<1>5. TimerIffBacklog' /\ OwedIsWaitedFor'
  BY <1>2 DEF IInv, TimerIffBacklog, OwedIsWaitedFor, Ccfs, Active
<1>6. QuietUnlessActive'
  BY <1>2, <1>3 DEF IInv, QuietUnlessActive, Active, NoHandle
<1> QED
  BY <1>4, <1>5, <1>6 DEF IInv

LEMMA RecvInv == ASSUME IInv, RecvPacket \/ UNCHANGED vars PROVE IInv'
<1>1. /\ rSend' \in Rates
      /\ UNCHANGED <<algo, stage, paused, buffer, enqueues, sends, oversleeps, nextSendIn,
                     owed, fault>>
  BY DEF RecvPacket, vars, IInv, Types
<1>2. Types' /\ Handles'
  BY <1>1 DEF IInv, Types, Handles
<1>3. TimerIffBacklog' /\ OwedIsWaitedFor' /\ QuietUnlessActive'
  BY <1>1 DEF IInv, TimerIffBacklog, OwedIsWaitedFor, QuietUnlessActive, Ccfs, Active
<1> QED
  BY <1>2, <1>3 DEF IInv

LEMMA TickInv == ASSUME IInv, Tick PROVE IInv'
<1>1. /\ Due(sends) = {} /\ Due(oversleeps) = {}
      /\ enqueues' = [i \in 1 .. Len(enqueues) |-> [enqueues[i] EXCEPT !.in = Dec0(@)]]
      /\ sends' = Elapse(sends) /\ oversleeps' = Elapse(oversleeps)
      /\ nextSendIn' = Dec0(nextSendIn) /\ owed' = Dec0(owed)
      /\ UNCHANGED <<algo, stage, paused, buffer, rSend, fault>>
  BY DEF Tick
<1>2. /\ enqueues \in Seq(EnqueueEvent) /\ sends \in Seq(SendEvent)
      /\ oversleeps \in Seq(OversleepEvent)
      /\ nextSendIn \in Nat /\ owed \in Nat
  BY DEF IInv, Types
<1>3. /\ nextSendIn' \in Nat /\ owed' \in Nat /\ owed' <= owed
      /\ owed <= nextSendIn => owed' <= nextSendIn'
      /\ owed = 0 => owed' = 0
  BY <1>1, <1>2 DEF Dec0
<1>4. /\ enqueues' \in Seq(EnqueueEvent) /\ Len(enqueues') = Len(enqueues)
      /\ \A i \in 1 .. Len(enqueues) : enqueues'[i].handle = enqueues[i].handle
  <2>1. Len(enqueues) \in Nat /\ \A i \in 1 .. Len(enqueues) : enqueues[i] \in EnqueueEvent
    BY <1>2, ElementOfSeq, LenProperties
  <2>2. \A i \in 1 .. Len(enqueues) : /\ enqueues'[i] \in EnqueueEvent
                                      /\ enqueues'[i].handle = enqueues[i].handle
    BY <1>1, <2>1 DEF EnqueueEvent, Dec0
  <2>3. enqueues' \in [1 .. Len(enqueues) -> EnqueueEvent]
    BY <1>1, <2>2
  <2>4. enqueues' \in Seq(EnqueueEvent) /\ Len(enqueues') = Len(enqueues)
    BY <2>1, <2>3, IsASeq, LenProperties
  <2> QED
    BY <2>2, <2>4
<1>5. /\ sends' \in Seq(SendEvent) /\ Len(sends') = Len(sends)
      /\ \A i \in 1 .. Len(sends) : /\ sends'[i].handle = sends[i].handle
                                    /\ sends[i].in > 0 /\ sends'[i].in = sends[i].in - 1
                                    /\ sends[i].in \in Nat
  <2>1. /\ Len(sends) \in Nat
        /\ \A i \in 1 .. Len(sends) : sends[i] \in SendEvent /\ sends[i].in # 0
    BY <1>1, <1>2, ElementOfSeq, LenProperties DEF Due
  <2>2. \A i \in 1 .. Len(sends) : /\ sends'[i] \in SendEvent
                                   /\ sends'[i].handle = sends[i].handle
                                   /\ sends[i].in > 0 /\ sends'[i].in = sends[i].in - 1
                                   /\ sends[i].in \in Nat
    <3> SUFFICES ASSUME NEW i \in 1 .. Len(sends)
                 PROVE  /\ sends'[i] \in SendEvent
                        /\ sends'[i].handle = sends[i].handle
                        /\ sends[i].in > 0 /\ sends'[i].in = sends[i].in - 1
                        /\ sends[i].in \in Nat
      OBVIOUS
    <3>1. sends'[i] = [sends[i] EXCEPT !.in = @ - 1]
      BY <1>1 DEF Elapse
    <3>2. sends[i] \in SendEvent /\ sends[i].in \in Nat /\ sends[i].in > 0
      BY <2>1 DEF SendEvent
    <3>3. sends[i].in - 1 \in Nat
      BY <3>2
    <3>4. sends'[i].in = sends[i].in - 1 /\ sends'[i].handle = sends[i].handle
      BY <3>1, <3>2 DEF SendEvent
    <3>5. sends'[i] \in SendEvent
      BY <3>1, <3>2, <3>3 DEF SendEvent
    <3> QED
      BY <3>2, <3>4, <3>5
  <2>3. sends' \in [1 .. Len(sends) -> SendEvent]
    BY <1>1, <2>2 DEF Elapse
  <2>4. sends' \in Seq(SendEvent) /\ Len(sends') = Len(sends)
    BY <2>1, <2>3, IsASeq, LenProperties
  <2> QED
    BY <2>2, <2>4
<1>6. /\ oversleeps' \in Seq(OversleepEvent)
      /\ LastHandle(oversleeps) => LastHandle(oversleeps')
      /\ NoHandle(oversleeps) => NoHandle(oversleeps')
  BY <1>1, <1>2, ElapseOversleep
<1>7. sends' = <<>> <=> sends = <<>>
  BY <1>2, <1>5, EmptySeq
<1>8. Types'
  BY <1>1, <1>3, <1>4, <1>5, <1>6 DEF IInv, Types
<1>9. Handles'
  BY <1>1, <1>4, <1>6 DEF IInv, Handles
<1>10. TimerIffBacklog'
  BY <1>1, <1>5 DEF IInv, TimerIffBacklog, Ccfs
<1>11. QuietUnlessActive'
  BY <1>1, <1>4, <1>6, <1>7 DEF IInv, QuietUnlessActive, Active, NoHandle
<1>12. OwedIsWaitedFor'
  <2>1. Ccfs' \/ stage' = "created" => owed' = 0
    BY <1>1, <1>3 DEF IInv, OwedIsWaitedFor, Ccfs
  <2>2. ASSUME Active', sends' = <<>>
        PROVE  owed' <= nextSendIn'
    BY <1>1, <1>3, <1>7, <2>2 DEF IInv, OwedIsWaitedFor, Active
  <2>3. ASSUME Active', sends' # <<>>
        PROVE  owed' <= sends'[1].in
    <3>1. owed <= sends[1].in
      BY <1>1, <1>7, <2>3 DEF IInv, OwedIsWaitedFor, Active
    <3>2. 1 \in 1 .. Len(sends)
      BY <1>2, <1>7, <2>3, EmptySeq
    <3>3. sends[1].in \in Nat /\ sends[1].in > 0 /\ sends'[1].in = sends[1].in - 1
      BY <1>5, <3>2
    <3> QED
      BY <1>1, <1>2, <3>1, <3>3 DEF Dec0
  <2> QED
    BY <2>1, <2>2, <2>3 DEF OwedIsWaitedFor
<1> QED
  BY <1>8, <1>9, <1>10, <1>11, <1>12 DEF IInv

LEMMA StepInv == ASSUME IInv, [Next]_vars PROVE IInv'
  BY StartInv, QuiesceInv, ResumeInv, EnqueueInv, SendInv, OverSleepInv, RecvInv, TickInv
     DEF Next

-----------------------------------------------------------------------------
(* The properties *)

\* Every variable has its type, the member EventIds refer to the events that can
\* be cancelled, and no packet is due before its pacing interval is over.
THEOREM Invariance == Spec => []IInv
  BY InitInv, StepInv, PTL DEF Spec

\* Every variable keeps the type it is declared with.
THEOREM TypesAreKept == Spec => []TypeOK
<1>1. IInv => TypeOK
  BY DEF IInv, Types, EnqueueEvent, SendEvent, OversleepEvent, TypeOK
<1> QED
  BY <1>1, Invariance, PTL

\* With a backlog exactly one SendPacket is pending and without one none is, so
\* that SendPacket never finds the buffer empty (its NS_ASSERT).
THEOREM TimerRunsIffBacklog == Spec => []TimerIffBacklog
<1>1. IInv => TimerIffBacklog
  BY DEF IInv
<1> QED
  BY <1>1, Invariance, PTL

\* A stopped or paused sender has neither a codec event nor a SendPacket event
\* pending and nothing buffered, and resuming it never starts a second chain of
\* codec events.  What may still be pending is the oversleep of a packet whose
\* EventId a later one overwrote: that packet is sent all the same.
THEOREM QuietWhenInactive == Spec => []QuietUnlessActive
<1>1. IInv => QuietUnlessActive
  BY DEF IInv
<1> QED
  BY <1>1, Invariance, PTL

\* A step that sends a packet, or owes a longer interval, owes nothing before.
LEMMA PacedStep ==
  ASSUME IInv, [Next]_vars, owed' > owed \/ Len(oversleeps') > Len(oversleeps)
  PROVE  owed = 0
<1>1. owed \in Nat /\ oversleeps \in Seq(OversleepEvent) /\ Len(oversleeps) \in Nat
  BY LenProperties DEF IInv, Types
<1>2. CASE SendPacket
  BY <1>2, SendDue DEF SendPacket
<1>3. CASE StopApplication \/ Pause
  <2>1. Len(oversleeps') <= Len(oversleeps)
    BY <1>3, Quieted DEF StopApplication, Pause
  <2>2. oversleeps' \in Seq(OversleepEvent)
    BY <1>3, Quieted DEF StopApplication, Pause
  <2>3. Len(oversleeps') \in Nat /\ owed' = owed
    BY <1>3, <2>2, LenProperties DEF StopApplication, Pause
  <2> QED
    BY <1>1, <2>1, <2>3
<1>4. CASE SendOverSleep
  <2>1. Len(oversleeps') = Len(oversleeps) - 1 /\ owed' = owed
    BY <1>1, <1>4, RemoveOversleep DEF SendOverSleep, Due
  <2> QED
    BY <1>1, <2>1
<1>5. CASE Tick
  <2>1. Len(oversleeps') = Len(oversleeps)
    BY <1>1, <1>5, ElapseOversleep DEF Tick
  <2>2. owed' = Dec0(owed)
    BY <1>5 DEF Tick
  <2> QED
    BY <1>1, <2>1, <2>2 DEF Dec0
<1>6. CASE StartApplication \/ EnqueuePacket \/ RecvPacket \/ UNCHANGED vars
  <2>1. owed' = owed /\ oversleeps' = oversleeps
    BY <1>6 DEF StartApplication, EnqueuePacket, RecvPacket, vars
  <2> QED
    BY <1>1, <2>1
<1>7. CASE Resume
  <2>1. owed' = 0 /\ oversleeps' = oversleeps
    BY <1>7 DEF Resume
  <2> QED
    BY <1>1, <2>1
<1> QED
  BY <1>2, <1>3, <1>4, <1>5, <1>6, <1>7 DEF Next

\* A packet leaves the rate-shaping buffer no earlier than the pacing interval of
\* the packet before it allows, whatever feedback does to the rate meanwhile and
\* however often the buffer runs empty in between.
THEOREM SendingIsPaced == Spec => Paced
<1>1. IInv /\ [Next]_vars =>
        [owed' > owed \/ Len(oversleeps') > Len(oversleeps) => owed = 0]_vars
  BY PacedStep
<1> QED
  BY <1>1, Invariance, PTL DEF Spec, Paced

-----------------------------------------------------------------------------
(* The size of the buffer *)

LEMMA SumOfIntegers ==
  ASSUME NEW s \in Seq(Int)
  PROVE  /\ Len(s) \in Nat
         /\ Integers(s, Len(s))
         /\ SumFunction(s) = Total(s, 1 .. Len(s))
<1>1. Len(s) \in Nat /\ DOMAIN s = 1 .. Len(s) /\ Integers(s, Len(s))
  BY LenProperties, ElementOfSeq DEF Integers
<1> DEFINE n == Len(s)
<1>2. n \in Nat /\ DOMAIN s = 1 .. n /\ Integers(s, n)
  BY <1>1
<1> HIDE DEF n
<1>3. SumFunction(s) = Total(s, 1 .. n)
  BY <1>2, SumFunctionIsTotal
<1> QED
  BY <1>1, <1>3 DEF n

LEMMA EmptyBytes == SumFunction(<<>>) = 0
<1>1. <<>> \in Seq(Int) /\ 1 .. Len(<<>>) = {}
  OBVIOUS
<1> QED
  BY <1>1, SumOfIntegers, TotalEmpty

\* A packet at the back of the buffer adds its size.
LEMMA AppendBytes ==
  ASSUME NEW s \in Seq(Int), NEW x \in Int
  PROVE  SumFunction(Append(s, x)) = SumFunction(s) + x
<1> DEFINE n == Len(s)
           g == Append(s, x)
<1>1. /\ g \in Seq(Int) /\ Len(g) = n + 1 /\ n \in Nat
      /\ \A i \in 1 .. n : g[i] = s[i]
      /\ g[n + 1] = x
  BY AppendProperties, LenProperties
<1> HIDE DEF g
<1>2. Integers(g, n + 1) /\ SumFunction(g) = Total(g, 1 .. n + 1)
  BY <1>1, SumOfIntegers
<1>3. Integers(s, n) /\ SumFunction(s) = Total(s, 1 .. n)
  BY SumOfIntegers
<1> HIDE DEF n
<1>4. Total(g, 1 .. n) \in Int /\ Total(g, 1 .. n + 1) = g[n + 1] + Total(g, 1 .. n)
  BY <1>1, <1>2, TotalNext DEF Integers
<1>5. Total(s, 1 .. n) = Total(g, 1 .. n)
  BY <1>1, <1>3, TotalAgrees DEF Integers
<1>6. SumFunction(g) = SumFunction(s) + x
  BY <1>1, <1>2, <1>3, <1>4, <1>5
<1> QED
  BY <1>6 DEF g

\* A packet taken from the front of the buffer takes its size away.
LEMMA TailBytes ==
  ASSUME NEW s \in Seq(Int), s # <<>>
  PROVE  SumFunction(Tail(s)) = SumFunction(s) - Head(s)
<1> DEFINE n == Len(s)
           m == n - 1
           t == Tail(s)
<1>1. n \in Nat \ {0}
  BY EmptySeq, LenProperties
<1>2. /\ t \in Seq(Int) /\ Len(t) = m /\ m \in Nat /\ 1 + m = n
      /\ \A i \in 1 .. m : t[i] = s[i + 1]
      /\ Head(s) = s[1]
  BY <1>1, HeadTailProperties
<1> HIDE DEF t
<1>3. Integers(s, n) /\ SumFunction(s) = Total(s, 1 .. n)
  BY SumOfIntegers
<1>4. SumFunction(t) = Total(t, 1 .. m)
  BY <1>2, SumOfIntegers
<1>5. s[1] \in Int
  BY <1>1, <1>3 DEF Integers
<1>6. Integers(s, 1 + m) /\ Continues(t, s, 1, m)
  BY <1>2, <1>3 DEF Continues
<1> HIDE DEF n, m
<1>7. /\ Total(s, 1 .. 1) \in Int /\ Total(t, 1 .. m) \in Int
      /\ Total(s, 1 .. 1 + m) = Total(s, 1 .. 1) + Total(t, 1 .. m)
  <2> DEFINE k == 1
  <2>1. k \in Nat /\ m \in Nat /\ Integers(s, k + m) /\ Continues(t, s, k, m)
    BY <1>2, <1>6
  <2> HIDE DEF k
  <2>2. /\ Total(s, 1 .. k) \in Int /\ Total(t, 1 .. m) \in Int
        /\ Total(s, 1 .. k + m) = Total(s, 1 .. k) + Total(t, 1 .. m)
    BY <2>1, TotalSplit
  <2> QED
    BY <2>2 DEF k
<1>8. Total(s, 1 .. 1) = s[1]
  <2>1. \A i \in 1 .. 0 + 1 : s[i] \in Int
    BY <1>5
  <2>2. Total(s, 1 .. 0 + 1) = s[0 + 1] + Total(s, 1 .. 0)
    BY <2>1, TotalNext
  <2>3. 1 .. 0 = {} /\ 0 + 1 = 1
    OBVIOUS
  <2>4. Total(s, 1 .. 0) = 0
    BY <2>3, TotalEmpty
  <2> QED
    BY <1>5, <2>2, <2>3, <2>4
<1>9. SumFunction(t) = SumFunction(s) - Head(s)
  BY <1>2, <1>3, <1>4, <1>5, <1>7, <1>8
<1> QED
  BY <1>9 DEF t

\* Nothing but the two ends of the buffer changes its size.
LEMMA BufferStep ==
  ASSUME IInv, BufferAccounted, [Next]_vars
  PROVE  BufferAccounted'
<1>1. buffer \in Seq(Sizes) /\ buffer \in Seq(Int)
  <2>1. buffer \in Seq(Sizes) /\ Sizes \subseteq Int
    BY SenderAssumption DEF IInv, Types
  <2>2. \A i \in 1 .. Len(buffer) : buffer[i] \in Int
    BY <2>1, ElementOfSeq
  <2>3. Len(buffer) \in Nat /\ buffer = [i \in 1 .. Len(buffer) |-> buffer[i]]
    BY <2>1, LenProperties, SeqDef
  <2> QED
    BY <2>1, <2>2, <2>3, IsASeq
<1>2. CASE UNCHANGED <<algo, buffer, bytes>>
  BY <1>2 DEF BufferAccounted, Ccfs
<1>3. CASE buffer' = <<>> /\ bytes' = 0 /\ UNCHANGED algo
  BY <1>3, EmptyBytes DEF BufferAccounted
<1>4. CASE EnqueuePacket /\ ~(buffer' = <<>> /\ bytes' = 0)
  <2>1. PICK size \in Sizes : /\ buffer' = Append(buffer, size)
                              /\ bytes' = bytes + size
                              /\ Ccfs => size = 1
                              /\ UNCHANGED algo
    BY <1>4 DEF EnqueuePacket
  <2>2. size \in Int
    BY SenderAssumption
  <2>3. bytes' = SumFunction(buffer')
    BY <1>1, <2>1, <2>2, AppendBytes DEF BufferAccounted
  <2>4. ASSUME Ccfs', NEW i \in 1 .. Len(buffer')
        PROVE  buffer'[i] = 1
    <3>1. /\ Len(buffer) \in Nat /\ Len(buffer') = Len(buffer) + 1
          /\ \A j \in 1 .. Len(buffer) : buffer'[j] = buffer[j]
          /\ buffer'[Len(buffer) + 1] = size
      BY <1>1, <2>1, AppendProperties, LenProperties
    <3>2. Ccfs /\ size = 1 /\ \A j \in 1 .. Len(buffer) : buffer[j] = 1
      BY <2>1, <2>4 DEF BufferAccounted, Ccfs
    <3>3. i \in 1 .. Len(buffer) \/ i = Len(buffer) + 1
      BY <3>1
    <3> QED
      BY <3>1, <3>2, <3>3
  <2> QED
    BY <2>3, <2>4 DEF BufferAccounted
<1>5. CASE SendPacket
  <2>1. buffer # <<>> /\ ~Ccfs
    BY <1>5, SendDue DEF SendPacket
  <2>2. buffer' = Tail(buffer) /\ bytes' = bytes - Head(buffer) /\ UNCHANGED algo
    BY <1>5, <2>1 DEF SendPacket
  <2>3. bytes' = SumFunction(buffer')
    BY <1>1, <2>1, <2>2, TailBytes DEF BufferAccounted
  <2> QED
    BY <2>1, <2>2, <2>3 DEF BufferAccounted, Ccfs
<1>6. StopApplication \/ Pause => buffer' = <<>> /\ bytes' = 0 /\ UNCHANGED algo
  BY DEF StopApplication, Pause, Quiesce
<1>7. EnqueuePacket => UNCHANGED algo
  BY DEF EnqueuePacket
<1>8. StartApplication \/ Resume \/ SendOverSleep \/ RecvPacket \/ Tick \/ UNCHANGED vars
        => UNCHANGED <<algo, buffer, bytes>>
  BY DEF StartApplication, Resume, SendOverSleep, RecvPacket, Tick, vars
<1> QED
  BY <1>2, <1>3, <1>4, <1>5, <1>6, <1>7, <1>8 DEF Next

\* m_rateShapingBytes never drifts from the packets in the buffer, however
\* enqueueing, sending, pausing and stopping follow each other; with CCFS only
\* one-byte packets ever wait.
THEOREM BufferIsAccounted == Spec => []BufferAccounted
<1>1. Init => BufferAccounted
  BY EmptyBytes DEF Init, BufferAccounted
<1>2. IInv /\ BufferAccounted /\ [Next]_vars => BufferAccounted'
  BY BufferStep
<1> QED
  BY <1>1, <1>2, Invariance, PTL DEF Spec
=============================================================================
