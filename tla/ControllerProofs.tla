-------------------------- MODULE ControllerProofs --------------------------
(***************************************************************************)
(* Machine-checked proofs about the controllers: SenderBasedController,    *)
(* and NadaController, which inherits it.                                  *)
(*                                                                         *)
(* SenderBasedController, for every width of the sequence numbers, every   *)
(* window and every rate within RateBound.  Its inductive invariant says   *)
(* that the records in transit are exactly the last packets sent, fewer    *)
(* than half the sequence space of them, and that the history continues    *)
(* them backwards in sending order.                                        *)
(*                                                                         *)
(* NadaController, for every interval between updates, every history       *)
(* length, every rounding of the times reported and whatever the network   *)
(* loses: that a batch taken in full leaves a recent rate after at most    *)
(* one update, that its asserts hold where they can, that a hole in the    *)
(* history always has a loss interval, and what it has seen when it ramps  *)
(* up.  The first needs UpdateInv only.  The others rest on NadaInv, which *)
(* adds to the invariant of the base class what the network and the        *)
(* controller know of each other.                                          *)
(***************************************************************************)
EXTENDS NadaController, SequenceTheorems, InductionLemmas, TLAPS

InterLossState == [intervals : Seq(Sequences16), expected : Sequences16,
                   initialized : BOOLEAN]

\* b is ahead of a by less than half the sequence space.
Ahead(a, b) == 0 < Diff(b, a) /\ 2 * Diff(b, a) < SeqMod

CoreTypes ==
    /\ firstSend \in BOOLEAN
    /\ lastSequence \in Sequences16
    /\ nextSequence \in Sequences16
    /\ now \in Nat
    /\ baseDelay \in Int
    /\ inTransit \in Seq(PacketRecord)
    /\ history \in Seq(HistoryRecord)
    /\ il \in InterLossState

\* Before the first packet nothing is recorded; after it the application's next
\* sequence number is the one processSendPacket expects.
Phase ==
    /\ firstSend => inTransit = <<>> /\ history = <<>>
    /\ ~firstSend => nextSequence = Inc(lastSequence)

TransitInv ==
    /\ TransitContiguous
    /\ 2 * (Len(inTransit) - 1) < SeqMod
    /\ \A i \in 1 .. Len(inTransit) : inTransit[i].tx <= now

HistoryInv ==
    /\ \A i \in 1 .. Len(history) :
        /\ history[i].tx <= now
        /\ now <= history[i].tx + TxWindow => 2 * Diff(lastSequence, history[i].seq) < SeqMod
    /\ \A i, j \in 1 .. Len(history) : i < j =>
        /\ Ahead(history[i].seq, history[j].seq)
        /\ Diff(history[j].seq, history[i].seq) >= j - i
        /\ history[i].tx <= history[j].tx
        /\ history[j].tx < history[i].tx + HistoryLength

CrossInv ==
    \A i \in 1 .. Len(history), m \in 1 .. Len(inTransit) :
        /\ history[i].tx <= inTransit[m].tx
        /\ inTransit[m].tx <= history[i].tx + TxWindow
             => Ahead(history[i].seq, inTransit[m].seq)

BaseInv == \A i \in 1 .. Len(history) : baseDelay <= history[i].owd

\* The inductive invariant.
IInv == CoreTypes /\ Phase /\ TransitInv /\ HistoryInv /\ CrossInv /\ BaseInv /\ AssertionsHold

-----------------------------------------------------------------------------
(* Arithmetic of sequence numbers *)

LEMMA IncType == ASSUME NEW s \in Sequences16 PROVE Inc(s) \in Sequences16
  BY SeqModAssumption DEF Inc, Sequences16

LEMMA DiffType ==
  ASSUME NEW a \in Sequences16, NEW b \in Sequences16
  PROVE  /\ Diff(a, b) \in 0 .. SeqMod - 1
         /\ Diff(a, a) = 0
         /\ Diff(a, b) = 0 => a = b
  BY SeqModAssumption DEF Diff, Sequences16

\* One more packet: every distance to it is one more, unless it wraps.
LEMMA DiffInc ==
  ASSUME NEW a \in Sequences16, NEW b \in Sequences16
  PROVE  Diff(Inc(a), b) = IF Diff(a, b) = SeqMod - 1 THEN 0 ELSE Diff(a, b) + 1
  BY SeqModAssumption DEF Diff, Inc, Sequences16

LEMMA AheadLessThan ==
  ASSUME NEW a \in Sequences16, NEW b \in Sequences16, Ahead(a, b)
  PROVE  LessThan(a, b)
  BY SeqModAssumption DEF Ahead, LessThan, Diff, Sequences16

\* Distances measured down from the same number.
LEMMA DiffFromLast ==
  ASSUME NEW l \in Sequences16, NEW a \in Sequences16, NEW b \in Sequences16,
         Diff(l, b) < Diff(l, a), 2 * Diff(l, a) < SeqMod
  PROVE  /\ Ahead(a, b)
         /\ Diff(b, a) = Diff(l, a) - Diff(l, b)
  BY SeqModAssumption DEF Ahead, Diff, Sequences16

\* Distances add up along a chain that stays within half the sequence space.
LEMMA DiffChain ==
  ASSUME NEW a \in Sequences16, NEW b \in Sequences16, NEW c \in Sequences16,
         Ahead(a, b), Ahead(b, c), Ahead(a, c)
  PROVE  Diff(c, a) = Diff(c, b) + Diff(b, a)
  BY SeqModAssumption DEF Ahead, Diff, Sequences16

\* A scan that stops in front of a packet sent recently, for a plausible
\* sequence number that is not from the future and neither before nor after
\* the packet's, has found it.
LEMMA ScanFinds ==
  ASSUME NEW l \in Sequences16, NEW p \in Sequences16, NEW s \in Sequences16,
         2 * Diff(l, p) < SeqMod,
         2 * Diff(l, s) < SeqMod \/ 2 * Diff(s, l) < SeqMod,
         ~LessThan(l, s), ~LessThan(p, s), ~LessThan(s, p)
  PROVE  s = p
  BY SeqModAssumption DEF LessThan, Diff, Sequences16

\* The assert of updateInterLossData holds for gaps up to the margin.
LEMMA ShortGapsPass ==
  ASSUME NEW e \in Sequences16, NEW s \in Sequences16,
         s # e, s < e, ~(s < WrapMargin /\ e > SeqMod - 1 - WrapMargin)
  PROVE  Diff(s, e) > WrapMargin
  BY SeqModAssumption, ControllerAssumption DEF Diff, Sequences16

-----------------------------------------------------------------------------
(* Sequences of records *)

LEMMA DropFirstProperties ==
  ASSUME NEW S, NEW s \in Seq(S), NEW k \in 0 .. Len(s)
  PROVE  /\ DropFirst(s, k) \in Seq(S)
         /\ Len(DropFirst(s, k)) = Len(s) - k
         /\ \A i \in 1 .. Len(s) - k : DropFirst(s, k)[i] = s[i + k]
<1>1. Len(s) \in Nat
  BY LenProperties
<1>2. \A i \in k + 1 .. Len(s) : s[i] \in S
  BY <1>1, ElementOfSeq
<1>3. /\ SubSeq(s, k + 1, Len(s)) \in Seq(S)
      /\ Len(SubSeq(s, k + 1, Len(s))) = IF k + 1 <= Len(s) THEN Len(s) - (k + 1) + 1 ELSE 0
      /\ \A i \in 1 .. Len(s) - (k + 1) + 1 : SubSeq(s, k + 1, Len(s))[i] = s[k + 1 + i - 1]
  BY <1>1, <1>2, SubSeqProperties
<1> QED
  BY <1>1, <1>3 DEF DropFirst

\* What the records hold.
LEMMA RecordTypes ==
  ASSUME CoreTypes
  PROVE  /\ Len(inTransit) \in Nat /\ Len(history) \in Nat
         /\ \A i \in 1 .. Len(inTransit) :
              /\ inTransit[i] \in PacketRecord
              /\ inTransit[i].seq \in Sequences16
              /\ inTransit[i].tx \in Nat
              /\ inTransit[i].size \in Nat
         /\ \A i \in 1 .. Len(history) :
              /\ history[i] \in HistoryRecord
              /\ history[i].seq \in Sequences16
              /\ history[i].tx \in Nat
              /\ history[i].owd \in Int
<1>1. inTransit \in Seq(PacketRecord) /\ history \in Seq(HistoryRecord)
  BY DEF CoreTypes
<1>2. Len(inTransit) \in Nat /\ Len(history) \in Nat
  BY <1>1, LenProperties
<1>3. \A i \in 1 .. Len(inTransit) : inTransit[i] \in PacketRecord
  BY <1>1, ElementOfSeq
<1>4. \A i \in 1 .. Len(history) : history[i] \in HistoryRecord
  BY <1>1, ElementOfSeq
<1>5. \A r \in PacketRecord : r.seq \in Sequences16 /\ r.tx \in Nat /\ r.size \in Nat
  BY DEF PacketRecord
<1>6. \A r \in HistoryRecord : r.seq \in Sequences16 /\ r.tx \in Nat /\ r.owd \in Int
  BY DEF HistoryRecord
<1> QED
  BY <1>2, <1>3, <1>4, <1>5, <1>6

LEMMA TxWindowType == TxWindow \in Nat /\ HistoryLength \in Nat /\ HistoryLength <= TxWindow
<1>1. KeepFactor * MaxInterPacketTime \in Nat
  BY ControllerAssumption
<1> QED
  BY <1>1, ControllerAssumption DEF TxWindow

-----------------------------------------------------------------------------
(* The initial state and the steps *)

LEMMA InitInv == Init => IInv
<1> SUFFICES ASSUME Init PROVE IInv
  OBVIOUS
<1>1. nextSequence \in Sequences16 /\ 0 \in Sequences16
  BY ControllerAssumption, SeqModAssumption DEF Init, Sequences16
<1>2. il \in InterLossState
  BY <1>1 DEF Init, InitialInterLoss, InterLossState
<1>3. CoreTypes
  BY <1>1, <1>2 DEF Init, CoreTypes
<1>4. inTransit = <<>> /\ history = <<>>
  BY DEF Init
<1>5. AssertionsHold
  BY DEF Init, AssertionsHold, NoFault
<1>6. Phase
  BY DEF Init, Phase
<1>7. TransitInv
  BY <1>4, SeqModAssumption DEF TransitInv, TransitContiguous
<1> QED
  BY <1>3, <1>4, <1>5, <1>6, <1>7 DEF IInv, HistoryInv, CrossInv, BaseInv

LEMMA StutterInv == IInv /\ UNCHANGED vars => IInv'
  BY DEF IInv, vars, ctlVars, CoreTypes, Phase, TransitInv, TransitContiguous, HistoryInv,
         CrossInv, BaseInv, AssertionsHold

LEMMA TickInv == IInv /\ Tick => IInv'
<1> SUFFICES ASSUME IInv, Tick PROVE IInv'
  OBVIOUS
<1>1. /\ UNCHANGED <<ctlVars, fault, nextSequence>>
      /\ now' = now + 1
      /\ now' \in Nat
  BY DEF Tick, IInv, CoreTypes
<1>2. CoreTypes' /\ Phase' /\ CrossInv' /\ BaseInv' /\ AssertionsHold'
  BY <1>1 DEF IInv, CoreTypes, Phase, CrossInv, BaseInv, AssertionsHold, ctlVars
<1>3. \A i \in 1 .. Len(inTransit) : inTransit[i].tx \in Nat
  BY RecordTypes DEF IInv
<1>4. TransitInv'
  <2>1. \A i \in 1 .. Len(inTransit) : inTransit[i].tx <= now'
    <3>1. now \in Nat /\ \A i \in 1 .. Len(inTransit) : inTransit[i].tx <= now
      BY DEF IInv, CoreTypes, TransitInv
    <3> QED
      BY <1>1, <1>3, <3>1
  <2>2. TransitContiguous'
    BY <1>1 DEF IInv, TransitInv, TransitContiguous, ctlVars
  <2> QED
    BY <1>1, <2>1, <2>2 DEF IInv, TransitInv, ctlVars
<1>5. \A i \in 1 .. Len(history) : history[i].tx \in Nat
  BY RecordTypes DEF IInv
<1>6. HistoryInv'
  <2>1. \A i \in 1 .. Len(history) :
           /\ history[i].tx <= now'
           /\ now' <= history[i].tx + TxWindow => now <= history[i].tx + TxWindow
    BY <1>1, <1>5, TxWindowType DEF IInv, CoreTypes, HistoryInv
  <2> QED
    BY <1>1, <2>1 DEF IInv, HistoryInv, ctlVars
<1> QED
  BY <1>2, <1>4, <1>6 DEF IInv

LEMMA ResetInv == IInv /\ Reset => IInv'
<1> SUFFICES ASSUME IInv, Reset PROVE IInv'
  OBVIOUS
<1>1. /\ inTransit' = <<>> /\ history' = <<>>
      /\ UNCHANGED <<fault, now, nextSequence>>
      /\ firstSend' = TRUE /\ lastSequence' = 0 /\ baseDelay' = 0
      /\ il' = InitialInterLoss
  BY DEF Reset
<1>2. lastSequence' \in Sequences16 /\ il' \in InterLossState
  BY <1>1, SeqModAssumption DEF Sequences16, InitialInterLoss, InterLossState
<1>3. CoreTypes' /\ Phase' /\ AssertionsHold'
  BY <1>1, <1>2 DEF IInv, CoreTypes, Phase, AssertionsHold
<1>4. TransitInv'
  BY <1>1, SeqModAssumption DEF TransitInv, TransitContiguous
<1> QED
  BY <1>1, <1>3, <1>4 DEF IInv, HistoryInv, CrossInv, BaseInv

\* The packet sent is pushed behind the records in transit, and the first k, all
\* too old, are popped.
LEMMA SendEffect ==
  ASSUME IInv, Send
  PROVE  /\ UNCHANGED <<fault, now, baseDelay, history, pktSizeSum, il>>
         /\ nextSequence' = Inc(nextSequence)
         /\ lastSequence' = nextSequence
         /\ firstSend' = FALSE
         /\ \E rec \in PacketRecord, pushed \in Seq(PacketRecord), k \in 0 .. Len(inTransit) :
              /\ rec.seq = nextSequence /\ rec.tx = now
              /\ Len(pushed) = Len(inTransit) + 1
              /\ \A i \in 1 .. Len(inTransit) : pushed[i] = inTransit[i]
              /\ pushed[Len(inTransit) + 1] = rec
              /\ SendPopsExactly(pushed, k, now)
              /\ inTransit' \in Seq(PacketRecord)
              /\ Len(inTransit') = Len(inTransit) + 1 - k
              /\ \A i \in 1 .. Len(inTransit') : inTransit'[i] = pushed[i + k]
<1> DEFINE n == Len(inTransit)
<1>1. PICK size \in Sizes : ProcessSendPacket(nextSequence, size)
  BY DEF Send
<1>2. /\ UNCHANGED <<fault, now, baseDelay, history, pktSizeSum, il>>
      /\ nextSequence' = Inc(nextSequence)
      /\ firstSend' = FALSE
  BY <1>1 DEF Send, ProcessSendPacket
<1>3. AdvancedSequence(nextSequence) = nextSequence
  BY DEF AdvancedSequence, IInv, Phase, CoreTypes
<1>4. lastSequence' = nextSequence /\ RecordSend(nextSequence, size)
  BY <1>1, <1>3 DEF ProcessSendPacket
<1> DEFINE rec == [seq |-> nextSequence, tx |-> now, size |-> size]
           pushed == Append(inTransit, rec)
<1>5. /\ n \in Nat
      /\ rec \in PacketRecord
      /\ pushed \in Seq(PacketRecord)
      /\ Len(pushed) = n + 1
      /\ \A i \in 1 .. n : pushed[i] = inTransit[i]
      /\ pushed[n + 1] = rec
  <2>1. rec \in PacketRecord /\ inTransit \in Seq(PacketRecord)
    BY ControllerAssumption DEF PacketRecord, IInv, CoreTypes
  <2> HIDE DEF rec
  <2>2. n \in Nat
    BY <2>1, LenProperties
  <2> QED
    BY <2>1, <2>2, AppendProperties
<1>6. PICK k \in 0 .. n :
        /\ SendPopsExactly(pushed, k, now)
        /\ inTransit' = DropFirst(pushed, k)
  BY <1>4, <1>5 DEF RecordSend
<1>7. /\ inTransit' \in Seq(PacketRecord)
      /\ Len(inTransit') = n + 1 - k
      /\ \A i \in 1 .. n + 1 - k : inTransit'[i] = pushed[i + k]
  <2>1. pushed \in Seq(PacketRecord) /\ k \in 0 .. Len(pushed) /\ Len(pushed) = n + 1
    BY <1>5
  <2> HIDE DEF pushed, n
  <2>2. /\ DropFirst(pushed, k) \in Seq(PacketRecord)
        /\ Len(DropFirst(pushed, k)) = Len(pushed) - k
        /\ \A i \in 1 .. Len(pushed) - k : DropFirst(pushed, k)[i] = pushed[i + k]
    BY <2>1, DropFirstProperties
  <2> QED
    BY <1>5, <1>6, <2>1, <2>2
<1> HIDE DEF n, pushed
<1>8. rec.seq = nextSequence /\ rec.tx = now
  OBVIOUS
<1> HIDE DEF rec
<1> QED
  BY <1>2, <1>4, <1>5, <1>6, <1>7, <1>8 DEF n

LEMMA SendInv == IInv /\ Send => IInv'
<1> SUFFICES ASSUME IInv, Send PROVE IInv'
  OBVIOUS
<1> DEFINE n == Len(inTransit)
<1>1. /\ UNCHANGED <<fault, now, baseDelay, history, il>>
      /\ nextSequence' = Inc(nextSequence)
      /\ firstSend' = FALSE
  BY SendEffect
<1>2. lastSequence' = nextSequence
  BY SendEffect
<1>3. PICK rec \in PacketRecord, pushed \in Seq(PacketRecord), k \in 0 .. n :
        /\ rec.seq = nextSequence /\ rec.tx = now
        /\ Len(pushed) = n + 1
        /\ \A i \in 1 .. n : pushed[i] = inTransit[i]
        /\ pushed[n + 1] = rec
        /\ SendPopsExactly(pushed, k, now)
        /\ inTransit' \in Seq(PacketRecord)
        /\ Len(inTransit') = n + 1 - k
        /\ \A i \in 1 .. Len(inTransit') : inTransit'[i] = pushed[i + k]
  BY SendEffect
<1>4. /\ n \in Nat
      /\ Len(pushed) = n + 1
      /\ \A i \in 1 .. n : pushed[i] = inTransit[i]
      /\ pushed[n + 1] = rec
      /\ rec.seq = nextSequence /\ rec.tx = now
  BY <1>3, RecordTypes DEF IInv
<1>5. /\ inTransit' \in Seq(PacketRecord)
      /\ Len(inTransit') = n + 1 - k
      /\ \A i \in 1 .. n + 1 - k : inTransit'[i] = pushed[i + k]
  BY <1>3
<1> HIDE DEF n
<1>6. \A i \in 1 .. n : inTransit[i].seq \in Sequences16 /\ inTransit[i].tx \in Nat
  BY RecordTypes DEF n, IInv
<1>7. \A i \in 1 .. Len(history) : history[i].seq \in Sequences16 /\ history[i].tx \in Nat
  BY RecordTypes DEF IInv
\* The distance to the new packet.
<1>8. \A i \in 1 .. n : Diff(nextSequence, inTransit[i].seq) = n - i + 1
  <2> SUFFICES ASSUME NEW i \in 1 .. n
               PROVE  Diff(nextSequence, inTransit[i].seq) = n - i + 1
    OBVIOUS
  <2>1. ~firstSend /\ nextSequence = Inc(lastSequence)
    BY <1>4, EmptySeq DEF n, IInv, Phase, CoreTypes
  <2>2. Diff(lastSequence, inTransit[i].seq) = n - i /\ 2 * (n - 1) < SeqMod
    BY DEF n, IInv, TransitInv, TransitContiguous
  <2>3. n - i # SeqMod - 1
    BY <1>4, <2>2, SeqModAssumption
  <2> QED
    BY <1>6, <2>1, <2>2, <2>3, DiffInc DEF IInv, CoreTypes
<1>9. \A i \in 1 .. n + 1 : pushed[i].seq \in Sequences16 /\ pushed[i].tx \in Nat
                            /\ pushed[i].tx <= now
                            /\ Diff(nextSequence, pushed[i].seq) = n + 1 - i
  <2>1. nextSequence \in Sequences16 /\ now \in Nat /\ Diff(nextSequence, nextSequence) = 0
    BY DiffType DEF IInv, CoreTypes
  <2>2. \A i \in 1 .. n : inTransit[i].tx <= now
    BY DEF n, IInv, TransitInv
  <2> SUFFICES ASSUME NEW i \in 1 .. n + 1
               PROVE  /\ pushed[i].seq \in Sequences16 /\ pushed[i].tx \in Nat
                      /\ pushed[i].tx <= now
                      /\ Diff(nextSequence, pushed[i].seq) = n + 1 - i
    OBVIOUS
  <2>3. CASE i = n + 1
    BY <2>1, <2>3, <1>4
  <2>4. CASE i # n + 1
    <3>1. i \in 1 .. n /\ n - i + 1 = n + 1 - i
      BY <2>4, <1>4
    <3> QED
      BY <3>1, <2>2, <1>4, <1>6, <1>8
  <2> QED
    BY <2>3, <2>4
<1>10. \A i, j \in 1 .. n + 1 : i <= j => pushed[i].tx <= pushed[j].tx
  <2> SUFFICES ASSUME NEW i \in 1 .. n + 1, NEW j \in 1 .. n + 1, i <= j
               PROVE  pushed[i].tx <= pushed[j].tx
    OBVIOUS
  <2>1. CASE j <= n
    <3>1. \A a \in 1 .. n : \A c \in a .. n : inTransit[a].tx <= inTransit[c].tx
      BY DEF n, IInv, TransitInv, TransitContiguous
    <3>2. i \in 1 .. n /\ j \in i .. n
      BY <1>4, <2>1
    <3>3. pushed[i] = inTransit[i] /\ pushed[j] = inTransit[j]
      BY <1>4, <3>2
    <3> QED
      BY <3>1, <3>2, <3>3
  <2>2. CASE j = n + 1
    BY <2>2, <1>4, <1>9
  <2> QED
    BY <1>4, <2>1, <2>2
<1>11. 2 * (n - k) < SeqMod
  <2>1. CASE k = n
    BY <2>1, <1>4, SeqModAssumption
  <2>2. CASE k # n
    <3>1. k + 1 \in 1 .. n
      BY <1>4, <2>2
    <3>2. now <= inTransit[k + 1].tx + TxWindow
      BY <1>4, <1>3, <3>1 DEF SendPopsExactly, RecentEnough
    <3>3. inTransit[k + 1] \in Records(inTransit)
      BY <3>1 DEF Records, n
    <3>4. 2 * Diff(nextSequence, inTransit[k + 1].seq) < SeqMod
      BY <3>2, <3>3 DEF Send, RateBound
    <3>5. Diff(nextSequence, inTransit[k + 1].seq) = n - (k + 1) + 1
      BY <3>1, <1>8
    <3>6. n - (k + 1) + 1 = n - k
      BY <1>4
    <3> QED
      BY <3>4, <3>5, <3>6
  <2> QED
    BY <2>1, <2>2
<1>12. TransitInv'
  <2>0. \A i \in 1 .. Len(inTransit') : i + k \in 1 .. n + 1 /\ inTransit'[i] = pushed[i + k]
    BY <1>4, <1>5
  <2>1. \A i \in 1 .. Len(inTransit') :
           /\ Diff(lastSequence', inTransit'[i].seq) = Len(inTransit') - i
           /\ inTransit'[i].tx <= now'
    <3> SUFFICES ASSUME NEW i \in 1 .. Len(inTransit')
                 PROVE  /\ Diff(lastSequence', inTransit'[i].seq) = Len(inTransit') - i
                        /\ inTransit'[i].tx <= now'
      OBVIOUS
    <3>1. i + k \in 1 .. n + 1 /\ inTransit'[i] = pushed[i + k]
      BY <2>0
    <3>2. n + 1 - (i + k) = Len(inTransit') - i
      BY <1>4, <1>5
    <3> QED
      BY <1>1, <1>2, <1>9, <3>1, <3>2
  <2>2. \A i \in 1 .. Len(inTransit') : \A j \in i .. Len(inTransit') :
           inTransit'[i].tx <= inTransit'[j].tx
    <3> SUFFICES ASSUME NEW i \in 1 .. Len(inTransit'), NEW j \in i .. Len(inTransit')
                 PROVE  inTransit'[i].tx <= inTransit'[j].tx
      OBVIOUS
    <3>1. j \in 1 .. Len(inTransit') /\ i + k <= j + k
      BY <1>4, <1>5
    <3> QED
      BY <2>0, <3>1, <1>10
  <2>3. 2 * (Len(inTransit') - 1) < SeqMod
    BY <1>4, <1>5, <1>11
  <2> QED
    BY <2>1, <2>2, <2>3 DEF TransitInv, TransitContiguous
\* What RateBound says of the history.
<1>13. \A i \in 1 .. Len(history) : now <= history[i].tx + TxWindow =>
           /\ 2 * Diff(nextSequence, history[i].seq) < SeqMod
           /\ Ahead(history[i].seq, nextSequence)
  <2> SUFFICES ASSUME NEW i \in 1 .. Len(history), now <= history[i].tx + TxWindow
               PROVE  /\ 2 * Diff(nextSequence, history[i].seq) < SeqMod
                      /\ Ahead(history[i].seq, nextSequence)
    OBVIOUS
  <2>1. history[i] \in Records(history)
    BY DEF Records
  <2>2. 2 * Diff(nextSequence, history[i].seq) < SeqMod
    BY <2>1 DEF Send, RateBound
  <2>3. history # <<>>
    BY EmptySeq DEF IInv, CoreTypes
  <2>4. nextSequence = Inc(lastSequence)
    BY <2>3 DEF IInv, Phase, CoreTypes
  <2>5. 2 * Diff(lastSequence, history[i].seq) < SeqMod
    BY DEF IInv, HistoryInv
  <2>6. Diff(lastSequence, history[i].seq) \in 0 .. SeqMod - 1
    BY <1>7, DiffType DEF IInv, CoreTypes
  <2>7. Diff(nextSequence, history[i].seq) = Diff(lastSequence, history[i].seq) + 1
    <3>1. Diff(lastSequence, history[i].seq) # SeqMod - 1
      BY <2>5, <2>6, SeqModAssumption
    <3> QED
      BY <1>7, <2>4, <3>1, DiffInc DEF IInv, CoreTypes
  <2> QED
    BY <2>2, <2>6, <2>7 DEF Ahead
<1>14. HistoryInv'
  BY <1>1, <1>2, <1>13 DEF IInv, HistoryInv
<1>15. CrossInv'
  <2> SUFFICES ASSUME NEW i \in 1 .. Len(history), NEW m \in 1 .. Len(inTransit')
               PROVE  /\ history[i].tx <= inTransit'[m].tx
                      /\ inTransit'[m].tx <= history[i].tx + TxWindow
                           => Ahead(history[i].seq, inTransit'[m].seq)
    BY <1>1 DEF CrossInv
  <2>1. m + k \in 1 .. n + 1 /\ inTransit'[m] = pushed[m + k]
    BY <1>4, <1>5
  <2>2. CASE m + k = n + 1
    <3>1. inTransit'[m] = rec
      BY <2>1, <2>2, <1>4
    <3> QED
      BY <3>1, <1>4, <1>13 DEF IInv, HistoryInv
  <2>3. CASE m + k # n + 1
    <3>1. m + k \in 1 .. n /\ inTransit'[m] = inTransit[m + k]
      BY <2>1, <2>3, <1>4
    <3> QED
      BY <3>1 DEF n, IInv, CrossInv
  <2> QED
    BY <2>2, <2>3
<1>16. CoreTypes' /\ Phase' /\ BaseInv' /\ AssertionsHold'
  BY <1>1, <1>2, <1>5, IncType
     DEF IInv, CoreTypes, Phase, BaseInv, AssertionsHold
<1> QED
  BY <1>12, <1>14, <1>15, <1>16 DEF IInv

-----------------------------------------------------------------------------
(* Feedback *)

\* Popping records off the front of m_inTransitPackets.
LEMMA DropTransit ==
  ASSUME IInv, NEW c \in 0 .. Len(inTransit),
         inTransit' = DropFirst(inTransit, c),
         UNCHANGED <<firstSend, lastSequence, now, nextSequence>>
  PROVE  /\ inTransit' \in Seq(PacketRecord)
         /\ Len(inTransit') = Len(inTransit) - c
         /\ \A i \in 1 .. Len(inTransit') :
              /\ i + c \in 1 .. Len(inTransit)
              /\ inTransit'[i] = inTransit[i + c]
         /\ TransitInv'
<1>1. inTransit \in Seq(PacketRecord) /\ Len(inTransit) \in Nat
  BY RecordTypes DEF IInv, CoreTypes
<1>2. /\ inTransit' \in Seq(PacketRecord)
      /\ Len(inTransit') = Len(inTransit) - c
      /\ \A i \in 1 .. Len(inTransit) - c : inTransit'[i] = inTransit[i + c]
  BY <1>1, DropFirstProperties
<1>3. \A i \in 1 .. Len(inTransit') :
        /\ i + c \in 1 .. Len(inTransit)
        /\ inTransit'[i] = inTransit[i + c]
  BY <1>1, <1>2
<1>4. /\ TransitContiguous
      /\ 2 * (Len(inTransit) - 1) < SeqMod
      /\ \A i \in 1 .. Len(inTransit) : inTransit[i].tx <= now
  BY DEF IInv, TransitInv
<1>5. \A i \in 1 .. Len(inTransit') :
        /\ Diff(lastSequence', inTransit'[i].seq) = Len(inTransit') - i
        /\ inTransit'[i].tx <= now'
  BY <1>1, <1>2, <1>3, <1>4 DEF TransitContiguous
<1>6. \A i \in 1 .. Len(inTransit') : \A j \in i .. Len(inTransit') :
        inTransit'[i].tx <= inTransit'[j].tx
  <2> SUFFICES ASSUME NEW i \in 1 .. Len(inTransit'), NEW j \in i .. Len(inTransit')
               PROVE  inTransit'[i].tx <= inTransit'[j].tx
    OBVIOUS
  <2>1. j \in 1 .. Len(inTransit') /\ j + c \in i + c .. Len(inTransit)
    BY <1>1, <1>2
  <2> QED
    BY <1>3, <1>4, <2>1 DEF TransitContiguous
<1>7. 2 * (Len(inTransit') - 1) < SeqMod
  BY <1>1, <1>2, <1>4, SeqModAssumption
<1> QED
  BY <1>2, <1>3, <1>5, <1>6, <1>7 DEF TransitInv, TransitContiguous

\* Records are popped and nothing else happens.
LEMMA DropOnly ==
  ASSUME IInv, NEW c \in 0 .. Len(inTransit),
         inTransit' = DropFirst(inTransit, c),
         UNCHANGED <<firstSend, lastSequence, now, nextSequence, baseDelay, history, il>>
  PROVE  CoreTypes' /\ Phase' /\ TransitInv' /\ HistoryInv' /\ CrossInv' /\ BaseInv'
<1>1. /\ inTransit' \in Seq(PacketRecord)
      /\ Len(inTransit') = Len(inTransit) - c
      /\ \A i \in 1 .. Len(inTransit') :
           /\ i + c \in 1 .. Len(inTransit)
           /\ inTransit'[i] = inTransit[i + c]
      /\ TransitInv'
  BY DropTransit
<1>2. CoreTypes' /\ HistoryInv' /\ BaseInv'
  BY <1>1 DEF IInv, CoreTypes, HistoryInv, BaseInv
<1>3. Phase'
  <2>1. CASE firstSend
    <3>1. inTransit = <<>> /\ history = <<>>
      BY <2>1 DEF IInv, Phase
    <3>2. Len(inTransit') = 0
      BY <1>1, <3>1
    <3>3. inTransit' = <<>>
      BY <1>1, <3>2, EmptySeq
    <3> QED
      BY <2>1, <3>1, <3>3 DEF Phase
  <2>2. CASE ~firstSend
    BY <2>2 DEF IInv, Phase
  <2> QED
    BY <2>1, <2>2
<1>4. CrossInv'
  BY <1>1 DEF IInv, CrossInv
<1> QED
  BY <1>1, <1>2, <1>3, <1>4

LEMMA InterLossType ==
  ASSUME il \in InterLossState, NEW h, NEW s \in Sequences16
  PROVE  InterLossUpdated(h, s) \in InterLossState
<1> DEFINE b == InterLossBase(h, s)
           shifted == <<1>> \o b.intervals
<1>1. 0 \in Sequences16 /\ 1 \in Sequences16
  BY SeqModAssumption DEF Sequences16
<1>2. b \in InterLossState
  <2>1. <<0>> \in Seq(Sequences16)
    BY <1>1
  <2>2. InitialInterLoss \in InterLossState
    BY <1>1, <2>1 DEF InitialInterLoss, InterLossState
  <2>3. \A r \in InterLossState : [r EXCEPT !.expected = s] \in InterLossState
    BY DEF InterLossState
  <2> QED
    BY <2>2, <2>3 DEF InterLossBase
<1>3. b.intervals \in Seq(Sequences16) /\ b.expected \in Sequences16
  BY <1>2 DEF InterLossState
<1> HIDE DEF b
<1>4. CASE s = b.expected
  <2>1. InterLossUpdated(h, s) = [b EXCEPT !.intervals[1] = Inc(@), !.expected = Inc(@)]
    BY <1>4 DEF InterLossUpdated, b
  <2>2. [b.intervals EXCEPT ![1] = Inc(b.intervals[1])] \in Seq(Sequences16)
    <3>1. CASE 1 \in 1 .. Len(b.intervals)
      <4>1. b.intervals[1] \in Sequences16
        BY <1>3, <3>1, ElementOfSeq
      <4> QED
        BY <1>3, <3>1, <4>1, IncType, ExceptSeq
    <3>2. CASE 1 \notin 1 .. Len(b.intervals)
      <4>1. [b.intervals EXCEPT ![1] = Inc(b.intervals[1])] = b.intervals
        BY <1>3, <3>2, LenProperties
      <4> QED
        BY <1>3, <4>1
    <3> QED
      BY <3>1, <3>2
  <2> QED
    BY <1>2, <1>3, <2>1, <2>2, IncType DEF InterLossState
<1>5. CASE s # b.expected
  <2> DEFINE m == IF Len(shifted) > MaxIntervals THEN MaxIntervals ELSE Len(shifted)
  <2>1. shifted \in Seq(Sequences16)
    BY <1>1, <1>3, ConcatProperties
  <2>2. Len(shifted) \in Nat /\ m \in 0 .. Len(shifted)
    BY <2>1, LenProperties, ControllerAssumption
  <2> HIDE DEF shifted, m
  <2>3. \A i \in 1 .. m : shifted[i] \in Sequences16
    BY <2>1, <2>2, ElementOfSeq
  <2>4. SubSeq(shifted, 1, m) \in Seq(Sequences16)
    BY <2>2, <2>3, SubSeqProperties
  <2>5. InterLossUpdated(h, s) = [intervals |-> SubSeq(shifted, 1, m),
                                  expected |-> Inc(s), initialized |-> TRUE]
    BY <1>5 DEF InterLossUpdated, b, shifted, m
  <2> QED
    BY <2>4, <2>5, IncType DEF InterLossState
<1> QED
  BY <1>4, <1>5

\* The packet taken out of m_inTransitPackets enters the history.
LEMMA AccountInv ==
  ASSUME IInv, NEW k \in 0 .. Len(inTransit) - 1, NEW rx \in Int,
         inTransit' = DropFirst(inTransit, k + 1),
         UNCHANGED <<firstSend, lastSequence, now, nextSequence>>,
         ~DecreasingTimestamp(inTransit[k + 1]),
         Account(inTransit[k + 1], rx)
  PROVE  IInv'
<1> DEFINE p == inTransit[k + 1]
           h == HistoryBefore(p)
           owd == rx - p.tx
           rec == [seq |-> p.seq, tx |-> p.tx, size |-> p.size, owd |-> owd]
           grown == Append(h, rec)
           n == Len(h)
<1>1. /\ Len(inTransit) \in Nat /\ Len(history) \in Nat
      /\ k + 1 \in 1 .. Len(inTransit)
      /\ k + 1 \in 0 .. Len(inTransit)
  BY RecordTypes DEF IInv
<1>2. p.seq \in Sequences16 /\ p.tx \in Nat /\ p.size \in Nat
  BY <1>1, RecordTypes DEF IInv
<1>3. /\ inTransit' \in Seq(PacketRecord)
      /\ Len(inTransit') = Len(inTransit) - (k + 1)
      /\ \A i \in 1 .. Len(inTransit') :
           /\ i + (k + 1) \in 1 .. Len(inTransit)
           /\ inTransit'[i] = inTransit[i + (k + 1)]
      /\ TransitInv'
  BY <1>1, DropTransit
<1>4. ~firstSend
  BY <1>1, EmptySeq DEF IInv, Phase, CoreTypes
<1>5. Phase'
  BY <1>4 DEF IInv, Phase
<1>6. CASE InterLossFault(h, p.seq)
  <2>1. /\ fault' = [at |-> "interLoss", gap |-> Diff(p.seq, il.expected)]
        /\ UNCHANGED <<baseDelay, history, pktSizeSum, il>>
    BY <1>6 DEF Account
  <2>2. CoreTypes' /\ HistoryInv' /\ CrossInv' /\ BaseInv'
    BY <1>1, <2>1, DropOnly
  <2>3. il.expected \in Sequences16
    BY DEF IInv, CoreTypes, InterLossState
  <2>4. h # <<>>
    BY <1>6, <1>2 DEF InterLossFault, InterLossBase, InitialInterLoss
  <2>5. /\ p.seq # il.expected
        /\ p.seq < il.expected
        /\ ~(p.seq < WrapMargin /\ il.expected > SeqMod - 1 - WrapMargin)
    BY <1>6, <2>4 DEF InterLossFault, InterLossBase
  <2>6. Diff(p.seq, il.expected) > WrapMargin
    BY <1>2, <2>3, <2>5, ShortGapsPass
  <2>7. AssertionsHold'
    BY <2>1, <2>6 DEF AssertionsHold
  <2> QED
    BY <1>3, <1>5, <2>2, <2>7 DEF IInv
<1>7. CASE ~InterLossFault(h, p.seq)
  <2>1. /\ baseDelay' = IF h = <<>> \/ owd < baseDelay THEN owd ELSE baseDelay
        /\ il' = InterLossUpdated(h, p.seq)
        /\ UNCHANGED fault
    BY <1>7 DEF Account
  <2>2. \E m \in 0 .. Len(grown) - 1 :
          /\ HistoryPopsExactly(grown, m)
          /\ history' = DropFirst(grown, m)
    BY <1>7 DEF Account
  <2>3. /\ h \in Seq(HistoryRecord)
        /\ n \in Nat
        /\ h = <<>> \/ h = history
        /\ n = 0 <=> h = <<>>
    <3>1. <<>> \in Seq(HistoryRecord) /\ history \in Seq(HistoryRecord)
      BY DEF IInv, CoreTypes
    <3>2. h = <<>> \/ h = history
      BY DEF HistoryBefore
    <3> HIDE DEF h
    <3> QED
      BY <3>1, <3>2, EmptySeq, LenProperties
  <2>4. owd \in Int
    BY <1>2
  <2>5. rec \in HistoryRecord
    BY <1>2, <2>4 DEF HistoryRecord
  <2>6. /\ rec.seq = p.seq /\ rec.tx = p.tx /\ rec.owd = owd
    OBVIOUS
  <2> HIDE DEF h, rec, owd
  <2>7. /\ grown \in Seq(HistoryRecord)
        /\ Len(grown) = n + 1
        /\ \A i \in 1 .. n : grown[i] = h[i]
        /\ grown[n + 1] = rec
    BY <2>3, <2>5, AppendProperties
  <2> HIDE DEF n, grown
  <2>8. PICK m \in 0 .. n :
          /\ HistoryPopsExactly(grown, m)
          /\ history' = DropFirst(grown, m)
    BY <2>2, <2>3, <2>7
  <2>9. /\ history' \in Seq(HistoryRecord)
        /\ Len(history') = n + 1 - m
        /\ \A i \in 1 .. Len(history') : i + m \in 1 .. n + 1 /\ history'[i] = grown[i + m]
    <3>1. m \in 0 .. Len(grown)
      BY <2>3, <2>7
    <3>2. /\ DropFirst(grown, m) \in Seq(HistoryRecord)
          /\ Len(DropFirst(grown, m)) = Len(grown) - m
          /\ \A i \in 1 .. Len(grown) - m : DropFirst(grown, m)[i] = grown[i + m]
      BY <3>1, <2>7, DropFirstProperties
    <3> QED
      BY <2>3, <2>7, <2>8, <3>2
  <2> DEFINE Slot(i) == \/ /\ i + m = n + 1 /\ history'[i] = rec
                        \/ /\ i + m \in m + 1 .. n /\ i + m \in 1 .. n
                           /\ i + m # n + 1 /\ history'[i] = h[i + m]
  <2>20. \A i \in 1 .. Len(history') : Slot(i)
    <3> SUFFICES ASSUME NEW i \in 1 .. Len(history') PROVE Slot(i)
      OBVIOUS
    <3>1. i + m \in 1 .. n + 1 /\ i + m \in m + 1 .. n + 1 /\ history'[i] = grown[i + m]
      BY <2>3, <2>9
    <3>2. CASE i + m = n + 1
      BY <3>1, <3>2, <2>7
    <3>3. CASE i + m # n + 1
      <4>1. i + m \in 1 .. n /\ i + m \in m + 1 .. n
        BY <2>3, <3>1, <3>3
      <4> QED
        BY <3>1, <3>3, <4>1, <2>7
    <3> QED
      BY <3>2, <3>3
  \* What h inherits from the history.
  <2>10. \A i \in 1 .. n :
           /\ i \in 1 .. Len(history) /\ n = Len(history) /\ h = history
           /\ h[i].seq \in Sequences16 /\ h[i].tx \in Nat /\ h[i].owd \in Int
           /\ h[i].tx <= now
           /\ now <= h[i].tx + TxWindow => 2 * Diff(lastSequence, h[i].seq) < SeqMod
           /\ h[i].tx <= p.tx
           /\ p.tx <= h[i].tx + TxWindow => Ahead(h[i].seq, p.seq)
           /\ baseDelay <= h[i].owd
    <3> SUFFICES ASSUME NEW i \in 1 .. n
                 PROVE  /\ i \in 1 .. Len(history) /\ n = Len(history) /\ h = history
                        /\ h[i].seq \in Sequences16 /\ h[i].tx \in Nat /\ h[i].owd \in Int
                        /\ h[i].tx <= now
                        /\ now <= h[i].tx + TxWindow
                             => 2 * Diff(lastSequence, h[i].seq) < SeqMod
                        /\ h[i].tx <= p.tx
                        /\ p.tx <= h[i].tx + TxWindow => Ahead(h[i].seq, p.seq)
                        /\ baseDelay <= h[i].owd
      OBVIOUS
    <3>1. h = history /\ n = Len(history) /\ i \in 1 .. Len(history)
      BY <2>3 DEF n
    <3> QED
      BY <3>1, <1>1, RecordTypes DEF IInv, HistoryInv, CrossInv, BaseInv
  <2>11. \A i, j \in 1 .. n : i < j =>
           /\ Ahead(h[i].seq, h[j].seq)
           /\ Diff(h[j].seq, h[i].seq) >= j - i
           /\ h[i].tx <= h[j].tx
           /\ h[j].tx < h[i].tx + HistoryLength
    BY <2>10 DEF IInv, HistoryInv
  <2>12. CoreTypes'
    <3>1. il' \in InterLossState
      BY <1>2, <2>1, InterLossType DEF IInv, CoreTypes
    <3>2. baseDelay' \in Int
      BY <2>1, <2>4 DEF IInv, CoreTypes
    <3> QED
      BY <1>3, <2>9, <3>1, <3>2 DEF IInv, CoreTypes
  <2>13. p.tx <= now /\ 2 * Diff(lastSequence, p.seq) < SeqMod
    <3>1. p.tx <= now /\ Diff(lastSequence, p.seq) = Len(inTransit) - (k + 1)
      BY <1>1 DEF IInv, TransitInv, TransitContiguous
    <3>2. 2 * (Len(inTransit) - 1) < SeqMod
      BY DEF IInv, TransitInv
    <3> QED
      BY <1>1, <3>1, <3>2, SeqModAssumption
  \* The records that stay are recent with respect to the new one.
  <2>14. \A i \in m + 1 .. n : p.tx < h[i].tx + HistoryLength
    <3> SUFFICES ASSUME NEW i \in m + 1 .. n
                 PROVE  p.tx < h[i].tx + HistoryLength
      OBVIOUS
    <3>1. i \in 1 .. n /\ m + 1 \in 1 .. n
      BY <2>3
    <3>2. p.tx < h[m + 1].tx + HistoryLength
      BY <2>3, <2>6, <2>7, <2>8, <3>1 DEF HistoryPopsExactly, Back
    <3>3. h[m + 1].tx <= h[i].tx
      BY <2>3, <2>10, <2>11, <3>1
    <3> QED
      <4>1. h[i].tx \in Nat /\ h[m + 1].tx \in Nat
        BY <3>1, <2>10
      <4>2. \A a, b, c, l \in Nat : a < b + l /\ b <= c => a < c + l
        OBVIOUS
      <4> QED
        BY <3>2, <3>3, <4>1, <4>2, <1>2, TxWindowType
  <2>15. \A i \in m + 1 .. n : Ahead(h[i].seq, p.seq) /\ Diff(p.seq, h[i].seq) >= n + 1 - i
    <3> SUFFICES ASSUME NEW i \in m + 1 .. n
                 PROVE  Ahead(h[i].seq, p.seq) /\ Diff(p.seq, h[i].seq) >= n + 1 - i
      OBVIOUS
    <3>1. i \in 1 .. n /\ n \in 1 .. n /\ n \in m + 1 .. n /\ i \in m + 1 .. n
      BY <2>3
    <3>2. \A j \in m + 1 .. n : j \in 1 .. n /\ Ahead(h[j].seq, p.seq)
      <4> SUFFICES ASSUME NEW j \in m + 1 .. n
                   PROVE  j \in 1 .. n /\ Ahead(h[j].seq, p.seq)
        OBVIOUS
      <4>1. j \in 1 .. n
        BY <2>3
      <4>2. p.tx <= h[j].tx + TxWindow
        BY <4>1, <2>10, <2>14, <1>2, TxWindowType, SMTT(20)
      <4> QED
        BY <4>1, <4>2, <2>10
    <3>3. CASE i = n
      <4>1. Ahead(h[i].seq, p.seq)
        BY <3>2
      <4>2. Diff(p.seq, h[i].seq) \in 0 .. SeqMod - 1
        BY <1>2, <2>10, <3>1, DiffType
      <4> QED
        BY <2>3, <3>3, <4>1, <4>2, SeqModAssumption DEF Ahead
    <3>4. CASE i # n
      <4>1. i < n
        BY <2>3, <3>4
      <4>2. Ahead(h[i].seq, h[n].seq) /\ Diff(h[n].seq, h[i].seq) >= n - i
        BY <2>11, <3>1, <4>1
      <4>3. Ahead(h[i].seq, p.seq) /\ Ahead(h[n].seq, p.seq)
        BY <3>1, <3>2
      <4>4. Diff(p.seq, h[i].seq) = Diff(p.seq, h[n].seq) + Diff(h[n].seq, h[i].seq)
        BY <1>2, <2>10, <3>1, <4>2, <4>3, DiffChain
      <4>5. Diff(p.seq, h[n].seq) \in 0 .. SeqMod - 1 /\ Diff(h[n].seq, h[i].seq) \in 0 .. SeqMod - 1
        BY <1>2, <2>10, <3>1, DiffType
      <4>6. Diff(p.seq, h[n].seq) >= 1
        BY <4>3, <4>5 DEF Ahead
      <4>7. Diff(p.seq, h[i].seq) >= n + 1 - i
        BY <2>3, <3>1, <4>2, <4>4, <4>5, <4>6, SeqModAssumption
      <4> QED
        BY <4>3, <4>7
    <3> QED
      BY <3>3, <3>4
  <2>16. HistoryInv'
    <3>1. \A i \in 1 .. Len(history') :
            /\ history'[i].tx <= now'
            /\ now' <= history'[i].tx + TxWindow => 2 * Diff(lastSequence', history'[i].seq) < SeqMod
      <4> SUFFICES ASSUME NEW i \in 1 .. Len(history')
                   PROVE  /\ history'[i].tx <= now
                          /\ now <= history'[i].tx + TxWindow
                               => 2 * Diff(lastSequence, history'[i].seq) < SeqMod
        OBVIOUS
      <4>1. CASE i + m = n + 1
        BY <4>1, <2>6, <2>13, <2>20
      <4>2. CASE i + m # n + 1
        <5>1. i + m \in 1 .. n /\ history'[i] = h[i + m]
          BY <4>2, <2>20
        <5> QED
          BY <5>1, <2>10
      <4> QED
        BY <4>1, <4>2
    <3>2. \A i, j \in 1 .. Len(history') : i < j =>
            /\ Ahead(history'[i].seq, history'[j].seq)
            /\ Diff(history'[j].seq, history'[i].seq) >= j - i
            /\ history'[i].tx <= history'[j].tx
            /\ history'[j].tx < history'[i].tx + HistoryLength
      <4> SUFFICES ASSUME NEW i \in 1 .. Len(history'), NEW j \in 1 .. Len(history'), i < j
                   PROVE  /\ Ahead(history'[i].seq, history'[j].seq)
                          /\ Diff(history'[j].seq, history'[i].seq) >= j - i
                          /\ history'[i].tx <= history'[j].tx
                          /\ history'[j].tx < history'[i].tx + HistoryLength
        OBVIOUS
      <4>1. i + m \in m + 1 .. n /\ i + m \in 1 .. n /\ history'[i] = h[i + m]
        <5>1. i + m # n + 1
          BY <2>3, <2>9
        <5> QED
          BY <5>1, <2>20
      <4>2. CASE j + m = n + 1
        <5>1. history'[j].seq = p.seq /\ history'[j].tx = p.tx
          BY <4>2, <2>6, <2>20
        <5>2. n + 1 - (i + m) = j - i
          BY <4>2, <2>3
        <5> QED
          BY <4>1, <5>1, <5>2, <2>10, <2>14, <2>15
      <4>3. CASE j + m # n + 1
        <5>1. j + m \in 1 .. n /\ history'[j] = h[j + m]
          BY <4>3, <2>20
        <5>2. i + m < j + m /\ (j + m) - (i + m) = j - i
          BY <2>3
        <5> QED
          BY <4>1, <5>1, <5>2, <2>11
      <4> QED
        BY <4>2, <4>3
    <3> QED
      BY <3>1, <3>2 DEF HistoryInv
  <2>17. CrossInv'
    <3> SUFFICES ASSUME NEW i \in 1 .. Len(history'), NEW q \in 1 .. Len(inTransit')
                 PROVE  /\ history'[i].tx <= inTransit'[q].tx
                        /\ inTransit'[q].tx <= history'[i].tx + TxWindow
                             => Ahead(history'[i].seq, inTransit'[q].seq)
      BY DEF CrossInv
    <3>1. /\ q + (k + 1) \in 1 .. Len(inTransit)
          /\ q + (k + 1) \in k + 1 .. Len(inTransit)
          /\ inTransit'[q] = inTransit[q + (k + 1)]
      BY <1>1, <1>3
    <3>2. CASE i + m = n + 1
      <4>1. history'[i].seq = p.seq /\ history'[i].tx = p.tx
        BY <3>2, <2>6, <2>20
      <4>2. p.tx <= inTransit[q + (k + 1)].tx
        BY <1>1, <3>1 DEF IInv, TransitInv, TransitContiguous
      <4>3. /\ Diff(lastSequence, p.seq) = Len(inTransit) - (k + 1)
            /\ Diff(lastSequence, inTransit[q + (k + 1)].seq) = Len(inTransit) - (q + (k + 1))
        BY <1>1, <3>1 DEF IInv, TransitInv, TransitContiguous
      <4>4. inTransit[q + (k + 1)].seq \in Sequences16 /\ lastSequence \in Sequences16
        BY <3>1, RecordTypes DEF IInv, CoreTypes
      <4>5. Diff(lastSequence, inTransit[q + (k + 1)].seq) < Diff(lastSequence, p.seq)
        BY <1>1, <1>3, <4>3, SMTT(20)
      <4>6. Ahead(p.seq, inTransit[q + (k + 1)].seq)
        BY <1>2, <2>13, <4>4, <4>5, DiffFromLast
      <4> QED
        BY <3>1, <4>1, <4>2, <4>6
    <3>3. CASE i + m # n + 1
      <4>1. i + m \in 1 .. n /\ history'[i] = h[i + m]
        BY <3>3, <2>20
      <4>2. i + m \in 1 .. Len(history) /\ h = history
        BY <4>1, <2>10
      <4> QED
        BY <3>1, <4>1, <4>2 DEF IInv, CrossInv
    <3> QED
      BY <3>2, <3>3
  <2>18. BaseInv'
    <3> SUFFICES ASSUME NEW i \in 1 .. Len(history')
                 PROVE  baseDelay' <= history'[i].owd
      BY DEF BaseInv
    <3>1. CASE i + m = n + 1
      <4>1. history'[i].owd = owd
        BY <3>1, <2>6, <2>20
      <4> QED
        BY <4>1, <2>1, <2>4 DEF IInv, CoreTypes
    <3>2. CASE i + m # n + 1
      <4>1. i + m \in 1 .. n /\ history'[i] = h[i + m]
        BY <3>2, <2>20
      <4>2. h # <<>> /\ baseDelay <= h[i + m].owd /\ h[i + m].owd \in Int
        BY <4>1, <2>3, <2>10
      <4> QED
        BY <4>1, <4>2, <2>1, <2>4 DEF IInv, CoreTypes
    <3> QED
      BY <3>1, <3>2
  <2>19. AssertionsHold'
    BY <2>1 DEF IInv, AssertionsHold
  <2> QED
    BY <1>3, <1>5, <2>12, <2>16, <2>17, <2>18, <2>19 DEF IInv
<1> QED
  BY <1>6, <1>7

\* The back of the deque is the packet sent last: no assert fails, and the scan
\* stops there at the latest.
LEMMA FeedbackScans ==
  ASSUME IInv, NEW sequence, NEW rx, ProcessFeedback(sequence, rx),
         ~FromTheFuture(sequence), inTransit # <<>>
  PROVE  \E k \in 0 .. Len(inTransit) - 1 :
           /\ ScanPopsExactly(k, sequence)
           /\ MatchFeedback(k, sequence, rx)
<1>1. lastSequence \in Sequences16 /\ inTransit \in Seq(PacketRecord)
  BY DEF IInv, CoreTypes
<1>2. Len(inTransit) \in 1 .. Len(inTransit)
  BY <1>1, EmptySeq
<1>3. Back(inTransit).seq = lastSequence
  <2>1. Diff(lastSequence, Back(inTransit).seq) = 0
    BY <1>2 DEF Back, IInv, TransitInv, TransitContiguous
  <2>2. Back(inTransit).seq \in Sequences16
    BY <1>2, RecordTypes DEF Back, IInv
  <2> QED
    BY <1>1, <2>1, <2>2, DiffType
<1>4. ~ScanRunsDry(sequence)
  BY <1>2, <1>3 DEF ScanRunsDry, FromTheFuture, Back
<1> QED
  BY <1>3, <1>4 DEF ProcessFeedback

\* Nothing in transit was sent before anything in the history.
LEMMA NeverDecreasing ==
  ASSUME IInv, NEW m \in 1 .. Len(inTransit)
  PROVE  ~DecreasingTimestamp(inTransit[m])
<1> SUFFICES ASSUME history # <<>> PROVE ~(inTransit[m].tx < Back(history).tx)
  BY DEF DecreasingTimestamp
<1>1. Len(history) \in 1 .. Len(history)
  BY EmptySeq DEF IInv, CoreTypes
<1>2. Back(history).tx <= inTransit[m].tx
  BY <1>1 DEF Back, IInv, CrossInv
<1>3. Back(history).tx \in Nat /\ inTransit[m].tx \in Nat
  BY <1>1, RecordTypes DEF Back, IInv
<1> QED
  BY <1>2, <1>3

\* One item of feedback, whatever time of reception it reports.
LEMMA ProcessFeedbackInv ==
  ASSUME IInv, NEW sequence \in Sequences16, NEW rx \in Int,
         inTransit = <<>> \/ Plausible(sequence),
         ProcessFeedback(sequence, rx),
         UNCHANGED <<now, nextSequence>>
  PROVE  IInv'
<1>1. /\ UNCHANGED <<now, nextSequence>>
      /\ now \in Nat
  BY DEF IInv, CoreTypes
<1>2. /\ inTransit = <<>> \/ Plausible(sequence)
      /\ ProcessFeedback(sequence, rx)
  OBVIOUS
<1>3. UNCHANGED <<firstSend, lastSequence>>
  BY <1>2 DEF ProcessFeedback
<1>4. rx \in Int
  OBVIOUS
<1>5. lastSequence \in Sequences16 /\ Len(inTransit) \in Nat /\ inTransit \in Seq(PacketRecord)
  BY RecordTypes DEF IInv, CoreTypes
<1>6. CASE FromTheFuture(sequence) \/ inTransit = <<>>
  <2>1. UNCHANGED <<inTransit, baseDelay, history, il, fault>>
    BY <1>2, <1>6 DEF ProcessFeedback
  <2> QED
    BY <1>1, <1>3, <2>1 DEF IInv, CoreTypes, Phase, TransitInv, TransitContiguous, HistoryInv,
       CrossInv, BaseInv, AssertionsHold
<1>7. CASE ~FromTheFuture(sequence) /\ inTransit # <<>>
  <2>4. PICK k \in 0 .. Len(inTransit) - 1 :
          /\ ScanPopsExactly(k, sequence)
          /\ MatchFeedback(k, sequence, rx)
    BY <1>2, <1>7, FeedbackScans
  <2> DEFINE p == inTransit[k + 1]
  <2>5. /\ k + 1 \in 1 .. Len(inTransit)
        /\ k \in 0 .. Len(inTransit) /\ k + 1 \in 0 .. Len(inTransit)
    BY <1>5, <2>4
  <2>6. p.seq \in Sequences16
    BY <2>5, RecordTypes DEF IInv
  <2>7. CASE LessThan(sequence, p.seq)
    <3>1. /\ inTransit' = DropFirst(inTransit, k)
          /\ UNCHANGED <<baseDelay, history, il, fault>>
      BY <2>4, <2>7 DEF MatchFeedback
    <3>2. CoreTypes' /\ Phase' /\ TransitInv' /\ HistoryInv' /\ CrossInv' /\ BaseInv'
      BY <1>1, <1>3, <2>5, <3>1, DropOnly
    <3> QED
      BY <3>1, <3>2 DEF IInv, AssertionsHold
  <2>8. CASE ~LessThan(sequence, p.seq)
    <3>1. /\ inTransit' = DropFirst(inTransit, k + 1)
          /\ \/ sequence # p.seq
             \/ /\ DecreasingTimestamp(p)
                /\ UNCHANGED <<baseDelay, history, pktSizeSum, il, fault>>
             \/ ~DecreasingTimestamp(p) /\ Account(p, rx)
      BY <2>4, <2>8 DEF MatchFeedback, LeftInTransit
    <3>2. sequence = p.seq
      <4>1. Diff(lastSequence, p.seq) = Len(inTransit) - (k + 1)
        BY <2>5 DEF IInv, TransitInv, TransitContiguous
      <4>2. 2 * (Len(inTransit) - 1) < SeqMod
        BY DEF IInv, TransitInv
      <4>3. 2 * Diff(lastSequence, p.seq) < SeqMod
        BY <1>5, <2>4, <4>1, <4>2, SeqModAssumption
      <4>4. ~LessThan(p.seq, sequence) /\ ~LessThan(lastSequence, sequence)
        BY <1>7, <2>4 DEF ScanPopsExactly, FromTheFuture
      <4>5. 2 * Diff(lastSequence, sequence) < SeqMod \/ 2 * Diff(sequence, lastSequence) < SeqMod
        BY <1>2, <1>7 DEF Plausible
      <4> QED
        BY <1>5, <2>6, <2>8, <4>3, <4>4, <4>5, ScanFinds
    <3>3. CASE DecreasingTimestamp(p) /\ UNCHANGED <<baseDelay, history, pktSizeSum, il, fault>>
      <4>1. CoreTypes' /\ Phase' /\ TransitInv' /\ HistoryInv' /\ CrossInv' /\ BaseInv'
        BY <1>1, <1>3, <2>5, <3>1, <3>3, DropOnly
      <4> QED
        BY <3>3, <4>1 DEF IInv, AssertionsHold
    <3>4. CASE ~DecreasingTimestamp(p) /\ Account(p, rx)
      BY <1>1, <1>3, <1>4, <2>4, <3>1, <3>4, AccountInv
    <3> QED
      BY <3>1, <3>2, <3>3, <3>4
  <2> QED
    BY <2>7, <2>8
<1> QED
  BY <1>6, <1>7

LEMMA FeedbackInv == IInv /\ Feedback => IInv'
<1> SUFFICES ASSUME IInv, Feedback PROVE IInv'
  OBVIOUS
<1>1. PICK sequence \in Sequences16, rx \in now - MaxDelay .. now - 1 :
        /\ Plausible(sequence)
        /\ ProcessFeedback(sequence, rx)
  BY DEF Feedback
<1>2. rx \in Int /\ UNCHANGED <<now, nextSequence>>
  BY ControllerAssumption DEF Feedback, IInv, CoreTypes
<1> QED
  BY <1>1, <1>2, ProcessFeedbackInv

-----------------------------------------------------------------------------
(* Theorems *)

\* The invariant is inductive, hence holds throughout every behaviour of the
\* controller.
THEOREM Invariance == Spec => []IInv
<1>1. Init => IInv
  BY InitInv
<1>2. IInv /\ [Next]_vars => IInv'
  BY StutterInv, TickInv, ResetInv, SendInv, FeedbackInv DEF Next
<1> QED
  BY <1>1, <1>2, PTL DEF Spec

\* Whatever feedback arrives, every variable keeps the type it is declared with.
THEOREM TypesAreKept == Spec => []TypeOK
<1>1. IInv => TypeOK
  BY DEF IInv, CoreTypes, InterLossState, TypeOK
<1> QED
  BY <1>1, Invariance, PTL

\* The records in transit are always the packets sent last, without a hole:
\* what processFeedback takes for granted when it scans m_inTransitPackets.
THEOREM TransitIsContiguous == Spec => []TransitContiguous
<1>1. IInv => TransitContiguous
  BY DEF IInv, TransitInv
<1> QED
  BY <1>1, Invariance, PTL

\* Whatever feedback arrives, the asserts of processSendPacket and
\* processFeedback hold and front() is never read from an empty deque; the
\* assert of updateInterLossData fails only past WrapMargin missing packets.
THEOREM NoOtherAssertFails == Spec => []AssertionsHold
<1>1. IInv => AssertionsHold
  BY DEF IInv
<1> QED
  BY <1>1, Invariance, PTL

\* The history is in sending order, across wraps of the sequence number, and
\* within the history length.
THEOREM HistoryIsOrdered == Spec => []HistoryWindow
<1>1. IInv => HistoryWindow
  <2> SUFFICES ASSUME IInv, NEW i \in 1 .. Len(history), NEW j \in 1 .. Len(history), i < j
               PROVE  /\ LessThan(history[i].seq, history[j].seq)
                      /\ history[i].tx <= history[j].tx
                      /\ history[j].tx < history[i].tx + HistoryLength
    BY DEF HistoryWindow
  <2>1. history[i].seq \in Sequences16 /\ history[j].seq \in Sequences16
    BY RecordTypes DEF IInv
  <2>2. /\ Ahead(history[i].seq, history[j].seq)
        /\ history[i].tx <= history[j].tx
        /\ history[j].tx < history[i].tx + HistoryLength
    BY DEF IInv, HistoryInv
  <2> QED
    BY <2>1, <2>2, AheadLessThan
<1> QED
  BY <1>1, Invariance, PTL

\* No packet is at the same time in transit and in the history, whatever is
\* lost, repeated or reordered on the feedback path.
THEOREM TransitAndHistoryApart == Spec => []NeverBoth
<1>1. IInv => NeverBoth
  <2> SUFFICES ASSUME IInv, NEW r \in Records(history), NEW p \in Records(inTransit)
               PROVE  /\ r.tx <= p.tx
                      /\ p.tx <= r.tx + TxWindow => LessThan(r.seq, p.seq)
    BY DEF NeverBoth
  <2>1. PICK i \in 1 .. Len(history) : r = history[i]
    BY DEF Records
  <2>2. PICK m \in 1 .. Len(inTransit) : p = inTransit[m]
    BY DEF Records
  <2>3. r.seq \in Sequences16 /\ p.seq \in Sequences16
    BY <2>1, <2>2, RecordTypes DEF IInv
  <2>4. r.tx <= p.tx /\ (p.tx <= r.tx + TxWindow => Ahead(r.seq, p.seq))
    BY <2>1, <2>2 DEF IInv, CrossInv
  <2> QED
    BY <2>3, <2>4, AheadLessThan
<1> QED
  BY <1>1, Invariance, PTL

\* The queueing delay is never computed from a base delay larger than the
\* delay itself.
THEOREM QdelayIsNonNegative == Spec => []QdelayNeverWraps
<1>1. IInv => QdelayNeverWraps
  BY DEF IInv, BaseInv, QdelayNeverWraps, Records
<1> QED
  BY <1>1, Invariance, PTL

LEMMA SpanCoversHistory == IInv => LossSpan
<1> SUFFICES ASSUME IInv, history # <<>>
             PROVE  1 + Diff(Back(history).seq, Front(history).seq) >= Len(history)
  BY DEF LossSpan
<1> DEFINE n == Len(history)
<1>1. n \in Nat /\ n >= 1 /\ 1 \in 1 .. n /\ n \in 1 .. n
  <2>1. history \in Seq(HistoryRecord)
    BY DEF IInv, CoreTypes
  <2> QED
    BY <2>1, EmptySeq
<1>2. history[1].seq \in Sequences16 /\ history[n].seq \in Sequences16
  BY <1>1, RecordTypes DEF IInv
<1>3. CASE n = 1
  <2>1. Diff(history[n].seq, history[1].seq) = 0
    BY <1>2, <1>3, DiffType
  <2> QED
    BY <1>3, <2>1 DEF Back, Front
<1>4. CASE n # 1
  <2>1. Diff(history[n].seq, history[1].seq) >= n - 1
    <3>1. \A i, j \in 1 .. n : i < j => Diff(history[j].seq, history[i].seq) >= j - i
      BY DEF IInv, HistoryInv
    <3> HIDE DEF n
    <3>2. 1 < n
      BY <1>1, <1>4
    <3> QED
      BY <1>1, <3>1, <3>2
  <2>2. Diff(history[n].seq, history[1].seq) \in 0 .. SeqMod - 1
    BY <1>2, DiffType
  <2> QED
    BY <1>1, <2>1, <2>2, SeqModAssumption DEF Back, Front
<1> QED
  BY <1>3, <1>4
\* The number of lost packets is never negative: the history spans at least as
\* many sequence numbers as it has packets (the assert of getPktLossInfo).
THEOREM LossIsNonNegative == Spec => []LossSpan
  BY SpanCoversHistory, Invariance, PTL

-----------------------------------------------------------------------------
(* What feedback adds to the history, and the loss intervals *)

\* An item of feedback leaves history, sum and loss intervals alone, or accounts
\* for the packet in transit that it names.
LEMMA ProcessFeedbackEffect ==
  ASSUME NEW sequence, NEW rx, ProcessFeedback(sequence, rx)
  PROVE  \/ UNCHANGED <<history, pktSizeSum, il, baseDelay>>
         \/ \E k \in 0 .. Len(inTransit) - 1 :
               /\ inTransit[k + 1].seq = sequence
               /\ inTransit' = DropFirst(inTransit, k + 1)
               /\ ~DecreasingTimestamp(inTransit[k + 1])
               /\ ~InterLossFault(HistoryBefore(inTransit[k + 1]), inTransit[k + 1].seq)
               /\ Account(inTransit[k + 1], rx)
<1>1. CASE UNCHANGED <<history, pktSizeSum, il, baseDelay>>
  BY <1>1
<1>2. CASE ~UNCHANGED <<history, pktSizeSum, il, baseDelay>>
  <2>1. PICK k \in 0 .. Len(inTransit) - 1 : MatchFeedback(k, sequence, rx)
    BY <1>2 DEF ProcessFeedback
  <2>2. /\ inTransit' = LeftInTransit(k)
        /\ inTransit[k + 1].seq = sequence
        /\ ~DecreasingTimestamp(inTransit[k + 1])
        /\ Account(inTransit[k + 1], rx)
    BY <1>2, <2>1 DEF MatchFeedback
  <2>3. ~InterLossFault(HistoryBefore(inTransit[k + 1]), inTransit[k + 1].seq)
    BY <1>2, <2>2 DEF Account
  <2> QED
    BY <2>2, <2>3 DEF LeftInTransit
<1> QED
  BY <1>1, <1>2

LEMMA FeedbackEffect ==
  ASSUME IInv, Feedback
  PROVE  \/ UNCHANGED <<history, pktSizeSum, il>>
         \/ \E k \in 0 .. Len(inTransit) - 1, rx \in Int :
               /\ inTransit' = DropFirst(inTransit, k + 1)
               /\ ~InterLossFault(HistoryBefore(inTransit[k + 1]), inTransit[k + 1].seq)
               /\ Account(inTransit[k + 1], rx)
<1>1. PICK sequence \in Sequences16, rx \in now - MaxDelay .. now - 1 :
        ProcessFeedback(sequence, rx)
  BY DEF Feedback
<1>2. rx \in Int
  BY ControllerAssumption DEF IInv, CoreTypes
<1> QED
  BY <1>1, <1>2, ProcessFeedbackEffect

\* The record accounted for becomes the newest of the history and is the only
\* one that is new.
LEMMA AccountEffect ==
  ASSUME IInv, NEW k \in 0 .. Len(inTransit) - 1, NEW rx \in Int,
         ~InterLossFault(HistoryBefore(inTransit[k + 1]), inTransit[k + 1].seq),
         Account(inTransit[k + 1], rx)
  PROVE  \E rec \in HistoryRecord :
           /\ inTransit[k + 1] = [seq |-> rec.seq, tx |-> rec.tx, size |-> rec.size]
           /\ history' # <<>>
           /\ Back(history') = rec
           /\ \A i \in 1 .. Len(history') :
                history'[i] = rec \/ history'[i] \in Records(history)
           /\ il' = InterLossUpdated(HistoryBefore(inTransit[k + 1]), rec.seq)
           /\ rec.owd = rx - rec.tx
           /\ LET h == HistoryBefore(inTransit[k + 1])
              IN  \E m \in 0 .. Len(h) :
                     /\ Len(history') = Len(h) + 1 - m
                     /\ \A i \in 1 .. Len(history') :
                          history'[i] = IF i + m = Len(h) + 1 THEN rec ELSE h[i + m]
<1> DEFINE p == inTransit[k + 1]
           h == HistoryBefore(p)
           rec == [seq |-> p.seq, tx |-> p.tx, size |-> p.size, owd |-> rx - p.tx]
           grown == Append(h, rec)
           n == Len(h)
<1>1. k + 1 \in 1 .. Len(inTransit) /\ p \in PacketRecord
  BY RecordTypes DEF IInv
<1>2. rec \in HistoryRecord
  BY <1>1 DEF PacketRecord, HistoryRecord
<1>3. p = [seq |-> rec.seq, tx |-> rec.tx, size |-> rec.size]
  BY <1>1 DEF PacketRecord
<1>4. il' = InterLossUpdated(h, rec.seq)
  BY DEF Account
<1>5. \E m \in 0 .. Len(grown) - 1 : history' = DropFirst(grown, m)
  BY DEF Account
<1>6. h \in Seq(HistoryRecord) /\ (h = <<>> \/ h = history)
  <2>1. <<>> \in Seq(HistoryRecord) /\ history \in Seq(HistoryRecord)
    BY DEF IInv, CoreTypes
  <2> QED
    BY <2>1 DEF HistoryBefore
<1>7. rec.owd = rx - rec.tx
  OBVIOUS
<1> HIDE DEF h, rec
<1>8. /\ n \in Nat
      /\ grown \in Seq(HistoryRecord)
      /\ Len(grown) = n + 1
      /\ \A i \in 1 .. n : grown[i] = h[i]
      /\ grown[n + 1] = rec
  BY <1>2, <1>6, AppendProperties, LenProperties
<1>9. \A i \in 1 .. n : h[i] \in Records(history)
  <2>1. h = <<>> => n = 0
    OBVIOUS
  <2> QED
    BY <1>6, <1>8, <2>1 DEF Records
<1> HIDE DEF n, grown
<1>10. PICK m \in 0 .. n : history' = DropFirst(grown, m)
  BY <1>5, <1>8
<1>11. /\ history' \in Seq(HistoryRecord)
       /\ Len(history') = n + 1 - m
       /\ \A i \in 1 .. n + 1 - m : history'[i] = grown[i + m]
  <2>1. m \in 0 .. Len(grown)
    BY <1>8
  <2>2. /\ DropFirst(grown, m) \in Seq(HistoryRecord)
        /\ Len(DropFirst(grown, m)) = Len(grown) - m
        /\ \A i \in 1 .. Len(grown) - m : DropFirst(grown, m)[i] = grown[i + m]
    BY <1>8, <2>1, DropFirstProperties
  <2> QED
    BY <1>8, <1>10, <2>2
<1>12. history' # <<>> /\ Back(history') = rec
  <2>1. n + 1 - m \in 1 .. n + 1 - m /\ (n + 1 - m) + m = n + 1
    BY <1>8
  <2>2. history'[n + 1 - m] = rec
    BY <1>8, <1>11, <2>1
  <2> QED
    BY <1>8, <1>11, <2>1, <2>2, EmptySeq DEF Back
<1>13. \A i \in 1 .. Len(history') : history'[i] = rec \/ history'[i] \in Records(history)
  <2> SUFFICES ASSUME NEW i \in 1 .. Len(history')
               PROVE  history'[i] = rec \/ history'[i] \in Records(history)
    OBVIOUS
  <2>1. history'[i] = grown[i + m] /\ (i + m = n + 1 \/ i + m \in 1 .. n)
    BY <1>8, <1>11
  <2> QED
    BY <1>8, <1>9, <2>1
<1>14. \A i \in 1 .. Len(history') : history'[i] = IF i + m = n + 1 THEN rec ELSE h[i + m]
  <2> SUFFICES ASSUME NEW i \in 1 .. Len(history')
               PROVE  history'[i] = IF i + m = n + 1 THEN rec ELSE h[i + m]
    OBVIOUS
  <2>1. history'[i] = grown[i + m] /\ (i + m # n + 1 => i + m \in 1 .. n)
    BY <1>8, <1>11
  <2> QED
    BY <1>8, <2>1
<1>15. \E j \in 0 .. n : /\ Len(history') = n + 1 - j
                        /\ \A i \in 1 .. Len(history') :
                             history'[i] = IF i + j = n + 1 THEN rec ELSE h[i + j]
  BY <1>11, <1>14
<1> QED
  BY <1>2, <1>3, <1>4, <1>12, <1>13, <1>7, <1>15 DEF h, n

\* Every packet that enters the history was in transit, and leaves it with that
\* very step together with the packets sent before it.
THEOREM CreditComesFromTransit == Spec => CreditedFromTransit
<1> DEFINE Credit ==
      \A r \in Records(history') \ Records(history) :
         \E i \in 1 .. Len(inTransit) :
            /\ inTransit[i] = [seq |-> r.seq, tx |-> r.tx, size |-> r.size]
            /\ inTransit' = DropFirst(inTransit, i)
<1>1. IInv /\ [Next]_vars => [Credit]_vars
  <2> SUFFICES ASSUME IInv, Next PROVE Credit
    OBVIOUS
  <2>1. CASE UNCHANGED history
    BY <2>1 DEF Records
  <2>2. CASE Reset
    BY <2>2 DEF Reset, Records
  <2>3. CASE Feedback /\ ~UNCHANGED history
    <3>1. PICK k \in 0 .. Len(inTransit) - 1, rx \in Int :
            /\ inTransit' = DropFirst(inTransit, k + 1)
            /\ ~InterLossFault(HistoryBefore(inTransit[k + 1]), inTransit[k + 1].seq)
            /\ Account(inTransit[k + 1], rx)
      BY <2>3, FeedbackEffect
    <3>2. PICK rec \in HistoryRecord :
            /\ inTransit[k + 1] = [seq |-> rec.seq, tx |-> rec.tx, size |-> rec.size]
            /\ \A i \in 1 .. Len(history') :
                 history'[i] = rec \/ history'[i] \in Records(history)
      BY <3>1, AccountEffect
    <3>3. k + 1 \in 1 .. Len(inTransit)
      BY RecordTypes DEF IInv
    <3>4. \A r \in Records(history') \ Records(history) : r = rec
      BY <3>2 DEF Records
    <3> QED
      BY <3>1, <3>2, <3>3, <3>4
  <2>4. Send \/ Tick => UNCHANGED history
    BY DEF Send, Tick, ProcessSendPacket, ctlVars
  <2> QED
    BY <2>1, <2>2, <2>3, <2>4 DEF Next
<1> QED
  BY <1>1, Invariance, PTL DEF Spec, CreditedFromTransit

\* IntervalsConsistent, and there always is a current interval.
IntervalsInv == IntervalsConsistent /\ Len(il.intervals) >= 1

\* A step of updateInterLossData keeps the number of intervals in agreement with
\* the flag that says whether there are several.
LEMMA InterLossCount ==
  ASSUME il \in InterLossState, IntervalsInv, NEW h, NEW s \in Sequences16
  PROVE  LET u == InterLossUpdated(h, s)
         IN  /\ u.initialized <=> Len(u.intervals) >= 2
             /\ Len(u.intervals) \in 1 .. MaxIntervals
             /\ u.expected = Inc(s)
<1> DEFINE b == InterLossBase(h, s)
           shifted == <<1>> \o b.intervals
           u == InterLossUpdated(h, s)
<1>1. 0 \in Sequences16 /\ 1 \in Sequences16
  BY SeqModAssumption DEF Sequences16
<1>2. /\ b.intervals \in Seq(Sequences16)
      /\ b.initialized <=> Len(b.intervals) >= 2
      /\ Len(b.intervals) \in 1 .. MaxIntervals
  <2>1. CASE h = <<>>
    <3>1. b.intervals = <<0>> /\ b.initialized = FALSE
      BY <2>1 DEF InterLossBase, InitialInterLoss
    <3> QED
      BY <1>1, <3>1, ControllerAssumption
  <2>2. CASE h # <<>>
    <3>1. b = il
      BY <2>2 DEF InterLossBase
    <3>2. il.intervals \in Seq(Sequences16)
      BY DEF InterLossState
    <3>3. il.intervals \in Seq(Sequences16) /\ Len(il.intervals) \in Nat
      BY <3>2, LenProperties
    <3> QED
      BY <3>1, <3>3, ControllerAssumption DEF IntervalsInv, IntervalsConsistent
  <2> QED
    BY <2>1, <2>2
<1>3. b \in InterLossState
  <2>1. InitialInterLoss \in InterLossState
    BY <1>1 DEF InitialInterLoss, InterLossState
  <2> QED
    BY <2>1 DEF InterLossBase, InterLossState
<1> HIDE DEF b
<1>4. CASE s = b.expected
  <2>1. u = [b EXCEPT !.intervals[1] = Inc(@), !.expected = Inc(@)]
    BY <1>4 DEF InterLossUpdated, b
  <2>2. /\ u.initialized = b.initialized
        /\ u.expected = Inc(s)
        /\ u.intervals = [b.intervals EXCEPT ![1] = Inc(@)]
    BY <1>3, <1>4, <2>1 DEF InterLossState
  <2>3. Len(u.intervals) = Len(b.intervals)
    BY <1>2, <2>2
  <2> QED
    BY <1>2, <2>2, <2>3
<1>5. CASE s # b.expected
  <2> DEFINE m == IF Len(shifted) > MaxIntervals THEN MaxIntervals ELSE Len(shifted)
  <2>1. shifted \in Seq(Sequences16) /\ Len(shifted) = 1 + Len(b.intervals)
    BY <1>1, <1>2, ConcatProperties
  <2>2. u = [intervals |-> SubSeq(shifted, 1, m), expected |-> Inc(s), initialized |-> TRUE]
    BY <1>5 DEF InterLossUpdated, b
  <2>3. m \in 2 .. MaxIntervals /\ m \in 0 .. Len(shifted)
    BY <1>2, <2>1, ControllerAssumption
  <2> HIDE DEF shifted, m
  <2>4. Len(SubSeq(shifted, 1, m)) = m
    <3>1. \A i \in 1 .. m : shifted[i] \in Sequences16
      BY <2>1, <2>3, ElementOfSeq
    <3> QED
      BY <2>3, <3>1, SubSeqProperties
  <2> QED
    BY <2>2, <2>3, <2>4, ControllerAssumption
<1> QED
  BY <1>4, <1>5

LEMMA AccountKeepsIntervals ==
  ASSUME IInv, IntervalsInv, NEW k \in 0 .. Len(inTransit) - 1, NEW rx \in Int,
         ~InterLossFault(HistoryBefore(inTransit[k + 1]), inTransit[k + 1].seq),
         Account(inTransit[k + 1], rx)
  PROVE  IntervalsInv'
<1>1. PICK rec \in HistoryRecord :
        /\ Back(history') = rec
        /\ il' = InterLossUpdated(HistoryBefore(inTransit[k + 1]), rec.seq)
  BY AccountEffect
<1>2. rec.seq \in Sequences16
  BY DEF HistoryRecord
<1>3. /\ il'.initialized <=> Len(il'.intervals) >= 2
      /\ Len(il'.intervals) \in 1 .. MaxIntervals
      /\ il'.expected = Inc(rec.seq)
  BY <1>1, <1>2, InterLossCount DEF IInv, CoreTypes
<1> QED
  BY <1>1, <1>3, ControllerAssumption DEF IntervalsInv, IntervalsConsistent, Back

\* Once a loss was seen there are 2 to MaxIntervals intervals, and the number
\* expected next is always the successor of the newest credited packet's.
THEOREM IntervalsAreConsistent == Spec => []IntervalsConsistent
<1>1. Init => IntervalsInv
  BY ControllerAssumption DEF Init, IntervalsInv, IntervalsConsistent, InitialInterLoss
<1>2. IInv /\ IntervalsInv /\ [Next]_vars => IntervalsInv'
  <2> SUFFICES ASSUME IInv, IntervalsInv, [Next]_vars PROVE IntervalsInv'
    OBVIOUS
  <2>1. CASE UNCHANGED <<history, il>>
    BY <2>1 DEF IntervalsInv, IntervalsConsistent
  <2>2. CASE Reset
    BY <2>2, ControllerAssumption
       DEF Reset, IntervalsInv, IntervalsConsistent, InitialInterLoss
  <2>3. CASE Feedback /\ ~UNCHANGED <<history, il>>
    BY <2>3, FeedbackEffect, AccountKeepsIntervals
  <2>4. Send \/ Tick => UNCHANGED <<history, il>>
    BY DEF Send, Tick, ProcessSendPacket, ctlVars
  <2>5. UNCHANGED vars => UNCHANGED <<history, il>>
    BY DEF vars, ctlVars
  <2> QED
    BY <2>1, <2>2, <2>3, <2>4, <2>5 DEF Next
<1>3. IntervalsInv => IntervalsConsistent
  BY DEF IntervalsInv
<1> QED
  BY <1>1, <1>2, <1>3, Invariance, PTL DEF Spec

\* What updateInterLossData does to the current interval.
LEMMA FirstInterval ==
  ASSUME NEW h, NEW s, InterLossBase(h, s) \in InterLossState, s # InterLossBase(h, s).expected
  PROVE  LET u == InterLossUpdated(h, s) IN u.initialized = TRUE /\ u.intervals[1] = 1
<1> DEFINE b == InterLossBase(h, s)
           shifted == <<1>> \o b.intervals
           m == IF Len(shifted) > MaxIntervals THEN MaxIntervals ELSE Len(shifted)
           u == InterLossUpdated(h, s)
<1>1. 1 \in Sequences16 /\ b.intervals \in Seq(Sequences16)
  BY SeqModAssumption DEF Sequences16, InterLossState
<1>2. shifted \in Seq(Sequences16) /\ Len(shifted) = 1 + Len(b.intervals)
      /\ Len(b.intervals) \in Nat /\ shifted[1] = 1
  BY <1>1, ConcatProperties, LenProperties
<1>3. u = [intervals |-> SubSeq(shifted, 1, m), expected |-> Inc(s), initialized |-> TRUE]
  BY DEF InterLossUpdated
<1>4. m \in 1 .. Len(shifted)
  BY <1>2, ControllerAssumption
<1> HIDE DEF b, shifted, m, u
<1>5. \A i \in 1 .. m : shifted[i] \in Sequences16
  BY <1>2, <1>4, ElementOfSeq
<1>6. SubSeq(shifted, 1, m)[1] = shifted[1]
  BY <1>2, <1>4, <1>5, SubSeqProperties
<1>7. u.initialized = TRUE /\ u.intervals = SubSeq(shifted, 1, m)
  BY <1>3
<1> QED
  BY <1>2, <1>6, <1>7 DEF u

LEMMA SameInterval ==
  ASSUME NEW h, NEW s, InterLossBase(h, s) \in InterLossState, s = InterLossBase(h, s).expected,
         Len(InterLossBase(h, s).intervals) >= 1
  PROVE  LET u == InterLossUpdated(h, s)
             b == InterLossBase(h, s)
         IN  u.initialized = b.initialized /\ u.intervals[1] = Inc(b.intervals[1])
<1> DEFINE b == InterLossBase(h, s)
           u == InterLossUpdated(h, s)
<1>1. u = [b EXCEPT !.intervals[1] = Inc(@), !.expected = Inc(@)]
  BY DEF InterLossUpdated
<1>2. b \in InterLossState
  OBVIOUS
<1> HIDE DEF b
<1>3. /\ u.initialized = b.initialized
      /\ u.intervals = [b.intervals EXCEPT ![1] = Inc(@)]
  BY <1>1, <1>2 DEF InterLossState
<1>4. b.intervals \in Seq(Sequences16) /\ Len(b.intervals) \in Nat
  <2>1. b.intervals \in Seq(Sequences16)
    BY <1>2 DEF InterLossState
  <2> QED
    BY <2>1, LenProperties
<1>5. b.intervals \in [1 .. Len(b.intervals) -> Sequences16] /\ 1 \in 1 .. Len(b.intervals)
  BY <1>4, LenProperties DEF b
<1>6. u.intervals[1] = Inc(b.intervals[1])
  BY <1>3, <1>5
<1> QED
  BY <1>3, <1>6 DEF b

\* A packet that is not the one expected starts an interval of one packet; one that
\* is extends the run behind the last hole and the interval alike.
LEMMA AccountKeepsCurrent ==
  ASSUME IInv, IInv', IntervalsInv, CurrentIntervalSinceHole,
         NEW k \in 0 .. Len(inTransit) - 1, NEW rx \in Int,
         ~InterLossFault(HistoryBefore(inTransit[k + 1]), inTransit[k + 1].seq),
         Account(inTransit[k + 1], rx)
  PROVE  CurrentIntervalSinceHole'
<1> DEFINE h == HistoryBefore(inTransit[k + 1])
           n == Len(h)
<1> SUFFICES ASSUME NEW i \in 2 .. Len(history'),
                    history'[i].seq # Inc(history'[i - 1].seq),
                    \A j \in i + 1 .. Len(history') :
                       history'[j].seq = Inc(history'[j - 1].seq)
             PROVE  il'.initialized /\ il'.intervals[1] = Len(history') - i + 1
  BY DEF CurrentIntervalSinceHole
<1>1. PICK rec \in HistoryRecord :
        /\ il' = InterLossUpdated(h, rec.seq)
        /\ \E m \in 0 .. n :
              /\ Len(history') = n + 1 - m
              /\ \A j \in 1 .. Len(history') :
                    history'[j] = IF j + m = n + 1 THEN rec ELSE h[j + m]
  BY AccountEffect
<1>2. PICK m \in 0 .. n :
        /\ Len(history') = n + 1 - m
        /\ \A j \in 1 .. Len(history') :
              history'[j] = IF j + m = n + 1 THEN rec ELSE h[j + m]
  BY <1>1
<1>3. /\ h = history /\ history # <<>> /\ n \in Nat
      /\ rec.seq \in Sequences16
  <2>1. h = <<>> \/ h = history
    BY DEF HistoryBefore
  <2>2. n \in Nat /\ Len(history') \in Nat
    <3>1. Len(history) \in Nat /\ Len(<<>>) = 0
      BY RecordTypes DEF IInv
    <3>2. n \in Nat
      BY <2>1, <3>1
    <3> QED
      BY <1>2, <3>2
  <2>3. h # <<>>
    BY <1>2, <2>2
  <2> QED
    BY <2>1, <2>2, <2>3 DEF HistoryRecord
<1> HIDE DEF h, n
<1>4. n = Len(history) /\ n >= 1 /\ i + m \in 2 .. n + 1
  BY <1>2, <1>3 DEF n
<1>5. history'[i - 1] = history[i + m - 1] /\ i + m - 1 \in 1 .. n
  <2>1. i - 1 \in 1 .. Len(history') /\ (i - 1) + m # n + 1 /\ (i - 1) + m = i + m - 1
    BY <1>2, <1>3, <1>4
  <2>2. history'[i - 1] = h[(i - 1) + m]
    BY <1>2, <2>1
  <2> QED
    BY <1>3, <1>4, <2>1, <2>2
<1>6. /\ InterLossBase(h, rec.seq) = il
      /\ il \in InterLossState
      /\ il.expected = Inc(history[n].seq)
      /\ Len(il.intervals) >= 1
  BY <1>3, <1>4 DEF InterLossBase, IInv, CoreTypes, IntervalsInv, IntervalsConsistent, Back
<1>7. CASE rec.seq # il.expected
  <2>1. il'.initialized = TRUE /\ il'.intervals[1] = 1
    BY <1>1, <1>6, <1>7, FirstInterval
  <2>2. i = Len(history')
    <3> SUFFICES ASSUME i # Len(history') PROVE FALSE
      OBVIOUS
    <3>1. /\ Len(history') \in i + 1 .. Len(history')
          /\ Len(history') \in 1 .. Len(history')
          /\ Len(history') - 1 \in 1 .. Len(history')
          /\ Len(history') - 1 + m = n
          /\ Len(history') + m = n + 1
      <4>1. Len(history') \in Nat /\ i <= Len(history') - 1 /\ i >= 2
        BY <1>2, <1>3, <1>4
      <4> QED
        BY <1>2, <1>3, <4>1
    <3>2. history'[Len(history')] = rec /\ history'[Len(history') - 1] = history[n]
      BY <1>2, <1>3, <3>1
    <3>3. rec.seq = Inc(history[n].seq)
      BY <3>1, <3>2
    <3> QED
      BY <1>6, <1>7, <3>3
  <2> QED
    BY <1>2, <1>3, <2>1, <2>2
<1>8. CASE rec.seq = il.expected
  <2> DEFINE o == i + m
  <2>1. o # n + 1
    <3> SUFFICES ASSUME o = n + 1 PROVE FALSE
      OBVIOUS
    <3>1. history'[i] = rec /\ history'[i - 1] = history[n]
      BY <1>2, <1>4, <1>5
    <3> QED
      BY <1>6, <1>8, <3>1
  <2>2. o \in 2 .. n /\ history'[i] = history[o] /\ history'[i - 1] = history[o - 1]
    BY <1>2, <1>3, <1>4, <1>5, <2>1
  <2>3. ASSUME NEW j \in o + 1 .. n
        PROVE  history[j].seq = Inc(history[j - 1].seq)
    <3>1. /\ j - m \in i + 1 .. Len(history')
          /\ j - m \in 1 .. Len(history') /\ j - m - 1 \in 1 .. Len(history')
          /\ (j - m) + m = j /\ (j - m - 1) + m = j - 1
          /\ j # n + 1 /\ j - 1 # n + 1
      BY <1>2, <1>3, <1>4, <2>2
    <3>2. history'[j - m] = history[j] /\ history'[j - m - 1] = history[j - 1]
      BY <1>2, <1>3, <3>1
    <3> QED
      BY <3>1, <3>2
  <2>4. il.initialized /\ il.intervals[1] = n - o + 1
    BY <1>4, <2>2, <2>3 DEF CurrentIntervalSinceHole
  <2>5. n - o + 1 < SeqMod - 1
    <3>1. Ahead(history[o - 1].seq, history[n].seq)
          /\ Diff(history[n].seq, history[o - 1].seq) >= n - (o - 1)
      <4>1. o - 1 \in 1 .. Len(history) /\ n \in 1 .. Len(history) /\ o - 1 < n
        BY <1>3, <1>4, <2>2
      <4> QED
        BY <4>1 DEF IInv, HistoryInv
    <3>2. Diff(history[n].seq, history[o - 1].seq) \in Int
      <4>1. history[n].seq \in Sequences16 /\ history[o - 1].seq \in Sequences16
        BY <1>3, <1>4, <2>2, RecordTypes DEF IInv
      <4>2. Diff(history[n].seq, history[o - 1].seq) \in 0 .. SeqMod - 1
        BY <4>1, DiffType
      <4> QED
        BY <4>2, SeqModAssumption
    <3>3. 2 * (n - (o - 1)) < SeqMod
      BY <1>3, <2>2, <3>1, <3>2, SeqModAssumption DEF Ahead
    <3> QED
      BY <1>3, <2>2, <3>3, SeqModAssumption
  <2>6. il'.initialized = il.initialized /\ il'.intervals[1] = Inc(il.intervals[1])
    BY <1>1, <1>6, <1>8, SameInterval
  <2>7. Inc(n - o + 1) = n - o + 2
    BY <1>4, <2>2, <2>5, SeqModAssumption DEF Inc
  <2> QED
    BY <1>2, <1>3, <1>4, <2>2, <2>4, <2>6, <2>7
<1> QED
  BY <1>7, <1>8

\* The current loss interval counts what was received since the last hole that the
\* history shows, for every sequence space, history length and pattern of losses.
THEOREM CurrentIntervalIsCounted == Spec => []CurrentIntervalSinceHole
<1> DEFINE J == IntervalsInv /\ CurrentIntervalSinceHole
<1>1. Init => J
  BY ControllerAssumption
     DEF Init, IntervalsInv, IntervalsConsistent, InitialInterLoss, CurrentIntervalSinceHole
<1>2. IInv /\ IInv' /\ J /\ [Next]_vars => J'
  <2> SUFFICES ASSUME IInv, IInv', J, [Next]_vars PROVE J'
    OBVIOUS
  <2>1. CASE UNCHANGED <<history, il>>
    BY <2>1 DEF IntervalsInv, IntervalsConsistent, CurrentIntervalSinceHole
  <2>2. CASE Reset
    BY <2>2, ControllerAssumption
       DEF Reset, IntervalsInv, IntervalsConsistent, InitialInterLoss, CurrentIntervalSinceHole
  <2>3. CASE Feedback /\ ~UNCHANGED <<history, il>>
    BY <2>3, FeedbackEffect, AccountKeepsIntervals, AccountKeepsCurrent
  <2>4. Send \/ Tick => UNCHANGED <<history, il>>
    BY DEF Send, Tick, ProcessSendPacket, ctlVars
  <2>5. UNCHANGED vars => UNCHANGED <<history, il>>
    BY DEF vars, ctlVars
  <2> QED
    BY <2>1, <2>2, <2>3, <2>4, <2>5 DEF Next
<1>3. J => CurrentIntervalSinceHole
  OBVIOUS
<1> QED
  BY <1>1, <1>2, <1>3, Invariance, PTL DEF Spec

-----------------------------------------------------------------------------
(* The sum of the sizes *)

SizesOf(s) == [i \in 1 .. Len(s) |-> s[i].size]
ListSize(s) == Total(SizesOf(s), 1 .. Len(s))

LEMMA SizeTypes ==
  ASSUME NEW s \in Seq(HistoryRecord)
  PROVE  /\ Len(s) \in Nat
         /\ IsFiniteSet(1 .. Len(s))
         /\ \A i \in 1 .. Len(s) : SizesOf(s)[i] = s[i].size /\ SizesOf(s)[i] \in Nat
<1>1. Len(s) \in Nat
  BY LenProperties
<1>2. \A i \in 1 .. Len(s) : s[i] \in HistoryRecord
  BY ElementOfSeq
<1>3. \A r \in HistoryRecord : r.size \in Nat
  BY DEF HistoryRecord
<1>4. IsFiniteSet(1 .. Len(s))
  BY <1>1, FS_Interval
<1>5. \A i \in 1 .. Len(s) : SizesOf(s)[i] = s[i].size /\ SizesOf(s)[i] \in Nat
  BY <1>2, <1>3 DEF SizesOf
<1> QED
  BY <1>1, <1>4, <1>5

\* What the fold computes is the sum.
LEMMA TotalSizeIsSum ==
  ASSUME NEW s \in Seq(HistoryRecord)
  PROVE  TotalSize(s) = ListSize(s)
<1> DEFINE S == 1 .. Len(s)
           v == SizesOf(s)
           Body(F, t) == IF t = {} THEN 0
                         ELSE s[CHOOSE x \in t : TRUE].size + F[t \ {CHOOSE x \in t : TRUE}]
           SumBody(F, t) == IF t = {} THEN 0
                            ELSE v[AnyMember(S)[t]] + F[t \ {AnyMember(S)[t]}]
           G == CHOOSE F : F = [t \in SUBSET S |-> Body(F, t)]
<1>1. DOMAIN s = S
  BY LenProperties
<1>2. TotalSize(s) = G[S]
  BY <1>1, Zenon DEF TotalSize, FoldFunction, FoldFunctionOnSet, MapThenFoldSet
<1>3. IsFiniteSet(S) /\ \A x \in S : v[x] \in Int /\ v[x] = s[x].size
  BY SizeTypes
<1> HIDE DEF S, v
<1>4. \A F : \A t \in SUBSET S : SumBody(F, t) = Body(F, t)
  <2> SUFFICES ASSUME NEW F, NEW t \in SUBSET S PROVE SumBody(F, t) = Body(F, t)
    OBVIOUS
  <2>1. AnyMember(S)[t] = CHOOSE x \in t : TRUE
    BY DEF AnyMember
  <2>2. CASE t = {}
    BY <2>2
  <2>3. CASE t # {}
    <3>1. AnyMember(S)[t] \in S
      BY <2>3, AnyMemberPicks DEF Picks
    <3>2. v[AnyMember(S)[t]] = s[AnyMember(S)[t]].size
      BY <1>3, <3>1
    <3> QED
      BY <2>1, <2>3, <3>2
  <2> QED
    BY <2>2, <2>3
<1>5. \A F : [t \in SUBSET S |-> SumBody(F, t)] = [t \in SUBSET S |-> Body(F, t)]
  <2> HIDE DEF SumBody, Body
  <2> QED
    BY <1>4
<1>6. \A F : IsSum(F, AnyMember(S), v, S) <=> F = [t \in SUBSET S |-> SumBody(F, t)]
  BY DEF IsSum, SumsOver
<1>7. IsSum(G, AnyMember(S), v, S)
  <2>1. PICK F : IsSum(F, AnyMember(S), v, S)
    BY <1>3, SumExists, AnyMemberPicks
  <2> HIDE DEF SumBody, Body
  <2>2. F = [t \in SUBSET S |-> Body(F, t)]
    BY <1>5, <1>6, <2>1
  <2>3. G = [t \in SUBSET S |-> Body(G, t)]
    BY <2>2
  <2> QED
    BY <1>5, <1>6, <2>3
<1> HIDE DEF G
<1>8. G[S] = Total(v, S)
  BY <1>3, <1>7, FoldIsTotal, AnyMemberPicks
<1> QED
  BY <1>2, <1>8 DEF ListSize, S, v

LEMMA AppendSize ==
  ASSUME NEW s \in Seq(HistoryRecord), NEW r \in HistoryRecord
  PROVE  /\ Append(s, r) \in Seq(HistoryRecord)
         /\ ListSize(Append(s, r)) = r.size + ListSize(s)
         /\ ListSize(s) \in Int
<1> DEFINE n == Len(s)
           g == Append(s, r)
<1>1. /\ n \in Nat /\ g \in Seq(HistoryRecord) /\ Len(g) = n + 1
      /\ \A i \in 1 .. n : g[i] = s[i]
      /\ g[n + 1] = r
  BY LenProperties, AppendProperties
<1> HIDE DEF g
<1>2. \A i \in 1 .. n + 1 : SizesOf(g)[i] = g[i].size /\ SizesOf(g)[i] \in Int
  BY <1>1, SizeTypes
<1>3. \A i \in 1 .. n : SizesOf(s)[i] \in Int /\ SizesOf(s)[i] = SizesOf(g)[i]
  <2>1. \A i \in 1 .. n : SizesOf(s)[i] = s[i].size /\ SizesOf(s)[i] \in Nat
    BY SizeTypes
  <2> QED
    BY <1>1, <1>2, <2>1
<1> HIDE DEF n
<1>4. /\ Total(SizesOf(g), 1 .. n) \in Int
      /\ Total(SizesOf(g), 1 .. n + 1) = SizesOf(g)[n + 1] + Total(SizesOf(g), 1 .. n)
  BY <1>1, <1>2, TotalNext
<1>5. Total(SizesOf(s), 1 .. n) = Total(SizesOf(g), 1 .. n)
  <2> DEFINE v == SizesOf(s)
             w == SizesOf(g)
  <2>1. n \in Nat /\ \A i \in 1 .. n : v[i] \in Int /\ v[i] = w[i]
    BY <1>1, <1>3
  <2> HIDE DEF v, w
  <2>2. Total(v, 1 .. n) = Total(w, 1 .. n)
    BY <2>1, TotalAgrees
  <2> QED
    BY <2>2 DEF v, w
<1>6. SizesOf(g)[n + 1] = r.size
  BY <1>1, <1>2
<1>7. ListSize(g) = r.size + ListSize(s) /\ ListSize(s) \in Int
  BY <1>1, <1>4, <1>5, <1>6 DEF ListSize, n
<1> QED
  BY <1>1, <1>7 DEF g

\* What leaves the front of a list leaves its sum.
LEMMA DropSize ==
  ASSUME NEW s \in Seq(HistoryRecord), NEW k \in 0 .. Len(s)
  PROVE  /\ SubSeq(s, 1, k) \in Seq(HistoryRecord)
         /\ ListSize(DropFirst(s, k)) = ListSize(s) - ListSize(SubSeq(s, 1, k))
<1> DEFINE n == Len(s)
           a == SubSeq(s, 1, k)
           b == DropFirst(s, k)
<1>1. /\ b \in Seq(HistoryRecord) /\ Len(b) = n - k
      /\ \A i \in 1 .. n - k : b[i] = s[i + k]
  BY DropFirstProperties
<1>2. /\ a \in Seq(HistoryRecord) /\ Len(a) = k
      /\ \A i \in 1 .. k : a[i] = s[i]
  <2>1. n \in Nat
    BY LenProperties
  <2>2. \A i \in 1 .. k : s[i] \in HistoryRecord
    BY <2>1, ElementOfSeq
  <2>3. /\ a \in Seq(HistoryRecord)
        /\ Len(a) = IF 1 <= k THEN k - 1 + 1 ELSE 0
        /\ \A i \in 1 .. k - 1 + 1 : a[i] = s[1 + i - 1]
    BY <2>2, SubSeqProperties
  <2> QED
    BY <2>1, <2>3
<1>3. /\ n \in Nat /\ k \in Nat /\ n - k \in Nat /\ k + (n - k) = n
      /\ \A i \in 1 .. n : SizesOf(s)[i] = s[i].size /\ SizesOf(s)[i] \in Int
  BY SizeTypes
<1> HIDE DEF a, b
<1>4. \A i \in 1 .. n - k : SizesOf(b)[i] = SizesOf(s)[k + i]
  <2>1. \A i \in 1 .. n - k : SizesOf(b)[i] = b[i].size /\ i + k = k + i /\ k + i \in 1 .. n
    BY <1>1, <1>3, SizeTypes
  <2> QED
    BY <1>1, <1>3, <2>1
<1>5. \A i \in 1 .. k : SizesOf(s)[i] \in Int /\ SizesOf(a)[i] = SizesOf(s)[i] /\ SizesOf(a)[i] \in Int
  <2>1. \A i \in 1 .. k : SizesOf(a)[i] = a[i].size /\ i \in 1 .. n
    BY <1>2, <1>3, SizeTypes
  <2> QED
    BY <1>2, <1>3, <2>1
<1> HIDE DEF n
<1> DEFINE m == n - k
<1>6. m \in Nat /\ \A i \in 1 .. k + m : SizesOf(s)[i] \in Int
  BY <1>3
<1>7. \A i \in 1 .. m : SizesOf(b)[i] = SizesOf(s)[k + i]
  BY <1>4
<1> HIDE DEF m
<1>8. /\ Total(SizesOf(s), 1 .. k) \in Int /\ Total(SizesOf(b), 1 .. m) \in Int
      /\ Total(SizesOf(s), 1 .. k + m) = Total(SizesOf(s), 1 .. k) + Total(SizesOf(b), 1 .. m)
  <2> DEFINE v == SizesOf(s)
             w == SizesOf(b)
  <2>1. k \in Nat /\ m \in Nat /\ Integers(v, k + m) /\ Continues(w, v, k, m)
    BY <1>3, <1>6, <1>7 DEF Integers, Continues
  <2> HIDE DEF v, w
  <2>2. /\ Total(v, 1 .. k) \in Int /\ Total(w, 1 .. m) \in Int
        /\ Total(v, 1 .. k + m) = Total(v, 1 .. k) + Total(w, 1 .. m)
    BY <2>1, TotalSplit
  <2> QED
    BY <2>2 DEF v, w
<1>9. Total(SizesOf(a), 1 .. k) = Total(SizesOf(s), 1 .. k)
  <2> DEFINE v == SizesOf(a)
             w == SizesOf(s)
  <2>1. k \in Nat /\ \A i \in 1 .. k : v[i] \in Int /\ v[i] = w[i]
    BY <1>3, <1>5
  <2> HIDE DEF v, w
  <2>2. Total(v, 1 .. k) = Total(w, 1 .. k)
    BY <2>1, TotalAgrees
  <2> QED
    BY <2>2 DEF v, w
<1>10. k + m = n
  BY <1>3 DEF m
<1>11. ListSize(a) = Total(SizesOf(s), 1 .. k) /\ ListSize(b) = Total(SizesOf(b), 1 .. m)
  BY <1>1, <1>2, <1>9 DEF ListSize, m
<1>12. ListSize(s) = Total(SizesOf(s), 1 .. k + m)
  BY <1>10 DEF ListSize, n
<1> QED
  BY <1>2, <1>8, <1>11, <1>12 DEF a, b

\* m_pktSizeSum is the size of the packets in the history.
SizeInv == pktSizeSum = ListSize(history)

LEMMA EmptySize == ListSize(<<>>) = 0
<1>1. 1 .. Len(<<>>) = {}
  OBVIOUS
<1> QED
  BY <1>1, TotalEmpty DEF ListSize

\* Accounting for a packet adds its size and takes out that of the packets that
\* leave the history, or of all if it starts anew.
LEMMA AccountKeepsSize ==
  ASSUME IInv, SizeInv, NEW k \in 0 .. Len(inTransit) - 1, NEW rx \in Int,
         ~InterLossFault(HistoryBefore(inTransit[k + 1]), inTransit[k + 1].seq),
         Account(inTransit[k + 1], rx)
  PROVE  SizeInv'
<1> DEFINE p == inTransit[k + 1]
           h == HistoryBefore(p)
           rec == [seq |-> p.seq, tx |-> p.tx, size |-> p.size, owd |-> rx - p.tx]
           grown == Append(h, rec)
<1>1. p \in PacketRecord
  BY RecordTypes DEF IInv
<1>2. rec \in HistoryRecord /\ rec.size = p.size
  BY <1>1 DEF PacketRecord, HistoryRecord
<1>3. h \in Seq(HistoryRecord) /\ SizeBefore(p) = ListSize(h)
  <2>1. history \in Seq(HistoryRecord)
    BY DEF IInv, CoreTypes
  <2> QED
    BY <2>1, EmptySize DEF HistoryBefore, SizeBefore, SizeInv
<1>4. PICK m \in 0 .. Len(grown) - 1 :
        /\ history' = DropFirst(grown, m)
        /\ pktSizeSum' = SizeBefore(p) + p.size - TotalSize(SubSeq(grown, 1, m))
  BY DEF Account
<1> HIDE DEF h, rec
<1>5. /\ grown \in Seq(HistoryRecord)
      /\ ListSize(grown) = rec.size + ListSize(h)
      /\ ListSize(h) \in Int
  BY <1>2, <1>3, AppendSize
<1>6. m \in 0 .. Len(grown)
  BY <1>4, <1>5, LenProperties
<1> HIDE DEF grown
<1>7. /\ SubSeq(grown, 1, m) \in Seq(HistoryRecord)
      /\ ListSize(DropFirst(grown, m)) = ListSize(grown) - ListSize(SubSeq(grown, 1, m))
  BY <1>5, <1>6, DropSize
<1>8. TotalSize(SubSeq(grown, 1, m)) = ListSize(SubSeq(grown, 1, m))
  BY <1>7, TotalSizeIsSum
<1>9. ListSize(SubSeq(grown, 1, m)) \in Int
  BY <1>2, <1>7, AppendSize
<1>10. p.size \in Int
  BY <1>1 DEF PacketRecord
<1> HIDE DEF p
<1>11. pktSizeSum' = ListSize(history')
  BY <1>2, <1>3, <1>4, <1>5, <1>7, <1>8, <1>9, <1>10
<1> QED
  BY <1>11 DEF SizeInv

\* The metrics are well defined: queueing delay and loss are never negative, and
\* the sum the receive rate is computed from never goes stale and never wraps.
THEOREM MetricsAreWellDefined == Spec => []MetricsWellDefined
<1>1. Init => SizeInv
  BY EmptySize DEF Init, SizeInv
<1>2. IInv /\ SizeInv /\ [Next]_vars => SizeInv'
  <2> SUFFICES ASSUME IInv, SizeInv, [Next]_vars PROVE SizeInv'
    OBVIOUS
  <2>1. CASE UNCHANGED <<history, pktSizeSum>>
    BY <2>1 DEF SizeInv
  <2>2. CASE Feedback /\ ~UNCHANGED <<history, pktSizeSum>>
    BY <2>2, FeedbackEffect, AccountKeepsSize
  <2>3. CASE Reset
    BY <2>3, EmptySize DEF Reset, SizeInv
  <2>4. Send \/ Tick \/ UNCHANGED vars => UNCHANGED <<history, pktSizeSum>>
    BY DEF Send, Tick, ProcessSendPacket, ctlVars, vars
  <2> QED
    BY <2>1, <2>2, <2>3, <2>4 DEF Next
<1>3. IInv /\ SizeInv => pktSizeSum = TotalSize(history)
  BY TotalSizeIsSum DEF IInv, CoreTypes, SizeInv
<1> QED
  BY <1>1, <1>2, <1>3, Invariance, QdelayIsNonNegative, LossIsNonNegative, PTL
  DEF Spec, MetricsWellDefined

-----------------------------------------------------------------------------
(* NadaController: one update to a batch *)

\* An update in an open batch happened now, so that none is due before the
\* clock moves; the clock moves only between batches.
UpdateInv ==
    /\ now \in Nat
    /\ lastTimeCalc \in Nat /\ lastTimeCalc <= now
    /\ updates \in {0, 1}
    /\ batch = "open" => lastTimeCalcValid
    /\ batch = "open" /\ updates = 1 => lastTimeCalc = now
    /\ batch = "done" => lastTimeCalcValid /\ 2 * (now - lastTimeCalc) < Delta

LEMMA UpdateStart == NadaInit => UpdateInv
BY DEF NadaInit, Init, UpdateInv

\* What an accepted item does to the clock of the updates.
LEMMA ItemKeepsCount ==
    ASSUME UpdateInv, NEW last \in BOOLEAN, Recalculate(last)
    PROVE  /\ lastTimeCalc' \in {lastTimeCalc, now}
           /\ lastTimeCalcValid'
           /\ updates' \in {0, 1}
           /\ updates' = 1 /\ ~last => lastTimeCalc' = now
           /\ last => 2 * (now - lastTimeCalc') < Delta
<1> DEFINE before == IF batch = "open" THEN updates ELSE 0
           atItem == IF DueAtItem THEN 1 ELSE 0
           atBatch == IF DueAtBatch(last) THEN 1 ELSE 0
<1>1. /\ lastTimeCalcValid'
      /\ lastTimeCalc' = IF DueAtBatch(last) THEN now ELSE TimeAfterItem
      /\ updates' = before + atItem + atBatch
    BY DEF Recalculate
<1>2. now \in Nat /\ lastTimeCalc \in Nat /\ lastTimeCalc <= now
    BY DEF UpdateInv
<1>3. before \in {0, 1} /\ (before = 1 => lastTimeCalc = now)
    BY DEF UpdateInv
<1>4. TimeAfterItem \in {lastTimeCalc, now} /\ (lastTimeCalc = now => TimeAfterItem = now)
    BY DEF TimeAfterItem
<1>5. DueAtItem => TimeAfterItem = now /\ lastTimeCalc # now
    BY <1>2, NadaAssumption DEF DueAtItem, TimeAfterItem
<1>6. DueAtBatch(last) => last /\ TimeAfterItem # now
    BY <1>2, <1>4, NadaAssumption DEF DueAtBatch
<1>7. last /\ ~DueAtBatch(last) => 2 * (now - TimeAfterItem) < Delta
    BY <1>2, <1>4, NadaAssumption DEF DueAtBatch
<1>8. 2 * (now - now) < Delta
    BY <1>2, NadaAssumption
<1>9. updates' \in {0, 1}
    BY <1>1, <1>3, <1>4, <1>5, <1>6
<1>10. updates' = 1 /\ ~last => lastTimeCalc' = now
    BY <1>1, <1>3, <1>4, <1>5, <1>6
<1>11. last => 2 * (now - lastTimeCalc') < Delta
    BY <1>1, <1>7, <1>8
<1> QED
    BY <1>1, <1>4, <1>9, <1>10, <1>11

LEMMA FeedbackKeepsUpdateInv ==
    ASSUME UpdateInv, NEW i, NEW at, NEW rx, NEW last \in BOOLEAN, NadaFeedback(i, at, rx, last)
    PROVE  UpdateInv'
<1>1. now' = now
    BY DEF NadaFeedback
<1>2. CASE Recalculate(last) /\ batch' = IF last THEN "done" ELSE "open"
    <2>1. /\ lastTimeCalc' \in {lastTimeCalc, now}
          /\ lastTimeCalcValid'
          /\ updates' \in {0, 1}
          /\ updates' = 1 /\ ~last => lastTimeCalc' = now
          /\ last => 2 * (now - lastTimeCalc') < Delta
        BY <1>2, ItemKeepsCount
    <2>2. /\ batch' = "open" => ~last
          /\ batch' = "done" => last
        BY <1>2
    <2> QED
        BY <1>1, <2>1, <2>2 DEF UpdateInv
<1>3. CASE GiveUp /\ batch' = "dropped"
    BY <1>1, <1>3 DEF GiveUp, nadaVars, UpdateInv
<1> QED
    BY <1>2, <1>3 DEF NadaFeedback

LEMMA UpdateStep == UpdateInv /\ [NadaNext]_allVars => UpdateInv'
<1> SUFFICES ASSUME UpdateInv, [NadaNext]_allVars
             PROVE  UpdateInv'
    OBVIOUS
<1>1. CASE TakeFeedback
    <2>1. PICK end \in ReportTimes, i \in DOMAIN outstanding, last \in BOOLEAN :
             \E at \in lastRx .. end : TakeItem(i, at, end, last)
        BY <1>1 DEF TakeFeedback
    <2>2. PICK at \in lastRx .. end : TakeItem(i, at, end, last)
        BY <2>1
    <2>3. \E rx : NadaFeedback(i, at, rx, last)
        BY <2>2 DEF TakeItem
    <2> QED
        BY <2>3, FeedbackKeepsUpdateInv
<1>2. CASE NadaSend
    BY <1>2 DEF NadaSend, Send, NoBatch, UpdateInv
<1>3. CASE NadaReset
    BY <1>3 DEF NadaReset, Reset, NoBatch, UpdateInv
<1>4. CASE NadaTick
    BY <1>4 DEF NadaTick, Tick, NoBatch, nadaVars, UpdateInv
<1>5. CASE UNCHANGED allVars
    BY <1>5 DEF allVars, vars, nadaVars, batchVars, UpdateInv
<1> QED
    BY <1>1, <1>2, <1>3, <1>4, <1>5 DEF NadaNext

\* A batch causes one recalculation of the rate at most, and one that is taken
\* in full leaves none due: item and end of batch never both recalculate, and
\* never neither when half the interval has passed.
THEOREM BatchUpdatesOnce == NadaSpec => []UpdatedByBatch
<1>1. UpdateInv => UpdatedByBatch
    BY DEF UpdateInv, UpdatedByBatch
<1> QED
    BY <1>1, UpdateStart, UpdateStep, PTL DEF NadaSpec

-----------------------------------------------------------------------------
(* The controller and its network *)

OutstandingPacket == [seq : Sequences16, tx : Nat]

\* The packets a report may still come about are the ones sent last.
OutstandingInv ==
    /\ outstanding \in Seq(OutstandingPacket)
    /\ 2 * (Len(outstanding) - 1) < SeqMod
    /\ \A i \in 1 .. Len(outstanding) :
          /\ Diff(nextSequence, outstanding[i].seq) = Len(outstanding) - i + 1
          /\ outstanding[i].tx <= now
          /\ now <= outstanding[i].tx + TxWindow
          /\ \A j \in i .. Len(outstanding) : outstanding[i].tx <= outstanding[j].tx

\* Counted from the newest they are those in transit.  After a reset() the
\* controller knows fewer, but none is missing once a packet was credited.
AlignedInv ==
    /\ \A i \in 1 .. Len(outstanding), m \in 1 .. Len(inTransit) :
          Len(outstanding) - i = Len(inTransit) - m =>
             /\ outstanding[i].seq = inTransit[m].seq
             /\ outstanding[i].tx = inTransit[m].tx
    /\ history # <<>> => Len(outstanding) <= Len(inTransit)

\* No packet of the history was received after the newest report says.
ReceptionInv ==
    /\ lastRx \in Int /\ latest \in Int /\ lastRx <= latest
    /\ batch # "open" => lastRx = latest
    /\ \A i \in 1 .. Len(history) : RxTime(history[i]) <= latest

ModeInv ==
    /\ lastTimeCalcValid \in BOOLEAN
    /\ ploss \in Nat
    /\ mode \in {"none", "rampUp", "gradual"}
    /\ recvRateFault \in {"none", "item"}
    /\ batch \in {"none", "open", "done", "dropped"}
    /\ ~lastTimeCalcValid => mode = "none"

\* Until a loss interval is started the history has no hole anywhere.
NoHoleInv ==
    history # <<>> /\ ~il.initialized =>
        \A i \in 1 .. Len(history) :
           Diff(Back(history).seq, history[i].seq) = Len(history) - i

\* The inductive invariant.
NadaInv ==
    /\ IInv /\ IntervalsInv /\ UpdateInv /\ OutstandingInv /\ AlignedInv
    /\ ReceptionInv /\ ModeInv /\ NoHoleInv

-----------------------------------------------------------------------------
(* What an item does *)

LEMMA NotBehind ==
    ASSUME NEW l \in Sequences16, NEW a \in Sequences16, 2 * Diff(l, a) < SeqMod
    PROVE  ~LessThan(l, a)
BY SeqModAssumption DEF LessThan, Diff, Sequences16

LEMMA LessThanStrict ==
    ASSUME NEW a \in Sequences16, NEW b \in Sequences16
    PROVE  ~LessThan(a, a) /\ (LessThan(a, b) => ~LessThan(b, a))
BY SeqModAssumption DEF LessThan, Diff, Sequences16

LEMMA OutstandingTypes ==
    ASSUME OutstandingInv
    PROVE  /\ Len(outstanding) \in Nat
           /\ \A i \in 1 .. Len(outstanding) :
                 outstanding[i].seq \in Sequences16 /\ outstanding[i].tx \in Nat
<1>1. outstanding \in Seq(OutstandingPacket)
    BY DEF OutstandingInv
<1>2. Len(outstanding) \in Nat
    BY <1>1, LenProperties
<1>3. \A i \in 1 .. Len(outstanding) : outstanding[i] \in OutstandingPacket
    BY <1>1, ElementOfSeq
<1> QED
    BY <1>2, <1>3 DEF OutstandingPacket

\* Packets reported, or older than a report may be about, leave at the front.
LEMMA DropOutstanding ==
    ASSUME OutstandingInv, NEW c \in 0 .. Len(outstanding),
           outstanding' = DropFirst(outstanding, c),
           UNCHANGED nextSequence, now \in Nat, now' \in Nat, now <= now',
           \A i \in c + 1 .. Len(outstanding) : now' <= outstanding[i].tx + TxWindow
    PROVE  /\ OutstandingInv'
           /\ Len(outstanding') = Len(outstanding) - c
           /\ \A i \in 1 .. Len(outstanding') :
                 /\ i + c \in 1 .. Len(outstanding)
                 /\ outstanding'[i] = outstanding[i + c]
<1> DEFINE n == Len(outstanding)
<1>1. outstanding \in Seq(OutstandingPacket) /\ n \in Nat
    BY OutstandingTypes DEF OutstandingInv
<1>2. /\ outstanding' \in Seq(OutstandingPacket)
      /\ Len(outstanding') = n - c
      /\ \A i \in 1 .. n - c : outstanding'[i] = outstanding[i + c]
    BY <1>1, DropFirstProperties
<1> HIDE DEF n
<1>3. \A i \in 1 .. n - c : i + c \in 1 .. n /\ i + c \in c + 1 .. n
    BY <1>1
<1>4. \A i \in 1 .. n - c :
        /\ outstanding'[i] = outstanding[i + c]
        /\ Diff(nextSequence', outstanding'[i].seq) = n - (i + c) + 1
        /\ outstanding'[i].tx <= now
        /\ outstanding'[i].tx \in Nat
        /\ now' <= outstanding'[i].tx + TxWindow
    BY <1>2, <1>3, OutstandingTypes DEF OutstandingInv, n
<1>5. \A i \in 1 .. n - c : \A j \in i .. n - c : outstanding'[i].tx <= outstanding'[j].tx
    <2> SUFFICES ASSUME NEW i \in 1 .. n - c, NEW j \in i .. n - c
                 PROVE  outstanding'[i].tx <= outstanding'[j].tx
        OBVIOUS
    <2>1. j \in 1 .. n - c /\ j + c \in i + c .. n
        BY <1>1
    <2> QED
        BY <1>2, <1>3, <2>1 DEF OutstandingInv, n
<1>6. \A i \in 1 .. n - c : n - (i + c) + 1 = (n - c) - i + 1
    BY <1>1
<1>7. 2 * ((n - c) - 1) < SeqMod
    BY <1>1, SeqModAssumption DEF OutstandingInv, n
<1>8. \A i \in 1 .. n - c : outstanding'[i].tx <= now'
    BY <1>4
<1> QED
    BY <1>2, <1>3, <1>4, <1>5, <1>6, <1>7, <1>8 DEF OutstandingInv, n

\* A packet a report may still come about was sent recently.
LEMMA OutstandingRecent ==
    ASSUME IInv, OutstandingInv, NEW i \in 1 .. Len(outstanding), inTransit # <<>>
    PROVE  /\ Diff(lastSequence, outstanding[i].seq) = Len(outstanding) - i
           /\ 2 * Diff(lastSequence, outstanding[i].seq) < SeqMod
<1> DEFINE n == Len(outstanding)
           s == outstanding[i].seq
<1>1. n \in Nat /\ s \in Sequences16 /\ lastSequence \in Sequences16
    BY OutstandingTypes DEF IInv, CoreTypes
<1>2. Diff(nextSequence, s) = n - i + 1 /\ 2 * (n - 1) < SeqMod
    BY DEF OutstandingInv
<1>3. nextSequence = Inc(lastSequence)
    BY DEF IInv, Phase, CoreTypes
<1> HIDE DEF s
<1>4. Diff(lastSequence, s) = n - i
    BY <1>1, <1>2, <1>3, DiffInc, DiffType
<1>5. 2 * Diff(lastSequence, s) < SeqMod
    BY <1>1, <1>2, <1>4, SeqModAssumption
<1> QED
    BY <1>4, <1>5 DEF s

\* The packet is in transit: the scan finds it and it is accounted for.
Credits(k, rx) ==
    /\ inTransit' = DropFirst(inTransit, k + 1)
    /\ Account(inTransit[k + 1], rx)

\* An item is about a packet that the controller knows, which is then accounted
\* for, unless it was sent before a reset(), which leaves everything unchanged.
LEMMA ItemEffect ==
    ASSUME IInv, OutstandingInv, AlignedInv, NEW i \in 1 .. Len(outstanding), NEW rx \in Int,
           ProcessFeedback(outstanding[i].seq, rx)
    PROVE  \/ /\ UNCHANGED <<history, pktSizeSum, il, baseDelay, fault>>
              /\ history = <<>>
              /\ inTransit' = DropFirst(inTransit, 0)
              /\ Len(outstanding) - i >= Len(inTransit)
           \/ \E k \in 0 .. Len(inTransit) - 1 :
                 /\ Credits(k, rx)
                 /\ Len(outstanding) - i = Len(inTransit) - (k + 1)
<1> DEFINE n == Len(outstanding)
           m == Len(inTransit)
           s == outstanding[i].seq
<1>1. /\ n \in Nat /\ m \in Nat /\ s \in Sequences16
      /\ lastSequence \in Sequences16 /\ inTransit \in Seq(PacketRecord)
      /\ \A c \in 1 .. m : inTransit[c].seq \in Sequences16
    BY OutstandingTypes, RecordTypes DEF IInv, CoreTypes
<1>2. /\ Diff(nextSequence, s) = n - i + 1
      /\ 2 * (n - 1) < SeqMod
      /\ \A c \in 1 .. m : Diff(lastSequence, inTransit[c].seq) = m - c
      /\ 2 * (m - 1) < SeqMod
    BY DEF OutstandingInv, IInv, TransitInv, TransitContiguous
<1>3. m < n => history = <<>>
    BY <1>1 DEF AlignedInv
<1>4. CASE inTransit = <<>>
    <2>1. m = 0
        BY <1>4
    <2>2. DropFirst(inTransit, 0) = <<>>
        BY <1>4, <2>1 DEF DropFirst
    <2>3. UNCHANGED <<inTransit, baseDelay, history, pktSizeSum, il, fault>>
        BY <1>4 DEF ProcessFeedback
    <2> QED
        BY <1>1, <1>3, <1>4, <2>1, <2>2, <2>3
<1>5. CASE inTransit # <<>>
    <2>1. Diff(lastSequence, s) = n - i
        BY <1>5, OutstandingRecent
    <2>2. 2 * Diff(lastSequence, s) < SeqMod
        BY <1>5, OutstandingRecent
    <2>3. ~FromTheFuture(s)
        BY <1>1, <2>2, NotBehind DEF FromTheFuture
    <2>4. PICK k \in 0 .. m - 1 : ScanPopsExactly(k, s) /\ MatchFeedback(k, s, rx)
        BY <1>5, <2>3, FeedbackScans
    <2>5. k + 1 \in 1 .. m /\ \A c \in 1 .. k : c \in 1 .. m
        BY <1>1, <2>4
    <2>6. CASE n - i >= m
        <3>1. \A c \in 1 .. m : LessThan(s, inTransit[c].seq)
            <4> SUFFICES ASSUME NEW c \in 1 .. m PROVE LessThan(s, inTransit[c].seq)
                OBVIOUS
            <4>1. Diff(lastSequence, inTransit[c].seq) < Diff(lastSequence, s)
                BY <1>1, <1>2, <2>1, <2>6
            <4> HIDE DEF m, s
            <4>2. Ahead(s, inTransit[c].seq)
                BY <1>1, <2>2, <4>1, DiffFromLast
            <4> QED
                BY <1>1, <4>2, AheadLessThan
        <3>2. k = 0
            <4>1. SUFFICES ASSUME k # 0 PROVE FALSE
                OBVIOUS
            <4>2. 1 \in 1 .. k /\ 1 \in 1 .. m
                BY <1>1, <2>4, <4>1
            <4>3. LessThan(inTransit[1].seq, s)
                BY <2>4, <4>2 DEF ScanPopsExactly
            <4> QED
                BY <1>1, <3>1, <4>2, <4>3, LessThanStrict
        <3>3. LessThan(s, inTransit[k + 1].seq)
            BY <2>5, <3>1
        <3>4. /\ inTransit' = DropFirst(inTransit, 0)
              /\ UNCHANGED <<baseDelay, history, pktSizeSum, il, fault>>
            BY <2>4, <3>2, <3>3 DEF MatchFeedback
        <3>5. history = <<>>
            BY <1>1, <1>3, <2>6
        <3> QED
            BY <2>6, <3>4, <3>5
    <2>7. CASE n - i < m
        <3> DEFINE c == m - (n - i)
        <3>1. c \in 1 .. m /\ n - i = m - c
            BY <1>1, <2>7
        <3>2. inTransit[c].seq = s
            BY <3>1 DEF AlignedInv
        <3>3. ~(c < k + 1)
            <4>1. SUFFICES ASSUME c < k + 1 PROVE FALSE
                OBVIOUS
            <4>2. c \in 1 .. k
                BY <2>4, <3>1, <4>1
            <4>3. LessThan(inTransit[c].seq, s)
                BY <2>4, <4>2 DEF ScanPopsExactly
            <4> QED
                BY <1>1, <3>2, <4>3, LessThanStrict
        <3>4. ~(k + 1 < c)
            <4>1. SUFFICES ASSUME k + 1 < c PROVE FALSE
                OBVIOUS
            <4>2. Diff(lastSequence, s) < Diff(lastSequence, inTransit[k + 1].seq)
                BY <1>1, <1>2, <2>1, <2>5, <3>1, <4>1
            <4> HIDE DEF m, s
            <4>3. 2 * Diff(lastSequence, inTransit[k + 1].seq) < SeqMod
                <5>1. Diff(lastSequence, inTransit[k + 1].seq) = m - (k + 1)
                    BY <1>2, <2>5
                <5> QED
                    BY <1>1, <1>2, <2>5, <5>1, SeqModAssumption
            <4>4. Ahead(inTransit[k + 1].seq, s)
                BY <1>1, <2>5, <4>2, <4>3, DiffFromLast
            <4>5. LessThan(inTransit[k + 1].seq, s)
                BY <1>1, <2>5, <4>4, AheadLessThan
            <4> QED
                BY <2>4, <4>5 DEF ScanPopsExactly
        <3>5. k + 1 = c
            BY <2>4, <3>1, <3>3, <3>4
        <3>6. ~LessThan(s, inTransit[k + 1].seq) /\ s = inTransit[k + 1].seq
            BY <1>1, <3>2, <3>5, LessThanStrict
        <3>7. ~DecreasingTimestamp(inTransit[k + 1])
            BY <2>5, NeverDecreasing
        <3>8. Credits(k, rx)
            BY <2>4, <3>6, <3>7 DEF MatchFeedback, LeftInTransit, Credits
        <3> QED
            BY <3>1, <3>5, <3>8
    <2> QED
        BY <1>1, <2>6, <2>7
<1> QED
    BY <1>4, <1>5

\* What an item leaves in transit is what it leaves outstanding, or less after
\* a reset().
LEMMA ItemAligned ==
    ASSUME IInv, OutstandingInv, AlignedInv, NEW i \in 1 .. Len(outstanding), NEW rx \in Int,
           ProcessFeedback(outstanding[i].seq, rx),
           outstanding' = DropFirst(outstanding, i),
           UNCHANGED <<now, nextSequence>>
    PROVE  OutstandingInv' /\ AlignedInv'
<1> DEFINE n == Len(outstanding)
           m == Len(inTransit)
<1>1. n \in Nat /\ m \in Nat /\ now \in Nat /\ i \in 0 .. n
    BY OutstandingTypes, RecordTypes DEF IInv, CoreTypes
<1>2. \A a \in i + 1 .. n : now' <= outstanding[a].tx + TxWindow
    BY <1>1 DEF OutstandingInv
<1>3. /\ OutstandingInv'
      /\ Len(outstanding') = n - i
      /\ \A a \in 1 .. Len(outstanding') :
            a + i \in 1 .. n /\ outstanding'[a] = outstanding[a + i]
    BY <1>1, <1>2, DropOutstanding
<1>4. UNCHANGED <<firstSend, lastSequence, now, nextSequence>>
    BY DEF ProcessFeedback
<1>5. PICK c \in 0 .. m :
        /\ inTransit' = DropFirst(inTransit, c)
        /\ \/ c = 0 /\ n - i >= m /\ history' = <<>>
           \/ n - i = m - c
    <2>1. CASE /\ UNCHANGED history
               /\ history = <<>>
               /\ inTransit' = DropFirst(inTransit, 0)
               /\ n - i >= m
        BY <1>1, <2>1
    <2>2. CASE \E k \in 0 .. m - 1 : Credits(k, rx) /\ n - i = m - (k + 1)
        <3>1. PICK k \in 0 .. m - 1 : Credits(k, rx) /\ n - i = m - (k + 1)
            BY <2>2
        <3>2. k + 1 \in 0 .. m /\ inTransit' = DropFirst(inTransit, k + 1)
            BY <1>1, <3>1 DEF Credits
        <3> QED
            BY <3>1, <3>2
    <2> QED
        BY <2>1, <2>2, ItemEffect
<1>6. /\ Len(inTransit') = m - c
      /\ \A b \in 1 .. Len(inTransit') : b + c \in 1 .. m /\ inTransit'[b] = inTransit[b + c]
    BY <1>4, <1>5, DropTransit
<1>7. ASSUME NEW a \in 1 .. Len(outstanding'), NEW b \in 1 .. Len(inTransit'),
             Len(outstanding') - a = Len(inTransit') - b
      PROVE  /\ outstanding'[a].seq = inTransit'[b].seq
             /\ outstanding'[a].tx = inTransit'[b].tx
    <2>1. n - (a + i) = m - (b + c)
        BY <1>1, <1>3, <1>6, <1>7
    <2>2. a + i \in 1 .. n /\ b + c \in 1 .. m
        BY <1>3, <1>6
    <2>3. /\ outstanding[a + i].seq = inTransit[b + c].seq
          /\ outstanding[a + i].tx = inTransit[b + c].tx
        BY <2>1, <2>2 DEF AlignedInv
    <2>4. outstanding'[a] = outstanding[a + i] /\ inTransit'[b] = inTransit[b + c]
        BY <1>3, <1>6, <1>7
    <2> QED
        BY <2>3, <2>4
<1>8. history' # <<>> => Len(outstanding') <= Len(inTransit')
    BY <1>1, <1>3, <1>5, <1>6
<1> QED
    BY <1>3, <1>7, <1>8 DEF AlignedInv

\* What an item does to the history: nothing, if the controller does not know the
\* packet any more (and then it knows no packet) or if the assert of
\* updateInterLossData fails; otherwise the packet becomes its newest.
LEMMA ItemHistory ==
    ASSUME IInv, OutstandingInv, AlignedInv, NEW i \in 1 .. Len(outstanding), NEW rx \in Int,
           ProcessFeedback(outstanding[i].seq, rx)
    PROVE  \/ /\ UNCHANGED <<history, il, baseDelay>>
              /\ history = <<>> \/ fault' # NoFault
           \/ \E k \in 0 .. Len(inTransit) - 1 :
                 /\ ~InterLossFault(HistoryBefore(inTransit[k + 1]), inTransit[k + 1].seq)
                 /\ Account(inTransit[k + 1], rx)
<1>1. CASE UNCHANGED <<history, il, baseDelay>> /\ history = <<>>
    BY <1>1
<1>2. CASE \E k \in 0 .. Len(inTransit) - 1 : Credits(k, rx)
    <2>1. PICK k \in 0 .. Len(inTransit) - 1 : Account(inTransit[k + 1], rx)
        BY <1>2 DEF Credits
    <2>2. CASE InterLossFault(HistoryBefore(inTransit[k + 1]), inTransit[k + 1].seq)
        <3>1. /\ UNCHANGED <<history, il, baseDelay>>
              /\ \E gap : fault' = [at |-> "interLoss", gap |-> gap]
            BY <2>1, <2>2 DEF Account
        <3>2. \A gap : [at |-> "interLoss", gap |-> gap].at = "interLoss"
            OBVIOUS
        <3>3. fault'.at = "interLoss" /\ NoFault.at = "none"
            BY <3>1, <3>2 DEF NoFault
        <3> QED
            BY <3>1, <3>3
    <2> QED
        BY <2>1, <2>2
<1> QED
    BY <1>1, <1>2, ItemEffect

\* A packet that is not the one expected starts a loss interval, and one that is
\* leaves no hole.
LEMMA AccountLeavesNoHole ==
    ASSUME IInv, IntervalsInv, NoHoleInv, NEW k \in 0 .. Len(inTransit) - 1, NEW rx \in Int,
           ~InterLossFault(HistoryBefore(inTransit[k + 1]), inTransit[k + 1].seq),
           Account(inTransit[k + 1], rx)
    PROVE  NoHoleInv'
<1> DEFINE h == HistoryBefore(inTransit[k + 1])
           L == Len(history)
<1>1. PICK rec \in HistoryRecord :
        /\ history' # <<>> /\ Back(history') = rec
        /\ il' = InterLossUpdated(h, rec.seq)
        /\ \E m \in 0 .. Len(h) :
              /\ Len(history') = Len(h) + 1 - m
              /\ \A i \in 1 .. Len(history') :
                    history'[i] = IF i + m = Len(h) + 1 THEN rec ELSE h[i + m]
    BY AccountEffect
<1>2. h = <<>> \/ (h = history /\ history # <<>>)
    BY DEF HistoryBefore
<1>3. rec.seq \in Sequences16 /\ Diff(rec.seq, rec.seq) = 0
    BY DiffType DEF HistoryRecord
<1> HIDE DEF h
<1>4. CASE h = <<>>
    <2>1. Len(h) = 0
        BY <1>4
    <2>2. Len(history') = 1 /\ history'[1] = rec
        BY <1>1, <2>1
    <2>3. \A i \in 1 .. Len(history') : i = 1
        BY <2>2
    <2>4. ASSUME NEW i \in 1 .. Len(history')
          PROVE  Diff(Back(history').seq, history'[i].seq) = Len(history') - i
        <3>1. history'[i] = rec /\ Len(history') - i = 0
            BY <2>2, <2>3
        <3> QED
            BY <1>1, <1>3, <3>1
    <2> QED
        BY <2>4 DEF NoHoleInv
<1>5. CASE h = history /\ history # <<>>
    <2> SUFFICES ASSUME ~il'.initialized, NEW i \in 1 .. Len(history')
                 PROVE  Diff(Back(history').seq, history'[i].seq) = Len(history') - i
        BY DEF NoHoleInv, Back
    <2>1. PICK m \in 0 .. L :
            /\ Len(history') = L + 1 - m
            /\ history'[i] = IF i + m = L + 1 THEN rec ELSE history[i + m]
        BY <1>1, <1>5
    <2>2. L \in Nat /\ L >= 1 /\ L \in 1 .. L
        BY <1>5, EmptySeq, RecordTypes DEF IInv, CoreTypes
    <2>3. rec.seq = il.expected /\ ~il.initialized
        <3>1. InterLossBase(h, rec.seq) = il
            BY <1>5 DEF InterLossBase
        <3>2. CASE rec.seq # il.expected
            <4>1. il'.initialized = TRUE
                BY <1>1, <3>1, <3>2 DEF InterLossUpdated
            <4> QED
                BY <4>1
        <3>3. CASE rec.seq = il.expected
            <4>1. il' = [il EXCEPT !.intervals[1] = Inc(@), !.expected = Inc(@)]
                BY <1>1, <3>1, <3>3 DEF InterLossUpdated
            <4>2. il \in InterLossState
                BY DEF IInv, CoreTypes
            <4>3. il'.initialized = il.initialized
                BY <4>1, <4>2 DEF InterLossState
            <4> QED
                BY <3>3, <4>3
        <3> QED
            BY <3>2, <3>3
    <2>4. rec.seq = Inc(history[L].seq)
        BY <1>5, <2>3 DEF IntervalsInv, IntervalsConsistent, Back
    <2>5. CASE i + m = L + 1
        <3>1. history'[i] = rec /\ Len(history') - i = 0
            BY <2>1, <2>2, <2>5
        <3> QED
            BY <1>1, <1>3, <3>1
    <2>6. CASE i + m # L + 1
        <3> DEFINE j == i + m
        <3>1. j \in 1 .. L /\ history'[i] = history[j] /\ Len(history') - i = L - j + 1
            BY <2>1, <2>2, <2>6
        <3> HIDE DEF j
        <3>2. Diff(history[L].seq, history[j].seq) = L - j
            BY <1>5, <2>3, <3>1 DEF NoHoleInv, Back
        <3>3. history[L].seq \in Sequences16 /\ history[j].seq \in Sequences16
            BY <2>2, <3>1, RecordTypes DEF IInv
        <3>4. L - j # SeqMod - 1
            <4>1. CASE j = L
                BY <2>2, <4>1, SeqModAssumption
            <4>2. CASE j # L
                <5>1. j < L
                    BY <2>2, <3>1, <4>2
                <5>2. Ahead(history[j].seq, history[L].seq)
                    BY <2>2, <3>1, <5>1 DEF IInv, HistoryInv
                <5> QED
                    BY <2>2, <3>1, <3>2, <5>2, SeqModAssumption DEF Ahead
            <4> QED
                BY <4>1, <4>2
        <3>5. Diff(rec.seq, history[j].seq) = L - j + 1
            BY <2>2, <2>4, <3>1, <3>2, <3>3, <3>4, DiffInc
        <3> QED
            BY <1>1, <3>1, <3>5
    <2> QED
        BY <2>5, <2>6
<1> QED
    BY <1>2, <1>4, <1>5

\* Every time of reception in the history is that of a record of before or the
\* one reported.
LEMMA AccountReception ==
    ASSUME IInv, NEW k \in 0 .. Len(inTransit) - 1, NEW rx \in Int,
           ~InterLossFault(HistoryBefore(inTransit[k + 1]), inTransit[k + 1].seq),
           Account(inTransit[k + 1], rx),
           NEW end \in Int, rx <= end,
           \A i \in 1 .. Len(history) : RxTime(history[i]) <= end
    PROVE  /\ history' # <<>>
           /\ RxTime(Back(history')) = rx
           /\ \A i \in 1 .. Len(history') : RxTime(history'[i]) <= end
<1>1. PICK rec \in HistoryRecord :
        /\ inTransit[k + 1] = [seq |-> rec.seq, tx |-> rec.tx, size |-> rec.size]
        /\ history' # <<>>
        /\ Back(history') = rec
        /\ \A i \in 1 .. Len(history') :
              history'[i] = rec \/ history'[i] \in Records(history)
        /\ rec.owd = rx - rec.tx
    BY AccountEffect
<1>2. RxTime(rec) = rx
    BY <1>1 DEF RxTime, HistoryRecord
<1>3. \A r \in Records(history) : RxTime(r) <= end
    BY DEF Records
<1> QED
    BY <1>1, <1>2, <1>3

\* A history long enough to measure has a number of packets missing, not less.
LEMMA MeasurableHoles == IInv /\ Measurable(history) => Holes(history) \in Nat
<1> SUFFICES ASSUME IInv, Measurable(history) PROVE Holes(history) \in Nat
    OBVIOUS
<1>1. history \in Seq(HistoryRecord)
    BY DEF IInv, CoreTypes
<1>2. Len(history) \in Nat /\ Len(history) >= 1
    BY <1>1, LenProperties, NadaAssumption DEF Measurable
<1>3. history # <<>> /\ 1 \in 1 .. Len(history) /\ Len(history) \in 1 .. Len(history)
    BY <1>1, <1>2, EmptySeq
<1>4. 1 + Diff(Back(history).seq, Front(history).seq) >= Len(history)
    BY <1>3, SpanCoversHistory DEF LossSpan
<1>5. history[1].seq \in Sequences16 /\ history[Len(history)].seq \in Sequences16
    BY <1>3, RecordTypes DEF IInv
<1>6. Diff(Back(history).seq, Front(history).seq) \in Int
    BY <1>5, SeqModAssumption DEF Diff, Sequences16, Back, Front
<1> QED
    BY <1>2, <1>4, <1>6 DEF Holes

\* An update at the end of a batch is about a packet whose time of reception is
\* exact and the newest of all.
LEMMA ItemMode ==
    ASSUME IInv', ModeInv, NEW last \in BOOLEAN, Recalculate(last),
           batch' = IF last THEN "done" ELSE "open",
           recvRateFault = "none",
           last => history' = <<>> \/ RxTime(Back(history')) >= RxTime(Front(history'))
    PROVE  ModeInv'
<1>1. lastTimeCalcValid' \in BOOLEAN /\ lastTimeCalcValid'
    BY DEF Recalculate
<1>2. batch' \in {"none", "open", "done", "dropped"}
    OBVIOUS
<1>3. DueAtBatch(last) => ~ReceivedBackwards(history')
    <2> SUFFICES ASSUME last, Measurable(history'),
                        RxTime(Back(history')) < RxTime(Front(history'))
                 PROVE  FALSE
        BY DEF DueAtBatch, ReceivedBackwards
    <2>1. history' \in Seq(HistoryRecord)
        BY DEF IInv, CoreTypes
    <2>2. Len(history') \in Nat /\ Len(history') >= 1
        BY <2>1, LenProperties, NadaAssumption DEF Measurable
    <2>3. history' # <<>> /\ 1 \in 1 .. Len(history') /\ Len(history') \in 1 .. Len(history')
        BY <2>1, <2>2, EmptySeq
    <2>4. \A r \in HistoryRecord : RxTime(r) \in Int
        BY DEF HistoryRecord, RxTime
    <2>5. Back(history') \in HistoryRecord /\ Front(history') \in HistoryRecord
        BY <2>1, <2>3, ElementOfSeq DEF Back, Front
    <2> QED
        BY <2>3, <2>4, <2>5
<1>4. ASSUME NEW level \in {"item", "batch"}, Update(level),
             level = "batch" => ~ReceivedBackwards(history')
      PROVE  /\ ploss' \in Nat /\ mode' \in {"none", "rampUp", "gradual"}
             /\ recvRateFault' \in {"none", "item"}
    <2>1. CASE ReceivedBackwards(history')
        BY <1>4, <2>1 DEF Update, ModeInv
    <2>2. CASE ~ReceivedBackwards(history')
        <3>1. ploss' = Loss(history') /\ recvRateFault' = recvRateFault
            BY <1>4, <2>2 DEF Update
        <3>2. mode' \in {"rampUp", "gradual"}
            BY <1>4, <2>2 DEF Update
        <3>3. Loss(history') \in Nat
            <4>1. ploss \in Nat
                BY DEF ModeInv
            <4>2. Measurable(history') => Loss(history') = Holes(history')
                BY DEF Loss
            <4>3. ~Measurable(history') => Loss(history') = ploss
                BY DEF Loss
            <4>4. (IInv /\ Measurable(history) => Holes(history) \in Nat)'
                BY MeasurableHoles, PTL
            <4> QED
                BY <4>1, <4>2, <4>3, <4>4
        <3> QED
            BY <3>1, <3>2, <3>3 DEF ModeInv
    <2> QED
        BY <2>1, <2>2
<1>5. /\ ploss' \in Nat /\ mode' \in {"none", "rampUp", "gradual"}
      /\ recvRateFault' \in {"none", "item"}
    <2>1. CASE UNCHANGED <<ploss, mode, recvRateFault>>
        BY <2>1 DEF ModeInv
    <2>2. CASE Update("item")
        BY <1>4, <2>2
    <2>3. CASE DueAtBatch(last) /\ Update("batch")
        BY <1>3, <1>4, <2>3
    <2> QED
        BY <2>1, <2>2, <2>3 DEF Recalculate
<1> QED
    BY <1>1, <1>2, <1>5 DEF ModeInv

\* An item, received at "at" and reported as received at rx, in a report whose
\* newest packet was received at end.
LEMMA ItemStep ==
    ASSUME NadaInv, Running, recvRateFault = "none",
           NEW i \in 1 .. Len(outstanding), NEW at \in Int, NEW end \in Int, NEW rx \in Int,
           NEW last \in BOOLEAN, last => rx = end,
           rx <= end, latest <= end, at <= end,
           NadaFeedback(i, at, rx, last),
           latest' = end, lastRx' = IF batch' = "open" THEN at ELSE end
    PROVE  NadaInv'
<1> DEFINE s == outstanding[i].seq
<1>1. /\ IInv /\ IntervalsInv /\ UpdateInv /\ OutstandingInv /\ AlignedInv
      /\ ReceptionInv /\ ModeInv /\ NoHoleInv
    BY DEF NadaInv
<1>2. /\ ProcessFeedback(s, rx)
      /\ outstanding' = DropFirst(outstanding, i)
      /\ UNCHANGED <<now, nextSequence>>
    BY DEF NadaFeedback
<1>3. IInv'
    <2>1. s \in Sequences16
        BY <1>1, OutstandingTypes
    <2>2. inTransit = <<>> \/ Plausible(s)
        BY <1>1, OutstandingRecent DEF Plausible
    <2> QED
        BY <1>1, <1>2, <2>1, <2>2, ProcessFeedbackInv
<1>4. UpdateInv'
    BY <1>1, FeedbackKeepsUpdateInv
<1>5. OutstandingInv' /\ AlignedInv'
    BY <1>1, <1>2, ItemAligned
<1>6. \/ /\ UNCHANGED <<history, il, baseDelay>>
         /\ history = <<>> \/ fault' # NoFault
      \/ \E k \in 0 .. Len(inTransit) - 1 :
            /\ ~InterLossFault(HistoryBefore(inTransit[k + 1]), inTransit[k + 1].seq)
            /\ Account(inTransit[k + 1], rx)
    BY <1>1, <1>2, ItemHistory
<1>7. IntervalsInv' /\ NoHoleInv'
    <2>1. CASE UNCHANGED <<history, il>>
        BY <1>1, <2>1 DEF IntervalsInv, IntervalsConsistent, NoHoleInv
    <2>2. CASE ~UNCHANGED <<history, il>>
        BY <1>1, <1>6, <2>2, AccountKeepsIntervals, AccountLeavesNoHole
    <2> QED
        BY <2>1, <2>2
<1>8. \A j \in 1 .. Len(history) : RxTime(history[j]) <= end
    <2>1. \A j \in 1 .. Len(history) : RxTime(history[j]) \in Int
        BY <1>1, RecordTypes DEF IInv, RxTime
    <2>2. latest \in Int /\ \A j \in 1 .. Len(history) : RxTime(history[j]) <= latest
        BY <1>1 DEF ReceptionInv
    <2> QED
        BY <2>1, <2>2
<1>9. \A j \in 1 .. Len(history') : RxTime(history'[j]) <= end
    <2>1. CASE UNCHANGED history
        BY <1>8, <2>1
    <2>2. CASE ~UNCHANGED history
        BY <1>1, <1>6, <1>8, <2>2, AccountReception
    <2> QED
        BY <2>1, <2>2
<1>10. ReceptionInv'
    BY <1>1, <1>9 DEF ReceptionInv
<1>11. ModeInv'
    <2>1. CASE GiveUp /\ batch' = "dropped"
        BY <1>1, <2>1 DEF GiveUp, nadaVars, ModeInv
    <2>2. CASE /\ fault' = NoFault
               /\ Recalculate(last)
               /\ batch' = IF last THEN "done" ELSE "open"
        <3>1. ASSUME last, history' # <<>>
              PROVE  RxTime(Back(history')) >= RxTime(Front(history'))
            <4>1. PICK k \in 0 .. Len(inTransit) - 1 :
                    /\ ~InterLossFault(HistoryBefore(inTransit[k + 1]), inTransit[k + 1].seq)
                    /\ Account(inTransit[k + 1], rx)
                BY <1>6, <2>2, <3>1
            <4>2. RxTime(Back(history')) = end
                BY <1>1, <1>8, <3>1, <4>1, AccountReception
            <4>3. history' \in Seq(HistoryRecord)
                BY <1>3 DEF IInv, CoreTypes
            <4>4. 1 \in 1 .. Len(history')
                BY <3>1, <4>3, EmptySeq
            <4>5. Front(history') \in HistoryRecord
                BY <4>3, <4>4, ElementOfSeq DEF Front
            <4>6. RxTime(Front(history')) \in Int /\ RxTime(Front(history')) <= end
                BY <1>9, <4>4, <4>5 DEF Front, RxTime, HistoryRecord
            <4> QED
                BY <4>2, <4>6
        <3> QED
            BY <1>1, <1>3, <2>2, <3>1, ItemMode
    <2> QED
        BY <2>1, <2>2 DEF NadaFeedback
<1> QED
    BY <1>3, <1>4, <1>5, <1>7, <1>10, <1>11 DEF NadaInv

-----------------------------------------------------------------------------
(* The steps *)

LEMMA NadaStart == NadaInit => NadaInv
<1> SUFFICES ASSUME NadaInit PROVE NadaInv
    OBVIOUS
<1>1. IInv /\ UpdateInv
    BY InitInv, UpdateStart DEF NadaInit
<1>2. history = <<>> /\ outstanding = <<>> /\ inTransit = <<>>
    BY DEF NadaInit, Init
<1>3. IntervalsInv
    BY <1>2, ControllerAssumption
       DEF NadaInit, Init, IntervalsInv, IntervalsConsistent, InitialInterLoss
<1>4. OutstandingInv
    BY <1>2, SeqModAssumption DEF OutstandingInv
<1>5. AlignedInv /\ NoHoleInv
    BY <1>2 DEF AlignedInv, NoHoleInv
<1>6. ReceptionInv
    BY <1>2 DEF NadaInit, ReceptionInv
<1>7. ModeInv
    BY DEF NadaInit, ModeInv
<1> QED
    BY <1>1, <1>3, <1>4, <1>5, <1>6, <1>7 DEF NadaInv

LEMMA TakeFeedbackInv ==
    ASSUME NadaInv, Running, recvRateFault = "none", TakeFeedback
    PROVE  NadaInv'
<1>1. PICK end \in ReportTimes, i \in DOMAIN outstanding, last \in BOOLEAN :
        \E at \in lastRx .. end : TakeItem(i, at, end, last)
    BY DEF TakeFeedback
<1>2. PICK at \in lastRx .. end : TakeItem(i, at, end, last)
    BY <1>1
<1>3. /\ now \in Nat /\ lastRx \in Int /\ latest \in Int
      /\ batch # "open" => lastRx = latest
      /\ MaxDelay \in Int /\ Rounding \in Int
    BY ControllerAssumption, NadaAssumption DEF NadaInv, IInv, CoreTypes, ReceptionInv
<1>4. end \in Int /\ latest <= end
    <2>1. CASE batch = "open"
        BY <1>3, <2>1 DEF ReportTimes
    <2>2. CASE batch # "open"
        <3>1. end \in now - MaxDelay .. now - 1 /\ end >= lastRx
            BY <2>2 DEF ReportTimes
        <3> QED
            BY <1>3, <2>2, <3>1
    <2> QED
        BY <2>1, <2>2
<1>5. at \in Int /\ at <= end
    BY <1>2, <1>3, <1>4
<1>6. i \in 1 .. Len(outstanding)
    BY LenProperties DEF NadaInv, OutstandingInv
<1>7. latest' = end /\ lastRx' = IF batch' = "open" THEN at ELSE end
    BY <1>2 DEF TakeItem
<1>8. \E rx \in Int : rx <= end /\ (last => rx = end) /\ NadaFeedback(i, at, rx, last)
    <2>1. CASE last
        <3>1. NadaFeedback(i, at, end, last)
            BY <1>2, <2>1 DEF TakeItem
        <3>2. end <= end
            BY <1>4
        <3> QED
            BY <1>4, <3>1, <3>2
    <2>2. CASE ~last
        <3>1. PICK rx \in at - Rounding .. at + Rounding :
                rx <= end /\ NadaFeedback(i, at, rx, last)
            BY <1>2, <2>2 DEF TakeItem
        <3>2. rx \in Int
            BY <1>3, <1>5, <3>1
        <3> QED
            BY <2>2, <3>1, <3>2
    <2> QED
        BY <2>1, <2>2
<1> QED
    BY <1>4, <1>5, <1>6, <1>7, <1>8, ItemStep

LEMMA NadaResetInv == ASSUME NadaInv, batch # "open", NadaReset PROVE NadaInv'
<1>1. IInv' /\ UpdateInv'
    <2>1. UpdateInv'
        BY DEF NadaInv, NadaReset, Reset, NoBatch, UpdateInv
    <2> QED
        BY <2>1, ResetInv DEF NadaInv, NadaReset
<1>2. /\ history' = <<>> /\ inTransit' = <<>> /\ il' = InitialInterLoss
      /\ UNCHANGED <<now, nextSequence, recvRateFault, latest, outstanding, lastRx>>
    BY DEF NadaReset, Reset
<1>3. IntervalsInv'
    BY <1>2, ControllerAssumption DEF IntervalsInv, IntervalsConsistent, InitialInterLoss
<1>4. OutstandingInv'
    BY <1>2 DEF NadaInv, OutstandingInv
<1>5. AlignedInv' /\ NoHoleInv'
    BY <1>2 DEF AlignedInv, NoHoleInv
<1>6. ModeInv'
    BY <1>2 DEF NadaInv, NadaReset, NoBatch, ModeInv
<1>7. ReceptionInv'
    BY <1>2 DEF NadaInv, ReceptionInv
<1> QED
    BY <1>1, <1>3, <1>4, <1>5, <1>6, <1>7 DEF NadaInv

\* The packets a report can no longer be about are forgotten at the front.
LEMMA NadaTickInv == ASSUME NadaInv, batch # "open", NadaTick PROVE NadaInv'
<1> DEFINE n == Len(outstanding)
<1>1. /\ IInv /\ IntervalsInv /\ OutstandingInv /\ AlignedInv
      /\ ReceptionInv /\ ModeInv /\ NoHoleInv
    BY DEF NadaInv
<1>2. IInv' /\ UpdateInv'
    BY TickInv DEF NadaInv, NadaTick, Tick, NoBatch, nadaVars, UpdateInv
<1>3. UNCHANGED <<ctlVars, nextSequence, nadaVars, latest, lastRx>> /\ batch' = "none"
    BY DEF NadaTick, Tick, NoBatch
<1>4. n \in Nat /\ now \in Nat /\ now' = now + 1
    BY <1>1, OutstandingTypes DEF IInv, CoreTypes, NadaTick, Tick
<1>5. PICK k \in 0 .. n :
        /\ \A i \in 1 .. n : i <= k <=> outstanding[i].tx + TxWindow < now'
        /\ outstanding' = DropFirst(outstanding, k)
    BY DEF NadaTick
<1>6. \A i \in k + 1 .. n : now' <= outstanding[i].tx + TxWindow
    <2> SUFFICES ASSUME NEW i \in k + 1 .. n PROVE now' <= outstanding[i].tx + TxWindow
        OBVIOUS
    <2>1. i \in 1 .. n /\ ~(i <= k)
        BY <1>4, <1>5
    <2>2. outstanding[i].tx + TxWindow \in Int
        BY <1>1, <2>1, OutstandingTypes, TxWindowType
    <2> QED
        BY <1>4, <1>5, <2>1, <2>2
<1>7. /\ OutstandingInv'
      /\ Len(outstanding') = n - k
      /\ \A i \in 1 .. Len(outstanding') :
            i + k \in 1 .. n /\ outstanding'[i] = outstanding[i + k]
    <2>1. now' \in Nat /\ now <= now' /\ UNCHANGED nextSequence
        BY <1>3, <1>4
    <2> QED
        BY <1>1, <1>4, <1>5, <1>6, <2>1, DropOutstanding
<1>8. AlignedInv'
    <2>1. UNCHANGED <<inTransit, history>> /\ Len(inTransit) \in Nat
        BY <1>1, <1>3, RecordTypes DEF ctlVars, IInv
    <2>2. ASSUME NEW i \in 1 .. Len(outstanding'), NEW m \in 1 .. Len(inTransit'),
                 Len(outstanding') - i = Len(inTransit') - m
          PROVE  /\ outstanding'[i].seq = inTransit'[m].seq
                 /\ outstanding'[i].tx = inTransit'[m].tx
        <3>1. i + k \in 1 .. n /\ outstanding'[i] = outstanding[i + k]
            BY <1>7
        <3>2. n - (i + k) = Len(inTransit) - m
            BY <1>4, <1>5, <1>7, <2>1, <2>2
        <3> QED
            BY <1>1, <2>1, <3>1, <3>2 DEF AlignedInv
    <2>3. history' # <<>> => Len(outstanding') <= Len(inTransit')
        BY <1>1, <1>4, <1>5, <1>7, <2>1 DEF AlignedInv
    <2> QED
        BY <2>2, <2>3 DEF AlignedInv
<1>9. IntervalsInv' /\ NoHoleInv'
    BY <1>1, <1>3 DEF ctlVars, IntervalsInv, IntervalsConsistent, NoHoleInv
<1>10. ReceptionInv'
    BY <1>1, <1>3 DEF ctlVars, ReceptionInv
<1>11. ModeInv'
    BY <1>1, <1>3 DEF nadaVars, ModeInv
<1> QED
    BY <1>2, <1>7, <1>8, <1>9, <1>10, <1>11 DEF NadaInv

\* The packet sent is the newest of those outstanding, as of those in transit.
LEMMA SendOutstanding ==
    ASSUME IInv, OutstandingInv, NadaSend
    PROVE  /\ OutstandingInv'
           /\ Len(outstanding') = Len(outstanding) + 1
           /\ \A i \in 1 .. Len(outstanding) : outstanding'[i] = outstanding[i]
           /\ outstanding'[Len(outstanding) + 1] = [seq |-> nextSequence, tx |-> now]
<1> DEFINE n == Len(outstanding)
           p == [seq |-> nextSequence, tx |-> now]
<1>1. /\ n \in Nat /\ now \in Nat /\ nextSequence \in Sequences16
      /\ outstanding \in Seq(OutstandingPacket)
      /\ \A i \in 1 .. n : outstanding[i].seq \in Sequences16 /\ outstanding[i].tx \in Nat
    BY OutstandingTypes DEF IInv, CoreTypes, OutstandingInv
<1>2. outstanding' = Append(outstanding, p) /\ UNCHANGED now /\ nextSequence' = Inc(nextSequence)
    BY DEF NadaSend, Send
<1>3. p \in OutstandingPacket /\ p.seq = nextSequence /\ p.tx = now
    BY <1>1 DEF OutstandingPacket
<1>4. \A i \in 1 .. n : 2 * Diff(nextSequence, outstanding[i].seq) < SeqMod
    BY DEF NadaSend, OutstandingBound, Records
<1>5. /\ outstanding' \in Seq(OutstandingPacket)
      /\ Len(outstanding') = n + 1
      /\ \A i \in 1 .. n : outstanding'[i] = outstanding[i]
      /\ outstanding'[n + 1] = p
    BY <1>1, <1>2, <1>3, AppendProperties
<1> HIDE DEF n, p
<1>6. 2 * n < SeqMod
    <2>1. CASE n = 0
        BY <2>1, SeqModAssumption
    <2>2. CASE n # 0
        <3>1. 1 \in 1 .. n
            BY <1>1, <2>2
        <3>2. Diff(nextSequence, outstanding[1].seq) = n - 1 + 1
            BY <3>1 DEF OutstandingInv, n
        <3> QED
            BY <1>1, <1>4, <3>1, <3>2
    <2> QED
        BY <2>1, <2>2
<1>7. \A i \in 1 .. n : Diff(nextSequence', outstanding[i].seq) = (n + 1) - i + 1
    <2> SUFFICES ASSUME NEW i \in 1 .. n
                 PROVE  Diff(nextSequence', outstanding[i].seq) = (n + 1) - i + 1
        OBVIOUS
    <2> DEFINE q == outstanding[i].seq
    <2>1. Diff(nextSequence, q) = n - i + 1 /\ q \in Sequences16
        BY <1>1 DEF OutstandingInv, n
    <2> HIDE DEF q
    <2>2. n - i + 1 # SeqMod - 1
        BY <1>1, <1>6, SeqModAssumption
    <2>3. Diff(Inc(nextSequence), q) = n - i + 1 + 1
        BY <1>1, <2>1, <2>2, DiffInc
    <2> QED
        BY <1>1, <1>2, <2>3 DEF q
<1>8. Diff(nextSequence', nextSequence) = 1
    BY <1>1, <1>2, DiffInc, DiffType, SeqModAssumption
<1>9. ASSUME NEW i \in 1 .. n + 1
      PROVE  /\ Diff(nextSequence', outstanding'[i].seq) = (n + 1) - i + 1
             /\ outstanding'[i].tx \in Nat
             /\ outstanding'[i].tx <= now'
             /\ now' <= outstanding'[i].tx + TxWindow
    <2>1. CASE i = n + 1
        BY <1>1, <1>2, <1>3, <1>5, <1>8, <2>1, TxWindowType
    <2>2. CASE i \in 1 .. n
        BY <1>1, <1>2, <1>5, <1>7, <2>2 DEF OutstandingInv, n
    <2> QED
        BY <1>1, <2>1, <2>2
<1>10. ASSUME NEW i \in 1 .. n + 1, NEW j \in i .. n + 1
       PROVE  outstanding'[i].tx <= outstanding'[j].tx
    <2>1. CASE j = n + 1
        BY <1>2, <1>3, <1>5, <1>9, <2>1
    <2>2. CASE j # n + 1
        <3>1. i \in 1 .. n /\ j \in i .. n /\ j \in 1 .. n
            BY <1>1, <2>2
        <3> QED
            BY <1>5, <3>1 DEF OutstandingInv, n
    <2> QED
        BY <2>1, <2>2
<1>11. 2 * ((n + 1) - 1) < SeqMod
    BY <1>1, <1>6
<1> QED
    BY <1>5, <1>9, <1>10, <1>11 DEF OutstandingInv, n, p

\* Packets sent too long ago for a report to name them may leave m_inTransitPackets;
\* none of them is outstanding.
LEMMA SendAligned ==
    ASSUME IInv, OutstandingInv, AlignedInv, NadaSend
    PROVE  AlignedInv'
<1> DEFINE n == Len(outstanding)
           m == Len(inTransit)
<1>1. n \in Nat /\ m \in Nat /\ now \in Nat
    BY OutstandingTypes, RecordTypes DEF IInv, CoreTypes
<1>2. Send
    BY DEF NadaSend
<1>3. PICK rec \in PacketRecord, pushed \in Seq(PacketRecord), k \in 0 .. m :
        /\ rec.seq = nextSequence /\ rec.tx = now
        /\ Len(pushed) = m + 1
        /\ \A i \in 1 .. m : pushed[i] = inTransit[i]
        /\ pushed[m + 1] = rec
        /\ SendPopsExactly(pushed, k, now)
        /\ Len(inTransit') = m + 1 - k
        /\ \A i \in 1 .. Len(inTransit') : inTransit'[i] = pushed[i + k]
    BY <1>2, SendEffect
<1>4. UNCHANGED history
    BY <1>2, SendEffect
<1>5. /\ Len(outstanding') = n + 1
      /\ \A i \in 1 .. n : outstanding'[i] = outstanding[i]
      /\ outstanding'[n + 1] = [seq |-> nextSequence, tx |-> now]
    BY SendOutstanding
<1>6. ASSUME NEW i \in 1 .. Len(outstanding'), NEW b \in 1 .. Len(inTransit'),
             Len(outstanding') - i = Len(inTransit') - b
      PROVE  /\ outstanding'[i].seq = inTransit'[b].seq
             /\ outstanding'[i].tx = inTransit'[b].tx
    <2> DEFINE c == b + k
    <2>1. c \in 1 .. m + 1 /\ i \in 1 .. n + 1 /\ n + 1 - i = m + 1 - c /\ inTransit'[b] = pushed[c]
        <3>1. inTransit'[b] = pushed[c]
            BY <1>3, <1>6
        <3>2. Len(outstanding') = n + 1 /\ Len(inTransit') = m + 1 - k
            BY <1>3, <1>5
        <3>3. k \in 0 .. m
            BY <1>3
        <3> HIDE DEF n, m
        <3>4. i \in 1 .. n + 1 /\ c \in 1 .. m + 1
            BY <1>1, <3>2, <3>3
        <3>5. n + 1 - i = m + 1 - c
            BY <1>1, <1>6, <3>2, <3>3
        <3> QED
            BY <3>1, <3>4, <3>5
    <2> HIDE DEF c
    <2>2. CASE c = m + 1
        <3>1. i = n + 1
            BY <1>1, <2>1, <2>2
        <3> QED
            BY <1>3, <1>5, <2>1, <2>2, <3>1
    <2>3. CASE c # m + 1
        <3>1. i \in 1 .. n /\ c \in 1 .. m /\ n - i = m - c
            <4> HIDE DEF n, m
            <4>1. c \in 1 .. m /\ n - i = m - c
                BY <1>1, <2>1, <2>3
            <4>2. i \in 1 .. n
                BY <1>1, <2>1, <4>1
            <4> QED
                BY <4>1, <4>2
        <3>2. outstanding[i].seq = inTransit[c].seq /\ outstanding[i].tx = inTransit[c].tx
            BY <3>1 DEF AlignedInv
        <3>3. outstanding'[i] = outstanding[i] /\ inTransit'[b] = inTransit[c]
            BY <1>3, <1>5, <2>1, <3>1
        <3> QED
            BY <3>2, <3>3
    <2> QED
        BY <2>2, <2>3
<1>7. ASSUME history' # <<>>, ~(n + 1 <= m + 1 - k)
      PROVE  FALSE
    <2> DEFINE i == n - (m - k)
    <2>1. n <= m
        BY <1>4, <1>7 DEF AlignedInv
    <2>2. i \in 1 .. n /\ k \in 1 .. m /\ n - i = m - k
        BY <1>1, <1>3, <1>7, <2>1
    <2> HIDE DEF i
    <2>3. outstanding[i].tx = inTransit[k].tx
        BY <2>2 DEF AlignedInv
    <2>4. now <= outstanding[i].tx + TxWindow
        BY <2>2 DEF OutstandingInv
    <2>5. k \in 1 .. k
        BY <2>2
    <2>6. ~(now <= inTransit[k].tx + TxWindow)
        BY <1>3, <2>2, <2>5 DEF SendPopsExactly, RecentEnough
    <2> QED
        BY <2>3, <2>4, <2>6
<1> QED
    BY <1>3, <1>5, <1>6, <1>7 DEF AlignedInv

LEMMA NadaSendInv == ASSUME NadaInv, batch # "open", NadaSend PROVE NadaInv'
<1>1. /\ IInv /\ IntervalsInv /\ OutstandingInv /\ AlignedInv
      /\ ReceptionInv /\ ModeInv /\ NoHoleInv
    BY DEF NadaInv
<1>2. IInv' /\ UpdateInv'
    <2>1. UpdateInv'
        BY DEF NadaInv, NadaSend, Send, NoBatch, UpdateInv
    <2> QED
        BY <1>1, <2>1, SendInv DEF NadaSend
<1>3. /\ UNCHANGED <<history, il, ploss, mode, recvRateFault, latest, lastRx>>
      /\ lastTimeCalcValid' = TRUE
      /\ batch' = "none"
    BY <1>1, SendEffect DEF NadaSend, NoBatch
<1>4. OutstandingInv' /\ AlignedInv'
    BY <1>1, SendOutstanding, SendAligned
<1>5. IntervalsInv' /\ NoHoleInv'
    BY <1>1, <1>3 DEF IntervalsInv, IntervalsConsistent, NoHoleInv
<1>6. ReceptionInv'
    BY <1>1, <1>3 DEF ReceptionInv
<1>7. ModeInv'
    BY <1>1, <1>3 DEF ModeInv
<1> QED
    BY <1>2, <1>4, <1>5, <1>6, <1>7 DEF NadaInv

LEMMA NadaStep == NadaInv /\ [NadaNext]_allVars => NadaInv'
<1> SUFFICES ASSUME NadaInv, [NadaNext]_allVars PROVE NadaInv'
    OBVIOUS
<1>1. CASE NadaNext
    <2>1. Running /\ recvRateFault = "none"
        BY <1>1 DEF NadaNext
    <2>2. CASE TakeFeedback
        BY <2>1, <2>2, TakeFeedbackInv
    <2>3. CASE batch # "open" /\ NadaSend
        BY <2>3, NadaSendInv
    <2>4. CASE batch # "open" /\ NadaReset
        BY <2>4, NadaResetInv
    <2>5. CASE batch # "open" /\ NadaTick
        BY <2>5, NadaTickInv
    <2> QED
        BY <1>1, <2>2, <2>3, <2>4, <2>5 DEF NadaNext
<1>2. CASE UNCHANGED allVars
    <2>1. UNCHANGED <<vars, nadaVars, batchVars>>
        BY <1>2 DEF allVars
    <2>2. IInv' /\ UpdateInv'
        BY <2>1, StutterInv DEF NadaInv, vars, nadaVars, batchVars, UpdateInv
    <2>3. IntervalsInv' /\ NoHoleInv'
        BY <2>1 DEF NadaInv, vars, ctlVars, IntervalsInv, IntervalsConsistent, NoHoleInv
    <2>4. OutstandingInv' /\ AlignedInv'
        BY <2>1 DEF NadaInv, vars, ctlVars, batchVars, OutstandingInv, AlignedInv
    <2>5. ReceptionInv' /\ ModeInv'
        BY <2>1 DEF NadaInv, vars, ctlVars, nadaVars, batchVars, ReceptionInv, ModeInv
    <2> QED
        BY <2>2, <2>3, <2>4, <2>5 DEF NadaInv
<1> QED
    BY <1>1, <1>2

-----------------------------------------------------------------------------
(* The results *)

\* The invariant is inductive, hence holds throughout every behaviour of the
\* controller and its network.
THEOREM NadaInvariance == NadaSpec => []NadaInv
    BY NadaStart, NadaStep, PTL DEF NadaSpec

\* Every variable keeps its type, whatever of the feedback is lost and however
\* the times in it are rounded.
THEOREM NadaTypesAreKept == NadaSpec => []NadaTypeOK
<1>1. NadaInv => NadaTypeOK
    <2> SUFFICES ASSUME NadaInv PROVE NadaTypeOK
        OBVIOUS
    <2>1. TypeOK
        BY DEF NadaInv, IInv, CoreTypes, TypeOK, InterLossState
    <2>2. lastTimeCalc \in 0 .. now /\ updates \in Nat
        BY DEF NadaInv, UpdateInv
    <2>3. lastRx <= latest
        BY DEF NadaInv, ReceptionInv
    <2>4. /\ lastTimeCalcValid \in BOOLEAN
          /\ ploss \in Nat
          /\ mode \in {"none", "rampUp", "gradual"}
          /\ recvRateFault \in {"none", "item", "batch"}
          /\ batch \in {"none", "open", "done", "dropped"}
        BY DEF NadaInv, ModeInv
    <2> QED
        BY <2>1, <2>2, <2>3, <2>4 DEF NadaTypeOK
<1> QED
    BY <1>1, NadaInvariance, PTL

\* The assert of getCurrentRecvRate never fails in an update at the end of a batch,
\* and those of the base class hold up to a loss of WrapMargin packets.
THEOREM NadaAssertsAreKept == NadaSpec => []NadaAssertsHold
<1>1. NadaInv => NadaAssertsHold
    BY DEF NadaInv, IInv, ModeInv, NadaAssertsHold
<1> QED
    BY <1>1, NadaInvariance, PTL

\* A hole in the history, which ends the ramp-up, has always started a loss interval.
THEOREM LossesAlwaysAgree == NadaSpec => []LossesAgree
<1>1. NadaInv => LossesAgree
    <2> SUFFICES ASSUME NadaInv, history # <<>>, ~il.initialized
                 PROVE  ~(Holes(history) > 0)
        BY DEF LossesAgree, NadaInv, IInv, CoreTypes, InterLossState
    <2>1. history \in Seq(HistoryRecord)
        BY DEF NadaInv, IInv, CoreTypes
    <2>2. Len(history) \in Nat /\ 1 \in 1 .. Len(history)
        BY <2>1, EmptySeq
    <2>3. Diff(Back(history).seq, Front(history).seq) = Len(history) - 1
        BY <2>2 DEF NadaInv, NoHoleInv, Front
    <2> QED
        BY <2>2, <2>3 DEF Holes
<1> QED
    BY <1>1, NadaInvariance, PTL

\* Distances within the history add up.
LEMMA HistoryChain ==
    ASSUME IInv, NEW a \in 1 .. Len(history), NEW b \in a .. Len(history),
           NEW c \in b .. Len(history)
    PROVE  /\ Diff(history[c].seq, history[a].seq)
                = Diff(history[c].seq, history[b].seq) + Diff(history[b].seq, history[a].seq)
           /\ Diff(history[b].seq, history[a].seq) \in Nat
           /\ Diff(history[b].seq, history[a].seq) >= b - a
<1> DEFINE q(i) == history[i].seq
<1>1. Len(history) \in Nat /\ \A i \in 1 .. Len(history) : q(i) \in Sequences16
    BY RecordTypes DEF IInv
<1>2. b \in 1 .. Len(history) /\ c \in 1 .. Len(history) /\ a <= b /\ b <= c
    BY <1>1
<1>3. q(a) \in Sequences16 /\ q(b) \in Sequences16 /\ q(c) \in Sequences16
    BY <1>1, <1>2
<1>4. \A i, j \in 1 .. Len(history) : i < j => Ahead(q(i), q(j)) /\ Diff(q(j), q(i)) >= j - i
    BY DEF IInv, HistoryInv
<1> HIDE DEF q
<1>5. Diff(q(b), q(a)) \in Nat /\ Diff(q(b), q(a)) >= b - a
    <2>1. CASE a = b
        BY <1>2, <1>3, <2>1, DiffType
    <2>2. CASE a # b
        BY <1>2, <1>3, <1>4, <2>2, DiffType
    <2> QED
        BY <2>1, <2>2
<1>6. Diff(q(c), q(a)) = Diff(q(c), q(b)) + Diff(q(b), q(a))
    <2>1. CASE a = b
        BY <1>3, <2>1, DiffType
    <2>2. CASE b = c
        BY <1>3, <2>2, DiffType
    <2>3. CASE a # b /\ b # c
        <3>1. Ahead(q(a), q(b)) /\ Ahead(q(b), q(c)) /\ Ahead(q(a), q(c))
            BY <1>2, <1>4, <2>3
        <3> QED
            BY <1>3, <3>1, DiffChain
    <2> QED
        BY <2>1, <2>2, <2>3
<1> QED
    BY <1>5, <1>6 DEF q

Consecutive ==
    \A i \in 1 .. Len(history) - 1 : history[i + 1].seq = Inc(history[i].seq)

\* A history without a hole holds consecutive packets.
LEMMA NoHoleConsecutive ==
    IInv /\ history # <<>> /\ Holes(history) = 0 => Consecutive
<1> SUFFICES ASSUME IInv, history # <<>>, Holes(history) = 0, NEW i \in 1 .. Len(history) - 1
             PROVE  history[i + 1].seq = Inc(history[i].seq)
    BY DEF Consecutive
<1> DEFINE L == Len(history)
           q(j) == history[j].seq
<1>1. L \in Nat /\ \A j \in 1 .. L : q(j) \in Sequences16
    BY RecordTypes DEF IInv
<1>2. /\ 1 \in 1 .. L /\ L \in 1 .. L
      /\ i \in 1 .. L /\ i + 1 \in i .. L /\ L \in i + 1 .. L /\ L \in i .. L
      /\ i + 1 \in 1 .. L /\ 1 .. L = 1 .. L
    BY <1>1
<1>3. 1 + Diff(q(L), q(1)) - L = 0 /\ Diff(q(L), q(1)) \in Int
    <2>1. q(L) \in Sequences16 /\ q(1) \in Sequences16
        BY <1>1, <1>2
    <2>2. Diff(q(L), q(1)) \in Int
        BY <2>1, SeqModAssumption DEF Diff, Sequences16
    <2> QED
        BY <2>2 DEF Holes, Back, Front
<1>4. Diff(q(L), q(1)) = Diff(q(L), q(i)) + Diff(q(i), q(1)) /\ Diff(q(i), q(1)) >= i - 1
      /\ Diff(q(i), q(1)) \in Nat
    BY <1>2, HistoryChain
<1>5. /\ Diff(q(L), q(i)) = Diff(q(L), q(i + 1)) + Diff(q(i + 1), q(i))
      /\ Diff(q(i + 1), q(i)) \in Nat
      /\ Diff(q(i + 1), q(i)) >= i + 1 - i
    BY <1>2, HistoryChain
<1>6. Diff(q(L), q(i + 1)) \in Nat /\ Diff(q(L), q(i + 1)) >= L - (i + 1)
    <2>1. L \in L .. L
        BY <1>1
    <2> QED
        BY <1>2, <2>1, HistoryChain
<1> HIDE DEF q
<1>7. Diff(q(i + 1), q(i)) = 1
    BY <1>1, <1>2, <1>3, <1>4, <1>5, <1>6
<1>8. q(i) \in Sequences16 /\ q(i + 1) \in Sequences16
    BY <1>1, <1>2
<1>9. \A a, b \in Sequences16 : Diff(b, a) = 1 => b = Inc(a)
    BY SeqModAssumption DEF Diff, Inc, Sequences16
<1> QED
    BY <1>7, <1>8, <1>9 DEF q

\* getRampUpMode says yes.
LEMMA RampUpModeClean ==
    ASSUME IInv', baseDelay' \in Int, ploss \in Nat, RampUpMode
    PROVE  /\ \A r \in Records(history') : r.owd - baseDelay' <= QEps
           /\ Measurable(history') => NoRecentLoss(history')
<1>1. /\ history' \in Seq(HistoryRecord)
      /\ Len(history') \in Nat
      /\ \A i \in 1 .. Len(history') : history'[i].owd \in Int
    <2>1. history' \in Seq(HistoryRecord)
        BY DEF IInv, CoreTypes
    <2>2. Len(history') \in Nat
        BY <2>1, LenProperties
    <2>3. \A i \in 1 .. Len(history') : history'[i] \in HistoryRecord
        BY <2>1, ElementOfSeq
    <2> QED
        BY <2>1, <2>2, <2>3 DEF HistoryRecord
<1>2. \A r \in Records(history') : r.owd - baseDelay' <= QEps
    <2> SUFFICES ASSUME NEW r \in Records(history') PROVE r.owd - baseDelay' <= QEps
        OBVIOUS
    <2>1. r.owd \in Int
        BY <1>1 DEF Records
    <2>2. ~(r.owd - baseDelay' > QEps)
        BY DEF RampUpMode, QueueBuildsUp
    <2> QED
        BY <2>1, <2>2, NadaAssumption
<1>3. ASSUME Measurable(history') PROVE NoRecentLoss(history')
    <2>1. Holes(history') = 0
        BY <1>3 DEF RampUpMode, Loss
    <2>2. history' # <<>>
        BY <1>1, <1>3, EmptySeq, NadaAssumption DEF Measurable
    <2>3. (IInv /\ history # <<>> /\ Holes(history) = 0 => Consecutive)'
        BY NoHoleConsecutive, PTL
    <2> QED
        BY <2>1, <2>2, <2>3 DEF Consecutive, NoRecentLoss
<1> QED
    BY <1>2, <1>3

\* An update that ramps up has no packet in its history that was delayed by more than
\* QEps and, if the history is at least MinLogLen packets long, every packet between
\* the oldest and the newest.
THEOREM RampUpIsAlwaysClean == NadaSpec => RampUpIsClean
<1> DEFINE Clean ==
        RampsUp => /\ \A r \in Records(history') : r.owd - baseDelay' <= QEps
                   /\ Measurable(history') => NoRecentLoss(history')
<1>1. NadaInv /\ NadaInv' /\ NadaNext => Clean
    <2> SUFFICES ASSUME NadaInv, NadaInv', NadaNext,
                        lastTimeCalc' # lastTimeCalc, mode' = "rampUp", recvRateFault' = "none"
                 PROVE  RampUpMode
        <3>1. ASSUME NadaInv, NadaInv', RampUpMode
              PROVE  Clean
            <4>1. baseDelay' \in Int /\ IInv' /\ ploss \in Nat
                BY <3>1 DEF NadaInv, IInv, CoreTypes, ModeInv
            <4> QED
                BY <3>1, <4>1, RampUpModeClean
        <3> QED
            BY <3>1 DEF RampsUp
    <2> SUFFICES ASSUME ~RampUpMode PROVE FALSE
        OBVIOUS
    <2>1. ~lastTimeCalcValid => mode = "none"
        BY DEF NadaInv, ModeInv
    <2>2. CASE TakeFeedback
        <3>1. PICK i, at, rx, last : NadaFeedback(i, at, rx, last)
            <4>1. PICK end \in ReportTimes, i \in DOMAIN outstanding, last \in BOOLEAN :
                    \E at \in lastRx .. end : TakeItem(i, at, end, last)
                BY <2>2 DEF TakeFeedback
            <4> QED
                BY <4>1 DEF TakeItem
        <3>2. ~GiveUp
            BY DEF GiveUp, nadaVars
        <3>3. Recalculate(last)
            BY <3>1, <3>2 DEF NadaFeedback
        <3>4. ~Update("item") /\ ~Update("batch")
            BY DEF Update
        <3>5. ~DueAtItem /\ ~DueAtBatch(last) /\ UNCHANGED <<ploss, mode, recvRateFault>>
            BY <3>3, <3>4 DEF Recalculate
        <3>6. lastTimeCalcValid
            BY <2>1, <3>5
        <3> QED
            BY <3>3, <3>5, <3>6 DEF Recalculate, TimeAfterItem
    <2>3. CASE NadaSend
        BY <2>1, <2>3 DEF NadaSend
    <2>4. CASE NadaReset
        BY <2>4 DEF NadaReset
    <2>5. CASE NadaTick
        BY <2>5 DEF NadaTick, nadaVars
    <2> QED
        BY <2>2, <2>3, <2>4, <2>5 DEF NadaNext
<1>2. NadaInv /\ NadaInv' /\ [NadaNext]_allVars => [Clean]_allVars
    BY <1>1
<1> QED
    BY <1>2, NadaInvariance, PTL DEF NadaSpec, RampUpIsClean
=============================================================================
