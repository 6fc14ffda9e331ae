------------------------------ MODULE RfbHeader ------------------------------
(***************************************************************************)
(* The feedback packet of CCFS (class RfbHeader of                         *)
(* model/apps/rfb-header.{h,cc}): for every stream a count of packets, the *)
(* last sequence number, and for each number in between whether and when   *)
(* it was received.                                                        *)
(*                                                                         *)
(* A header is a record: blocks maps each SSRC to its report block, which  *)
(* maps a received sequence number to [ts, ecn]; length is m_length, in    *)
(* 32-bit words; reportTime and monitored are m_reportTimeMs and           *)
(* m_monitoredMs.  m_countEndSeq caches CountEnd of every block and is     *)
(* brought up to date whenever a block changes, so it is computed here.    *)
(* m_fbSeq is left out: the sender never reads it.                         *)
(*                                                                         *)
(* Octets are abstracted to the fields they hold.  Times are milliseconds  *)
(* and simulations shorter than 2^32 of them.                              *)
(***************************************************************************)
EXTENDS SequenceNumbers, Sequences, FiniteSets, FiniteSetsExt

CONSTANTS
    Half,        \* 65536/2: numbers up to here are in the front half
    WrapFront,   \* the 100 of CalcCountEndSeq
    MaxAto,      \* 0x1fff, the largest arrival time offset
    MaxOctets    \* 0xffff, the limit of Update

ASSUME RfbHeaderAssumption ==
    /\ Half \in Sequences16
    /\ WrapFront \in Nat
    /\ MaxAto \in Nat
    /\ MaxOctets \in Nat

-----------------------------------------------------------------------------
(* CalcCountEndSeq, GetCountEndSeq *)

Span(lo, hi) == [count |-> (hi - lo + 1) % SeqMod, end |-> hi % SeqMod]

\* (Mutant: a block on both sides of the middle has never wrapped.)
HasWrappedNever(front) == FALSE

\* A block with numbers in both halves has wrapped if it has a very small one.
HasWrapped(front) == Min(front) < WrapFront

CountEnd(seqs) ==
    LET front == {s \in seqs : s <= Half}
        rear  == seqs \ front
    IN  CASE seqs = {} -> [count |-> 0, end |-> 0]
          [] rear = {} /\ front # {} -> Span(Min(front), Max(front))
          [] front = {} /\ rear # {} -> Span(Min(rear), Max(rear))
          [] OTHER -> IF HasWrapped(front)
                      THEN Span(Min(rear), Max(front) + SeqMod)
                      ELSE Span(Min(front), Max(rear))

\* The count numbers that end with end, in order.
InRange(countEnd) ==
    [i \in 1 .. countEnd.count |-> (countEnd.end - countEnd.count + i) % SeqMod]

-----------------------------------------------------------------------------
(* Constructor, AddFeedback, CleanReportBlocks, Update *)

EmptyRfb == [blocks |-> <<>>, length |-> 3, reportTime |-> 0, monitored |-> 0]

BlockIn(header, ssrc) == IF ssrc \in DOMAIN header.blocks THEN header.blocks[ssrc] ELSE <<>>

PutAt(f, x, v) == [y \in DOMAIN f \cup {x} |-> IF y = x THEN v ELSE f[y]]

\* Octets of a block: SSRC, count and end, and two for each number, padded to words.
BlockOctets(countEnd) == 8 + 2 * (countEnd.count + (countEnd.count % 2))

Octets(blocks) ==
    20 + SumFunction([ssrc \in DOMAIN blocks |-> BlockOctets(CountEnd(DOMAIN blocks[ssrc]))])

\* Update: a header that has become too long keeps its old length; neither
\* AddFeedback nor CleanReportBlocks looks at the result.
Updated(header) ==
    [header EXCEPT !.length = IF Octets(header.blocks) > MaxOctets THEN @
                              ELSE (Octets(header.blocks) - 4) \div 4]

AddResult(header, ssrc, seq, ecn) ==
    CASE ecn > 3 -> "BAD_ECN"
      [] ecn <= 3 /\ ssrc \notin DOMAIN header.blocks -> "SRC"
      [] ecn <= 3 /\ ssrc \in DOMAIN header.blocks ->
            IF seq \in DOMAIN header.blocks[ssrc] THEN "DUPLICATE" ELSE "ONE"

AddFeedback(header, ssrc, seq, ts, ecn) ==
    IF AddResult(header, ssrc, seq, ecn) \in {"SRC", "ONE"}
    THEN Updated([header EXCEPT !.blocks =
            PutAt(@, ssrc, PutAt(BlockIn(header, ssrc), seq, [ts |-> ts, ecn |-> ecn]))])
    ELSE header

\* (Mutant: the blocks stay.)
Uncleaned(header) == Updated(header)
CleanReportBlocks(header) == Updated([header EXCEPT !.blocks = <<>>])

SetTimes(header, reportTime, monitored) ==
    [header EXCEPT !.reportTime = reportTime, !.monitored = monitored]

-----------------------------------------------------------------------------
(* What the controller asks of a header *)

GetTotalReportCount(header) ==
    SumFunction([ssrc \in DOMAIN header.blocks |-> CountEnd(DOMAIN header.blocks[ssrc]).count])

\* The places of a range where there is one of seqs, and those numbers in order.
Places(seqs, range) == {i \in DOMAIN range : range[i] \in seqs}

Listed(seqs, range) ==
    LET places == Places(seqs, range)
        Nth(k) == CHOOSE i \in places : Cardinality({j \in places : j <= i}) = k
    IN  [k \in 1 .. Cardinality(places) |-> range[Nth(k)]]

\* (Mutant: the numbers as the map of the block is ordered.)
RangeByNumber(header, ssrc) == [i \in 1 .. SeqMod |-> i - 1]
RangeIn(header, ssrc) == InRange(CountEnd(DOMAIN BlockIn(header, ssrc)))

\* GetMetricList: the numbers received, in the order of the range.
MetricList(header, ssrc) == Listed(DOMAIN BlockIn(header, ssrc), RangeIn(header, ssrc))

-----------------------------------------------------------------------------
(* Serialize, Deserialize, TsToAto, AtoToTs *)

TsToAto(ts, reportTime) == reportTime - ts
AtoToTs(ato, reportTime) == reportTime - ato

NotReceived == [received |-> FALSE]

\* The asserts of TsToAto and Serialize on every packet that is reported.
Serializable(header) ==
    \A ssrc \in DOMAIN header.blocks : \A seq \in DOMAIN header.blocks[ssrc] :
        TsToAto(header.blocks[ssrc][seq].ts, header.reportTime) \in 0 .. MaxAto

SerializeBlock(block, reportTime) ==
    LET range == InRange(CountEnd(DOMAIN block))
    IN  [count   |-> Len(range),
         end     |-> CountEnd(DOMAIN block).end,
         metrics |-> [i \in 1 .. Len(range) |->
                        IF range[i] \in DOMAIN block
                        THEN [received |-> TRUE, ecn |-> block[range[i]].ecn,
                              ato |-> TsToAto(block[range[i]].ts, reportTime)]
                        ELSE NotReceived]]

Serialize(header) ==
    [header EXCEPT !.blocks = [ssrc \in DOMAIN @ |-> SerializeBlock(@[ssrc], header.reportTime)]]

\* The asserts of Deserialize: the length is that of the blocks that follow.
Deserializable(packet) ==
    4 * (packet.length + 1) =
        20 + SumFunction([ssrc \in DOMAIN packet.blocks |-> BlockOctets(packet.blocks[ssrc])])

DeserializeBlock(wire, reportTime) ==
    LET range == InRange(wire)
        received == {i \in 1 .. wire.count : wire.metrics[i].received}
    IN  [seq \in {range[i] : i \in received} |->
            LET m == wire.metrics[CHOOSE i \in received : range[i] = seq]
            IN  [ts |-> AtoToTs(m.ato, reportTime), ecn |-> m.ecn]]

\* Streams nothing was received from get no block: AddFeedback makes the blocks.
Deserialize(packet) ==
    LET reported == {ssrc \in DOMAIN packet.blocks :
                        \E i \in 1 .. packet.blocks[ssrc].count :
                            packet.blocks[ssrc].metrics[i].received}
    IN  Updated([packet EXCEPT !.blocks =
            [ssrc \in reported |-> DeserializeBlock(@[ssrc], packet.reportTime)]])
=============================================================================
