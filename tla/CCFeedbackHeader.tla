-------------------------- MODULE CCFeedbackHeader --------------------------
(***************************************************************************)
(* The RTCP congestion-control feedback packet (class CCFeedbackHeader of  *)
(* model/apps/rtp-header.{h,cc}), which carries the sequence numbers that  *)
(* were received, and when, from the receiver back to the sender.          *)
(*                                                                         *)
(* A header is a record: blocks maps each SSRC to its report block, which  *)
(* maps a received sequence number to [ts, ecn]; latest is m_latestTsUs    *)
(* and length is m_length, in 32-bit words.                                *)
(*                                                                         *)
(* Octets are abstracted to the fields they hold.  The conversions of time *)
(* are modelled by what they do to it: microseconds to 1/65536 s (NTP), to *)
(* an offset of 1/1024 s (ATO) before the report's own timestamp, and back.*)
(* Floating-point products are taken to be exact before they are           *)
(* truncated, and simulations to be shorter than 2^32 / 65536 seconds.     *)
(***************************************************************************)
EXTENDS SequenceNumbers, FiniteSets, FiniteSetsExt

CONSTANTS
    MaxLength,      \* the largest m_length a header may have (0xffff)
    UsPerSecond,    \* 1000000
    NtpPerSecond,   \* 0x10000
    AtoUnit,        \* NTP units in one ATO unit (64)
    AtoMod,         \* 2^16, the width of the variable ato
    Overrange       \* m_overrange

ASSUME HeaderAssumption ==
    /\ MaxLength \in Nat /\ MaxLength >= 2
    /\ UsPerSecond \in Nat \ {0}
    /\ NtpPerSecond \in Nat \ {0}
    /\ AtoUnit \in Nat \ {0}
    /\ Overrange \in Nat /\ AtoMod \in Nat /\ Overrange < AtoMod

EmptyHeader == [blocks |-> <<>>, latest |-> 0, length |-> 2]

IsEmpty(header) == DOMAIN header.blocks = {}

-----------------------------------------------------------------------------
(* CalculateBeginStopSeq *)

\* Neighbouring members of a set of sequence numbers, and the pair that lies
\* furthest apart, the first one among equals.
Gaps(seqs) ==
    {gap \in seqs \X seqs :
        gap[1] < gap[2] /\ \A s \in seqs : s <= gap[1] \/ gap[2] <= s}

WidestGap(seqs) ==
    CHOOSE g \in Gaps(seqs) : \A h \in Gaps(seqs) :
        \/ h[2] - h[1] < g[2] - g[1]
        \/ h[2] - h[1] = g[2] - g[1] /\ g[1] <= h[1]

\* (Mutant: the gap across the wrap is not looked at.)
BeginStopLinear(seqs) == [begin |-> Min(seqs), stop |-> Inc(Max(seqs))]

\* The circular range [begin, stop) a block reports: all but the widest gap.
BeginStop(seqs) ==
    LET first == Min(seqs)
        last  == Max(seqs)
        gap   == WidestGap(seqs)
    IN  IF first = last \/ Diff(first, last) > gap[2] - gap[1]
        THEN [begin |-> first, stop |-> Inc(last)]
        ELSE [begin |-> gap[2], stop |-> Inc(gap[1])]

\* The assert of CalculateBeginStopSeq: not every sequence number is reported.
Representable(seqs) == LET r == BeginStop(seqs) IN r.begin # r.stop

MetricBlocks(seqs) == LET r == BeginStop(seqs) IN Diff(r.stop, r.begin)

\* The sequence number of metric block i, counted from 0.
Nth(begin, i) == IF begin + i < SeqMod THEN begin + i ELSE begin + i - SeqMod

-----------------------------------------------------------------------------
(* UpdateLength, AddFeedback, Clear *)

\* (Mutant: an odd number of metric blocks is not padded.)
LengthUnpadded(blocks) ==
    2 + MapThenSumSet(LAMBDA ssrc : 2 + MetricBlocks(DOMAIN blocks[ssrc]) \div 2,
                      DOMAIN blocks)

\* One word for each SSRC, one for begin and end, and one for two metric blocks,
\* in addition to the sender's SSRC and the report timestamp.
LengthOf(blocks) ==
    2 + MapThenSumSet(LAMBDA ssrc : 2 + (MetricBlocks(DOMAIN blocks[ssrc]) + 1) \div 2,
                      DOMAIN blocks)

\* (Mutant: off by one at the limit.)
TooLongLate(blocks) == LengthOf(blocks) > MaxLength + 1
TooLong(blocks) == LengthOf(blocks) > MaxLength

\* (Mutant: the report blocks stay.)
ClearedButBlocks(header) == [header EXCEPT !.latest = 0, !.length = 2]
Cleared(header) == [blocks |-> <<>>, latest |-> 0, length |-> 2]

Put(f, x, v) == [y \in DOMAIN f \cup {x} |-> IF y = x THEN v ELSE f[y]]

BlockOf(header, ssrc) == IF ssrc \in DOMAIN header.blocks THEN header.blocks[ssrc] ELSE <<>>

Added(header, ssrc, seq, ts, ecn) ==
    Put(header.blocks, ssrc, Put(BlockOf(header, ssrc), seq, [ts |-> ts, ecn |-> ecn]))

\* What AddFeedback returns; "assert" if it does not return.
AddResult(header, ssrc, seq, ts, ecn) ==
    CASE ecn > 3 -> "BAD_ECN"
      [] ecn <= 3 /\ seq \in DOMAIN BlockOf(header, ssrc) -> "DUPLICATE"
      [] OTHER ->
            LET blocks == Added(header, ssrc, seq, ts, ecn)
            IN  IF \E s \in DOMAIN blocks : ~Representable(DOMAIN blocks[s]) THEN "assert"
                ELSE IF TooLong(blocks) THEN "TOO_LONG"
                ELSE "NONE"

Without(f, x) == [y \in DOMAIN f \ {x} |-> f[y]]

\* (Mutant: a packet that does not fit stays.)
NotTakenOut(blocks, ssrc, seq) == blocks

\* A packet is taken out again, and its report block when it was the only one.
TakenOut(blocks, ssrc, seq) ==
    IF DOMAIN blocks[ssrc] = {seq}
    THEN Without(blocks, ssrc)
    ELSE [blocks EXCEPT ![ssrc] = Without(@, seq)]

\* The header AddFeedback leaves behind.  The length is only set when it fits.
AfterAdd(header, ssrc, seq, ts, ecn) ==
    LET result == AddResult(header, ssrc, seq, ts, ecn)
        blocks == Added(header, ssrc, seq, ts, ecn)
    IN  CASE result = "NONE" -> [blocks |-> blocks,
                                 latest |-> IF ts > header.latest THEN ts ELSE header.latest,
                                 length |-> LengthOf(blocks)]
          [] result = "TOO_LONG" -> [header EXCEPT !.blocks = TakenOut(blocks, ssrc, seq)]
          [] OTHER -> header

-----------------------------------------------------------------------------
(* Time on the wire *)

UsToNtp(us) == (us * NtpPerSecond) \div UsPerSecond
NtpToUs(ntp) == (ntp * UsPerSecond) \div NtpPerSecond

\* (Mutant: the offset is truncated, not rounded.)
NtpToAtoTruncated(ntp, ref) ==
    LET ato == ((ref - ntp) \div AtoUnit) % AtoMod
    IN  IF ato < Overrange THEN ato ELSE Overrange

NtpToAto(ntp, ref) ==
    LET ato == ((ref - ntp + AtoUnit \div 2) \div AtoUnit) % AtoMod
    IN  IF ato < Overrange THEN ato ELSE Overrange

\* The assert of AtoToNtp: the offset does not reach back before time 0.
AtoFits(ato, ref) == ato * AtoUnit <= ref
AtoToNtp(ato, ref) == ref - ato * AtoUnit

-----------------------------------------------------------------------------
(* Serialize and Deserialize *)

Lost == [received |-> FALSE]

EncodeBlock(block, ref) ==
    LET r == BeginStop(DOMAIN block)
        n == MetricBlocks(DOMAIN block)
    IN  [begin   |-> r.begin,
         end     |-> Dec(r.stop),
         metrics |-> [i \in 0 .. n - 1 |->
                        LET seq == Nth(r.begin, i)
                        IN  IF seq \in DOMAIN block
                            THEN [received |-> TRUE, ecn |-> block[seq].ecn,
                                  ato |-> NtpToAto(UsToNtp(block[seq].ts), ref)]
                            ELSE Lost]]

Encode(header) ==
    LET ref == UsToNtp(header.latest)
    IN  [blocks |-> [ssrc \in DOMAIN header.blocks |-> EncodeBlock(header.blocks[ssrc], ref)],
         ref    |-> ref,
         length |-> header.length]

\* Deserialize reads as many metric blocks as begin and end span.
Spanned(wire) == Diff(wire.end, wire.begin) + 1

DecodeBlock(wire, ref) ==
    LET At(seq) == Diff(seq, wire.begin)
        received == {seq \in Sequences16 :
                        At(seq) < Spanned(wire) /\ wire.metrics[At(seq)].received}
    IN  [seq \in received |-> [ts  |-> NtpToUs(AtoToNtp(wire.metrics[At(seq)].ato, ref)),
                               ecn |-> wire.metrics[At(seq)].ecn]]

Decode(packet) ==
    [blocks |-> [ssrc \in DOMAIN packet.blocks |-> DecodeBlock(packet.blocks[ssrc], packet.ref)],
     latest |-> NtpToUs(packet.ref),
     length |-> packet.length]

\* The asserts of Deserialize hold: it consumes exactly the words there are, and
\* every offset fits.
Readable(packet) ==
    /\ packet.length = 2 + MapThenSumSet(
            LAMBDA ssrc : 2 + (Spanned(packet.blocks[ssrc]) + 1) \div 2,
            DOMAIN packet.blocks)
    /\ DOMAIN packet.blocks # {}
    /\ \A ssrc \in DOMAIN packet.blocks : \A i \in DOMAIN packet.blocks[ssrc].metrics :
            LET m == packet.blocks[ssrc].metrics[i]
            IN  m.received => AtoFits(m.ato, packet.ref)

\* (Mutant: in the order of the numbers.)
MetricListByNumber(block) ==
    LET Position(seq) == Cardinality({s \in DOMAIN block : s <= seq})
    IN  [i \in 1 .. Cardinality(DOMAIN block) |->
            LET seq == CHOOSE s \in DOMAIN block : Position(s) = i
            IN  [seq |-> seq, ts |-> block[seq].ts, ecn |-> block[seq].ecn]]

\* GetMetricList: the packets of a block in circular order from begin.
MetricList(block) ==
    LET r == BeginStop(DOMAIN block)
        Position(seq) == Cardinality({s \in DOMAIN block : Diff(s, r.begin) <= Diff(seq, r.begin)})
    IN  [i \in 1 .. Cardinality(DOMAIN block) |->
            LET seq == CHOOSE s \in DOMAIN block : Position(s) = i
            IN  [seq |-> seq, ts |-> block[seq].ts, ecn |-> block[seq].ecn]]
=============================================================================
