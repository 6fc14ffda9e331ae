-------------------------- MODULE CCFeedbackReports --------------------------
(***************************************************************************)
(* A CCFeedbackHeader under a caller that adds the packets of several      *)
(* streams in any order, clears it, and may put it on the wire at any      *)
(* time: the invariants say what a receiver of the report would read.      *)
(***************************************************************************)
EXTENDS CCFeedbackHeader

CONSTANTS
    Ssrcs,      \* streams
    Times,      \* times of reception, in microseconds
    Ecns        \* ECN values the caller passes, bad ones included

\* AtoToNtp asserts that no packet was received before the simulator's clock
\* reached half an ATO unit: 0.5 ms, less than a packet's way to the receiver.
ASSUME ReportsAssumption ==
    /\ Times \subseteq Nat
    /\ Ecns \subseteq Nat
    /\ \A t \in Times : 2 * UsToNtp(t) >= AtoUnit

\* NtpToAto cuts an offset to the width of ato before it compares it with
\* Overrange.  64 s do not pass between two packets of a report: the receiver
\* sends one every 100 ms.
ASSUME SpanAssumption ==
    \A t, u \in Times : UsToNtp(u) - UsToNtp(t) + AtoUnit \div 2 < AtoMod * AtoUnit

VARIABLES
    header,     \* the CCFeedbackHeader
    result      \* what AddFeedback returned last

vars == <<header, result>>

Init ==
    /\ header = EmptyHeader
    /\ result = "NONE"

AddFeedback ==
    /\ result # "assert"
    /\ \E ssrc \in Ssrcs, seq \in Sequences16, ts \in Times, ecn \in Ecns :
          /\ result' = AddResult(header, ssrc, seq, ts, ecn)
          /\ header' = AfterAdd(header, ssrc, seq, ts, ecn)

Clear ==
    /\ result # "assert"
    /\ header' = Cleared(header)
    /\ UNCHANGED result

Next == AddFeedback \/ Clear

Spec == Init /\ [][Next]_vars

-----------------------------------------------------------------------------
(* Properties *)

Received(ssrc) == DOMAIN header.blocks[ssrc]
Read == Decode(Encode(header))

\* The header is a map of non-empty maps, and its length fits its field.
TypeOK ==
    /\ DOMAIN header.blocks \subseteq Ssrcs
    /\ \A ssrc \in DOMAIN header.blocks :
          /\ Received(ssrc) \in (SUBSET Sequences16) \ {{}}
          /\ header.blocks[ssrc] \in [Received(ssrc) -> [ts : Times, ecn : 0 .. 3]]
    /\ header.latest \in Times \cup {0}
    /\ header.length \in 2 .. MaxLength
    /\ result \in {"NONE", "DUPLICATE", "BAD_ECN", "TOO_LONG", "assert"}

\* The sender reads exactly the packets that were added, whatever was lost in
\* between, whether or not the numbers wrap and whatever was refused on the way:
\* Deserialize consumes the length that UpdateLength computed and fails no assert.
SurvivesTheWire ==
    ~IsEmpty(header) =>
        /\ Readable(Encode(header))
        /\ DOMAIN Read.blocks = DOMAIN header.blocks
        /\ \A ssrc \in DOMAIN header.blocks :
              /\ DOMAIN Read.blocks[ssrc] = Received(ssrc)
              /\ \A seq \in Received(ssrc) :
                    Read.blocks[ssrc][seq].ecn = header.blocks[ssrc][seq].ecn

\* A time of reception is off by half an ATO unit and the rounding to NTP units
\* at most, never after the report, unless it is too old for the field.  What is
\* too old is reported as just that old.
TimesSurvive ==
    ~IsEmpty(header) =>
        \A ssrc \in DOMAIN header.blocks : \A seq \in Received(ssrc) :
            LET ts  == header.blocks[ssrc][seq].ts
                age == UsToNtp(header.latest) - UsToNtp(ts)
                got == Read.blocks[ssrc][seq].ts
            IN  /\ got <= Read.latest
                /\ 2 * age < (2 * Overrange + 1) * AtoUnit =>
                      /\ 2 * NtpPerSecond * (got - ts) <= AtoUnit * UsPerSecond
                      /\ 2 * NtpPerSecond * (ts - got)
                            <= (AtoUnit + 2) * UsPerSecond + 2 * NtpPerSecond
                /\ 2 * age >= (2 * Overrange + 1) * AtoUnit =>
                      got = NtpToUs(AtoToNtp(Overrange, UsToNtp(header.latest)))

\* The report covers every packet received and no circular range of sequence
\* numbers that does is shorter.
ShortestRange ==
    \A ssrc \in DOMAIN header.blocks :
        LET r == BeginStop(Received(ssrc))
            Covers(begin, n) == \A seq \in Received(ssrc) : Diff(seq, begin) < n
        IN  result # "assert" =>
                /\ Covers(r.begin, Diff(r.stop, r.begin))
                /\ \A begin \in Sequences16, n \in 1 .. SeqMod :
                      Covers(begin, n) => Diff(r.stop, r.begin) <= n
=============================================================================
