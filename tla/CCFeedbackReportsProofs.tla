----------------------- MODULE CCFeedbackReportsProofs -----------------------
(***************************************************************************)
(* What every report can be relied on for, whatever the streams, the times *)
(* and the order packets are added in.  The inductive invariant is that of *)
(* the header: every block leaves a sequence number out, no packet is      *)
(* later than latest, and the length is the one the blocks need.           *)
(***************************************************************************)
EXTENDS CCFeedbackReports, CCFeedbackHeaderProofs

ReportsInv ==
    /\ HeaderInv(header, Ssrcs, Times)
    /\ result \in {"NONE", "DUPLICATE", "BAD_ECN", "TOO_LONG", "assert"}

LEMMA ReportsInitially == Init => ReportsInv
<1> SUFFICES ASSUME Init PROVE ReportsInv
    OBVIOUS
<1>1. HeaderInv(header, Ssrcs, Times)
    <2>1. header = EmptyHeader
        BY DEF Init
    <2> QED
        BY <2>1, EmptyHeaderInv
<1> QED
    BY <1>1 DEF ReportsInv, Init

LEMMA ReportsStep == ReportsInv /\ [Next]_vars => ReportsInv'
<1> SUFFICES ASSUME ReportsInv, [Next]_vars PROVE ReportsInv'
    OBVIOUS
<1>1. CASE AddFeedback
    <2>1. PICK ssrc \in Ssrcs, seq \in Sequences16, ts \in Times, ecn \in Ecns :
              /\ result' = AddResult(header, ssrc, seq, ts, ecn)
              /\ header' = AfterAdd(header, ssrc, seq, ts, ecn)
        BY <1>1 DEF AddFeedback
    <2>2. HeaderInv(AfterAdd(header, ssrc, seq, ts, ecn), Ssrcs, Times)
        <3>1. Times \in SUBSET Nat /\ ecn \in Nat
            BY ReportsAssumption
        <3> QED
            BY <3>1, AddInv DEF ReportsInv
    <2>3. HeaderInv(header', Ssrcs, Times)
        BY <2>1, <2>2
    <2>4. AddResult(header, ssrc, seq, ts, ecn)
            \in {"NONE", "DUPLICATE", "BAD_ECN", "TOO_LONG", "assert"}
        <3>1. ecn \in Nat
            BY ReportsAssumption
        <3>2. CASE ecn > 3
            BY <3>1, <3>2 DEF AddResult
        <3>3. CASE ecn <= 3 /\ seq \in DOMAIN BlockOf(header, ssrc)
            BY <3>1, <3>3 DEF AddResult
        <3>4. CASE ecn <= 3 /\ seq \notin DOMAIN BlockOf(header, ssrc)
            BY <3>1, <3>4 DEF AddResult
        <3> QED
            BY <3>1, <3>2, <3>3, <3>4
    <2> QED
        BY <2>1, <2>3, <2>4 DEF ReportsInv, HeaderInv
<1>2. CASE Clear
    <2>1. HeaderInv(header', Ssrcs, Times)
        <3>1. header' = Cleared(header)
            BY <1>2 DEF Clear
        <3> QED
            BY <3>1, ClearedInv DEF ReportsInv
    <2> QED
        BY <1>2, <2>1 DEF ReportsInv, HeaderInv, Clear
<1>3. CASE UNCHANGED vars
    BY <1>3 DEF ReportsInv, HeaderInv, vars
<1> QED
    BY <1>1, <1>2, <1>3 DEF Next

\* The invariant holds for any number of streams, any span of time within the
\* width of the field and any sequence of packets added, refused and cleared.
THEOREM ReportsInvariance == Spec => []ReportsInv
    BY ReportsInitially, ReportsStep, PTL DEF Spec

\* The header is a map of non-empty maps, and its length never outgrows the field
\* UpdateLength writes it to.
THEOREM ReportTypes == Spec => []TypeOK
<1>1. ReportsInv => TypeOK
    <2> SUFFICES ASSUME ReportsInv PROVE TypeOK
        OBVIOUS
    <2>1. \A ssrc \in DOMAIN header.blocks :
              /\ Received(ssrc) \in (SUBSET Sequences16) \ {{}}
              /\ header.blocks[ssrc] \in [Received(ssrc) -> [ts : Times, ecn : 0 .. 3]]
        BY DEF ReportsInv, HeaderInv, BlockInv, Received
    <2> QED
        BY <2>1 DEF ReportsInv, HeaderInv, TypeOK
<1> QED
    BY <1>1, ReportsInvariance, PTL

\* Deserialize fails no assert on any report that AddFeedback builds, and the
\* sender reads the packets that were added, no more and no fewer.
THEOREM ReportsSurviveTheWire == Spec => []SurvivesTheWire
<1>1. ReportsInv => SurvivesTheWire
    <2> SUFFICES ASSUME ReportsInv, ~IsEmpty(header) PROVE SurvivesTheWire
        BY DEF SurvivesTheWire
    <2>1. HeaderInv(header, Ssrcs, Times) /\ Times \in SUBSET Nat
        BY ReportsAssumption DEF ReportsInv
    <2>2. \A t \in Times : 2 * UsToNtp(t) >= AtoUnit
        BY ReportsAssumption
    <2>3. Readable(Encode(header)) /\ DOMAIN Read.blocks = DOMAIN header.blocks
        BY <2>1, <2>2, HeaderRoundTrip DEF Read
    <2>4. ASSUME NEW ssrc \in DOMAIN header.blocks
          PROVE  /\ DOMAIN Read.blocks[ssrc] = Received(ssrc)
                 /\ \A seq \in Received(ssrc) :
                       Read.blocks[ssrc][seq].ecn = header.blocks[ssrc][seq].ecn
        <3>1. DOMAIN Read.blocks[ssrc] = Received(ssrc)
            <4>1. \A s \in DOMAIN header.blocks :
                    DOMAIN Decode(Encode(header)).blocks[s] = DOMAIN header.blocks[s]
                BY <2>1, <2>2, HeaderRoundTrip
            <4> QED
                BY <4>1 DEF Read, Received
        <3>2. ASSUME NEW seq \in Received(ssrc)
              PROVE  Read.blocks[ssrc][seq].ecn = header.blocks[ssrc][seq].ecn
            BY <2>1, <2>2, HeaderRoundTrip DEF Read, Received
        <3> QED
            BY <3>1, <3>2
    <2> QED
        BY <2>3, <2>4 DEF SurvivesTheWire
<1> QED
    BY <1>1, ReportsInvariance, PTL

\* The times of reception in a report that crossed the wire: no later than the
\* report, exact to half an offset unit and the rounding of the clocks, or, when
\* too old for the field, as old as the field can say.
THEOREM ReportTimesSurvive == Spec => []TimesSurvive
<1>1. ReportsInv => TimesSurvive
    <2> DEFINE ref == UsToNtp(header.latest)
               Kept(ssrc, seq) ==
                  LET ts  == header.blocks[ssrc][seq].ts
                      age == UsToNtp(header.latest) - UsToNtp(ts)
                      got == Read.blocks[ssrc][seq].ts
                  IN  /\ got <= Read.latest
                      /\ 2 * age < (2 * Overrange + 1) * AtoUnit =>
                            /\ 2 * NtpPerSecond * (got - ts) <= AtoUnit * UsPerSecond
                            /\ 2 * NtpPerSecond * (ts - got)
                                  <= (AtoUnit + 2) * UsPerSecond + 2 * NtpPerSecond
                      /\ 2 * age >= (2 * Overrange + 1) * AtoUnit =>
                            got = NtpToUs(AtoToNtp(Overrange, UsToNtp(header.latest)))
    <2> SUFFICES ASSUME ReportsInv, ~IsEmpty(header),
                        NEW ssrc \in DOMAIN header.blocks, NEW seq \in Received(ssrc)
                 PROVE  Kept(ssrc, seq)
        BY DEF TimesSurvive
    <2> DEFINE ts == header.blocks[ssrc][seq].ts
               got == Read.blocks[ssrc][seq].ts
    <2>1. HeaderInv(header, Ssrcs, Times) /\ Times \in SUBSET Nat
        BY ReportsAssumption DEF ReportsInv
    <2>2. got = RoundTrip(ts, ref) /\ Read.latest = NtpToUs(ref)
        BY <2>1, HeaderRoundTrip, ReportsAssumption DEF Read, Received
    <2>3. ts \in Times /\ header.latest \in Times /\ ts <= header.latest
        BY <2>1 DEF HeaderInv, BlockInv, Received, IsEmpty
    <2> HIDE DEF ts, got
    <2>4. /\ ts \in Nat /\ header.latest \in Nat
          /\ UsToNtp(ts) \in Nat /\ ref \in Nat /\ UsToNtp(ts) <= ref
          /\ 2 * UsToNtp(ts) >= AtoUnit
          /\ ref - UsToNtp(ts) + AtoUnit \div 2 < AtoMod * AtoUnit
        BY <2>1, <2>3, TimeTypes, TimesMonotone, ReportsAssumption, SpanAssumption
    <2> HIDE DEF ref
    <2>5. got <= NtpToUs(ref)
        <3>1. /\ AtoToNtp(NtpToAto(UsToNtp(ts), ref), ref) \in Nat
              /\ AtoToNtp(NtpToAto(UsToNtp(ts), ref), ref) <= ref
            BY <2>4, OffsetFits
        <3> QED
            BY <2>2, <2>4, <3>1, TimesMonotone DEF RoundTrip
    <2>6. ASSUME 2 * (ref - UsToNtp(ts)) < (2 * Overrange + 1) * AtoUnit
          PROVE  /\ 2 * NtpPerSecond * (got - ts) <= AtoUnit * UsPerSecond
                 /\ 2 * NtpPerSecond * (ts - got)
                       <= (AtoUnit + 2) * UsPerSecond + 2 * NtpPerSecond
        BY <2>2, <2>4, <2>6, TimeRoundTrip
    <2>7. ASSUME 2 * (ref - UsToNtp(ts)) >= (2 * Overrange + 1) * AtoUnit
          PROVE  got = NtpToUs(AtoToNtp(Overrange, ref))
        BY <2>2, <2>4, <2>7, OffsetOverrange DEF RoundTrip
    <2> QED
        BY <2>2, <2>5, <2>6, <2>7 DEF ref, ts, got
<1> QED
    BY <1>1, ReportsInvariance, PTL

\* CalculateBeginStopSeq finds, for every set of sequence numbers that leaves one
\* out, the circular range that covers it in the fewest metric blocks.
THEOREM ReportsAreShortest == Spec => []ShortestRange
<1>1. ReportsInv => ShortestRange
    <2> DEFINE Covers(ssrc, begin, n) == \A seq \in Received(ssrc) : Diff(seq, begin) < n
    <2> SUFFICES ASSUME ReportsInv, NEW ssrc \in DOMAIN header.blocks
                 PROVE  LET r == BeginStop(Received(ssrc))
                        IN  /\ Covers(ssrc, r.begin, Diff(r.stop, r.begin))
                            /\ \A begin \in Sequences16, n \in 1 .. SeqMod :
                                  Covers(ssrc, begin, n) => Diff(r.stop, r.begin) <= n
        BY DEF ShortestRange
    <2> DEFINE S == Received(ssrc)
    <2>1. S \in SUBSET Sequences16 /\ S # {} /\ Representable(S)
        BY DEF ReportsInv, HeaderInv, BlockInv, Received
    <2>2. MetricBlocks(S) = Diff(BeginStop(S).stop, BeginStop(S).begin)
        BY DEF MetricBlocks
    <2> HIDE DEF S
    <2>3. \A s \in S : Diff(s, BeginStop(S).begin) < MetricBlocks(S)
        BY <2>1, RangeCovers
    <2>4. \A begin \in Sequences16, n \in 1 .. SeqMod :
              (\A s \in S : Diff(s, begin) < n) => MetricBlocks(S) <= n
        BY <2>1, RangeIsShortest
    <2> QED
        BY <2>2, <2>3, <2>4 DEF S
<1> QED
    BY <1>1, ReportsInvariance, PTL
=============================================================================
