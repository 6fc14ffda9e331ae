---------------------------- MODULE RmcatReceiver ----------------------------
(***************************************************************************)
(* The receiving application (model/apps/rmcat-receiver.{h,cc}), with the  *)
(* network in front of it and the socket it reads from.                    *)
(*                                                                         *)
(* Packets are known by the order in which they were sent: packet n has    *)
(* sequence number SeqOf(n).  The network loses and reorders packets but   *)
(* does not duplicate them, and keeps none for longer than it takes the    *)
(* sender to send MaxSpan more.  One sender uses the port, as the asserts  *)
(* on SSRC and address require.                                            *)
(*                                                                         *)
(* A socket calls RecvPacket once for every packet that arrives.  While    *)
(* the application is not running the call returns at once and the packet  *)
(* stays in the socket's queue.                                            *)
(***************************************************************************)
EXTENDS CCFeedbackHeader, Sequences

CONSTANTS
    Period,         \* m_periodUs
    Remote,         \* the sender's SSRC
    First,          \* the sender's first sequence number
    FirstArrival,   \* no packet arrives earlier
    MaxSpan,        \* bound: how far the network reorders and a report reaches
    MaxPackets,     \* bound: packets sent
    MaxTime         \* bound: the clock stops here

ASSUME ReceiverAssumption ==
    /\ Period \in Nat \ {0}
    /\ First \in Sequences16
    /\ FirstArrival \in Nat /\ 2 * UsToNtp(FirstArrival) >= AtoUnit
    /\ MaxSpan \in Nat \ {0} /\ 2 * MaxSpan <= SeqMod
    /\ MaxLength >= 5   \* a header has room for a packet
    /\ MaxPackets \in Nat
    /\ MaxTime \in Nat

VARIABLES
    stage,      \* "created", "running" or "stopped": m_running is stage = "running"
    waiting,    \* m_waiting
    header,     \* m_header
    timer,      \* time left until SendFeedback, or NoTimer
    queue,      \* packets in the socket's queue
    net,        \* packets on their way
    sent,       \* packets sent so far
    taken,      \* packets AddFeedback was called for since the last report, with the time
    report,     \* the report sent last: its items as the sender reads them, and what
                \* had been taken for it
    now,        \* the simulator's clock
    fault       \* the NS_ASSERT that failed

vars == <<stage, waiting, header, timer, queue, net, sent, taken, report, now, fault>>

NoTimer == -1
NoReport == [items |-> <<>>, of |-> {}]
NoFault == fault = "none"
SeqOf(n) == Nth(First, n % SeqMod)
Packets(stamps) == {s.packet : s \in stamps}
InSocket == {queue[i] : i \in 1 .. Len(queue)}

Init ==
    /\ stage = "created"
    /\ waiting = TRUE
    /\ header = EmptyHeader
    /\ timer = NoTimer
    /\ queue = <<>>
    /\ net = {}
    /\ sent = 0
    /\ taken = {}
    /\ report = NoReport
    /\ now = 0
    /\ fault = "none"

StartApplication ==
    /\ NoFault
    /\ stage = "created"
    /\ stage' = "running"
    /\ timer' = Period
    /\ UNCHANGED <<waiting, header, queue, net, sent, taken, report, now, fault>>

StopApplication ==
    /\ NoFault
    /\ stage = "running"
    /\ stage' = "stopped"
    /\ waiting' = TRUE
    /\ header' = Cleared(header)
    /\ taken' = {}
    /\ timer' = NoTimer
    /\ UNCHANGED <<queue, net, sent, report, now, fault>>

-----------------------------------------------------------------------------
(* AddFeedback and SendFeedback *)

\* Deserialize and GetMetricList, as the sender calls them.
ReadBack(h) == MetricList(Decode(Encode(h)).blocks[Remote])

\* The report SendFeedback sends when m_running holds; none for an empty header.
ReportOf(h) == IF IsEmpty(h) THEN report ELSE [items |-> ReadBack(h), of |-> taken]
ReportAfter == ReportOf(header)

\* RmcatReceiver::AddFeedback: a header that is full is sent and a new one begun.
AddFeedback(n) ==
    LET Result(h) == AddResult(h, Remote, SeqOf(n), now, 0)
        After(h) == AfterAdd(h, Remote, SeqOf(n), now, 0)
        stamp == [packet |-> n, ts |-> now]
    IN  \/ /\ Result(header) = "NONE"
           /\ header' = After(header)
           /\ taken' = taken \cup {stamp}
           /\ UNCHANGED <<report, fault>>
        \/ /\ Result(header) = "TOO_LONG"
           /\ report' = ReportOf(After(header))
           /\ header' = After(Cleared(After(header)))
           /\ taken' = {stamp}
           /\ fault' = IF Result(Cleared(After(header))) = "NONE" THEN "none" ELSE "addFeedback"
        \/ /\ Result(header) \notin {"NONE", "TOO_LONG"}
           /\ fault' = "addFeedback"
           /\ UNCHANGED <<header, taken, report>>

\* A packet arrives and RecvPacket runs.  It reads the packet that has been in
\* the socket longest.
RecvPacket ==
    /\ NoFault
    /\ now >= FirstArrival
    /\ \E n \in net :
         /\ net' = net \ {n}
         /\ \/ /\ stage # "running"
               /\ queue' = Append(queue, n)
               /\ UNCHANGED <<waiting, header, taken, report, fault>>
            \/ /\ stage = "running"
               /\ queue' = Tail(Append(queue, n))
               /\ waiting' = FALSE
               /\ AddFeedback(Head(Append(queue, n)))
    /\ UNCHANGED <<stage, timer, sent, now>>

\* (Mutant: the timer is armed again only after a report was sent.)
SendFeedbackOnDemand ==
    /\ NoFault
    /\ timer = 0
    /\ timer' = IF IsEmpty(header) THEN NoTimer ELSE Period
    /\ report' = ReportAfter
    /\ header' = Cleared(header)
    /\ taken' = {}
    /\ UNCHANGED <<stage, waiting, queue, net, sent, now, fault>>

\* The timer's SendFeedback (true).
SendFeedback ==
    /\ NoFault
    /\ timer = 0
    /\ timer' = Period
    /\ report' = ReportAfter
    /\ header' = Cleared(header)
    /\ taken' = {}
    /\ UNCHANGED <<stage, waiting, queue, net, sent, now, fault>>

-----------------------------------------------------------------------------
(* The sender, the network and the clock *)

Send ==
    /\ NoFault
    /\ sent < MaxPackets
    /\ \A n \in net \cup InSocket \cup Packets(taken) : sent - n < MaxSpan
    /\ net' = net \cup {sent}
    /\ sent' = sent + 1
    /\ UNCHANGED <<stage, waiting, header, timer, queue, taken, report, now, fault>>

Lose ==
    /\ NoFault
    /\ \E n \in net : net' = net \ {n}
    /\ UNCHANGED <<stage, waiting, header, timer, queue, sent, taken, report, now,
                   fault>>

Tick ==
    /\ NoFault
    /\ timer # 0
    /\ now < MaxTime
    /\ now' = now + 1
    /\ timer' = IF timer = NoTimer THEN NoTimer ELSE timer - 1
    /\ UNCHANGED <<stage, waiting, header, queue, net, sent, taken, report, fault>>

Next == \/ StartApplication \/ StopApplication \/ RecvPacket \/ SendFeedback
        \/ Send \/ Lose \/ Tick

Spec == Init /\ [][Next]_vars

-----------------------------------------------------------------------------
(* Properties *)

\* Every variable has the type its declaration in the code gives it.
TypeOK ==
    /\ stage \in {"created", "running", "stopped"}
    /\ waiting \in BOOLEAN
    /\ DOMAIN header.blocks \subseteq {Remote}
    /\ DOMAIN BlockOf(header, Remote) \subseteq Sequences16
    /\ header.latest \in 0 .. now
    /\ header.length \in 2 .. MaxLength
    /\ timer \in 0 .. Period \cup {NoTimer}
    /\ queue \in Seq(0 .. sent - 1)
    /\ net \subseteq 0 .. sent - 1

\* AddFeedback succeeds, at the second attempt at the latest: a header holds
\* neither a packet twice nor two packets with one sequence number, and a packet
\* fits into an empty one.
NoAssertFails == fault = "none"

\* What the sender reads in a report are exactly the packets taken since the
\* report before, in the order in which they were sent, however they were
\* reordered and although the numbers wrap; so a controller that processes them
\* one by one passes over none.
ReportIsComplete ==
    /\ Len(report.items) = Cardinality(report.of)
    /\ \E order \in [1 .. Len(report.items) -> Packets(report.of)] :
          \A i \in 1 .. Len(report.items) :
             /\ report.items[i].seq = SeqOf(order[i])
             /\ \A j \in 1 .. i - 1 : order[j] < order[i]

\* The timer's chain never breaks while the receiver runs: a packet is reported
\* within one period of its reception.
Timely ==
    /\ timer = NoTimer <=> stage # "running"
    /\ \A s \in taken : now - s.ts <= Period
=============================================================================
