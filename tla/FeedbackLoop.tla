---------------------------- MODULE FeedbackLoop ----------------------------
(***************************************************************************)
(* What the feedback of CCFS promises, whatever the headers look like: a   *)
(* packet is travelling, then waits at the receiver for the next report,   *)
(* then is in a report on its way back, and then the sender learns of it.  *)
(* Packets and reports may be lost; a report may teach the sender nothing, *)
(* but never a part of what is in it, and nothing is learned twice.        *)
(* CcfsFlow implements this with the code's headers, timers and records.   *)
(***************************************************************************)
EXTENDS Naturals, Sequences

CONSTANT Packet

VARIABLES
    sent,        \* packets sent so far
    travelling,  \* on their way to the receiver
    pending,     \* at the receiver, for the next report
    reports,     \* on their way to the sender, first in first out
    learned      \* the sender knows when they arrived

loopVars == <<sent, travelling, pending, reports, learned>>

Reported == UNION {reports[i] : i \in 1 .. Len(reports)}

Init ==
    /\ sent = {}
    /\ travelling = {}
    /\ pending = {}
    /\ reports = <<>>
    /\ learned = {}

Send(p) ==
    /\ p \notin sent
    /\ sent' = sent \cup {p}
    /\ travelling' = travelling \cup {p}
    /\ UNCHANGED <<pending, reports, learned>>

Lose(p) ==
    /\ p \in travelling
    /\ travelling' = travelling \ {p}
    /\ UNCHANGED <<sent, pending, reports, learned>>

Arrive(p) ==
    /\ p \in travelling
    /\ travelling' = travelling \ {p}
    /\ pending' = pending \cup {p}
    /\ UNCHANGED <<sent, reports, learned>>

Report ==
    /\ reports' = Append(reports, pending)
    /\ pending' = {}
    /\ UNCHANGED <<sent, travelling, learned>>

Learn ==
    /\ reports # <<>>
    /\ Head(reports) \cap learned = {}
    /\ reports' = Tail(reports)
    /\ learned' = learned \cup Head(reports)
    /\ UNCHANGED <<sent, travelling, pending>>

\* The report is lost, or the sender cannot use it.
Ignore ==
    /\ reports # <<>>
    /\ reports' = Tail(reports)
    /\ UNCHANGED <<sent, travelling, pending, learned>>

Next ==
    \/ \E p \in Packet : Send(p) \/ Lose(p) \/ Arrive(p)
    \/ Report
    \/ Learn
    \/ Ignore

Spec == Init /\ [][Next]_loopVars
=============================================================================
