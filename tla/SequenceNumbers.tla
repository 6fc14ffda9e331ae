--------------------------- MODULE SequenceNumbers ---------------------------
(***************************************************************************)
(* Arithmetic on the fixed-width unsigned integers the sender, the         *)
(* receivers and the controllers use for RTP sequence numbers (uint16_t).  *)
(* The width is a parameter: SeqMod is 65536 in the code and a small       *)
(* number in the model checker's instances.  Every operator is written     *)
(* without % so that linear arithmetic is enough to reason about it.       *)
(***************************************************************************)
EXTENDS Integers

CONSTANT SeqMod

ASSUME SeqModAssumption == SeqMod \in Nat /\ SeqMod >= 4

Sequences16 == 0 .. (SeqMod - 1)

\* ++s on a uint16_t.
Inc(s) == IF s = SeqMod - 1 THEN 0 ELSE s + 1

\* --s on a uint16_t.
Dec(s) == IF s = 0 THEN SeqMod - 1 ELSE s - 1

\* a - b on uint16_t: the distance walked from b up to a.
Diff(a, b) == IF a >= b THEN a - b ELSE a - b + SeqMod

\* lessThan of SenderBasedController: lhs precedes rhs when the way up from
\* lhs to rhs is the shorter one.  Two numbers half the space apart are
\* neither less than nor equal to each other.
LessThan(lhs, rhs) == Diff(rhs, lhs) < Diff(lhs, rhs)
=============================================================================
