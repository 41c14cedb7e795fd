----------------------------- MODULE ChangeLevel -----------------------------
(***************************************************************************)
(* How the backend turns the three difference signals of two screenshots   *)
(* into a change level, and into the decision that the no-change state     *)
(* machine rests on: is it an effective change?  Any signal may be         *)
(* missing.  The hash distance is in bits, the similarity in thousandths,  *)
(* the changed blocks are counted.                                         *)
(***************************************************************************)
EXTENDS Integers, FiniteSets

Missing == -1
Present(x) == x # Missing

\* A normalised image has 8 x 8 blocks.
Blocks == 64
RatioAtLeast(b, percent) == 100 * b >= percent * Blocks

Quiet(h, s, b) ==
  /\ Present(h) => h <= 2
  /\ Present(s) => s >= 995
  /\ Present(b) => ~ RatioAtLeast(b, 3)

Strong(h, s, b) ==
  \/ Present(h) /\ h >= 12
  \/ Present(s) /\ s < 920
  \/ Present(b) /\ RatioAtLeast(b, 20)

\* _classify_change_level
Level(h, s, b) ==
  IF ~ (Present(h) \/ Present(s) \/ Present(b)) THEN "unknown"
  ELSE IF Quiet(h, s, b) THEN "none"
  ELSE IF Strong(h, s, b) THEN "major"
  ELSE "minor"

\* The signals two of which make a minor change effective.
WeakSignals(h, s, b) ==
  (IF Present(h) /\ h >= 10 THEN {"hash"} ELSE {}) \cup
  (IF Present(s) /\ s < 940 THEN {"similarity"} ELSE {}) \cup
  (IF Present(b) /\ RatioAtLeast(b, 12) THEN {"blocks"} ELSE {})

\* _is_effective_change
IsEffective(h, s, b) ==
  \/ Level(h, s, b) = "major"
  \/ Level(h, s, b) # "unknown" /\ Cardinality(WeakSignals(h, s, b)) >= 2
==============================================================================
