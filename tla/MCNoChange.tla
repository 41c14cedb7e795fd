------------------------------ MODULE MCNoChange ------------------------------
(* NoChange for TLC: two views, which may or may not blink. *)
EXTENDS NoChange

TwoViews == {"editor", "browser"}
Blinking == {0, 1}
Steady == {0}
==============================================================================
