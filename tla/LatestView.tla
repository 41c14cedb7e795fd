------------------------------ MODULE LatestView ------------------------------
(***************************************************************************)
(* What a page that follows a selection promises: its view changes only to *)
(* the answer to what is wanted now, and in the end it does.               *)
(***************************************************************************)
VARIABLES wanted, view

Ask == wanted' # wanted /\ UNCHANGED view

Show == view' = wanted /\ UNCHANGED wanted

Spec == [][Ask \/ Show]_<<wanted, view>> /\ WF_<<wanted, view>>(Show /\ view' # view)
==============================================================================
