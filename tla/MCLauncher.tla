------------------------------ MODULE MCLauncher ------------------------------
(* Launcher for TLC: the constants are numbers, set in the .cfg files. *)
EXTENDS Launcher
==============================================================================
