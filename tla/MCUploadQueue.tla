---------------------------- MODULE MCUploadQueue ----------------------------
(* UploadQueue for TLC: the constants are numbers, set in the .cfg files. *)
EXTENDS UploadQueue

\* The first captured item is refused for ever; one of a batch of two.
FirstIsPoison == {1}
NonePoison == {}
==============================================================================
