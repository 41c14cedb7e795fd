----------------------------- MODULE AtLeastOnce -----------------------------
(***************************************************************************)
(* What the upload queue promises the capture loop, with no file, lease,   *)
(* retry or crash in it: an item that the queue has taken is owed to the   *)
(* backend until the backend has it, and nothing else ever removes the     *)
(* debt.  UploadQueue is shown to implement this specification.            *)
(***************************************************************************)
CONSTANT Item

VARIABLES
  owed,       \* the items taken by the queue and not yet at the backend
  delivered   \* the items the backend holds at least once

vars == <<owed, delivered>>

Init == owed = {} /\ delivered = {}

\* The queue takes an item it has not seen.
Take(i) ==
  /\ i \notin owed \cup delivered
  /\ owed' = owed \cup {i}
  /\ UNCHANGED delivered

\* The backend obtains an item that is owed to it.
Deliver(i) ==
  /\ i \in owed
  /\ owed' = owed \ {i}
  /\ delivered' = delivered \cup {i}

Next == \E i \in Item : Take(i) \/ Deliver(i)

Spec == Init /\ [][Next]_vars
==============================================================================
