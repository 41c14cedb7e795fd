----------------------------- MODULE UploadQueue -----------------------------
(***************************************************************************)
(* The agent's durable screenshot queue (FileBackedUploadQueue) with its   *)
(* two clients in AgentWorker: the capture loop, which enqueues, and the   *)
(* upload loop, which leases a batch, uploads each item, deletes its       *)
(* payload, then completes or releases the batch.  The process may die     *)
(* between any two steps; the queue file and the payload files survive.    *)
(*                                                                         *)
(* Items are numbered in the order they are captured, which is the order   *)
(* of their lines in the JSONL file: appends go to the end and rewrites    *)
(* keep the order.  Lines that cannot be parsed are skipped by every       *)
(* reader, so of the unreadable lines only an unfinished last one counts   *)
(* (tail).  Lease ids stand for GUIDs; the clock is abstracted to the set  *)
(* of leases that have run out.                                            *)
(***************************************************************************)
EXTENDS Integers, FiniteSets

CONSTANTS
  MaxCaptures,  \* bound: screens captured in a run
  MaxLeases,    \* bound: lease ids in the file at once
  MaxMishaps,   \* bound: crashes, lost responses and failed file deletions
  MaxTears,     \* bound: appends that leave an unfinished line behind
  BatchSize,    \* AgentServiceOptions.UploadBatchSize
  Poison        \* items whose upload the backend always refuses

ASSUME UploadQueueAssumption ==
  /\ MaxCaptures \in Nat
  /\ MaxLeases \in Nat
  /\ MaxMishaps \in Nat
  /\ MaxTears \in Nat
  /\ BatchSize \in Nat \ {0}
  /\ Poison \subseteq Nat

Item == 1..MaxCaptures
LeaseId == 1..MaxLeases
NoItem == 0
NoLease == 0

VARIABLES
  \* on disk
  queue,      \* items with a readable line in the queue file
  tail,       \* "clean": the file ends with a newline; "open": a whole line
              \* without its newline; "torn": part of a line
  lease,      \* the LeaseId field of each item's line
  expired,    \* lease ids whose LeasedUntilUtc has passed
  payload,    \* items whose payload file exists
  \* in the process
  captured,   \* number of screens captured so far
  enq,        \* the item inside EnqueueAsync (which holds the gate), or NoItem
  pc,         \* where the upload loop is
  myLease,    \* the lease the upload loop holds, or NoLease
  todo,       \* its leased items not yet handled
  done,       \* completedIds
  failed,     \* releasedIds
  \* history
  acked,      \* items whose EnqueueAsync returned
  accepted,   \* how often the backend stored each item
  mishaps,
  tears

diskVars == <<queue, tail, lease, expired>>
loopVars == <<pc, myLease, todo, done, failed>>
histVars == <<acked, accepted, mishaps, tears>>
vars == <<diskVars, payload, captured, enq, loopVars, histVars>>

Init ==
  /\ queue = {} /\ tail = "clean" /\ expired = {} /\ payload = {}
  /\ lease = [i \in Item |-> NoLease]
  /\ captured = 0 /\ enq = NoItem
  /\ pc = "idle" /\ myLease = NoLease /\ todo = {} /\ done = {} /\ failed = {}
  /\ acked = {} /\ accepted = [i \in Item |-> 0] /\ mishaps = 0 /\ tears = 0

------------------------------------------------------------------------------
(* The queue file. *)

\* Mutant of Rewrite: the lease fields are not serialised.
RewriteForgetsLeases(items, leases) ==
  /\ queue' = items
  /\ lease' = [i \in Item |-> NoLease]
  /\ expired' = {}
  /\ tail' = "clean"

\* LoadEntries and SaveEntries: the file is replaced by its readable lines,
\* each ended by a newline, in one atomic replacement.
Rewrite(items, leases) ==
  /\ queue' = items
  /\ lease' = [i \in Item |-> IF i \in items THEN leases[i] ELSE NoLease]
  /\ expired' = expired \cap {leases[i] : i \in items}
  /\ tail' = "clean"

\* The item of the last line of the file.
LastItem(i) == i \in queue /\ \A j \in queue : j <= i

\* What the file holds once something is appended to it: an open last line
\* runs into the new text and can no longer be parsed.
Unspoilt == IF tail = "open" THEN {i \in queue : ~ LastItem(i)} ELSE queue

\* Item i's line reaches the file: not at all, with its newline, without it,
\* or in part.  It is readable only when it starts on a line of its own.
AppendLine(i, how) ==
  IF how = "none" THEN UNCHANGED diskVars ELSE
  /\ queue' = IF tail = "clean" /\ how # "torn" THEN queue \cup {i} ELSE Unspoilt
  /\ lease' = [j \in Item |-> IF j \in Unspoilt THEN lease[j] ELSE NoLease]
  /\ expired' = expired \cap {lease[j] : j \in Unspoilt}
  /\ tail' = CASE how = "full" -> "clean"
               [] how = "open" -> IF tail = "clean" THEN "open" ELSE "torn"
               [] how = "torn" -> "torn"

\* How much of a line an interrupted append leaves: all of it or nothing, or,
\* while the bound on tears allows one, a line that is not finished.
Interrupted(i) ==
  \/ \E how \in {"none", "full"} : AppendLine(i, how) /\ UNCHANGED tears
  \/ \E how \in {"open", "torn"} :
       /\ tears < MaxTears
       /\ AppendLine(i, how)
       /\ tears' = tears + 1

\* DeleteTempPayloadFile and DeleteFilesBestEffort swallow a failed deletion.
DeletePayload(i) ==
  \/ payload' = payload \ {i} /\ UNCHANGED mishaps
  \/ mishaps < MaxMishaps /\ mishaps' = mishaps + 1 /\ UNCHANGED payload

------------------------------------------------------------------------------
(* The capture loop: EnqueueAsync, under the gate. *)

\* The payload file is written before the entry that names it.
EnqueuePrepare ==
  /\ enq = NoItem
  /\ captured < MaxCaptures
  /\ captured' = captured + 1
  /\ enq' = captured + 1
  /\ payload' = payload \cup {captured + 1}
  /\ UNCHANGED <<diskVars, loopVars, histVars>>

EnqueueCommit ==
  /\ enq # NoItem
  /\ AppendLine(enq, "full")
  /\ acked' = acked \cup {enq}
  /\ enq' = NoItem
  /\ UNCHANGED <<payload, captured, loopVars, accepted, mishaps, tears>>

\* Mutant of EnqueueFails: createdPayloadPaths are not cleaned up.
EnqueueFailsLeavingPayload ==
  /\ enq # NoItem
  /\ Interrupted(enq)
  /\ enq' = NoItem
  /\ UNCHANGED <<payload, captured, loopVars, acked, accepted, mishaps>>

\* An exception (disk full, EFS, cancellation): the payload is deleted and the
\* exception rethrown, while disposing the writer may still flush the line.
EnqueueFails ==
  /\ enq # NoItem
  /\ Interrupted(enq)
  /\ DeletePayload(enq)
  /\ enq' = NoItem
  /\ UNCHANGED <<captured, loopVars, acked, accepted>>

------------------------------------------------------------------------------
(* The upload loop. *)

GateFree == enq = NoItem

\* Mutant of LeaseAvailable: LeasedUntilUtc is not looked at.
LeaseNeverRunsOut(i) == lease[i] = NoLease

\* IsLeaseAvailable
LeaseAvailable(i) == lease[i] = NoLease \/ lease[i] \in expired

Available == {i \in queue : LeaseAvailable(i)}

\* The first BatchSize available lines of the file.
Batch == {i \in Available : Cardinality({j \in Available : j < i}) < BatchSize}

UnusedLeases == LeaseId \ {lease[i] : i \in queue}

\* LeaseBatchAsync, when it has something to lease (otherwise it saves nothing
\* and the loop sleeps).  The new id is any that no line carries.
LeaseBatch ==
  /\ pc = "idle"
  /\ GateFree
  /\ Available # {}
  /\ \E l \in UnusedLeases :
       /\ \A m \in UnusedLeases : l <= m
       /\ Rewrite(queue, [i \in Item |-> IF i \in Batch THEN l ELSE lease[i]])
       /\ myLease' = l
  /\ todo' = Batch
  /\ pc' = "working"
  /\ UNCHANGED <<payload, captured, enq, done, failed, histVars>>

\* The item the foreach of RunUploadLoopAsync is at.
Current(i) == i \in todo /\ \A j \in todo : i <= j

\* The payload is gone: the item is logged, skipped and completed.
SkipEmpty(i) ==
  /\ pc = "working" /\ Current(i)
  /\ i \notin payload
  /\ todo' = todo \ {i}
  /\ done' = done \cup {i}
  /\ UNCHANGED <<diskVars, payload, captured, enq, pc, myLease, failed, histVars>>

\* Mutant of UploadFails: the payload was read with deleteAfterRead.
UploadFailsAfterDeletingRead(i) ==
  /\ pc = "working" /\ Current(i)
  /\ i \in payload
  /\ payload' = payload \ {i}
  /\ todo' = todo \ {i}
  /\ failed' = failed \cup {i}
  /\ UNCHANGED <<diskVars, captured, enq, pc, myLease, done, histVars>>

\* The upload throws before the backend stores anything.
UploadFails(i) ==
  /\ pc = "working" /\ Current(i)
  /\ i \in payload
  /\ todo' = todo \ {i}
  /\ failed' = failed \cup {i}
  /\ UNCHANGED <<diskVars, payload, captured, enq, pc, myLease, done, histVars>>

\* The backend stores the item and the loop learns it.
UploadAccepted(i) ==
  /\ pc = "working" /\ Current(i)
  /\ i \in payload \ Poison
  /\ accepted' = [accepted EXCEPT ![i] = @ + 1]
  /\ pc' = "accepted"
  /\ UNCHANGED <<diskVars, payload, captured, enq, myLease, todo, done, failed,
                 acked, mishaps, tears>>

\* The backend stores the item, but its answer is lost or times out: the loop
\* sees an exception and will retry.
ResponseLost(i) ==
  /\ pc = "working" /\ Current(i)
  /\ i \in payload \ Poison
  /\ mishaps < MaxMishaps
  /\ mishaps' = mishaps + 1
  /\ accepted' = [accepted EXCEPT ![i] = @ + 1]
  /\ todo' = todo \ {i}
  /\ failed' = failed \cup {i}
  /\ UNCHANGED <<diskVars, payload, captured, enq, pc, myLease, done, acked, tears>>

\* Mutant of Cleanup: CleanupUploadTempFiles is not called.
CleanupForgotten(i) ==
  /\ pc = "accepted" /\ Current(i)
  /\ todo' = todo \ {i}
  /\ done' = done \cup {i}
  /\ pc' = "working"
  /\ UNCHANGED <<diskVars, payload, captured, enq, myLease, failed, histVars>>

\* CleanupUploadTempFiles, then completedIds.Add.
Cleanup(i) ==
  /\ pc = "accepted" /\ Current(i)
  /\ DeletePayload(i)
  /\ todo' = todo \ {i}
  /\ done' = done \cup {i}
  /\ pc' = "working"
  /\ UNCHANGED <<diskVars, captured, enq, myLease, failed, acked, accepted, tears>>

\* The variables of one iteration of the loop go out of scope.
IterationEnds ==
  pc' = "idle" /\ myLease' = NoLease /\ todo' = {} /\ done' = {} /\ failed' = {}

\* Mutant of Mine: the whole lease is settled, whatever ids are passed.
MineWhateverIds(ids) == {i \in queue : lease[i] = myLease}

\* The lines that CompleteAsync and ReleaseAsync may touch: the loop's own.
Mine(ids) == {i \in queue \cap ids : lease[i] = myLease}

\* CompleteAsync: nothing is saved when there is nothing to remove.
Complete ==
  /\ pc = "working" /\ todo = {}
  /\ GateFree
  /\ IF Mine(done) = {} THEN UNCHANGED diskVars ELSE Rewrite(queue \ Mine(done), lease)
  /\ pc' = "release"
  /\ UNCHANGED <<payload, captured, enq, myLease, todo, done, failed, histVars>>

\* ReleaseAsync: the failed items become available at once.
Release ==
  /\ pc = "release"
  /\ GateFree
  /\ IF Mine(failed) = {}
     THEN UNCHANGED diskVars
     ELSE Rewrite(queue, [i \in Item |-> IF i \in Mine(failed) THEN NoLease ELSE lease[i]])
  /\ IterationEnds
  /\ UNCHANGED <<payload, captured, enq, histVars>>

\* CompleteAsync or ReleaseAsync throws.  The rest of the iteration is skipped,
\* so after a failed completion nothing is released either: every item of the
\* batch that is still in the file waits for its lease to run out.
SettleFails ==
  /\ pc \in {"working", "release"} /\ todo = {}
  /\ GateFree
  /\ IterationEnds
  /\ UNCHANGED <<diskVars, payload, captured, enq, histVars>>

\* UploadQueueLeaseDurationSeconds pass.
LeaseExpires(l) ==
  /\ l \in {lease[i] : i \in queue} \ (expired \cup {NoLease})
  /\ expired' = expired \cup {l}
  /\ UNCHANGED <<queue, tail, lease, payload, captured, enq, loopVars, histVars>>

\* The service dies, or is stopped, and starts again: only the disk survives,
\* with whatever an append in progress left on it.
Crash ==
  /\ mishaps < MaxMishaps
  /\ mishaps' = mishaps + 1
  /\ IF enq = NoItem THEN UNCHANGED <<diskVars, tears>> ELSE Interrupted(enq)
  /\ enq' = NoItem
  /\ IterationEnds
  /\ UNCHANGED <<payload, captured, acked, accepted>>

Settle == Complete \/ Release \/ SettleFails

Enqueue == EnqueuePrepare \/ EnqueueCommit \/ EnqueueFails

Handle(i) ==
  SkipEmpty(i) \/ UploadFails(i) \/ UploadAccepted(i) \/ ResponseLost(i) \/ Cleanup(i)

Next ==
  \/ Enqueue
  \/ LeaseBatch
  \/ \E i \in Item : Handle(i)
  \/ Settle
  \/ \E l \in LeaseId : LeaseExpires(l)
  \/ Crash

Spec == Init /\ [][Next]_vars

\* Each loop keeps running; time passes; an upload the backend does not refuse,
\* and a completion, tried over and over, succeed at last (the network and the
\* disk recover).
Fairness ==
  /\ WF_vars(EnqueueCommit \/ EnqueueFails)
  /\ WF_vars(LeaseBatch)
  /\ WF_vars(\E i \in Item : Handle(i))
  /\ WF_vars(Settle)
  /\ SF_vars(Mine(done) # {} /\ Complete)
  /\ \A i \in Item : SF_vars(UploadAccepted(i))
  /\ \A l \in LeaseId : WF_vars(LeaseExpires(l))

FairSpec == Spec /\ Fairness
------------------------------------------------------------------------------
(* Properties *)

TypeOK ==
  /\ queue \subseteq Item
  /\ tail \in {"clean", "open", "torn"}
  /\ lease \in [Item -> LeaseId \cup {NoLease}]
  /\ expired \subseteq LeaseId
  /\ payload \subseteq Item
  /\ captured \in 0..MaxCaptures
  /\ enq \in Item \cup {NoItem}
  /\ pc \in {"idle", "working", "accepted", "release"}
  /\ myLease \in LeaseId \cup {NoLease}
  /\ todo \subseteq Item /\ done \subseteq Item /\ failed \subseteq Item
  /\ acked \subseteq Item
  /\ accepted \in [Item -> Nat]
  /\ mishaps \in 0..MaxMishaps
  /\ tears \in 0..MaxTears

\* Item i can still be uploaded from what is on disk.
Recoverable(i) == i \in queue /\ i \in payload

\* "Pending uploads remain queued across service restart until the backend
\* accepts them" (agent/README.md): an item whose enqueue returned is at the
\* backend, or can still be uploaded from the disk.
NoAckedLoss == \A i \in acked : accepted[i] > 0 \/ Recoverable(i)

\* Even where an append may leave an unfinished line, every such line costs at
\* most one acknowledged item (the next one appended).
Lost == {i \in acked : accepted[i] = 0 /\ ~ Recoverable(i)}
LossBoundedByTears == Cardinality(Lost) <= tears

\* The upload protocol has no idempotency key.  An item is stored twice only
\* after a crash, a lost answer or an undeletable payload file, once for each:
\* never because a completion failed, a lease ran out or a batch was released.
DuplicatesBounded == \A i \in Item : accepted[i] <= 1 + mishaps

\* While the loop works on a batch nobody takes an item of it away or leases it
\* again, even when the lease has run out meanwhile.
BatchStaysLeased == \A i \in todo \cup failed : i \in queue /\ lease[i] = myLease

\* Payload files that nothing refers to are never collected; they come only
\* from mishaps and from unfinished lines, one from each.
OrphanPayloads == payload \ (queue \cup {enq})
OrphansBounded == Cardinality(OrphanPayloads) <= mishaps + tears

Owed == {i \in Item : Recoverable(i) /\ accepted[i] = 0}
Delivered == {i \in Item : accepted[i] > 0}
Promise == INSTANCE AtLeastOnce WITH owed <- Owed, delivered <- Delivered

\* The queue implements AtLeastOnce: an item with a line and a payload stays so
\* until the backend has it, through every crash, failure and retry, as long as
\* no append has left an unfinished line.
ImplementsAtLeastOnce ==
  Promise!Init /\ [][tears' = 0 => [Promise!Next]_(Promise!vars)]_vars

\* "Drains after successful uploads" (AGENT_DEPLOYMENT_RUNBOOK.md): whatever is
\* acknowledged and not refused for ever is in the end at the backend and out
\* of the file, also behind items that are refused for ever.
HealthyItemsDrain ==
  \A i \in Item \ Poison : (i \in acked) ~> (accepted[i] > 0 /\ i \notin queue)
==============================================================================
