-------------------------- MODULE UploadQueue_proofs --------------------------
(* Theorems about UploadQueue, for any number of captures, leases, mishaps and *)
(* tears, any batch size and any set of refused items.                         *)
EXTENDS UploadQueue, TLAPS

\* The step operators that touch the queue file keep its four variables typed.
LEMMA RewriteType ==
  ASSUME TypeOK, NEW items \in SUBSET Item, NEW leases \in [Item -> LeaseId \cup {NoLease}],
         Rewrite(items, leases)
  PROVE  /\ queue' \subseteq Item
         /\ tail' \in {"clean", "open", "torn"}
         /\ lease' \in [Item -> LeaseId \cup {NoLease}]
         /\ expired' \subseteq LeaseId
BY DEF Rewrite, TypeOK, NoLease

LEMMA AppendType ==
  ASSUME TypeOK, NEW i \in Item, NEW how \in {"none", "full", "open", "torn"},
         AppendLine(i, how)
  PROVE  /\ queue' \subseteq Item
         /\ tail' \in {"clean", "open", "torn"}
         /\ lease' \in [Item -> LeaseId \cup {NoLease}]
         /\ expired' \subseteq LeaseId
<1>0. Unspoilt \subseteq queue
  BY DEF Unspoilt
<1>1. CASE how = "none"
  BY <1>1 DEF AppendLine, TypeOK, diskVars
<1>2. CASE how # "none"
  BY <1>0, <1>2 DEF AppendLine, TypeOK, NoLease
<1> QED
  BY <1>1, <1>2

LEMMA InterruptedType ==
  ASSUME UploadQueueAssumption, TypeOK, NEW i \in Item, Interrupted(i)
  PROVE  /\ queue' \subseteq Item
         /\ tail' \in {"clean", "open", "torn"}
         /\ lease' \in [Item -> LeaseId \cup {NoLease}]
         /\ expired' \subseteq LeaseId
         /\ tears' \in 0..MaxTears
<1>1. ASSUME NEW how \in {"none", "full"}, AppendLine(i, how), UNCHANGED tears
      PROVE  tears' \in 0..MaxTears
  BY <1>1 DEF TypeOK
<1>2. ASSUME tears < MaxTears, tears' = tears + 1
      PROVE  tears' \in 0..MaxTears
  BY <1>2 DEF TypeOK, UploadQueueAssumption
<1> QED
  BY <1>1, <1>2, AppendType DEF Interrupted

LEMMA DeleteType ==
  ASSUME UploadQueueAssumption, TypeOK, NEW i \in Item, DeletePayload(i)
  PROVE  payload' \subseteq Item /\ mishaps' \in 0..MaxMishaps
BY DEF DeletePayload, TypeOK, UploadQueueAssumption

LEMMA IterationType ==
  ASSUME TypeOK, IterationEnds
  PROVE  /\ pc' \in {"idle", "working", "accepted", "release"}
         /\ myLease' \in LeaseId \cup {NoLease}
         /\ todo' \subseteq Item /\ done' \subseteq Item /\ failed' \subseteq Item
BY DEF IterationEnds, TypeOK

LEMMA TypeStep == TypeOK /\ [Next]_vars => TypeOK'
<1> SUFFICES ASSUME TypeOK, [Next]_vars PROVE TypeOK'
  OBVIOUS
<1> USE UploadQueueAssumption
<1>1. CASE EnqueuePrepare
  <2>1. captured + 1 \in Item
    BY <1>1 DEF EnqueuePrepare, TypeOK, Item, UploadQueueAssumption
  <2>2. captured' \in 0..MaxCaptures
    BY <1>1 DEF EnqueuePrepare, TypeOK, UploadQueueAssumption
  <2> QED
    BY <1>1, <2>1, <2>2 DEF EnqueuePrepare, TypeOK, diskVars, loopVars, histVars
<1>2. CASE EnqueueCommit
  <2>1. enq \in Item
    BY <1>2 DEF EnqueueCommit, TypeOK
  <2>2. AppendLine(enq, "full")
    BY <1>2 DEF EnqueueCommit
  <2> QED
    BY <1>2, <2>1, <2>2, AppendType DEF EnqueueCommit, TypeOK, loopVars
<1>3. CASE EnqueueFails
  <2>1. enq \in Item /\ Interrupted(enq) /\ DeletePayload(enq)
    BY <1>3 DEF EnqueueFails, TypeOK
  <2> QED
    BY <1>3, <2>1, InterruptedType, DeleteType DEF EnqueueFails, TypeOK, loopVars
<1>4. CASE LeaseBatch
  <2>1. PICK l \in UnusedLeases :
          /\ Rewrite(queue, [i \in Item |-> IF i \in Batch THEN l ELSE lease[i]])
          /\ myLease' = l
    BY <1>4 DEF LeaseBatch
  <2>2. l \in LeaseId
    BY DEF UnusedLeases
  <2>3. [i \in Item |-> IF i \in Batch THEN l ELSE lease[i]] \in [Item -> LeaseId \cup {NoLease}]
    BY <2>2 DEF TypeOK
  <2>4. queue \in SUBSET Item /\ Batch \subseteq Item
    BY DEF TypeOK, Batch, Available
  <2>5. /\ queue' \subseteq Item
        /\ tail' \in {"clean", "open", "torn"}
        /\ lease' \in [Item -> LeaseId \cup {NoLease}]
        /\ expired' \subseteq LeaseId
    BY <2>1, <2>3, <2>4, RewriteType
  <2> QED
    BY <1>4, <2>1, <2>2, <2>4, <2>5 DEF LeaseBatch, TypeOK, histVars
<1>5. ASSUME NEW i \in Item, Handle(i) PROVE TypeOK'
  <2>1. CASE SkipEmpty(i)
    BY <2>1 DEF SkipEmpty, TypeOK, diskVars, histVars
  <2>2. CASE UploadFails(i)
    BY <2>2 DEF UploadFails, TypeOK, diskVars, histVars
  <2>3. CASE UploadAccepted(i)
    BY <2>3 DEF UploadAccepted, TypeOK, diskVars
  <2>4. CASE ResponseLost(i)
    BY <2>4 DEF ResponseLost, TypeOK, diskVars, UploadQueueAssumption
  <2>5. CASE Cleanup(i)
    <3>1. DeletePayload(i)
      BY <2>5 DEF Cleanup
    <3> QED
      BY <2>5, <3>1, DeleteType DEF Cleanup, TypeOK, diskVars
  <2> QED
    BY <1>5, <2>1, <2>2, <2>3, <2>4, <2>5 DEF Handle
<1>6. CASE Complete
  <2>1. CASE UNCHANGED diskVars
    BY <1>6, <2>1 DEF Complete, TypeOK, diskVars, histVars
  <2>2. CASE Rewrite(queue \ Mine(done), lease)
    <3>1. queue \ Mine(done) \in SUBSET Item /\ lease \in [Item -> LeaseId \cup {NoLease}]
      BY DEF TypeOK
    <3>2. /\ queue' \subseteq Item
          /\ tail' \in {"clean", "open", "torn"}
          /\ lease' \in [Item -> LeaseId \cup {NoLease}]
          /\ expired' \subseteq LeaseId
      BY <2>2, <3>1, RewriteType
    <3> QED
      BY <1>6, <3>2 DEF Complete, TypeOK, histVars
  <2> QED
    BY <1>6, <2>1, <2>2 DEF Complete
<1>7. CASE Release
  <2> DEFINE freed == [i \in Item |-> IF i \in Mine(failed) THEN NoLease ELSE lease[i]]
  <2>0. freed \in [Item -> LeaseId \cup {NoLease}] /\ queue \in SUBSET Item
    BY DEF TypeOK
  <2>1. CASE UNCHANGED diskVars
    BY <1>7, <2>1, IterationType DEF Release, TypeOK, diskVars, histVars
  <2>2. CASE Rewrite(queue, freed)
    <3> HIDE DEF freed
    <3>2. /\ queue' \subseteq Item
          /\ tail' \in {"clean", "open", "torn"}
          /\ lease' \in [Item -> LeaseId \cup {NoLease}]
          /\ expired' \subseteq LeaseId
      BY <2>0, <2>2, RewriteType
    <3> QED
      BY <1>7, <3>2, IterationType DEF Release, TypeOK, histVars
  <2> QED
    BY <1>7, <2>1, <2>2 DEF Release
<1>8. CASE SettleFails
  BY <1>8, IterationType DEF SettleFails, TypeOK, diskVars, histVars
<1>9. ASSUME NEW l \in LeaseId, LeaseExpires(l) PROVE TypeOK'
  BY <1>9 DEF LeaseExpires, TypeOK, loopVars, histVars
<1>10. CASE Crash
  <2>1. mishaps' \in 0..MaxMishaps
    BY <1>10 DEF Crash, TypeOK, UploadQueueAssumption
  <2>2. CASE enq = NoItem
    BY <1>10, <2>1, <2>2, IterationType DEF Crash, TypeOK, diskVars
  <2>3. CASE enq # NoItem
    <3>1. enq \in Item /\ Interrupted(enq)
      BY <1>10, <2>3 DEF Crash, TypeOK
    <3> QED
      BY <1>10, <2>1, <3>1, IterationType, InterruptedType DEF Crash, TypeOK
  <2> QED
    BY <2>2, <2>3
<1>11. CASE UNCHANGED vars
  BY <1>11 DEF vars, diskVars, loopVars, histVars, TypeOK
<1> QED
  BY <1>1, <1>2, <1>3, <1>4, <1>5, <1>6, <1>7, <1>8, <1>9, <1>10, <1>11
  DEF Next, Enqueue, Settle

\* Every variable keeps its type.
THEOREM TypeCorrect == Spec => []TypeOK
<1>1. Init => TypeOK
  BY UploadQueueAssumption
  DEF Init, TypeOK, UploadQueueAssumption, NoItem, NoLease
<1> QED
  BY <1>1, TypeStep, PTL DEF Spec

-------------------------------------------------------------------------------
(* The inductive invariant behind BatchStaysLeased and DuplicatesBounded. *)

\* Everything the queue knows of has been captured; the item being enqueued is
\* the last capture and nobody has seen it yet.
CaptureInv ==
  /\ queue \cup payload \cup acked \cup done \subseteq 1..captured
  /\ enq # NoItem => enq = captured /\ enq \notin queue \cup acked
  /\ \A i \in Item : accepted[i] > 0 => i <= captured /\ i # enq

\* Where the upload loop is tells what its sets hold; an item is in one of them.
LoopInv ==
  /\ pc = "idle" => todo = {} /\ done = {} /\ failed = {}
  /\ pc = "release" => todo = {}
  /\ todo \cap failed = {} /\ todo \cap done = {} /\ done \cap failed = {}
  /\ BatchStaysLeased

\* A line that the next append would spoil belongs to no running batch.
TailInv == tail = "open" => \A i \in todo \cup failed : ~ LastItem(i)

\* The payload of a stored item is deleted before the loop goes on, or a mishap
\* accounts for it.
Confirmed(i) == pc = "accepted" /\ Current(i)
DuplicateInv ==
  \A i \in Item : /\ accepted[i] <= 1 + mishaps
                  /\ i \in payload /\ ~ Confirmed(i) => accepted[i] <= mishaps

IInv == TypeOK /\ CaptureInv /\ LoopInv /\ TailInv /\ DuplicateInv

\* An append adds at most its own line, keeps the other lines and their leases,
\* and leaves the file open only behind its own line.
LEMMA AppendKeeps ==
  ASSUME TypeOK, NEW i \in Item, NEW how \in {"none", "full", "open", "torn"},
         AppendLine(i, how)
  PROVE  /\ queue' \subseteq queue \cup {i}
         /\ \A j \in Unspoilt : j \in queue' /\ lease'[j] = lease[j]
         /\ tail' = "open" => queue' = queue \cup {i} \/ (queue' = queue /\ tail = "open")
<1>0. Unspoilt \subseteq queue /\ (tail = "clean" => Unspoilt = queue) /\ queue \subseteq Item
  BY DEF Unspoilt, TypeOK
<1>1. CASE how = "none"
  BY <1>0, <1>1 DEF AppendLine, diskVars
<1>2. CASE how # "none"
  <2>1. queue' \subseteq queue \cup {i} /\ Unspoilt \subseteq queue'
    BY <1>0, <1>2 DEF AppendLine
  <2>2. lease' = [j \in Item |-> IF j \in Unspoilt THEN lease[j] ELSE NoLease]
    BY <1>2 DEF AppendLine
  <2>3. \A j \in Unspoilt : lease'[j] = lease[j]
    BY <1>0, <2>2
  <2>4. tail' = "open" => how = "open" /\ tail = "clean"
    BY <1>2 DEF AppendLine, TypeOK
  <2>5. tail' = "open" => queue' = queue \cup {i}
    BY <1>2, <2>4 DEF AppendLine
  <2> QED
    BY <2>1, <2>3, <2>5
<1> QED
  BY <1>1, <1>2

\* An interrupted or completed append of the item being enqueued disturbs
\* neither the running batch nor what is known of the captures.
LEMMA AppendInv ==
  ASSUME UploadQueueAssumption, IInv, enq # NoItem,
         NEW how \in {"none", "full", "open", "torn"}, AppendLine(enq, how)
  PROVE  /\ queue' \subseteq 1..captured
         /\ \A j \in todo \cup failed : j \in queue' /\ lease'[j] = lease[j]
         /\ tail' = "open" =>
              \A j \in todo \cup failed : ~ (\A k \in queue' : k <= j)
<1> USE DEF IInv
<1>1. enq \in Item /\ enq = captured /\ captured \in Nat /\ queue \subseteq 1..captured
  BY DEF TypeOK, CaptureInv, UploadQueueAssumption
<1>2. todo \cup failed \subseteq Unspoilt
  BY DEF LoopInv, BatchStaysLeased, TailInv, Unspoilt
<1>3. /\ queue' \subseteq queue \cup {enq}
      /\ \A j \in Unspoilt : j \in queue' /\ lease'[j] = lease[j]
      /\ tail' = "open" => queue' = queue \cup {enq} \/ (queue' = queue /\ tail = "open")
  BY <1>1, AppendKeeps
<1>4. ASSUME tail' = "open", NEW j \in todo \cup failed
      PROVE  ~ (\A k \in queue' : k <= j)
  <2>1. j \in queue /\ j # enq /\ j \in 1..captured
    BY <1>1 DEF LoopInv, BatchStaysLeased, CaptureInv
  <2>2. CASE queue' = queue \cup {enq}
    BY <1>1, <2>1, <2>2
  <2>3. CASE queue' = queue /\ tail = "open"
    BY <2>1, <2>3 DEF TailInv, LastItem
  <2> QED
    BY <1>3, <1>4, <2>2, <2>3
<1>5. queue' \subseteq 1..captured
  BY <1>1, <1>3 DEF Item
<1>6. \A j \in todo \cup failed : j \in queue' /\ lease'[j] = lease[j]
  BY <1>2, <1>3
<1>7. tail' = "open" => \A j \in todo \cup failed : ~ (\A k \in queue' : k <= j)
  BY <1>4
<1> QED
  BY <1>5, <1>6, <1>7

\* What the upload loop does with one item leaves the file alone.
LEMMA HandleInv ==
  ASSUME UploadQueueAssumption, IInv, NEW i \in Item, Handle(i)
  PROVE  CaptureInv' /\ LoopInv' /\ TailInv' /\ DuplicateInv'
<1> USE DEF IInv
<1>0. /\ captured \in Nat /\ mishaps \in Nat /\ accepted \in [Item -> Nat]
      /\ todo \subseteq Item /\ failed \subseteq Item /\ done \subseteq Item /\ Item \subseteq Nat
      /\ payload \subseteq Item
  BY DEF TypeOK, UploadQueueAssumption, Item
<1>1. Current(i) /\ i \in todo /\ (\A j \in todo : i <= j) /\ i \in queue /\ i # enq
  BY DEF Handle, SkipEmpty, UploadFails, UploadAccepted, ResponseLost, Cleanup, Current,
         LoopInv, BatchStaysLeased, CaptureInv, NoItem, TypeOK, Item
<1>2. \A j \in Item : Current(j) => j = i
  BY <1>0, <1>1 DEF Current
<1>3. UNCHANGED <<queue, tail, lease, captured, enq, myLease, acked>>
  BY DEF Handle, SkipEmpty, UploadFails, UploadAccepted, ResponseLost, Cleanup, diskVars, histVars
<1>4. todo' \cup failed' \subseteq todo \cup failed /\ done' \subseteq done \cup todo /\ payload' \subseteq payload
  BY <1>1 DEF Handle, SkipEmpty, UploadFails, UploadAccepted, ResponseLost, Cleanup, histVars, DeletePayload
<1>5. i <= captured
  BY <1>0, <1>1 DEF CaptureInv
<1>6. CaptureInv'
  <2>1. queue' \cup payload' \cup acked' \cup done' \subseteq 1..captured'
    BY <1>1, <1>3, <1>4 DEF CaptureInv, LoopInv, BatchStaysLeased
  <2>2. enq' # NoItem => enq' = captured' /\ enq' \notin queue' \cup acked'
    BY <1>3 DEF CaptureInv
  <2>3. ASSUME NEW j \in Item, accepted'[j] > 0 PROVE j <= captured' /\ j # enq'
    <3>1. accepted[j] > 0 \/ j = i
      BY <2>3, <1>0 DEF Handle, SkipEmpty, UploadFails, UploadAccepted, ResponseLost, Cleanup, histVars
    <3> QED
      BY <3>1, <1>1, <1>3, <1>5 DEF CaptureInv
  <2> QED
    BY <2>1, <2>2, <2>3 DEF CaptureInv
<1>7. LoopInv'
  <2>1. BatchStaysLeased'
    BY <1>3, <1>4 DEF LoopInv, BatchStaysLeased
  <2>2. pc \in {"working", "accepted"} /\ pc' \in {"working", "accepted"}
    BY DEF Handle, SkipEmpty, UploadFails, UploadAccepted, ResponseLost, Cleanup
  <2>3. todo' \cap failed' = {} /\ todo' \cap done' = {} /\ done' \cap failed' = {}
    <3>1. i \notin failed /\ i \notin done
      BY <1>1 DEF LoopInv
    <3>2. CASE todo' = todo /\ failed' = failed /\ done' = done
      BY <3>2 DEF LoopInv
    <3>3. CASE todo' = todo \ {i} /\ failed' = failed /\ done' = done \cup {i}
      BY <3>1, <3>3 DEF LoopInv
    <3>4. CASE todo' = todo \ {i} /\ failed' = failed \cup {i} /\ done' = done
      BY <3>1, <3>4 DEF LoopInv
    <3> QED
      BY <3>2, <3>3, <3>4
      DEF Handle, SkipEmpty, UploadFails, UploadAccepted, ResponseLost, Cleanup
  <2> QED
    BY <2>1, <2>2, <2>3 DEF LoopInv
<1>8. TailInv'
  BY <1>3, <1>4 DEF TailInv, LastItem
<1>9. DuplicateInv'
  <2>1. SUFFICES ASSUME NEW j \in Item
                 PROVE  /\ accepted'[j] <= 1 + mishaps'
                        /\ j \in payload' /\ ~ Confirmed(j)' => accepted'[j] <= mishaps'
    BY DEF DuplicateInv
  <2>2. /\ accepted[j] \in Nat
        /\ accepted[j] <= 1 + mishaps
        /\ j \in payload /\ ~ Confirmed(j) => accepted[j] <= mishaps
    BY <1>0 DEF DuplicateInv
  <2>3. CASE SkipEmpty(i) \/ UploadFails(i)
    <3>1. pc = "working" /\ accepted' = accepted /\ mishaps' = mishaps /\ payload' = payload
      BY <2>3 DEF SkipEmpty, UploadFails, histVars
    <3> QED
      BY <2>2, <3>1 DEF Confirmed
  <2>4. CASE UploadAccepted(i)
    <3>1. /\ pc = "working" /\ pc' = "accepted" /\ todo' = todo
          /\ accepted' = [accepted EXCEPT ![i] = @ + 1]
          /\ mishaps' = mishaps /\ payload' = payload /\ i \in payload
      BY <2>4 DEF UploadAccepted
    <3>2. CASE j = i
      BY <1>0, <1>1, <2>2, <3>1, <3>2 DEF Confirmed, Current
    <3>3. CASE j # i
      BY <1>0, <2>2, <3>1, <3>3 DEF Confirmed
    <3> QED
      BY <3>2, <3>3
  <2>5. CASE ResponseLost(i)
    <3>1. /\ pc = "working"
          /\ accepted' = [accepted EXCEPT ![i] = @ + 1]
          /\ mishaps' = mishaps + 1 /\ payload' = payload /\ i \in payload
      BY <2>5 DEF ResponseLost
    <3>2. accepted[i] <= mishaps
      BY <3>1 DEF DuplicateInv, Confirmed
    <3> QED
      BY <1>0, <2>2, <3>1, <3>2 DEF Confirmed
  <2>6. CASE Cleanup(i)
    <3>1. pc = "accepted" /\ accepted' = accepted /\ DeletePayload(i)
      BY <2>6 DEF Cleanup
    <3>2. CASE payload' = payload \ {i} /\ mishaps' = mishaps
      BY <1>2, <2>2, <3>1, <3>2 DEF Confirmed
    <3>3. CASE payload' = payload /\ mishaps' = mishaps + 1
      BY <1>0, <2>2, <3>1, <3>3
    <3> QED
      BY <3>1, <3>2, <3>3 DEF DeletePayload
  <2> QED
    BY <2>3, <2>4, <2>5, <2>6 DEF Handle
<1> QED
  BY <1>6, <1>7, <1>8, <1>9

\* A step that leaves the history alone and the loop out of an upload keeps the
\* bound on duplicates, as long as no payload appears.
LEMMA DuplicateQuiet ==
  ASSUME IInv, mishaps' \in Nat, accepted' = accepted, payload' \subseteq payload,
         \/ mishaps' = mishaps /\ pc # "accepted"
         \/ mishaps' = mishaps /\ pc' = pc /\ todo' = todo
         \/ mishaps' = mishaps + 1
  PROVE  DuplicateInv'
<1> SUFFICES ASSUME NEW j \in Item
             PROVE  /\ accepted[j] <= 1 + mishaps'
                    /\ j \in payload' /\ ~ Confirmed(j)' => accepted[j] <= mishaps'
  BY DEF DuplicateInv
<1>1. accepted[j] \in Nat /\ mishaps \in Nat
  BY DEF IInv, TypeOK
<1>2. accepted[j] <= 1 + mishaps /\ (j \in payload /\ ~ Confirmed(j) => accepted[j] <= mishaps)
  BY DEF IInv, DuplicateInv
<1>3. CASE mishaps' = mishaps /\ pc # "accepted"
  BY <1>2, <1>3 DEF Confirmed
<1>4. CASE mishaps' = mishaps /\ pc' = pc /\ todo' = todo
  BY <1>2, <1>4 DEF Confirmed, Current
<1>5. CASE mishaps' = mishaps + 1
  BY <1>1, <1>2, <1>5
<1> QED
  BY <1>3, <1>4, <1>5

\* The capture loop.
LEMMA EnqueueInv ==
  ASSUME UploadQueueAssumption, IInv, Enqueue
  PROVE  CaptureInv' /\ LoopInv' /\ TailInv' /\ DuplicateInv'
<1> USE DEF IInv
<1>0. captured \in Nat /\ mishaps \in Nat /\ accepted \in [Item -> Nat]
  BY DEF TypeOK, UploadQueueAssumption
<1>1. CASE EnqueuePrepare
  <2>1. /\ enq = NoItem /\ captured' = captured + 1 /\ enq' = captured + 1
        /\ payload' = payload \cup {captured + 1}
        /\ UNCHANGED <<diskVars, loopVars, histVars>>
    BY <1>1 DEF EnqueuePrepare
  <2>2. CaptureInv'
    <3>1. captured' \in 1..captured' /\ 1..captured \subseteq 1..captured' /\ captured' \notin 1..captured
      BY <1>0, <2>1
    <3>2. \A j \in Item : accepted[j] > 0 => j <= captured' /\ j # captured'
      BY <1>0, <2>1 DEF CaptureInv, Item
    <3> QED
      BY <2>1, <3>1, <3>2 DEF CaptureInv, diskVars, loopVars, histVars
  <2>3. LoopInv' /\ TailInv'
    BY <2>1 DEF LoopInv, BatchStaysLeased, TailInv, LastItem, diskVars, loopVars
  <2>4. DuplicateInv'
    <3>1. \A j \in Item : j = captured + 1 => accepted[j] = 0
      BY <1>0 DEF CaptureInv
    <3>2. accepted' = accepted /\ mishaps' = mishaps /\ pc' = pc /\ todo' = todo
      BY <2>1 DEF histVars, loopVars
    <3> QED
      BY <1>0, <2>1, <3>1, <3>2 DEF DuplicateInv, Confirmed, Current
  <2> QED
    BY <2>2, <2>3, <2>4
<1>2. ASSUME NEW how \in {"none", "full", "open", "torn"}, AppendLine(enq, how),
             enq # NoItem, enq' = NoItem, UNCHANGED <<captured, loopVars, accepted>>,
             acked' \subseteq acked \cup {enq}, payload' \subseteq payload
      PROVE  CaptureInv' /\ LoopInv' /\ TailInv'
  <2>1. /\ queue' \subseteq 1..captured
        /\ \A j \in todo \cup failed : j \in queue' /\ lease'[j] = lease[j]
        /\ tail' = "open" => \A j \in todo \cup failed : ~ (\A k \in queue' : k <= j)
    BY <1>2, AppendInv
  <2>2. enq \in 1..captured
    BY <1>0, <1>2 DEF CaptureInv, TypeOK, Item
  <2>3. CaptureInv'
    <3>1. /\ done' = done /\ captured' = captured /\ accepted' = accepted
          /\ payload' \subseteq 1..captured /\ acked' \subseteq 1..captured
      BY <1>2, <2>2 DEF CaptureInv, loopVars
    <3>2. \A j \in Item : accepted'[j] > 0 => j <= captured' /\ j # enq'
      BY <1>2, <3>1 DEF CaptureInv, NoItem, Item
    <3> QED
      BY <1>2, <2>1, <3>1, <3>2 DEF CaptureInv
  <2>4. LoopInv' /\ TailInv'
    BY <1>2, <2>1 DEF LoopInv, BatchStaysLeased, TailInv, LastItem, loopVars
  <2> QED
    BY <2>3, <2>4
<1>3. CASE EnqueueCommit
  <2>1. CaptureInv' /\ LoopInv' /\ TailInv'
    BY <1>2, <1>3 DEF EnqueueCommit
  <2>2. DuplicateInv'
    BY <1>0, <1>3, DuplicateQuiet DEF EnqueueCommit, loopVars
  <2> QED
    BY <2>1, <2>2
<1>4. CASE EnqueueFails
  <2>1. payload' \subseteq payload /\ (mishaps' = mishaps \/ mishaps' = mishaps + 1)
    BY <1>4 DEF EnqueueFails, DeletePayload
  <2>2. PICK how \in {"none", "full", "open", "torn"} : AppendLine(enq, how)
    BY <1>4 DEF EnqueueFails, Interrupted
  <2>3. CaptureInv' /\ LoopInv' /\ TailInv'
    BY <1>2, <1>4, <2>1, <2>2 DEF EnqueueFails
  <2>4. DuplicateInv'
    BY <1>0, <1>4, <2>1, DuplicateQuiet DEF EnqueueFails, loopVars
  <2> QED
    BY <2>3, <2>4
<1> QED
  BY <1>1, <1>3, <1>4 DEF Enqueue

\* Leasing a batch.
LEMMA LeaseInv ==
  ASSUME UploadQueueAssumption, IInv, LeaseBatch
  PROVE  CaptureInv' /\ LoopInv' /\ TailInv' /\ DuplicateInv'
<1> USE DEF IInv
<1>1. PICK l \in UnusedLeases :
        /\ Rewrite(queue, [i \in Item |-> IF i \in Batch THEN l ELSE lease[i]])
        /\ myLease' = l
  BY DEF LeaseBatch
<1>2. /\ pc = "idle" /\ pc' = "working" /\ todo' = Batch /\ done' = {} /\ failed' = {}
      /\ UNCHANGED <<payload, captured, enq, histVars>>
  BY DEF LeaseBatch, LoopInv
<1>3. Batch \subseteq queue /\ queue \subseteq Item
  BY DEF Batch, Available, TypeOK
<1>4. queue' = queue /\ tail' = "clean" /\ \A i \in Batch : lease'[i] = l
  BY <1>1, <1>3 DEF Rewrite
<1>5. CaptureInv'
  BY <1>2, <1>4 DEF CaptureInv, histVars
<1>6. LoopInv' /\ TailInv'
  BY <1>1, <1>2, <1>3, <1>4 DEF LoopInv, BatchStaysLeased, TailInv
<1>7. DuplicateInv'
  BY <1>2, DuplicateQuiet DEF TypeOK, histVars
<1> QED
  BY <1>5, <1>6, <1>7

\* Completing, releasing, or giving up on a batch.
LEMMA SettleInv ==
  ASSUME UploadQueueAssumption, IInv, Settle
  PROVE  CaptureInv' /\ LoopInv' /\ TailInv' /\ DuplicateInv'
<1> USE DEF IInv
<1>0. pc # "accepted" /\ todo = {} /\ UNCHANGED <<payload, captured, enq, histVars>> /\ mishaps \in Nat
  BY DEF Settle, Complete, Release, SettleFails, LoopInv, TypeOK
<1>1. DuplicateInv'
  BY <1>0, DuplicateQuiet DEF histVars
<1>2. CASE Complete
  <2>1. failed \subseteq queue /\ failed \subseteq Item /\ failed \cap Mine(done) = {}
    BY DEF LoopInv, BatchStaysLeased, TypeOK, Mine
  <2>2. CASE UNCHANGED diskVars
    <3>1. CaptureInv'
      BY <1>0, <1>2, <2>2 DEF Complete, CaptureInv, diskVars, histVars
    <3>2. LoopInv' /\ TailInv'
      BY <1>0, <1>2, <2>2 DEF Complete, LoopInv, BatchStaysLeased, TailInv, LastItem, diskVars
    <3> QED
      BY <1>1, <3>1, <3>2
  <2>3. CASE Rewrite(queue \ Mine(done), lease)
    <3>1. /\ queue' = queue \ Mine(done) /\ tail' = "clean"
          /\ \A j \in failed : lease'[j] = lease[j]
      BY <2>1, <2>3 DEF Rewrite
    <3>2. CaptureInv'
      BY <1>0, <1>2, <3>1 DEF Complete, CaptureInv, histVars
    <3>3. LoopInv' /\ TailInv'
      BY <1>0, <1>2, <2>1, <3>1 DEF Complete, LoopInv, BatchStaysLeased, TailInv
    <3> QED
      BY <1>1, <3>2, <3>3
  <2> QED
    BY <1>2, <2>2, <2>3 DEF Complete
<1>3. CASE Release \/ SettleFails
  <2>1. queue' = queue
    BY <1>3 DEF Release, SettleFails, Rewrite, diskVars
  <2>2. pc' = "idle" /\ todo' = {} /\ done' = {} /\ failed' = {}
    BY <1>3 DEF Release, SettleFails, IterationEnds
  <2> QED
    BY <1>0, <1>1, <2>1, <2>2
    DEF CaptureInv, LoopInv, BatchStaysLeased, TailInv, histVars
<1> QED
  BY <1>1, <1>2, <1>3 DEF Settle

\* A lease runs out, or the process dies.
LEMMA EnvironmentInv ==
  ASSUME UploadQueueAssumption, IInv, Crash \/ \E l \in LeaseId : LeaseExpires(l)
  PROVE  CaptureInv' /\ LoopInv' /\ TailInv' /\ DuplicateInv'
<1> USE DEF IInv
<1>0. mishaps \in Nat
  BY DEF TypeOK
<1>1. ASSUME NEW l \in LeaseId, LeaseExpires(l)
      PROVE  CaptureInv' /\ LoopInv' /\ TailInv' /\ DuplicateInv'
  <2>1. UNCHANGED <<queue, tail, lease, payload, captured, enq, loopVars, histVars>>
    BY <1>1 DEF LeaseExpires
  <2>2. DuplicateInv'
    BY <1>0, <2>1, DuplicateQuiet DEF loopVars, histVars
  <2> QED
    BY <2>1, <2>2
    DEF CaptureInv, LoopInv, BatchStaysLeased, TailInv, LastItem, loopVars, histVars
<1>2. CASE Crash
  <2>1. /\ pc' = "idle" /\ todo' = {} /\ done' = {} /\ failed' = {} /\ enq' = NoItem
        /\ mishaps' = mishaps + 1 /\ UNCHANGED <<payload, captured, acked, accepted>>
    BY <1>2 DEF Crash, IterationEnds
  <2>2. queue' \subseteq 1..captured
    <3>1. CASE UNCHANGED diskVars
      BY <3>1 DEF CaptureInv, diskVars
    <3>2. CASE enq # NoItem /\ Interrupted(enq)
      <4>1. PICK how \in {"none", "full", "open", "torn"} : AppendLine(enq, how)
        BY <3>2 DEF Interrupted
      <4> QED
        BY <3>2, <4>1, AppendInv
    <3> QED
      BY <1>2, <3>1, <3>2 DEF Crash
  <2>3. CaptureInv'
    <3>1. \A j \in Item : accepted'[j] > 0 => j <= captured' /\ j # enq'
      BY <2>1 DEF CaptureInv, NoItem, Item
    <3> QED
      BY <2>1, <2>2, <3>1 DEF CaptureInv
  <2>4. LoopInv' /\ TailInv'
    BY <2>1 DEF LoopInv, BatchStaysLeased, TailInv
  <2>5. DuplicateInv'
    BY <1>0, <2>1, DuplicateQuiet
  <2> QED
    BY <2>3, <2>4, <2>5
<1> QED
  BY <1>1, <1>2

LEMMA InvStep == IInv /\ [Next]_vars => IInv'
<1> SUFFICES ASSUME IInv, [Next]_vars PROVE IInv'
  OBVIOUS
<1>1. TypeOK'
  BY TypeStep DEF IInv
<1>2. CaptureInv' /\ LoopInv' /\ TailInv' /\ DuplicateInv'
  <2>1. CASE UNCHANGED vars
    BY <2>1 DEF IInv, CaptureInv, LoopInv, BatchStaysLeased, TailInv, LastItem, DuplicateInv,
                Confirmed, Current, vars, diskVars, loopVars, histVars
  <2> QED
    BY <2>1, UploadQueueAssumption, EnqueueInv, LeaseInv, HandleInv, SettleInv, EnvironmentInv
    DEF Next
<1> QED
  BY <1>1, <1>2 DEF IInv

LEMMA InvInit == Init => IInv
BY UploadQueueAssumption
DEF Init, IInv, TypeOK, CaptureInv, LoopInv, BatchStaysLeased, TailInv, DuplicateInv,
    UploadQueueAssumption, NoItem, NoLease, Item

\* The inductive invariant holds in every reachable state.
THEOREM InvCorrect == Spec => []IInv
BY InvInit, InvStep, PTL DEF Spec

\* Nobody takes an item of a running batch away, whatever expires or fails: the
\* lease protocol of LeaseBatchAsync, CompleteAsync and ReleaseAsync is sound.
THEOREM BatchCorrect == Spec => []BatchStaysLeased
<1>1. IInv => BatchStaysLeased
  BY DEF IInv, LoopInv
<1> QED
  BY <1>1, InvCorrect, PTL

\* However many crashes, lost answers and undeletable payloads there are, each
\* accounts for at most one extra copy of an item at the backend.
THEOREM DuplicatesCorrect == Spec => []DuplicatesBounded
<1>1. IInv => DuplicatesBounded
  BY DEF IInv, DuplicateInv, DuplicatesBounded
<1> QED
  BY <1>1, InvCorrect, PTL
===============================================================================
