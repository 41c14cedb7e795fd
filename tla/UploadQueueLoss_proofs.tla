------------------------ MODULE UploadQueueLoss_proofs ------------------------
(* What the upload queue may lose, for all values of the constants: at most    *)
(* one acknowledged item for each unfinished line, nothing before the first    *)
(* one; until then, the refinement of AtLeastOnce; and the payload files that  *)
(* nothing collects.                                                           *)
EXTENDS UploadQueue_proofs, FiniteSetTheorems

\* An unfinished line will cost the next item appended.
Spoiling == IF tail = "clean" THEN 0 ELSE 1

\* Losses are accounted for, and what is about to leave the file or lose its
\* payload is at the backend already.
LossInv ==
  /\ Cardinality(Lost) + Spoiling <= tears
  /\ tail = "open" => \A i \in acked : ~ LastItem(i)
  /\ enq # NoItem => enq \in payload
  /\ \A i \in done : accepted[i] > 0 \/ i \notin payload
  /\ \A i \in Item : Confirmed(i) => accepted[i] > 0

LEMMA LostFinite == TypeOK => IsFiniteSet(Lost) /\ Cardinality(Lost) \in Nat
<1> SUFFICES ASSUME TypeOK PROVE IsFiniteSet(Lost) /\ Cardinality(Lost) \in Nat
  OBVIOUS
<1>1. IsFiniteSet(Item)
  BY UploadQueueAssumption, FS_Interval DEF UploadQueueAssumption, Item
<1>2. Lost \subseteq Item
  BY DEF Lost, TypeOK
<1>3. IsFiniteSet(Lost)
  BY <1>1, <1>2, FS_Subset
<1> QED
  BY <1>3, FS_CardinalityType

\* A step that loses nothing new and clears no unfinished line unpaid for.
LEMMA NothingLost ==
  ASSUME TypeOK, LossInv, Lost' \subseteq Lost,
         \/ tears' = tears /\ (tail' = tail \/ tail' = "clean")
         \/ tears' = tears + 1
  PROVE  Cardinality(Lost)' + Spoiling' <= tears'
<1>1. IsFiniteSet(Lost) /\ Cardinality(Lost) \in Nat
  BY LostFinite
<1>2. Cardinality(Lost') \in Nat /\ Cardinality(Lost') <= Cardinality(Lost)
  BY <1>1, FS_Subset, FS_CardinalityType
<1>3. tears \in Nat /\ Cardinality(Lost) + Spoiling <= tears
  BY DEF TypeOK, LossInv
<1>4. Spoiling \in {0, 1} /\ Spoiling' \in {0, 1}
  BY DEF Spoiling
<1>5. (tail' = tail \/ tail' = "clean") => Spoiling' <= Spoiling
  BY DEF Spoiling
<1> QED
  BY <1>1, <1>2, <1>3, <1>4, <1>5

\* What an append does to acknowledged items, none of which it is writing.
LEMMA AppendSpares ==
  ASSUME UploadQueueAssumption, IInv, LossInv, enq # NoItem,
         NEW how \in {"none", "full", "open", "torn"}, AppendLine(enq, how)
  PROVE  /\ \A j \in acked \cap queue : j \in queue'
         /\ tail' = "open" => \A j \in acked : ~ LastItem(j)'
         /\ tail = "clean" /\ how = "full" => enq \in queue'
         /\ how = "full" => tail' = "clean"
         /\ how = "none" => tail' = tail
<1>1. enq \in Item /\ enq = captured /\ captured \in Nat /\ queue \cup acked \subseteq 1..captured
      /\ enq \notin queue \cup acked
  BY DEF IInv, TypeOK, CaptureInv, UploadQueueAssumption
<1>2. acked \cap queue \subseteq Unspoilt
  BY DEF LossInv, Unspoilt
<1>3. /\ queue' \subseteq queue \cup {enq}
      /\ \A j \in Unspoilt : j \in queue' /\ lease'[j] = lease[j]
      /\ tail' = "open" => queue' = queue \cup {enq} \/ (queue' = queue /\ tail = "open")
  BY <1>1, AppendKeeps DEF IInv
<1>4. ASSUME tail' = "open", NEW j \in acked PROVE ~ LastItem(j)'
  <2>1. CASE queue' = queue \cup {enq}
    BY <1>1, <2>1 DEF LastItem
  <2>2. CASE queue' = queue /\ tail = "open"
    BY <2>2 DEF LossInv, LastItem
  <2> QED
    BY <1>3, <1>4, <2>1, <2>2
<1>5. tail = "clean" /\ how = "full" => enq \in queue'
  BY DEF AppendLine
<1>6. /\ how = "full" => tail' = "clean"
      /\ how = "none" => tail' = tail
  BY DEF AppendLine, diskVars
<1> QED
  BY <1>2, <1>3, <1>4, <1>5, <1>6

\* An enqueue that returns loses at most its own item, and only behind an
\* unfinished line, which it ends.
LEMMA CommitLoss ==
  ASSUME UploadQueueAssumption, IInv, LossInv, EnqueueCommit
  PROVE  LossInv'
<1>0. TypeOK /\ tears \in Nat
  BY DEF IInv, TypeOK
<1>1. /\ enq # NoItem /\ AppendLine(enq, "full") /\ acked' = acked \cup {enq} /\ enq' = NoItem
      /\ UNCHANGED <<payload, loopVars, accepted, tears>>
  BY DEF EnqueueCommit
<1>2. /\ \A j \in acked \cap queue : j \in queue'
      /\ tail = "clean" => enq \in queue'
      /\ tail' = "clean"
  BY <1>1, AppendSpares
<1>3. Lost' \subseteq Lost \cup {enq} /\ (tail = "clean" => Lost' \subseteq Lost)
  BY <1>1, <1>2 DEF Lost, Recoverable, LossInv
<1>4. Cardinality(Lost)' + Spoiling' <= tears'
  <2>1. CASE tail = "clean"
    BY <1>0, <1>1, <1>2, <1>3, <2>1, NothingLost
  <2>2. CASE tail # "clean"
    <3>1. IsFiniteSet(Lost) /\ Cardinality(Lost) \in Nat
      BY <1>0, LostFinite
    <3>2. IsFiniteSet(Lost \cup {enq})
          /\ (Cardinality(Lost \cup {enq}) = Cardinality(Lost)
              \/ Cardinality(Lost \cup {enq}) = Cardinality(Lost) + 1)
      BY <3>1, FS_AddElement
    <3>3. Cardinality(Lost') \in Nat /\ Cardinality(Lost') <= Cardinality(Lost \cup {enq})
      BY <1>3, <3>2, FS_Subset, FS_CardinalityType
    <3>4. Cardinality(Lost) + 1 <= tears
      BY <2>2 DEF LossInv, Spoiling
    <3>5. Spoiling' = 0
      BY <1>2 DEF Spoiling
    <3> QED
      BY <1>0, <1>1, <3>1, <3>2, <3>3, <3>4, <3>5
  <2> QED
    BY <2>1, <2>2
<1>5. \A i \in Item : Confirmed(i)' => accepted'[i] > 0
  BY <1>1 DEF LossInv, Confirmed, Current, loopVars
<1> QED
  BY <1>1, <1>2, <1>4, <1>5 DEF LossInv, loopVars

\* An enqueue that does not return, because it fails or the process dies, loses
\* nothing that was acknowledged.
LEMMA InterruptedLoss ==
  ASSUME UploadQueueAssumption, IInv, LossInv, enq # NoItem, Interrupted(enq),
         enq' = NoItem, acked' = acked, accepted' = accepted, payload \ {enq} \subseteq payload',
         payload' \subseteq payload
  PROVE  /\ Cardinality(Lost)' + Spoiling' <= tears'
         /\ tail' = "open" => \A i \in acked' : ~ LastItem(i)'
<1>0. TypeOK /\ enq \notin acked
  BY DEF IInv, CaptureInv
<1>1. PICK how \in {"none", "full", "open", "torn"} :
        /\ AppendLine(enq, how)
        /\ tears' = IF how \in {"open", "torn"} THEN tears + 1 ELSE tears
  BY DEF Interrupted
<1>2. /\ \A j \in acked \cap queue : j \in queue'
      /\ tail' = "open" => \A j \in acked : ~ LastItem(j)'
      /\ how = "full" => tail' = "clean"
      /\ how = "none" => tail' = tail
  BY <1>1, AppendSpares
<1>3. Lost' \subseteq Lost
  BY <1>0, <1>2 DEF Lost, Recoverable
<1>4. \/ tears' = tears /\ (tail' = tail \/ tail' = "clean")
      \/ tears' = tears + 1
  BY <1>1, <1>2
<1>5. Cardinality(Lost)' + Spoiling' <= tears'
  BY <1>0, <1>3, <1>4, NothingLost
<1> QED
  BY <1>2, <1>5

\* The loop's handling of one item: a payload goes only once its item is stored.
LEMMA HandleLoss ==
  ASSUME UploadQueueAssumption, IInv, LossInv, NEW i \in Item, Handle(i)
  PROVE  LossInv'
<1>0. TypeOK /\ accepted \in [Item -> Nat] /\ acked \subseteq Item
  BY DEF IInv, TypeOK
<1>1. /\ UNCHANGED <<queue, tail, enq, acked, tears>> /\ Current(i)
      /\ payload' \subseteq payload
      /\ i # enq
  BY DEF Handle, SkipEmpty, UploadFails, UploadAccepted, ResponseLost, Cleanup, Current, DeletePayload,
         diskVars, histVars, IInv, LoopInv, BatchStaysLeased, CaptureInv, NoItem, TypeOK, Item
<1>2. \A j \in Item : accepted[j] > 0 => accepted'[j] > 0
  BY <1>0 DEF Handle, SkipEmpty, UploadFails, UploadAccepted, ResponseLost, Cleanup, histVars
<1>3. Cleanup(i) => accepted[i] > 0
  BY DEF Cleanup, LossInv, Confirmed
<1>4. payload \ {i} \subseteq payload' /\ (payload' # payload => accepted[i] > 0)
  BY <1>3 DEF Handle, SkipEmpty, UploadFails, UploadAccepted, ResponseLost, Cleanup, DeletePayload,
              histVars
<1>5. Lost' \subseteq Lost
  <2>1. SUFFICES ASSUME NEW j \in acked, accepted'[j] = 0, ~ Recoverable(j)' PROVE j \in Lost
    BY <1>1 DEF Lost
  <2>2. accepted[j] = 0
    BY <1>0, <1>2, <2>1
  <2>3. ~ Recoverable(j)
    BY <1>1, <1>4, <2>1, <2>2 DEF Recoverable
  <2> QED
    BY <2>2, <2>3 DEF Lost
<1>6. Cardinality(Lost)' + Spoiling' <= tears'
  BY <1>0, <1>1, <1>5, NothingLost
<1>7. done' \subseteq done \cup {i} /\ (done' = done \/ accepted[i] > 0 \/ i \notin payload)
  BY <1>3 DEF Handle, SkipEmpty, UploadFails, UploadAccepted, ResponseLost, Cleanup
<1>8. \A j \in done' : accepted'[j] > 0 \/ j \notin payload'
  <2>1. TAKE j \in done'
  <2>2. j \in Item
    BY <1>0, <1>7 DEF TypeOK
  <2>3. accepted[j] > 0 \/ j \notin payload
    BY <1>7 DEF LossInv
  <2> QED
    BY <1>1, <1>2, <2>2, <2>3
<1>9. \A j \in Item : Confirmed(j)' => accepted'[j] > 0
  <2>1. SUFFICES ASSUME NEW j \in Item, pc' = "accepted", Current(j)' PROVE accepted'[j] > 0
    BY DEF Confirmed
  <2>2. UploadAccepted(i)
    BY <2>1 DEF Handle, SkipEmpty, UploadFails, UploadAccepted, ResponseLost, Cleanup
  <2>3. todo' = todo /\ accepted' = [accepted EXCEPT ![i] = @ + 1]
    BY <2>2 DEF UploadAccepted
  <2>4. j = i
    BY <1>1, <2>1, <2>3 DEF Current, Item
  <2> QED
    BY <1>0, <2>3, <2>4
<1>10. tail' = "open" => \A j \in acked' : ~ LastItem(j)'
  BY <1>1 DEF LossInv, LastItem
<1>11. enq' # NoItem => enq' \in payload'
  BY <1>1, <1>4 DEF LossInv
<1> QED
  BY <1>6, <1>8, <1>9, <1>10, <1>11 DEF LossInv

\* Settling a batch: the lines that go are those of stored or unreadable items.
LEMMA SettleLoss ==
  ASSUME UploadQueueAssumption, IInv, LossInv, Settle
  PROVE  LossInv'
<1>0. TypeOK
  BY DEF IInv
<1>1. /\ UNCHANGED <<payload, enq, acked, accepted, tears>> /\ pc' # "accepted"
      /\ done' \subseteq done
  BY DEF Settle, Complete, Release, SettleFails, IterationEnds, histVars
<1>2. \/ queue' = queue /\ (tail' = tail \/ tail' = "clean")
      \/ queue \ done \subseteq queue' /\ queue' \subseteq queue /\ tail' = "clean"
  <2>1. CASE Complete
    BY <2>1 DEF Complete, Rewrite, Mine, diskVars
  <2>2. CASE Release \/ SettleFails
    BY <2>2 DEF Release, SettleFails, Rewrite, diskVars
  <2> QED
    BY <2>1, <2>2 DEF Settle
<1>3. Lost' \subseteq Lost
  BY <1>1, <1>2 DEF Lost, Recoverable, LossInv
<1>4. Cardinality(Lost)' + Spoiling' <= tears'
  BY <1>0, <1>1, <1>2, <1>3, NothingLost
<1>5. tail' = "open" => \A j \in acked' : ~ LastItem(j)'
  BY <1>1, <1>2 DEF LossInv, LastItem
<1> QED
  BY <1>1, <1>4, <1>5 DEF LossInv, Confirmed

LEMMA LossStep == IInv /\ LossInv /\ [Next]_vars => LossInv'
<1> SUFFICES ASSUME IInv, LossInv, [Next]_vars PROVE LossInv'
  OBVIOUS
<1>0. TypeOK /\ UploadQueueAssumption
  BY UploadQueueAssumption DEF IInv
<1>1. CASE EnqueuePrepare
  <2>1. /\ UNCHANGED <<queue, tail, acked, accepted, tears, done, pc, todo>>
        /\ enq' \in payload' /\ payload' = payload \cup {captured + 1}
    BY <1>1 DEF EnqueuePrepare, diskVars, loopVars, histVars
  <2>2. Cardinality(Lost)' + Spoiling' <= tears'
    <3>1. Lost' \subseteq Lost
      BY <2>1 DEF Lost, Recoverable
    <3> QED
      BY <1>0, <2>1, <3>1, NothingLost
  <2>3. captured + 1 \notin done
    BY <1>0 DEF IInv, CaptureInv, TypeOK, UploadQueueAssumption
  <2> QED
    BY <2>1, <2>2, <2>3 DEF LossInv, LastItem, Confirmed, Current
<1>2. CASE EnqueueCommit
  BY <1>0, <1>2, CommitLoss
<1>3. CASE EnqueueFails
  <2>1. /\ enq # NoItem /\ Interrupted(enq) /\ enq' = NoItem
        /\ UNCHANGED <<acked, accepted, done, pc, todo>>
        /\ payload \ {enq} \subseteq payload' /\ payload' \subseteq payload
    BY <1>3 DEF EnqueueFails, DeletePayload, loopVars
  <2>2. /\ Cardinality(Lost)' + Spoiling' <= tears'
        /\ tail' = "open" => \A i \in acked' : ~ LastItem(i)'
    BY <1>0, <2>1, InterruptedLoss
  <2> QED
    BY <2>1, <2>2 DEF LossInv, Confirmed, Current
<1>4. CASE LeaseBatch
  <2>1. /\ queue' = queue /\ tail' = "clean" /\ pc' = "working" /\ done' = done
        /\ UNCHANGED <<payload, enq, acked, accepted, tears>>
    BY <1>4 DEF LeaseBatch, Rewrite, histVars
  <2>2. Lost' \subseteq Lost
    BY <2>1 DEF Lost, Recoverable
  <2>3. Cardinality(Lost)' + Spoiling' <= tears'
    BY <1>0, <2>1, <2>2, NothingLost
  <2> QED
    BY <2>1, <2>3 DEF LossInv, Confirmed
<1>5. CASE \E i \in Item : Handle(i)
  BY <1>0, <1>5, HandleLoss
<1>6. CASE Settle
  BY <1>0, <1>6, SettleLoss
<1>7. CASE UNCHANGED vars \/ \E l \in LeaseId : LeaseExpires(l)
  <2>1. UNCHANGED <<queue, tail, payload, enq, acked, accepted, tears, done, pc, todo>>
    BY <1>7 DEF LeaseExpires, vars, diskVars, loopVars, histVars
  <2>2. Lost' \subseteq Lost
    BY <2>1 DEF Lost, Recoverable
  <2>3. Cardinality(Lost)' + Spoiling' <= tears'
    BY <1>0, <2>1, <2>2, NothingLost
  <2> QED
    BY <2>1, <2>3 DEF LossInv, LastItem, Confirmed, Current
<1>8. CASE Crash
  <2>1. /\ enq' = NoItem /\ pc' = "idle" /\ done' = {}
        /\ UNCHANGED <<payload, acked, accepted>>
    BY <1>8 DEF Crash, IterationEnds
  <2>2. /\ Cardinality(Lost)' + Spoiling' <= tears'
        /\ tail' = "open" => \A i \in acked' : ~ LastItem(i)'
    <3>1. CASE enq = NoItem
      <4>1. queue' = queue /\ tail' = tail /\ tears' = tears
        BY <1>8, <3>1 DEF Crash, diskVars
      <4>2. Lost' \subseteq Lost
        BY <2>1, <4>1 DEF Lost, Recoverable
      <4>3. Cardinality(Lost)' + Spoiling' <= tears'
        BY <1>0, <4>1, <4>2, NothingLost
      <4> QED
        BY <2>1, <4>1, <4>3 DEF LossInv, LastItem
    <3>2. CASE enq # NoItem
      BY <1>0, <1>8, <2>1, <3>2, InterruptedLoss DEF Crash
    <3> QED
      BY <3>1, <3>2
  <2> QED
    BY <2>1, <2>2 DEF LossInv, Confirmed
<1> QED
  BY <1>1, <1>2, <1>3, <1>4, <1>5, <1>6, <1>7, <1>8 DEF Next, Enqueue

LEMMA LossInit == Init => LossInv
<1>1. Init => Lost = {} /\ Spoiling = 0 /\ tears = 0
  BY DEF Init, Lost, Spoiling
<1> QED
  BY <1>1, FS_EmptySet DEF Init, LossInv, Confirmed

THEOREM LossInvCorrect == Spec => []LossInv
BY LossInit, LossStep, InvCorrect, PTL DEF Spec

\* An unfinished line costs at most one acknowledged item, for any number of
\* items, crashes and tears.
THEOREM LossCorrect == Spec => []LossBoundedByTears
<1>1. IInv /\ LossInv => LossBoundedByTears
  <2> SUFFICES ASSUME IInv, LossInv PROVE LossBoundedByTears
    OBVIOUS
  <2>1. Cardinality(Lost) \in Nat /\ tears \in Nat
    BY LostFinite DEF IInv, TypeOK
  <2> QED
    BY <2>1 DEF LossInv, LossBoundedByTears, Spoiling
<1> QED
  BY <1>1, InvCorrect, LossInvCorrect, PTL

\* Until the first unfinished line nothing acknowledged is lost, whatever
\* crashes, failed uploads, lost answers and expired leases there are.
THEOREM NoLossBeforeTear == Spec => [](tears = 0 => NoAckedLoss)
<1>1. IInv /\ LossInv => (tears = 0 => NoAckedLoss)
  <2> SUFFICES ASSUME IInv, LossInv, tears = 0 PROVE NoAckedLoss
    OBVIOUS
  <2>1. IsFiniteSet(Lost) /\ Cardinality(Lost) \in Nat
    BY LostFinite DEF IInv
  <2>2. Cardinality(Lost) = 0
    BY <2>1 DEF LossInv, Spoiling
  <2>3. Lost = {}
    BY <2>1, <2>2, FS_EmptySet
  <2>4. \A i \in acked : accepted[i] \in Nat
    BY DEF IInv, TypeOK
  <2> QED
    BY <2>3, <2>4 DEF Lost, NoAckedLoss
<1> QED
  BY <1>1, InvCorrect, LossInvCorrect, PTL

\* A step leaves at most one unfinished line.
LEMMA TearsCount ==
  ASSUME [Next]_vars
  PROVE  UNCHANGED tears \/ tears' = tears + 1
<1>1. CASE Enqueue
  BY <1>1 DEF Enqueue, EnqueuePrepare, EnqueueCommit, EnqueueFails, Interrupted, AppendLine, histVars
<1>2. ASSUME NEW i \in Item, Handle(i) PROVE UNCHANGED tears
  BY <1>2 DEF Handle, SkipEmpty, UploadFails, UploadAccepted, ResponseLost, Cleanup, histVars
<1>3. CASE Settle
  BY <1>3 DEF Settle, Complete, Release, SettleFails, histVars
<1>4. CASE LeaseBatch \/ UNCHANGED vars \/ \E l \in LeaseId : LeaseExpires(l)
  BY <1>4 DEF LeaseBatch, LeaseExpires, vars, histVars
<1>5. CASE Crash
  BY <1>5 DEF Crash, Interrupted, AppendLine, histVars
<1> QED
  BY <1>1, <1>2, <1>3, <1>4, <1>5 DEF Next

\* As long as no append has left an unfinished line the queue implements
\* AtLeastOnce: every step is a step of the promise or a stutter.
LEMMA RefinementStep ==
  ASSUME tears' = 0, IInv, LossInv, [Next]_vars
  PROVE  [Promise!Next]_(Promise!vars)
<1>0. /\ TypeOK /\ accepted \in [Item -> Nat]
      /\ queue \subseteq Item /\ payload \subseteq Item /\ captured \in Nat
  BY UploadQueueAssumption DEF IInv, TypeOK, UploadQueueAssumption
<1>1. tail = "clean"
  <2>1. tears = 0
    <3>1. CASE UNCHANGED tears
      BY <3>1
    <3>2. CASE tears' = tears + 1
      BY <1>0, <3>2 DEF TypeOK
    <3> QED
      BY <3>1, <3>2, TearsCount
  <2>2. Cardinality(Lost) \in Nat
    BY <1>0, LostFinite DEF TypeOK
  <2> QED
    BY <2>1, <2>2 DEF LossInv, Spoiling
<1>2. ASSUME accepted' = accepted,
             \A j \in Item : accepted[j] = 0 => (Recoverable(j)' <=> Recoverable(j))
      PROVE  UNCHANGED Promise!vars
  BY <1>2 DEF Promise!vars, Owed, Delivered
<1>3. ASSUME enq # NoItem, accepted' = accepted,
             Interrupted(enq) \/ AppendLine(enq, "full"),
             payload \ {enq} \subseteq payload', payload' \subseteq payload
      PROVE  [Promise!Next]_(Promise!vars)
  <2>1. enq \in Item /\ enq \notin queue /\ accepted[enq] = 0
    BY <1>0, <1>3 DEF IInv, TypeOK, CaptureInv
  <2>2. queue' = queue \/ queue' = queue \cup {enq}
    BY <1>0, <1>1, <1>3 DEF Interrupted, AppendLine, diskVars, TypeOK, Unspoilt
  <2>3. CASE enq \in queue' /\ enq \in payload'
    <3>1. Owed' = Owed \cup {enq} /\ Delivered' = Delivered
      BY <1>3, <2>1, <2>2, <2>3 DEF Owed, Delivered, Recoverable
    <3>2. enq \notin Owed \cup Delivered
      BY <2>1 DEF Owed, Delivered, Recoverable
    <3> QED
      BY <2>1, <3>1, <3>2 DEF Promise!Next, Promise!Take
  <2>4. CASE ~ (enq \in queue' /\ enq \in payload')
    BY <1>2, <1>3, <2>1, <2>2, <2>4 DEF Recoverable
  <2> QED
    BY <2>3, <2>4
<1>4. ASSUME NEW i \in Item, i \in queue, i \in payload, UNCHANGED <<queue, payload>>,
             accepted' = [accepted EXCEPT ![i] = @ + 1]
      PROVE  [Promise!Next]_(Promise!vars)
  <2>1. CASE accepted[i] = 0
    <3>1. i \in Owed /\ Owed' = Owed \ {i} /\ Delivered' = Delivered \cup {i}
      BY <1>0, <1>4, <2>1 DEF Owed, Delivered, Recoverable
    <3> QED
      BY <3>1 DEF Promise!Next, Promise!Deliver
  <2>2. CASE accepted[i] # 0
    <3>1. Owed' = Owed /\ Delivered' = Delivered
      BY <1>0, <1>4, <2>2 DEF Owed, Delivered, Recoverable
    <3> QED
      BY <3>1 DEF Promise!vars
  <2> QED
    BY <2>1, <2>2
<1>5. CASE EnqueuePrepare
  <2>1. captured + 1 \notin queue
    BY <1>0 DEF IInv, CaptureInv
  <2> QED
    BY <1>2, <1>5, <2>1 DEF EnqueuePrepare, diskVars, histVars, Recoverable
<1>6. CASE EnqueueCommit
  BY <1>3, <1>6 DEF EnqueueCommit
<1>7. CASE EnqueueFails
  <2>1. payload \ {enq} \subseteq payload' /\ payload' \subseteq payload
    BY <1>7 DEF EnqueueFails, DeletePayload
  <2> QED
    BY <1>3, <1>7, <2>1 DEF EnqueueFails
<1>8. ASSUME NEW i \in Item, Handle(i) PROVE [Promise!Next]_(Promise!vars)
  <2>1. i \in queue
    BY <1>8 DEF Handle, SkipEmpty, UploadFails, UploadAccepted, ResponseLost, Cleanup, Current,
                IInv, LoopInv, BatchStaysLeased
  <2>2. CASE SkipEmpty(i) \/ UploadFails(i)
    BY <1>2, <2>2 DEF SkipEmpty, UploadFails, diskVars, histVars, Recoverable
  <2>3. CASE UploadAccepted(i) \/ ResponseLost(i)
    BY <1>4, <2>1, <2>3 DEF UploadAccepted, ResponseLost, diskVars
  <2>4. CASE Cleanup(i)
    <3>1. accepted[i] > 0
      BY <2>4 DEF Cleanup, LossInv, Confirmed
    <3>2. queue' = queue /\ accepted' = accepted /\ (payload' = payload \/ payload' = payload \ {i})
      BY <2>4 DEF Cleanup, DeletePayload, diskVars
    <3> QED
      BY <1>0, <1>2, <3>1, <3>2 DEF Recoverable
  <2> QED
    BY <1>8, <2>2, <2>3, <2>4 DEF Handle
<1>9. CASE Settle
  <2>1. payload' = payload /\ accepted' = accepted
    BY <1>9 DEF Settle, Complete, Release, SettleFails, histVars
  <2>2. queue \ done \subseteq queue' /\ queue' \subseteq queue
    <3>1. CASE Complete
      BY <3>1 DEF Complete, Rewrite, Mine, diskVars
    <3>2. CASE Release \/ SettleFails
      BY <3>2 DEF Release, SettleFails, Rewrite, diskVars
    <3> QED
      BY <1>9, <3>1, <3>2 DEF Settle
  <2>3. \A j \in done : accepted[j] > 0 \/ ~ Recoverable(j)
    BY DEF LossInv, Recoverable
  <2> QED
    BY <1>0, <1>2, <2>1, <2>2, <2>3 DEF Recoverable
<1>10. CASE LeaseBatch \/ UNCHANGED vars \/ \E l \in LeaseId : LeaseExpires(l)
  <2>1. queue' = queue /\ payload' = payload /\ accepted' = accepted
    BY <1>10 DEF LeaseBatch, Rewrite, LeaseExpires, vars, diskVars, histVars
  <2> QED
    BY <1>2, <2>1 DEF Recoverable
<1>11. CASE Crash
  <2>1. payload' = payload /\ accepted' = accepted
    BY <1>11 DEF Crash
  <2>2. CASE enq = NoItem
    <3>1. queue' = queue
      BY <1>11, <2>2 DEF Crash, diskVars
    <3> QED
      BY <1>2, <2>1, <3>1 DEF Recoverable
  <2>3. CASE enq # NoItem
    BY <1>3, <1>11, <2>1, <2>3 DEF Crash
  <2> QED
    BY <2>2, <2>3
<1> QED
  BY <1>5, <1>6, <1>7, <1>8, <1>9, <1>10, <1>11 DEF Next, Enqueue

\* The queue implements the at-least-once promise for every batch size, number
\* of leases, crash and failure, until an append leaves part of a line.
THEOREM AtLeastOnceCorrect == Spec => ImplementsAtLeastOnce
<1>1. Init => Promise!Init
  BY DEF Init, Promise!Init, Owed, Delivered, Recoverable
<1>2. IInv /\ LossInv /\ [Next]_vars
      => [tears' = 0 => [Promise!Next]_(Promise!vars)]_vars
  BY RefinementStep
<1> QED
  BY <1>1, <1>2, InvCorrect, LossInvCorrect, PTL DEF Spec, ImplementsAtLeastOnce

-------------------------------------------------------------------------------
(* Payload files that nothing will ever collect. *)

\* The line that the next append will spoil, if there is one.
OpenLine == {i \in queue : tail = "open" /\ LastItem(i)}

\* Payload files without a line, and those whose line is about to go: the items
\* to be completed, and the one whose line the next append will spoil.
Uncollected == OrphanPayloads \cup (payload \cap (done \cup OpenLine))

\* A mishap or an unfinished line accounts for each; an unfinished line will also
\* cost the item appended behind it.
OrphanInv == Cardinality(Uncollected) + Spoiling <= mishaps + tears

LEMMA UncollectedFinite ==
  ASSUME TypeOK
  PROVE  IsFiniteSet(Uncollected) /\ Cardinality(Uncollected) \in Nat /\ mishaps \in Nat /\ tears \in Nat
<1>1. IsFiniteSet(Item)
  BY UploadQueueAssumption, FS_Interval DEF UploadQueueAssumption, Item
<1>2. Uncollected \subseteq Item
  BY DEF Uncollected, OrphanPayloads, TypeOK
<1>3. IsFiniteSet(Uncollected)
  BY <1>1, <1>2, FS_Subset
<1> QED
  BY <1>3, FS_CardinalityType, UploadQueueAssumption DEF TypeOK, UploadQueueAssumption

\* An unfinished line is counted when it is left, and when it is ended the item
\* behind it is paid for.
LEMMA AccountLine ==
  ASSUME NEW s \in Nat, NEW t \in Nat, NEW m \in Nat, NEW n \in Nat, NEW y \in {n, n + 1},
         t <= s \/ (t = 1 /\ y = n + 1)
  PROVE  /\ t <= s \/ m + y > m + n
         /\ t + m + n + 1 <= s + (m + 1) + y
OBVIOUS

\* A step that leaves no other file behind.
LEMMA NoneLeft ==
  ASSUME TypeOK, OrphanInv, Uncollected' \subseteq Uncollected,
         mishaps' \in {mishaps, mishaps + 1}, tears' \in {tears, tears + 1},
         Spoiling' <= Spoiling \/ mishaps' + tears' > mishaps + tears
  PROVE  OrphanInv'
<1>1. IsFiniteSet(Uncollected) /\ Cardinality(Uncollected) \in Nat /\ mishaps \in Nat /\ tears \in Nat
  BY UncollectedFinite
<1>2. Cardinality(Uncollected') \in Nat /\ Cardinality(Uncollected') <= Cardinality(Uncollected)
  BY <1>1, FS_Subset, FS_CardinalityType
<1>3. Spoiling \in {0, 1} /\ Spoiling' \in {0, 1} /\ Spoiling \in Nat /\ Spoiling' \in Nat
  BY DEF Spoiling
<1>4. Cardinality(Uncollected) + Spoiling <= mishaps + tears
  BY DEF OrphanInv
<1>5. PICK x \in Nat, y \in Nat : x = mishaps' /\ y = tears' /\ mishaps <= x /\ tears <= y
  BY <1>1
<1>6. mishaps <= x /\ tears <= y /\ (Spoiling' <= Spoiling \/ x + y > mishaps + tears)
  BY <1>5, Zenon
<1>7. Cardinality(Uncollected') + Spoiling' <= x + y
  BY <1>1, <1>2, <1>3, <1>4, <1>6
<1> QED
  BY <1>5, <1>7, Zenon DEF OrphanInv

\* A step that leaves one, and pays for it.
LEMMA OneLeft ==
  ASSUME TypeOK, OrphanInv, NEW i, Uncollected' \subseteq Uncollected \cup {i},
         mishaps' \in {mishaps, mishaps + 1}, tears' \in {tears, tears + 1},
         Spoiling' + mishaps + tears + 1 <= Spoiling + mishaps' + tears'
  PROVE  OrphanInv'
<1>1. IsFiniteSet(Uncollected) /\ Cardinality(Uncollected) \in Nat /\ mishaps \in Nat /\ tears \in Nat
  BY UncollectedFinite
<1>2. /\ IsFiniteSet(Uncollected \cup {i})
      /\ Cardinality(Uncollected \cup {i}) \in {Cardinality(Uncollected), Cardinality(Uncollected) + 1}
  BY <1>1, FS_AddElement
<1>3. Cardinality(Uncollected') \in Nat /\ Cardinality(Uncollected') <= Cardinality(Uncollected \cup {i})
  BY <1>2, FS_Subset, FS_CardinalityType
<1>4. Spoiling \in {0, 1} /\ Spoiling' \in {0, 1}
  BY DEF Spoiling
<1>5. Cardinality(Uncollected) + Spoiling <= mishaps + tears
  BY DEF OrphanInv
<1>6. Cardinality(Uncollected') <= Cardinality(Uncollected) + 1
  BY <1>1, <1>2, <1>3
<1>7. PICK x \in Nat, y \in Nat, t \in Nat : x = mishaps' /\ y = tears' /\ t = Spoiling'
  BY <1>1, <1>4
<1>8. t + mishaps + tears + 1 <= Spoiling + x + y
  BY <1>7, Zenon
<1>9. Cardinality(Uncollected') + t <= x + y
  BY <1>1, <1>3, <1>4, <1>5, <1>6, <1>8
<1> QED
  BY <1>7, <1>9, Zenon DEF OrphanInv

\* An append can leave the file of its own item behind, and spoil the line whose
\* file is accounted for.
LEMMA AppendLeaves ==
  ASSUME UploadQueueAssumption, IInv, enq # NoItem, enq' = NoItem, payload' \subseteq payload,
         done' \subseteq done, NEW how \in {"none", "full", "open", "torn"}, AppendLine(enq, how)
  PROVE  /\ Uncollected' \subseteq Uncollected \cup ({enq} \cap payload')
         /\ tail = "clean" /\ how = "full" => Uncollected' \subseteq Uncollected
         /\ Spoiling' = CASE how = "none" -> Spoiling [] how = "full" -> 0 [] OTHER -> 1
<1>1. /\ enq \in Item /\ enq \notin queue /\ payload \subseteq Item /\ queue \subseteq Item
      /\ enq = captured /\ captured \in Nat /\ queue \subseteq 1..captured
      /\ tail \in {"clean", "open", "torn"}
  BY DEF IInv, TypeOK, CaptureInv, UploadQueueAssumption
<1>2. queue \ OpenLine \subseteq Unspoilt
  BY DEF Unspoilt, OpenLine
<1>3. /\ queue' \subseteq queue \cup {enq}
      /\ \A j \in Unspoilt : j \in queue' /\ lease'[j] = lease[j]
      /\ tail' = "open" => queue' = queue \cup {enq} \/ (queue' = queue /\ tail = "open")
  BY <1>1, AppendKeeps DEF IInv
<1>4. OpenLine' \subseteq OpenLine \cup {enq}
  <2>1. SUFFICES ASSUME NEW j \in OpenLine', j # enq PROVE j \in OpenLine
    OBVIOUS
  <2>2. tail' = "open" /\ j \in queue' /\ \A k \in queue' : k <= j
    BY <2>1 DEF OpenLine, LastItem
  <2>3. j \in queue /\ j <= enq /\ j \in Nat /\ enq \in Nat
    BY <1>1, <1>3, <2>1, <2>2
  <2>4. enq \notin queue'
    BY <2>1, <2>2, <2>3
  <2>5. queue' = queue /\ tail = "open"
    BY <1>3, <2>2, <2>4
  <2> QED
    BY <2>2, <2>3, <2>5 DEF OpenLine, LastItem
<1>5. \A j \in OrphanPayloads' : j \in OrphanPayloads \cup (payload \cap OpenLine) \cup {enq}
  BY <1>2, <1>3 DEF OrphanPayloads
<1>6. Uncollected' \subseteq Uncollected \cup ({enq} \cap payload')
  BY <1>4, <1>5 DEF Uncollected, OrphanPayloads
<1>7. ASSUME tail = "clean", how = "full" PROVE Uncollected' \subseteq Uncollected
  <2>1. enq \in queue' /\ tail' = "clean" /\ OpenLine' = {}
    BY <1>7 DEF AppendLine, OpenLine
  <2>2. enq \notin OrphanPayloads'
    BY <2>1 DEF OrphanPayloads
  <2> QED
    BY <1>5, <2>1, <2>2 DEF Uncollected, OrphanPayloads
<1>8. Spoiling' = CASE how = "none" -> Spoiling [] how = "full" -> 0 [] OTHER -> 1
  <2>1. CASE how = "none"
    BY <2>1 DEF AppendLine, diskVars, Spoiling
  <2>2. CASE how = "full"
    BY <2>2 DEF AppendLine, Spoiling
  <2>3. CASE how = "open" \/ how = "torn"
    BY <1>1, <2>3 DEF AppendLine, Spoiling
  <2> QED
    BY <2>1, <2>2, <2>3
<1> QED
  BY <1>6, <1>7, <1>8

\* An enqueue that does not return.
LEMMA InterruptedLeaves ==
  ASSUME UploadQueueAssumption, IInv, OrphanInv, enq # NoItem, enq' = NoItem, Interrupted(enq),
         done' \subseteq done, payload' \subseteq payload,
         \/ payload' = payload \ {enq} /\ mishaps' = mishaps
         \/ mishaps' = mishaps + 1
  PROVE  OrphanInv'
<1>0. TypeOK /\ mishaps \in Nat /\ tears \in Nat
  BY UncollectedFinite DEF IInv
<1>1. PICK how \in {"none", "full", "open", "torn"} :
        /\ AppendLine(enq, how)
        /\ tears' = IF how \in {"open", "torn"} THEN tears + 1 ELSE tears
  BY DEF Interrupted
<1>2. /\ Uncollected' \subseteq Uncollected \cup ({enq} \cap payload')
      /\ Spoiling' = CASE how = "none" -> Spoiling [] how = "full" -> 0 [] OTHER -> 1
  BY <1>1, AppendLeaves
<1>3. Spoiling \in {0, 1} /\ Spoiling' \in {0, 1} /\ Spoiling \in Nat /\ Spoiling' \in Nat
  BY DEF Spoiling
<1>4. /\ tears' \in {tears, tears + 1}
      /\ Spoiling' <= Spoiling \/ (Spoiling' = 1 /\ tears' = tears + 1)
  BY <1>0, <1>1, <1>2, <1>3
<1>5. CASE mishaps' = mishaps + 1
  <2>1. Uncollected' \subseteq Uncollected \cup {enq}
    BY <1>2
  <2>2. Spoiling' + mishaps + tears + 1 <= Spoiling + mishaps' + tears'
    <3>1. Spoiling' + mishaps + tears + 1 <= Spoiling + (mishaps + 1) + tears'
      BY <1>0, <1>3, <1>4, AccountLine, Zenon
    <3> QED
      BY <1>5, <3>1, Zenon
  <2> QED
    BY <1>0, <1>4, <1>5, <2>1, <2>2, OneLeft
<1>6. CASE payload' = payload \ {enq} /\ mishaps' = mishaps
  <2>1. Uncollected' \subseteq Uncollected
    BY <1>2, <1>6
  <2>2. Spoiling' <= Spoiling \/ mishaps' + tears' > mishaps + tears
    BY <1>0, <1>3, <1>4, <1>6, AccountLine, Zenon
  <2> QED
    BY <1>0, <1>4, <1>6, <2>1, <2>2, NoneLeft
<1> QED
  BY <1>5, <1>6

LEMMA OrphanStep == IInv /\ OrphanInv /\ [Next]_vars => OrphanInv'
<1> SUFFICES ASSUME IInv, OrphanInv, [Next]_vars PROVE OrphanInv'
  OBVIOUS
<1>0. TypeOK /\ UploadQueueAssumption /\ mishaps \in Nat /\ tears \in Nat /\ Spoiling \in {0, 1}
  BY UploadQueueAssumption, UncollectedFinite DEF IInv, Spoiling
<1>1. CASE EnqueuePrepare
  <2>1. /\ UNCHANGED <<queue, tail, done, mishaps, tears>> /\ enq' = captured + 1
        /\ payload' = payload \cup {captured + 1} /\ enq = NoItem
    BY <1>1 DEF EnqueuePrepare, diskVars, loopVars, histVars
  <2>2. captured + 1 \notin queue \cup done /\ NoItem \notin payload
    BY <1>0 DEF IInv, CaptureInv, TypeOK, UploadQueueAssumption, NoItem, Item
  <2>3. OpenLine' = OpenLine /\ OpenLine \subseteq queue /\ Spoiling' = Spoiling
    BY <2>1 DEF OpenLine, LastItem, Spoiling
  <2>4. Uncollected' \subseteq Uncollected
    BY <2>1, <2>2, <2>3 DEF Uncollected, OrphanPayloads
  <2> QED
    BY <1>0, <2>1, <2>3, <2>4, NoneLeft
<1>2. CASE EnqueueCommit
  <2>1. /\ enq # NoItem /\ enq' = NoItem /\ AppendLine(enq, "full")
        /\ UNCHANGED <<payload, done, mishaps, tears>>
    BY <1>2 DEF EnqueueCommit, loopVars
  <2>2. /\ Uncollected' \subseteq Uncollected \cup {enq} /\ Spoiling' = 0
        /\ tail = "clean" => Uncollected' \subseteq Uncollected
    BY <1>0, <2>1, AppendLeaves
  <2>3. CASE tail = "clean"
    BY <1>0, <2>1, <2>2, <2>3, NoneLeft
  <2>4. CASE tail # "clean"
    <3>1. Spoiling = 1
      BY <2>4 DEF Spoiling
    <3> QED
      BY <1>0, <2>1, <2>2, <3>1, OneLeft
  <2> QED
    BY <2>3, <2>4
<1>3. CASE EnqueueFails
  <2>1. /\ enq # NoItem /\ Interrupted(enq) /\ enq' = NoItem /\ done' = done /\ payload' \subseteq payload
        /\ \/ payload' = payload \ {enq} /\ mishaps' = mishaps
           \/ mishaps' = mishaps + 1
    BY <1>3 DEF EnqueueFails, DeletePayload, loopVars
  <2> QED
    BY <1>0, <2>1, InterruptedLeaves
<1>4. CASE LeaseBatch \/ Release \/ SettleFails \/ UNCHANGED vars \/ \E l \in LeaseId : LeaseExpires(l)
  <2>1. /\ UNCHANGED <<queue, payload, enq, mishaps, tears>> /\ done' \subseteq done
        /\ tail' = tail \/ tail' = "clean"
    BY <1>4 DEF LeaseBatch, Release, SettleFails, LeaseExpires, IterationEnds, Rewrite, vars, diskVars,
                loopVars, histVars
  <2>2. OpenLine' \subseteq OpenLine /\ Spoiling' <= Spoiling
    BY <2>1 DEF OpenLine, LastItem, Spoiling
  <2>3. Uncollected' \subseteq Uncollected
    BY <2>1, <2>2 DEF Uncollected, OrphanPayloads
  <2> QED
    BY <1>0, <2>1, <2>2, <2>3, NoneLeft
<1>5. ASSUME NEW i \in Item, Handle(i) PROVE OrphanInv'
  <2>1. UNCHANGED <<queue, tail, enq, tears>> /\ payload' \subseteq payload
        /\ OpenLine' = OpenLine /\ Spoiling' = Spoiling
    BY <1>5 DEF Handle, SkipEmpty, UploadFails, UploadAccepted, ResponseLost, Cleanup, DeletePayload,
                diskVars, histVars, OpenLine, LastItem, Spoiling
  <2>2. /\ done' \subseteq done \cup {i}
        /\ \/ mishaps' = mishaps /\ (done' = done \/ i \notin payload')
           \/ mishaps' = mishaps + 1
    BY <1>5 DEF Handle, SkipEmpty, UploadFails, UploadAccepted, ResponseLost, Cleanup, DeletePayload,
                histVars
  <2>3. Uncollected' \subseteq Uncollected \cup ({i} \cap payload' \cap done')
    BY <2>1, <2>2 DEF Uncollected, OrphanPayloads
  <2>4. CASE mishaps' = mishaps /\ (done' = done \/ i \notin payload')
    <3>1. Uncollected' \subseteq Uncollected
      BY <2>1, <2>3, <2>4 DEF Uncollected, OrphanPayloads
    <3> QED
      BY <1>0, <2>1, <2>4, <3>1, NoneLeft
  <2>5. CASE mishaps' = mishaps + 1
    <3>1. Uncollected' \subseteq Uncollected \cup {i}
      BY <2>3
    <3> QED
      BY <1>0, <2>1, <2>5, <3>1, OneLeft
  <2> QED
    BY <2>2, <2>4, <2>5
<1>6. CASE Complete
  <2>1. /\ UNCHANGED <<payload, enq, done, mishaps, tears>> /\ queue \ done \subseteq queue'
        /\ \/ queue' = queue /\ tail' = tail
           \/ tail' = "clean"
    BY <1>6 DEF Complete, Rewrite, Mine, diskVars, histVars
  <2>2. OpenLine' \subseteq OpenLine /\ Spoiling' <= Spoiling
    BY <2>1 DEF OpenLine, LastItem, Spoiling
  <2>3. Uncollected' \subseteq Uncollected
    BY <2>1, <2>2 DEF Uncollected, OrphanPayloads
  <2> QED
    BY <1>0, <2>1, <2>2, <2>3, NoneLeft
<1>7. CASE Crash
  <2>1. enq' = NoItem /\ payload' = payload /\ done' \subseteq done /\ mishaps' = mishaps + 1
    BY <1>7 DEF Crash, IterationEnds
  <2>2. CASE enq = NoItem
    <3>1. UNCHANGED <<queue, tail, enq, tears>>
      BY <1>7, <2>1, <2>2 DEF Crash, diskVars
    <3>2. OpenLine' = OpenLine /\ Spoiling' = Spoiling
      BY <3>1 DEF OpenLine, LastItem, Spoiling
    <3>3. Uncollected' \subseteq Uncollected
      BY <2>1, <3>1, <3>2 DEF Uncollected, OrphanPayloads
    <3> QED
      BY <1>0, <2>1, <3>1, <3>2, <3>3, NoneLeft
  <2>3. CASE enq # NoItem
    BY <1>0, <1>7, <2>1, <2>3, InterruptedLeaves DEF Crash
  <2> QED
    BY <2>2, <2>3
<1> QED
  BY <1>1, <1>2, <1>3, <1>4, <1>5, <1>6, <1>7 DEF Next, Enqueue, Settle

LEMMA OrphanInit == Init => OrphanInv
<1>1. Init => Uncollected = {} /\ Spoiling = 0 /\ tears = 0 /\ mishaps = 0
  BY DEF Init, Uncollected, OrphanPayloads, Spoiling
<1> QED
  BY <1>1, FS_EmptySet DEF OrphanInv

\* Payload files that nothing refers to come from mishaps and unfinished lines,
\* one from each, for any number of captures, crashes and failed deletions.
THEOREM OrphansCorrect == Spec => []OrphansBounded
<1>1. IInv /\ OrphanInv => OrphansBounded
  <2> SUFFICES ASSUME IInv, OrphanInv PROVE OrphansBounded
    OBVIOUS
  <2>1. /\ IsFiniteSet(Uncollected) /\ Cardinality(Uncollected) \in Nat /\ mishaps \in Nat /\ tears \in Nat
    BY UncollectedFinite DEF IInv
  <2>2. Cardinality(OrphanPayloads) <= Cardinality(Uncollected) /\ Cardinality(OrphanPayloads) \in Nat
    BY <2>1, FS_Subset, FS_CardinalityType DEF Uncollected
  <2>3. Spoiling \in {0, 1} /\ Cardinality(Uncollected) + Spoiling <= mishaps + tears
    BY DEF Spoiling, OrphanInv
  <2> QED
    BY <2>1, <2>2, <2>3 DEF OrphansBounded
<1> QED
  BY <1>1, OrphanInit, OrphanStep, InvCorrect, PTL DEF Spec
===============================================================================
