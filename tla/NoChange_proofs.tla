--------------------------- MODULE NoChange_proofs ---------------------------
(* Theorems about NoChange, for any number of captures, uploads, late and      *)
(* repeated deliveries and faults, any threshold and any pictures.             *)
(*                                                                             *)
(* Three inductive invariants: Inv (at most one event is open), Surplus (how   *)
(* many events may share a start, and what keeps the next one from opening)    *)
(* and Orderly (while nothing is late, repeated or failed, the events are      *)
(* those of the runs among the rows handled so far).                           *)
EXTENDS NoChange, TLAPS, FiniteSetTheorems, SequenceTheorems, WellFoundedInduction

\* A set of numbers has a least element, a bounded one a greatest.
LEMMA LeastExists ==
  ASSUME NEW S \in SUBSET Nat, S # {}
  PROVE  \E m \in S : \A i \in S : m <= i
<1>1. PICK m \in S : \A i \in S : ~ (<<i, m>> \in OpToRel(<, Nat))
  BY NatLessThanWellFounded, WFMin, Zenon
<1>2. \A i \in S : i \in Nat /\ m \in Nat /\ ~ (i < m)
  BY <1>1, Zenon DEF OpToRel
<1> QED
  BY <1>2

LEMMA GreatestExists ==
  ASSUME NEW n \in Nat, NEW S \in SUBSET (0..n), S # {}
  PROVE  \E m \in S : \A i \in S : i <= m
<1> DEFINE T == {n - i : i \in S}
<1>1. T \in SUBSET Nat /\ T # {}
  <2>1. \A i \in S : n - i \in Nat
    OBVIOUS
  <2> QED
    BY <2>1
<1>2. PICK d \in T : \A e \in T : d <= e
  <2> HIDE DEF T
  <2> QED
    BY <1>1, LeastExists
<1>3. PICK m \in S : d = n - m
  BY <1>2
<1>4. \A i \in S : n - m <= n - i
  BY <1>2, <1>3
<1>5. \A i \in S : i <= m
  BY <1>4
<1> QED
  BY <1>5

\* The query for the previous screenshot finds the last of the others.
LEMMA PreviousLast ==
  ASSUME NoChangeAssumption, TypeOK, NEW k, UpTo(k) \ {k} # {}
  PROVE  Previous(k) \in UpTo(k) \ {k} /\ \A i \in UpTo(k) \ {k} : i = Previous(k) \/ Precedes(i, Previous(k))
<1> DEFINE others == UpTo(k) \ {k}
<1>1. Len(rows) \in Nat /\ MaxCaptures \in Nat /\ \A j \in DOMAIN rows : rows[j] \in Row
  BY ElementOfSeq, LenProperties DEF TypeOK, NoChangeAssumption
<1>2. others \subseteq 1 .. Len(rows) /\ DOMAIN rows = 1 .. Len(rows)
  BY LenProperties DEF UpTo, Stored, TypeOK
<1>3. \A j \in others : rows[j].at \in 1 .. MaxCaptures
  BY <1>1, <1>2 DEF Row, Time
<1>4. PICK t \in {rows[j].at : j \in others} : \A u \in {rows[j].at : j \in others} : u <= t
  <2>1. {rows[j].at : j \in others} \in SUBSET (0 .. MaxCaptures) /\ {rows[j].at : j \in others} # {}
    BY <1>3
  <2> HIDE DEF others
  <2> QED
    BY <1>1, <2>1, GreatestExists
<1>5. PICK m \in {j \in others : rows[j].at = t} : \A i \in {j \in others : rows[j].at = t} : i <= m
  <2>1. {j \in others : rows[j].at = t} \in SUBSET (0 .. Len(rows)) /\ {j \in others : rows[j].at = t} # {}
    BY <1>1, <1>2, <1>4
  <2> HIDE DEF others
  <2> QED
    BY <1>1, <2>1, GreatestExists
<1>6. \A i \in others : i = m \/ Precedes(i, m)
  <2>1. TAKE i \in others
  <2>2. rows[i].at \in Nat /\ t \in Nat /\ rows[i].at <= t /\ i \in Nat /\ m \in Nat
    BY <1>2, <1>3, <1>4
  <2>3. CASE rows[i].at = t
    BY <1>5, <2>2, <2>3 DEF Precedes
  <2>4. CASE rows[i].at < t
    BY <1>5, <2>4 DEF Precedes
  <2> QED
    BY <2>2, <2>3, <2>4
<1> QED
  BY <1>5, <1>6 DEF Previous

\* The query for the previous screenshot returns a row.
LEMMA PreviousType ==
  ASSUME NoChangeAssumption, TypeOK
  PROVE  Previous(Newest) \in 0..MaxUploads
<1> DEFINE others == UpTo(Newest) \ {Newest}
<1>1. Len(rows) \in Nat /\ Len(rows) <= MaxUploads /\ MaxUploads \in Nat /\ MaxCaptures \in Nat
  BY LenProperties DEF TypeOK, NoChangeAssumption
<1>2. \A j \in DOMAIN rows : rows[j] \in Row
  BY ElementOfSeq, LenProperties DEF TypeOK
<1>3. others \subseteq DOMAIN rows /\ DOMAIN rows = 1..Len(rows)
  BY LenProperties DEF UpTo, Stored, TypeOK
<1>4. \A j \in others : rows[j].at \in 1..MaxCaptures
  BY <1>2, <1>3 DEF Row, Time
<1>5. CASE others = {}
  BY <1>1, <1>5 DEF Previous, NoRow
<1>6. CASE others # {}
  <2>1. Previous(Newest) \in others
    BY <1>6, PreviousLast
  <2> QED
    BY <1>1, <1>3, <2>1
<1> QED
  BY <1>5, <1>6

\* A streak that includes the newest row starts at a capture.
LEMMA StreakStartType ==
  ASSUME NoChangeAssumption, TypeOK, StreakRows(Newest) # {}
  PROVE  StreakStart(Newest) \in Time
<1>0. \A j \in DOMAIN rows : rows[j] \in Row
  BY ElementOfSeq, LenProperties DEF TypeOK
<1>1. \A j \in StreakRows(Newest) : rows[j].at \in Time
  BY <1>0 DEF StreakRows, UpTo, Stored, Row
<1>2. StreakTimes(Newest) \in SUBSET Nat /\ StreakTimes(Newest) # {} /\ StreakTimes(Newest) \subseteq Time
  BY <1>1 DEF StreakTimes, Time
<1>3. \E t \in StreakTimes(Newest) : \A u \in StreakTimes(Newest) : t <= u
  BY <1>2, LeastExists
<1>4. StreakStart(Newest) \in StreakTimes(Newest)
  BY <1>3 DEF StreakStart
<1> QED
  BY <1>2, <1>4

LEMMA StreakCountType ==
  ASSUME NoChangeAssumption, TypeOK
  PROVE  StreakCount(Newest) \in Nat
<1>1. IsFiniteSet(1..Len(rows))
  BY LenProperties, FS_Interval DEF TypeOK
<1>2. StreakRows(Newest) \subseteq 1..Len(rows)
  BY LenProperties DEF StreakRows, UpTo, Stored, TypeOK
<1> QED
  BY <1>1, <1>2, FS_Subset, FS_CardinalityType DEF StreakCount

\* Every outcome of a comparison is one of the four levels.
LEMMA LevelType ==
  ASSUME NEW h, NEW a, NEW b
  PROVE  Level(h, a, b) \in {"unknown", "none", "minor", "major"} /\ IsEffective(h, a, b) \in BOOLEAN
BY DEF Level, IsEffective

-------------------------------------------------------------------------------
(* At most one event is open, and it is well formed. *)

Unique == \A e, f \in OpenEvents : e = f

Inv == TypeOK /\ Unique

LEMMA EventAt ==
  ASSUME TypeOK
  PROVE  /\ Len(events) \in Nat /\ DOMAIN events = 1..Len(events)
         /\ \A e \in DOMAIN events : events[e] \in Event
         /\ Len(rows) \in Nat /\ DOMAIN rows = 1..Len(rows)
         /\ \A k \in DOMAIN rows : rows[k] \in Row
BY ElementOfSeq, LenProperties DEF TypeOK

LEMMA OpenEventIsOpen ==
  ASSUME Inv, OpenEvents # {}
  PROVE  OpenEvent \in OpenEvents /\ OpenEvents = {OpenEvent}
<1>1. PICK e \in OpenEvents : OpenEvents = {e}
  BY DEF Inv, Unique
<1>2. events[e].start <= events[e].start
  BY <1>1, EventAt DEF Inv, OpenEvents, Event, Time
<1>3. \E e0 \in OpenEvents : \A f \in OpenEvents : events[f].start <= events[e0].start
  BY <1>1, <1>2
<1>4. OpenEvent \in OpenEvents
  BY <1>3 DEF OpenEvent
<1> QED
  BY <1>1, <1>4

\* What one run of the state machine may do to the events.
LEMMA NoChangeStepInv ==
  ASSUME NoChangeAssumption, Inv, Newest \in DOMAIN rows, NoChangeStep
  PROVE  /\ events' \in Seq(Event)
         /\ Unique'
         /\ \A e \in DOMAIN events : e \in DOMAIN events' /\ (events[e].status = "closed" => events'[e] = events[e])
<1> USE DEF Inv
<1>0. /\ Len(events) \in Nat /\ DOMAIN events = 1..Len(events) /\ events \in Seq(Event)
      /\ \A e \in DOMAIN events : events[e] \in Event
      /\ rows[Newest] \in Row
  BY EventAt DEF TypeOK
<1>1. CASE UNCHANGED events
  BY <1>0, <1>1 DEF Unique, OpenEvents
<1>2. ASSUME OpenEvents # {}, NEW x \in Event, events' = [events EXCEPT ![OpenEvent] = x]
      PROVE  /\ events' \in Seq(Event)
             /\ Unique'
             /\ \A e \in DOMAIN events : e \in DOMAIN events' /\ (events[e].status = "closed" => events'[e] = events[e])
  <2>1. OpenEvent \in DOMAIN events /\ OpenEvents = {OpenEvent} /\ events[OpenEvent].status = "open"
    BY <1>2, OpenEventIsOpen DEF OpenEvents
  <2>2. events' \in Seq(Event) /\ DOMAIN events' = DOMAIN events
    BY <1>0, <1>2, <2>1, ExceptSeq
  <2>3. \A e \in DOMAIN events : e # OpenEvent => events'[e] = events[e]
    BY <1>2
  <2>4. OpenEvents' \subseteq {OpenEvent}
    BY <2>1, <2>2, <2>3 DEF OpenEvents
  <2> QED
    BY <2>1, <2>2, <2>3, <2>4 DEF Unique
<1>3. ASSUME NEW t \in Time, Close(t)
      PROVE  /\ events' \in Seq(Event)
             /\ Unique'
             /\ \A e \in DOMAIN events : e \in DOMAIN events' /\ (events[e].status = "closed" => events'[e] = events[e])
  <2>1. CASE OpenEvents = {}
    BY <1>1, <1>3, <2>1 DEF Close
  <2>2. CASE OpenEvents # {}
    <3>1. events[OpenEvent] \in Event /\ OpenEvent \in DOMAIN events
      BY <1>0, <2>2, OpenEventIsOpen DEF OpenEvents
    <3>2. [events[OpenEvent] EXCEPT !.end = t, !.status = "closed"] \in Event
      BY <3>1 DEF Event
    <3>3. events' = [events EXCEPT ![OpenEvent] = [events[OpenEvent] EXCEPT !.end = t, !.status = "closed"]]
      BY <1>0, <1>3, <2>2, <3>1 DEF Close, Event
    <3> QED
      BY <1>2, <2>2, <3>2, <3>3
  <2> QED
    BY <2>1, <2>2
<1>4. ASSUME NEW t \in Time, NEW n \in Nat, NEW v \in {"medium", "high"}, OpenOrExtend(t, n, v)
      PROVE  /\ events' \in Seq(Event)
             /\ Unique'
             /\ \A e \in DOMAIN events : e \in DOMAIN events' /\ (events[e].status = "closed" => events'[e] = events[e])
  <2>1. CASE OpenEvents = {}
    <3> DEFINE new == [start |-> t, end |-> Never, streak |-> n, severity |-> v, status |-> "open"]
    <3>1. new \in Event /\ events' = Append(events, new)
      BY <1>4, <2>1 DEF OpenOrExtend, Event, Never
    <3> HIDE DEF new
    <3>2. events' \in Seq(Event) /\ DOMAIN events' = 1..(Len(events) + 1)
          /\ \A e \in 1..Len(events) : events'[e] = events[e]
      BY <1>0, <3>1, AppendProperties, LenProperties
    <3>3. OpenEvents' \subseteq {Len(events) + 1}
      BY <1>0, <2>1, <3>2 DEF OpenEvents
    <3> QED
      BY <1>0, <3>2, <3>3 DEF Unique
  <2>2. CASE OpenEvents # {}
    <3>1. events[OpenEvent] \in Event /\ OpenEvent \in DOMAIN events
      BY <1>0, <2>2, OpenEventIsOpen DEF OpenEvents
    <3>2. [events[OpenEvent] EXCEPT !.streak = n, !.severity = v] \in Event
      BY <3>1 DEF Event
    <3>3. events' = [events EXCEPT ![OpenEvent] = [events[OpenEvent] EXCEPT !.streak = n, !.severity = v]]
      BY <1>0, <1>4, <2>2, <3>1 DEF OpenOrExtend, Event
    <3> QED
      BY <1>2, <2>2, <3>2, <3>3
  <2> QED
    BY <2>1, <2>2
<1>5. CASE rows[Newest].effective
  <2>1. rows[Newest].at \in Time
    BY <1>0 DEF Row
  <2>2. Close(rows[Newest].at)
    BY <1>5 DEF NoChangeStep, Unchanged
  <2> QED
    BY <1>3, <2>1, <2>2
<1>6. CASE ~ rows[Newest].effective /\ Unchanged(Newest) /\ LongEnough(StreakCount(Newest))
  <2>1. StreakCount(Newest) \in Nat /\ Severity(StreakCount(Newest)) \in {"medium", "high"}
    BY StreakCountType DEF Severity
  <2>2. StreakRows(Newest) # {}
    <3>1. StreakCount(Newest) # 0
      BY <1>6, <2>1 DEF LongEnough, NoChangeAssumption
    <3> QED
      BY <3>1, FS_EmptySet DEF StreakCount
  <2>3. StreakStart(Newest) \in Time
    BY <2>2, StreakStartType
  <2> QED
    BY <1>4, <1>6, <2>1, <2>3 DEF NoChangeStep
<1>7. CASE ~ rows[Newest].effective /\ ~ (Unchanged(Newest) /\ LongEnough(StreakCount(Newest)))
  BY <1>1, <1>7 DEF NoChangeStep
<1> QED
  BY <1>5, <1>6, <1>7

\* The newest row exists while an upload is handled.
LEMMA NewestExists ==
  ASSUME TypeOK, pc # "idle"
  PROVE  Newest \in DOMAIN rows /\ rows[Newest] \in Row
<1>1. rows # <<>> /\ rows \in Seq(Row)
  BY DEF TypeOK
<1>2. Len(rows) \in Nat /\ Len(rows) # 0 /\ DOMAIN rows = 1..Len(rows)
  BY <1>1, EmptySeq, LenProperties
<1> QED
  BY <1>2, EventAt DEF Newest

\* The rows stay well formed when the newest one is rewritten.
LEMMA RowRewritten ==
  ASSUME TypeOK, pc # "idle", NEW r \in Row, rows' = [rows EXCEPT ![Newest] = r]
  PROVE  rows' \in Seq(Row) /\ Len(rows') <= MaxUploads /\ rows' # <<>>
<1>0. rows \in Seq(Row) /\ Len(rows) <= MaxUploads /\ Newest \in 1..Len(rows) /\ Len(rows) \in Nat
  BY NewestExists, LenProperties DEF TypeOK
<1>1. rows' \in Seq(Row) /\ Len(rows') = Len(rows)
  BY <1>0, ExceptSeq
<1> QED
  BY <1>0, <1>1, EmptySeq

LEMMA InvStep == NoChangeAssumption /\ Inv /\ [Next]_vars => Inv'
<1> SUFFICES ASSUME NoChangeAssumption, Inv, [Next]_vars PROVE Inv'
  OBVIOUS
<1> USE DEF Inv
<1>0. TypeOK /\ Unique /\ MaxFaults \in Nat /\ MaxLate \in Nat /\ MaxRepeats \in Nat /\ MaxUploads \in Nat
  BY DEF NoChangeAssumption
<1>1. ASSUME UNCHANGED events PROVE Unique' /\ events' \in Seq(Event)
  BY <1>1, <1>0 DEF Unique, OpenEvents, TypeOK
<1>2. ASSUME NEW t \in Time, NEW p \in Picture, Receive(t, p) PROVE Inv'
  <2> DEFINE new == [at |-> t, picture |-> p, upload |-> "pending", analysis |-> "pending",
                     prev |-> NoRow, compared |-> FALSE, level |-> "unknown", effective |-> FALSE]
  <2>1. /\ rows' = Append(rows, new) /\ Len(rows) < MaxUploads /\ pc' = "received"
        /\ late' <= MaxLate /\ repeats' <= MaxRepeats
        /\ late' \in {late, late + 1} /\ repeats' \in {repeats, repeats + 1}
        /\ UNCHANGED <<events, faults>>
    BY <1>2 DEF Receive, Newest
  <2>2. new \in Row
    BY <1>0 DEF Row, NoRow
  <2> HIDE DEF new
  <2>3. rows' \in Seq(Row) /\ Len(rows') = Len(rows) + 1
    BY <1>0, <2>1, <2>2, AppendProperties DEF TypeOK
  <2>4. Len(rows') <= MaxUploads /\ rows' # <<>>
    BY <1>0, <2>1, <2>3, EmptySeq, LenProperties DEF TypeOK
  <2>5. late' \in 0..MaxLate /\ repeats' \in 0..MaxRepeats
    BY <1>0, <2>1 DEF TypeOK
  <2> QED
    BY <1>0, <1>1, <2>1, <2>3, <2>4, <2>5 DEF TypeOK
<1>3. ASSUME pc # "idle", NEW r \in Row, rows' = [rows EXCEPT ![Newest] = r],
             events' \in Seq(Event), Unique', pc' \in {"idle", "received", "stored", "diffed"},
             late' = late, repeats' = repeats,
             faults' = faults \/ (faults < MaxFaults /\ faults' = faults + 1)
      PROVE  Inv'
  <2>1. rows' \in Seq(Row) /\ Len(rows') <= MaxUploads /\ rows' # <<>>
    BY <1>0, <1>3, RowRewritten
  <2>2. faults' \in 0..MaxFaults
    BY <1>0, <1>3 DEF TypeOK
  <2> QED
    BY <1>0, <1>3, <2>1, <2>2 DEF TypeOK
<1>4. CASE Finalize \/ StoreFails
  <2>1. rows[Newest] \in Row
    BY <1>0, <1>4, NewestExists DEF Finalize, StoreFails
  <2>2. PICK u \in {"completed", "failed"} : rows' = [rows EXCEPT ![Newest].upload = u]
    BY <1>4 DEF Finalize, StoreFails
  <2>3. [rows[Newest] EXCEPT !.upload = u] \in Row
    BY <2>1 DEF Row
  <2>4. rows' = [rows EXCEPT ![Newest] = [rows[Newest] EXCEPT !.upload = u]]
    BY <2>2
  <2> QED
    BY <1>1, <1>3, <1>4, <2>3, <2>4 DEF Finalize, StoreFails, histVars
<1>5. CASE Compare
  <2>1. rows[Newest] \in Row
    BY <1>0, <1>5, NewestExists DEF Compare
  <2>2. PICK l \in {"unknown", "none", "minor", "major"}, b \in BOOLEAN : Diffed(l, b)
    BY <1>5, LevelType DEF Compare
  <2> DEFINE new == [rows[Newest] EXCEPT !.compared = TRUE, !.analysis = "completed",
                                         !.prev = Previous(Newest), !.level = l, !.effective = b]
  <2>3. new \in Row
    BY <1>0, <2>1, PreviousType DEF Row
  <2>4. rows' = [rows EXCEPT ![Newest] = new]
    BY <2>2 DEF Diffed
  <2> HIDE DEF new
  <2> QED
    BY <1>1, <1>3, <1>5, <2>3, <2>4 DEF Compare, histVars
<1>6. CASE ApplyNoChange
  <2>1. Newest \in DOMAIN rows /\ NoChangeStep
    BY <1>0, <1>6, NewestExists DEF ApplyNoChange
  <2>2. events' \in Seq(Event) /\ Unique'
    BY <2>1, NoChangeStepInv
  <2> QED
    BY <1>0, <1>6, <2>2 DEF ApplyNoChange, histVars, TypeOK
<1>7. CASE AnalysisFails
  <2>1. Newest \in DOMAIN rows /\ rows[Newest] \in Row
    BY <1>0, <1>7, NewestExists DEF AnalysisFails
  <2>2. events' \in Seq(Event) /\ Unique'
    BY <1>1, <1>7, <2>1, NoChangeStepInv DEF AnalysisFails
  <2>3. [rows[Newest] EXCEPT !.analysis = "failed"] \in Row
    BY <2>1 DEF Row
  <2>4. rows' = [rows EXCEPT ![Newest] = [rows[Newest] EXCEPT !.analysis = "failed"]]
    BY <1>7 DEF AnalysisFails
  <2> QED
    BY <1>3, <1>7, <2>2, <2>3, <2>4 DEF AnalysisFails
<1>8. CASE Crash
  <2>1. faults' \in 0..MaxFaults
    BY <1>0, <1>8 DEF Crash, TypeOK
  <2> QED
    BY <1>0, <1>1, <1>8, <2>1 DEF Crash, TypeOK
<1>9. CASE UNCHANGED vars
  BY <1>0, <1>1, <1>9 DEF vars, TypeOK
<1> QED
  BY <1>2, <1>4, <1>5, <1>6, <1>7, <1>8, <1>9 DEF Next, Handle

LEMMA InvInit == NoChangeAssumption /\ Init => Inv
<1> SUFFICES ASSUME NoChangeAssumption, Init PROVE Inv
  OBVIOUS
<1>1. rows \in Seq(Row) /\ Len(rows) = 0 /\ events \in Seq(Event) /\ DOMAIN events = {}
  BY EmptySeq, LenProperties DEF Init
<1> QED
  BY <1>1 DEF Init, Inv, TypeOK, Unique, OpenEvents, NoChangeAssumption

THEOREM InvCorrect == Spec => []Inv
BY NoChangeAssumption, InvInit, InvStep, PTL DEF Spec

\* Every variable keeps its type: every row and every event is well formed.
THEOREM TypeCorrect == Spec => []TypeOK
<1>1. Inv => TypeOK
  BY DEF Inv
<1> QED
  BY <1>1, InvCorrect, PTL

\* A screen never has two open events, whatever is late, repeated or fails.
THEOREM OneOpenEventCorrect == Spec => []OneOpenEvent
<1>1. Inv => OneOpenEvent
  <2> SUFFICES ASSUME Inv PROVE OneOpenEvent
    OBVIOUS
  <2>1. CASE OpenEvents = {}
    BY <2>1, FS_EmptySet DEF OneOpenEvent
  <2>2. CASE OpenEvents # {}
    <3>1. PICK e : OpenEvents = {e}
      BY <2>2, OpenEventIsOpen
    <3>2. Cardinality(OpenEvents) = 1
      BY <3>1, FS_Singleton
    <3> QED
      BY <3>2 DEF OneOpenEvent
  <2> QED
    BY <2>1, <2>2
<1> QED
  BY <1>1, InvCorrect, PTL

\* A closed event is never changed again.
THEOREM ClosedCorrect == Spec => ClosedIsFinal
<1>1. ASSUME Inv, [Next]_vars
      PROVE  [\A e \in DOMAIN events :
                /\ e \in DOMAIN events'
                /\ events[e].status = "closed" => events'[e] = events[e]]_vars
  <2>1. CASE UNCHANGED events
    BY <2>1
  <2>2. CASE pc # "idle" /\ NoChangeStep
    BY <1>1, <2>2, NoChangeAssumption, NewestExists, NoChangeStepInv DEF Inv
  <2>3. UNCHANGED events \/ (pc # "idle" /\ NoChangeStep)
    BY <1>1 DEF Next, Receive, Handle, Finalize, Compare, ApplyNoChange, StoreFails, AnalysisFails,
                Crash, vars
  <2> QED
    BY <2>1, <2>2, <2>3
<1> QED
  BY <1>1, InvCorrect, PTL DEF Spec, ClosedIsFinal

LEMMA StreakStarts ==
  ASSUME NoChangeAssumption, TypeOK, NEW k, StreakRows(k) # {}
  PROVE  /\ \E j \in StreakRows(k) : rows[j].at = StreakStart(k)
         /\ \A j \in StreakRows(k) : StreakStart(k) <= rows[j].at
<1>1. \A j \in StreakRows(k) : rows[j].at \in Nat
  BY EventAt DEF StreakRows, UpTo, Stored, Row, Time
<1>2. StreakTimes(k) \in SUBSET Nat /\ StreakTimes(k) # {}
  BY <1>1 DEF StreakTimes
<1>3. StreakStart(k) \in StreakTimes(k) /\ \A u \in StreakTimes(k) : StreakStart(k) <= u
  BY <1>2, LeastExists DEF StreakStart
<1> QED
  BY <1>3 DEF StreakTimes

\* Equal pictures are no change, whether the pixels are there or not; different
\* ones always are one.
LEMMA EqualPictures ==
  ASSUME NEW p, NEW px \in {Pixels(p, p), <<Missing, Missing>>}
  PROVE  Level(Hash(p, p), px[1], px[2]) = "none" /\ ~ IsEffective(Hash(p, p), px[1], px[2])
<1>1. Hash(p, p) = 0 /\ \/ px[1] = 1000 /\ px[2] = 0
                        \/ px[1] = Missing /\ px[2] = Missing
  BY DEF Hash, Pixels, Missing
<1>2. Level(0, px[1], px[2]) = "none"
  BY <1>1 DEF Level, Quiet, Present, Missing, RatioAtLeast, Blocks
<1>3. WeakSignals(0, px[1], px[2]) = {}
  BY <1>1 DEF WeakSignals, Present, Missing, RatioAtLeast, Blocks
<1> QED
  BY <1>1, <1>2, <1>3, FS_EmptySet DEF IsEffective

LEMMA OtherPictures ==
  ASSUME NEW p, NEW q, p # q, NEW a, NEW b
  PROVE  Level(Hash(p, q), a, b) = "major" /\ IsEffective(Hash(p, q), a, b)
<1>1. Hash(p, q) = 128 /\ Present(128) /\ 128 >= 12 /\ ~ (128 <= 2)
  BY DEF Hash, FarDigest, Present, Missing
<1>2. ~ Quiet(128, a, b) /\ Strong(128, a, b)
  BY <1>1 DEF Quiet, Strong
<1> QED
  BY <1>1, <1>2 DEF Level, IsEffective

-----------------------------------------------------------------------------
(* Surplus events *)

Starting(t) == {e \in DOMAIN events : events[e].start = t}
IsLate == \E j \in Stored : rows[Newest].at < rows[j].at

\* A later effective change ends every streak that starts at t.
Blocked(t) == \E c \in Stored : rows[c].effective /\ rows[c].at > t

\* As many events as t may have are left over by the late uploads, one of which may
\* be in hand; when there is one more, no streak can open the next.
Covered(t) ==
  /\ Cardinality(Starting(t)) <= late + 1
  /\ Cardinality(Starting(t)) = late + 1 => OpenEvents # {} \/ Blocked(t)
  /\ pc # "idle" /\ IsLate => Cardinality(Starting(t)) <= late

Surplus ==
  /\ \A j, k \in DOMAIN rows : rows[j].at = rows[k].at => rows[j].picture = rows[k].picture
  /\ \A e \in DOMAIN events : \E j \in Stored : rows[j].at = events[e].start /\ (pc # "idle" => j # Newest)
  /\ pc \in {"stored", "diffed"} => Newest \in Stored
  /\ pc \in {"received", "stored"} => ~ rows[Newest].effective
  /\ pc = "diffed" /\ rows[Newest].effective => \A j \in Stored : rows[j].at = rows[Newest].at => j = Newest
  /\ \A t \in Time : Covered(t)

LEMMA StartingFinite ==
  ASSUME TypeOK, NEW t
  PROVE  IsFiniteSet(Starting(t)) /\ Cardinality(Starting(t)) \in Nat /\ (Cardinality(Starting(t)) # 0 => Starting(t) # {})
<1>1. IsFiniteSet(1 .. Len(events))
  BY EventAt, FS_Interval
<1>2. Starting(t) \subseteq 1 .. Len(events)
  BY EventAt DEF Starting
<1> QED
  BY <1>1, <1>2, FS_Subset, FS_CardinalityType, FS_EmptySet

\* A row that is rewritten while it is handled.
LEMMA RowsKept ==
  ASSUME Inv, Surplus, pc # "idle", UNCHANGED <<events, late>>, Newest' = Newest, DOMAIN rows' = DOMAIN rows,
         \A k \in DOMAIN rows :
           /\ rows'[k].at = rows[k].at /\ rows'[k].picture = rows[k].picture
           /\ k # Newest => rows'[k].upload = rows[k].upload /\ rows'[k].effective = rows[k].effective,
         Newest \in Stored /\ rows[Newest].effective => Newest \in Stored' /\ rows'[Newest].effective
  PROVE  /\ \A j, k \in DOMAIN rows' : rows'[j].at = rows'[k].at => rows'[j].picture = rows'[k].picture
         /\ \A e \in DOMAIN events' : \E j \in Stored' : rows'[j].at = events'[e].start /\ (pc' # "idle" => j # Newest')
         /\ \A t \in Time : Covered(t)'
<1>1. \A k \in DOMAIN rows : k # Newest => (k \in Stored' <=> k \in Stored)
  BY DEF Stored
<1>2. \A e \in DOMAIN events : \E j \in Stored' : rows'[j].at = events[e].start /\ j # Newest
  <2> SUFFICES ASSUME NEW e \in DOMAIN events PROVE \E j \in Stored' : rows'[j].at = events[e].start /\ j # Newest
    OBVIOUS
  <2>1. PICK j \in Stored : rows[j].at = events[e].start /\ j # Newest
    BY DEF Surplus
  <2>2. j \in DOMAIN rows
    BY DEF Stored
  <2> QED
    BY <1>1, <2>1, <2>2
<1>3. ASSUME NEW t \in Time PROVE Covered(t)'
  <2>1. Starting(t)' = Starting(t) /\ OpenEvents' = OpenEvents
    BY DEF Starting, OpenEvents
  <2>2. Blocked(t) => Blocked(t)'
    <3> SUFFICES ASSUME NEW c \in Stored, rows[c].effective, rows[c].at > t PROVE Blocked(t)'
      BY DEF Blocked
    <3>1. c \in DOMAIN rows
      BY DEF Stored
    <3>2. c \in Stored' /\ rows'[c].effective /\ rows'[c].at > t
      BY <1>1, <3>1
    <3> QED
      BY <3>2 DEF Blocked
  <2>3. IsLate' => IsLate
    <3> SUFFICES ASSUME NEW j \in Stored', rows'[Newest].at < rows'[j].at PROVE IsLate
      BY DEF IsLate
    <3>1. j \in DOMAIN rows /\ Newest \in DOMAIN rows
      BY NewestExists DEF Stored, Inv
    <3>2. rows[Newest].at < rows[j].at
      BY <3>1
    <3>3. j # Newest
      BY <3>1, <3>2, EventAt DEF Inv, Row, Time
    <3> QED
      BY <1>1, <3>1, <3>2, <3>3 DEF IsLate
  <2>4. Covered(t)
    BY DEF Surplus
  <2> QED
    BY <2>1, <2>2, <2>3, <2>4 DEF Covered
<1> QED
  BY <1>2, <1>3 DEF Surplus

LEMMA SurplusReceived ==
  ASSUME NoChangeAssumption, Inv, Surplus, NEW t \in Time, NEW p \in Picture, Receive(t, p)
  PROVE  Surplus'
<1> DEFINE new == [at |-> t, picture |-> p, upload |-> "pending", analysis |-> "pending",
                   prev |-> NoRow, compared |-> FALSE, level |-> "unknown", effective |-> FALSE]
<1>1. /\ rows' = Append(rows, new) /\ pc = "idle" /\ pc' = "received" /\ UNCHANGED events
      /\ \A k \in DOMAIN rows : rows[k].at = t => rows[k].picture = p
      /\ late' = IF \E k \in Stored : t < rows[k].at THEN late + 1 ELSE late
  BY DEF Receive
<1>2. new.at = t /\ new.picture = p /\ new.upload = "pending" /\ ~ new.effective /\ new \in Row
  BY DEF Row, NoRow, NoChangeAssumption
<1> HIDE DEF new
<1>3. rows \in Seq(Row) /\ late \in Nat
  BY DEF Inv, TypeOK
<1>4. /\ Len(rows) \in Nat /\ Newest = Len(rows) /\ Newest' = Newest + 1 /\ DOMAIN rows = 1 .. Newest
      /\ DOMAIN rows' = 1 .. Newest' /\ rows'[Newest'] = new
      /\ \A k \in DOMAIN rows : rows'[k] = rows[k] /\ k # Newest'
  BY <1>1, <1>2, <1>3, AppendProperties, LenProperties DEF Newest
<1>5. Stored' = Stored
  BY <1>2, <1>4 DEF Stored
<1>6. \A k \in Stored : k \in DOMAIN rows
  BY DEF Stored
<1>7. \A j, k \in DOMAIN rows' : rows'[j].at = rows'[k].at => rows'[j].picture = rows'[k].picture
  <2> SUFFICES ASSUME NEW j \in DOMAIN rows', NEW k \in DOMAIN rows', rows'[j].at = rows'[k].at
               PROVE  rows'[j].picture = rows'[k].picture
    OBVIOUS
  <2>1. (j \in DOMAIN rows \/ j = Newest') /\ (k \in DOMAIN rows \/ k = Newest')
    BY <1>4
  <2>2. CASE j \in DOMAIN rows /\ k \in DOMAIN rows
    BY <1>4, <2>2 DEF Surplus
  <2>3. CASE j = Newest' \/ k = Newest'
    BY <1>1, <1>2, <1>4, <2>1, <2>3
  <2> QED
    BY <2>1, <2>2, <2>3
<1>8. \A e \in DOMAIN events' : \E j \in Stored' : rows'[j].at = events'[e].start /\ (pc' # "idle" => j # Newest')
  <2> SUFFICES ASSUME NEW e \in DOMAIN events PROVE \E j \in Stored : rows'[j].at = events[e].start /\ j # Newest'
    BY <1>1, <1>5
  <2>1. PICK j \in Stored : rows[j].at = events[e].start
    BY DEF Surplus
  <2> QED
    BY <1>4, <1>6, <2>1
<1>9. ASSUME NEW u \in Time PROVE Covered(u)'
  <2>1. Starting(u)' = Starting(u) /\ OpenEvents' = OpenEvents
    BY <1>1 DEF Starting, OpenEvents
  <2>2. Blocked(u)' <=> Blocked(u)
    BY <1>4, <1>5, <1>6 DEF Blocked
  <2>3. IsLate' => late' = late + 1
    BY <1>1, <1>2, <1>4, <1>5, <1>6 DEF IsLate
  <2>4. late' = late \/ late' = late + 1
    BY <1>1
  <2>5. Cardinality(Starting(u)) \in Nat
    BY StartingFinite DEF Inv
  <2>6. Covered(u)
    BY DEF Surplus
  <2> DEFINE n == Cardinality(Starting(u))
  <2> HIDE DEF n
  <2>7. /\ n \in Nat /\ n <= late + 1 /\ (n = late + 1 => OpenEvents # {} \/ Blocked(u))
        /\ Cardinality(Starting(u))' = n
    BY <2>1, <2>5, <2>6 DEF Covered, n
  <2>8. n <= late' + 1 /\ (n = late' + 1 => OpenEvents' # {} \/ Blocked(u)') /\ (IsLate' => n <= late')
    BY <1>3, <2>1, <2>2, <2>3, <2>4, <2>7
  <2> QED
    BY <2>7, <2>8 DEF Covered
<1> QED
  BY <1>1, <1>2, <1>4, <1>7, <1>8, <1>9 DEF Surplus

\* A row is no effective change when another one has the same time.
LEMMA ComparedAlone ==
  ASSUME NoChangeAssumption, Inv, Surplus, Compare, NEW j \in Stored, rows[j].at = rows[Newest].at, j # Newest
  PROVE  \E level : Diffed(level, FALSE)
<1> DEFINE m == Previous(Newest)
<1>1. j \in UpTo(Newest) \ {Newest} /\ Newest \in DOMAIN rows
  BY NewestExists, EventAt DEF UpTo, Inv, Row, Time, Compare
<1>2. m \in UpTo(Newest) \ {Newest} /\ (j = m \/ Precedes(j, m))
  BY <1>1, PreviousLast DEF Inv
<1>3. m \in DOMAIN rows /\ rows[m].at <= rows[Newest].at /\ m # NoRow
  BY <1>2, EventAt DEF UpTo, Stored, Inv, NoRow
<1>4. rows[m].at = rows[Newest].at
  BY <1>1, <1>2, <1>3, EventAt DEF Precedes, Inv, Row, Time, UpTo, Stored
<1>5. rows[m].picture = rows[Newest].picture
  BY <1>1, <1>3, <1>4 DEF Surplus
<1> DEFINE p == rows[m].picture
<1>6. \E px \in {Pixels(p, p), <<Missing, Missing>>} :
        Diffed(Level(Hash(p, p), px[1], px[2]), IsEffective(Hash(p, p), px[1], px[2]))
  BY <1>3, <1>5 DEF Compare
<1>7. PICK px \in {Pixels(p, p), <<Missing, Missing>>} :
        Diffed(Level(Hash(p, p), px[1], px[2]), IsEffective(Hash(p, p), px[1], px[2]))
  BY <1>6
<1> HIDE DEF p
<1>8. IsEffective(Hash(p, p), px[1], px[2]) = FALSE
  BY EqualPictures, LevelType
<1> QED
  BY <1>7, <1>8

LEMMA SurplusCompared ==
  ASSUME NoChangeAssumption, Inv, Surplus, Compare
  PROVE  Surplus'
<1>1. pc = "stored" /\ pc' = "diffed" /\ UNCHANGED <<events, late>> /\ Newest \in DOMAIN rows /\ rows[Newest] \in Row
  BY NewestExists DEF Compare, histVars, Inv
<1>2. ASSUME NEW level, NEW effective, Diffed(level, effective)
      PROVE  /\ DOMAIN rows' = DOMAIN rows /\ Newest' = Newest /\ rows'[Newest].effective = effective
             /\ \A k \in DOMAIN rows :
                  /\ rows'[k].at = rows[k].at /\ rows'[k].picture = rows[k].picture /\ rows'[k].upload = rows[k].upload
                  /\ k # Newest => rows'[k].effective = rows[k].effective
  <2> DEFINE new == [rows[Newest] EXCEPT !.compared = TRUE, !.analysis = "completed",
                                         !.prev = Previous(Newest), !.level = level, !.effective = effective]
  <2>1. rows' = [rows EXCEPT ![Newest] = new]
    BY <1>2 DEF Diffed
  <2>2. new.at = rows[Newest].at /\ new.picture = rows[Newest].picture /\ new.upload = rows[Newest].upload
        /\ new.effective = effective
    BY <1>1 DEF Row
  <2> HIDE DEF new
  <2>3. Len(rows') = Len(rows)
    BY <1>1, <2>1, EventAt DEF Inv
  <2> QED
    BY <1>1, <2>1, <2>2, <2>3 DEF Newest
<1>3. \E level, effective : Diffed(level, effective)
  BY DEF Compare
<1>4. PICK level, effective : Diffed(level, effective)
  BY <1>3
<1>5. Stored' = Stored
  BY <1>2, <1>4 DEF Stored
<1>6. ~ rows[Newest].effective /\ Newest \in Stored
  BY <1>1 DEF Surplus
<1>7. /\ \A j, k \in DOMAIN rows' : rows'[j].at = rows'[k].at => rows'[j].picture = rows'[k].picture
      /\ \A e \in DOMAIN events' : \E j \in Stored' : rows'[j].at = events'[e].start /\ (pc' # "idle" => j # Newest')
      /\ \A t \in Time : Covered(t)'
  <2>1. /\ DOMAIN rows' = DOMAIN rows /\ Newest' = Newest
        /\ \A k \in DOMAIN rows :
             /\ rows'[k].at = rows[k].at /\ rows'[k].picture = rows[k].picture
             /\ k # Newest => rows'[k].upload = rows[k].upload /\ rows'[k].effective = rows[k].effective
    BY <1>2, <1>4
  <2> QED
    BY <1>1, <1>6, <2>1, RowsKept
<1>8. ASSUME NEW j \in Stored, rows[j].at = rows[Newest].at, j # Newest PROVE ~ rows'[Newest].effective
  <2>1. PICK l : Diffed(l, FALSE)
    BY <1>8, ComparedAlone
  <2>2. rows'[Newest].effective = FALSE
    BY <1>2, <2>1
  <2> QED
    BY <2>2
<1>9. \A j \in Stored : j \in DOMAIN rows /\ rows'[j].at = rows[j].at
  BY <1>2, <1>4 DEF Stored
<1>10. pc' = "diffed" /\ rows'[Newest].effective => \A j \in Stored' : rows'[j].at = rows'[Newest].at => j = Newest
  BY <1>2, <1>4, <1>5, <1>6, <1>8, <1>9
<1>11. Newest' = Newest
  BY <1>2, <1>4
<1> QED
  BY <1>1, <1>5, <1>6, <1>7, <1>10, <1>11 DEF Surplus

\* The state machine has run, and the rows have kept what the queries read.
SameRows ==
  /\ Newest' = Newest /\ DOMAIN rows' = DOMAIN rows
  /\ \A k \in DOMAIN rows :
       /\ rows'[k].at = rows[k].at /\ rows'[k].picture = rows[k].picture
       /\ rows'[k].upload = rows[k].upload /\ rows'[k].effective = rows[k].effective

LEMMA StoredSame ==
  ASSUME SameRows
  PROVE  Stored' = Stored /\ \A t : Blocked(t)' <=> Blocked(t)
<1>1. Stored' = Stored /\ \A k \in Stored : k \in DOMAIN rows
  BY DEF SameRows, Stored
<1> QED
  BY <1>1 DEF SameRows, Blocked

\* The rows that are kept, and events that begin at stored rows, suffice when the
\* upload is done with.
LEMMA SurplusIdle ==
  ASSUME Surplus, SameRows, pc' = "idle",
         \A e \in DOMAIN events' : \E j \in Stored : rows[j].at = events'[e].start,
         \A t \in Time : Covered(t)'
  PROVE  Surplus'
<1>1. \A j, k \in DOMAIN rows' : rows'[j].at = rows'[k].at => rows'[j].picture = rows'[k].picture
  BY DEF SameRows, Surplus
<1>2. Stored' = Stored /\ \A j \in Stored : rows'[j].at = rows[j].at
  BY StoredSame DEF SameRows, Stored
<1> QED
  BY <1>1, <1>2 DEF Surplus

\* An upload in hand that is effective ends the streaks of every time that has
\* its full number of events.
LEMMA EffectiveBlocks ==
  ASSUME NoChangeAssumption, Inv, Surplus, pc = "diffed", rows[Newest].effective,
         NEW t \in Time, Cardinality(Starting(t)) = late + 1
  PROVE  Blocked(t)
<1>1. Newest \in Stored /\ Newest \in DOMAIN rows /\ rows[Newest].at \in Nat /\ t \in Nat /\ late \in Nat
  BY NewestExists DEF Surplus, Inv, Row, Time, TypeOK
<1>2. Starting(t) # {}
  BY <1>1, StartingFinite DEF Inv
<1>3. PICK e \in DOMAIN events : events[e].start = t
  BY <1>2 DEF Starting
<1>4. PICK j \in Stored : rows[j].at = t /\ j # Newest
  BY <1>3 DEF Surplus
<1>5. rows[Newest].at # t
  BY <1>4 DEF Surplus
<1>6. ~ IsLate
  <2>1. ~ (Cardinality(Starting(t)) <= late)
    BY <1>1
  <2> QED
    BY <2>1 DEF Surplus, Covered
<1>7. ~ (rows[Newest].at < t)
  BY <1>4, <1>6 DEF IsLate
<1> QED
  BY <1>1, <1>5, <1>7 DEF Blocked

\* A streak that can open an event starts at a time that has less than its full
\* number of them.
LEMMA OpensBelow ==
  ASSUME NoChangeAssumption, Inv, Surplus, pc = "diffed", OpenEvents = {},
         NEW j \in StreakRows(Newest), NEW t \in Time, rows[j].at = t
  PROVE  Cardinality(Starting(t)) <= late
<1>1. Covered(t) /\ Cardinality(Starting(t)) \in Nat /\ late \in Nat
  BY StartingFinite DEF Surplus, Inv, TypeOK
<1>2. ASSUME Blocked(t) PROVE IsLate
  <2>1. PICK c \in Stored : rows[c].effective /\ rows[c].at > t
    BY <1>2 DEF Blocked
  <2>2. c \in DOMAIN rows /\ rows[c].at \in Nat /\ Newest \in DOMAIN rows /\ rows[Newest].at \in Nat /\ t \in Nat
    BY EventAt, NewestExists DEF Stored, Inv, Row, Time
  <2>3. ~ Unchanged(c) /\ Precedes(j, c)
    BY <2>1, <2>2 DEF Unchanged, Precedes
  <2>4. c \notin UpTo(Newest)
    BY <2>3 DEF StreakRows
  <2>5. rows[Newest].at < rows[c].at
    BY <2>1, <2>2, <2>4 DEF UpTo
  <2> QED
    BY <2>5 DEF IsLate
<1> DEFINE n == Cardinality(Starting(t))
<1>3. n \in Nat /\ n <= late + 1 /\ (n = late + 1 => Blocked(t)) /\ (IsLate => n <= late)
  BY <1>1 DEF Covered
<1> HIDE DEF n
<1>4. n <= late
  BY <1>1, <1>2, <1>3
<1> QED
  BY <1>4 DEF n

LEMMA SurplusStepped ==
  ASSUME NoChangeAssumption, Inv, Surplus, SameRows, pc = "diffed", pc' = "idle", UNCHANGED late, NoChangeStep
  PROVE  Surplus'
<1>1. /\ Newest \in DOMAIN rows /\ late \in Nat /\ DOMAIN events = 1 .. Len(events) /\ Len(events) \in Nat
      /\ events \in Seq(Event) /\ \A e \in DOMAIN events : events[e] \in Event
  BY NewestExists, EventAt DEF Inv, TypeOK
<1>2. \A e \in DOMAIN events : \E j \in Stored : rows[j].at = events[e].start
  BY DEF Surplus
<1>3. ASSUME DOMAIN events' = DOMAIN events, \A e \in DOMAIN events : events'[e].start = events[e].start,
             OpenEvents' = OpenEvents \/ rows[Newest].effective
      PROVE  Surplus'
  <2>1. ASSUME NEW t \in Time PROVE Covered(t)'
    <3>1. Starting(t)' = Starting(t)
      BY <1>3 DEF Starting
    <3>2. Covered(t) /\ (rows[Newest].effective /\ Cardinality(Starting(t)) = late + 1 => Blocked(t))
      BY EffectiveBlocks DEF Surplus
    <3>3. Blocked(t)' <=> Blocked(t)
      BY StoredSame
    <3> QED
      BY <1>3, <3>1, <3>2, <3>3 DEF Covered
  <2> QED
    BY <1>2, <1>3, <2>1, SurplusIdle
<1>4. CASE UNCHANGED events
  BY <1>3, <1>4 DEF OpenEvents
<1>5. ASSUME OpenEvents # {}, NEW x, x.start = events[OpenEvent].start, events' = [events EXCEPT ![OpenEvent] = x],
             x.status = "open" \/ rows[Newest].effective
      PROVE  Surplus'
  <2>1. OpenEvent \in DOMAIN events /\ events[OpenEvent].status = "open"
    BY <1>5, OpenEventIsOpen DEF OpenEvents
  <2>2. OpenEvents' = OpenEvents \/ rows[Newest].effective
    BY <1>5, <2>1 DEF OpenEvents
  <2> QED
    BY <1>3, <1>5, <2>1, <2>2
<1>6. CASE rows[Newest].effective
  <2>1. Close(rows[Newest].at)
    BY <1>6 DEF NoChangeStep, Unchanged
  <2>2. CASE OpenEvents # {}
    <3> DEFINE x == [events[OpenEvent] EXCEPT !.end = rows[Newest].at, !.status = "closed"]
    <3>1. OpenEvent \in DOMAIN events /\ events[OpenEvent] \in Event
      BY <1>1, <2>2, OpenEventIsOpen DEF OpenEvents
    <3>2. x.start = events[OpenEvent].start
      BY <3>1 DEF Event
    <3>3. events' = [events EXCEPT ![OpenEvent] = x]
      BY <1>1, <2>1, <2>2, <3>1 DEF Close, Event
    <3> HIDE DEF x
    <3> QED
      BY <1>5, <1>6, <2>2, <3>2, <3>3
  <2> QED
    BY <1>4, <2>1, <2>2 DEF Close
<1>7. ASSUME ~ rows[Newest].effective, Unchanged(Newest), LongEnough(StreakCount(Newest))
      PROVE  Surplus'
  <2> DEFINE t == StreakStart(Newest)
             n == StreakCount(Newest)
             v == Severity(n)
  <2>1. OpenOrExtend(t, n, v)
    BY <1>7 DEF NoChangeStep
  <2>2. StreakRows(Newest) # {}
    <3>1. StreakCount(Newest) # 0
      BY <1>7, StreakCountType DEF LongEnough, NoChangeAssumption, Inv
    <3> QED
      BY <3>1, FS_EmptySet DEF StreakCount
  <2>3. t \in Time /\ \E j \in StreakRows(Newest) : rows[j].at = t
    BY <2>2, StreakStartType, StreakStarts DEF Inv
  <2> HIDE DEF t, n, v
  <2>4. CASE OpenEvents # {}
    <3> DEFINE x == [events[OpenEvent] EXCEPT !.streak = n, !.severity = v]
    <3>1. OpenEvent \in DOMAIN events /\ events[OpenEvent] \in Event /\ events[OpenEvent].status = "open"
      BY <1>1, <2>4, OpenEventIsOpen DEF OpenEvents
    <3>2. x.start = events[OpenEvent].start /\ x.status = "open"
      BY <3>1 DEF Event
    <3>3. events' = [events EXCEPT ![OpenEvent] = x]
      BY <1>1, <2>1, <2>4, <3>1 DEF OpenOrExtend, Event
    <3> HIDE DEF x
    <3> QED
      BY <1>5, <2>4, <3>2, <3>3
  <2>5. CASE OpenEvents = {}
    <3> DEFINE new == [start |-> t, end |-> Never, streak |-> n, severity |-> v, status |-> "open"]
               e == Len(events) + 1
    <3>1. events' = Append(events, new)
      BY <2>1, <2>5 DEF OpenOrExtend
    <3>2. new.start = t /\ new.status = "open" /\ new \in [start : Time, end : {Never}, streak : {n}, severity : {v}, status : {"open"}]
      BY <2>3
    <3>3. v \in {"medium", "high"} /\ n \in Nat
      BY StreakCountType DEF v, n, Severity, Inv
    <3>4. new \in Event
      BY <3>2, <3>3 DEF Event
    <3> HIDE DEF new
    <3>5. DOMAIN events' = 1 .. e /\ events'[e] = new /\ \A f \in DOMAIN events : events'[f] = events[f] /\ f # e
      BY <1>1, <3>1, <3>4, AppendProperties, LenProperties
    <3>6. e \in OpenEvents'
      BY <1>1, <3>2, <3>5 DEF OpenEvents
    <3>7. PICK j \in StreakRows(Newest) : rows[j].at = t
      BY <2>3
    <3>8. \A f \in DOMAIN events' : \E k \in Stored : rows[k].at = events'[f].start
      <4>1. j \in Stored
        BY <3>7 DEF StreakRows, UpTo
      <4>2. \A f \in DOMAIN events' : f \in DOMAIN events \/ f = e
        BY <1>1, <3>5
      <4> QED
        BY <1>2, <3>2, <3>5, <3>7, <4>1, <4>2
    <3>9. ASSUME NEW u \in Time PROVE Covered(u)'
      <4>1. IsFiniteSet(Starting(u)) /\ Cardinality(Starting(u)) \in Nat /\ e \notin Starting(u)
        <5>1. e \notin Starting(u)
          BY <1>1 DEF Starting
        <5> QED
          BY <5>1, StartingFinite DEF Inv
      <4>2. Starting(u)' = IF u = t THEN Starting(u) \cup {e} ELSE Starting(u)
        BY <1>1, <3>2, <3>5 DEF Starting
      <4>3. Cardinality(Starting(u) \cup {e}) = Cardinality(Starting(u)) + 1
        BY <4>1, FS_AddElement
      <4>4. u = t => Cardinality(Starting(u)) <= late
        BY <2>3, <2>5, <3>7, OpensBelow
      <4>5. Cardinality(Starting(u)) <= late + 1
        BY DEF Surplus, Covered
      <4> DEFINE c == Cardinality(Starting(u))
      <4>6. Cardinality(Starting(u))' = IF u = t THEN c + 1 ELSE c
        BY <4>2, <4>3
      <4> HIDE DEF c
      <4>7. c \in Nat /\ (u = t => c <= late) /\ c <= late + 1
        BY <4>1, <4>4, <4>5 DEF c
      <4>8. (IF u = t THEN c + 1 ELSE c) <= late + 1
        BY <1>1, <4>7
      <4> QED
        BY <3>6, <4>6, <4>8 DEF Covered
    <3> QED
      BY <3>8, <3>9, SurplusIdle
  <2> QED
    BY <2>4, <2>5
<1> QED
  BY <1>4, <1>6, <1>7 DEF NoChangeStep

LEMMA SurplusStep == NoChangeAssumption /\ Inv /\ Surplus /\ [Next]_vars => Surplus'
<1> SUFFICES ASSUME NoChangeAssumption, Inv, Surplus, [Next]_vars PROVE Surplus'
  OBVIOUS
<1>1. ASSUME NEW t \in Time, NEW p \in Picture, Receive(t, p) PROVE Surplus'
  BY <1>1, SurplusReceived
<1>2. CASE Compare
  BY <1>2, SurplusCompared
<1>3. CASE ApplyNoChange
  <2>1. SameRows
    BY <1>3 DEF ApplyNoChange, SameRows, Newest
  <2> QED
    BY <1>3, <2>1, SurplusStepped DEF ApplyNoChange, histVars
<1>4. ASSUME NEW u, pc # "idle", rows' = [rows EXCEPT ![Newest].upload = u] \/ rows' = [rows EXCEPT ![Newest].analysis = u]
                 \/ rows' = rows
      PROVE  /\ Newest' = Newest /\ DOMAIN rows' = DOMAIN rows /\ Newest \in DOMAIN rows
             /\ \A k \in DOMAIN rows :
                  /\ rows'[k].at = rows[k].at /\ rows'[k].picture = rows[k].picture /\ rows'[k].effective = rows[k].effective
                  /\ k # Newest => rows'[k].upload = rows[k].upload
             /\ rows' = [rows EXCEPT ![Newest].upload = u] => rows'[Newest].upload = u
             /\ rows' = [rows EXCEPT ![Newest].analysis = u] \/ rows' = rows => SameRows
  <2>1. Newest \in DOMAIN rows /\ rows[Newest] \in Row
    BY <1>4, NewestExists DEF Inv
  <2>2. CASE rows' = rows
    BY <2>1, <2>2 DEF SameRows, Newest, Row
  <2>3. ASSUME NEW x, rows' = [rows EXCEPT ![Newest] = x] PROVE Newest' = Newest /\ DOMAIN rows' = DOMAIN rows
    BY <2>1, <2>3, EventAt DEF Inv, Newest
  <2>4. CASE rows' = [rows EXCEPT ![Newest].upload = u]
    <3> DEFINE x == [rows[Newest] EXCEPT !.upload = u]
    <3>1. x.at = rows[Newest].at /\ x.picture = rows[Newest].picture /\ x.effective = rows[Newest].effective /\ x.upload = u
      BY <2>1 DEF Row
    <3>2. rows' = [rows EXCEPT ![Newest] = x]
      BY <2>4
    <3> HIDE DEF x
    <3>3. Newest' = Newest /\ DOMAIN rows' = DOMAIN rows
      BY <2>3, <3>2
    <3>4. rows' = [rows EXCEPT ![Newest].analysis = u] \/ rows' = rows => u = rows[Newest].upload
      <4>1. rows' = [rows EXCEPT ![Newest].analysis = u] => rows'[Newest].upload = rows[Newest].upload
        BY <2>1 DEF Row
      <4> QED
        BY <2>1, <3>1, <3>2, <4>1
    <3> QED
      BY <2>1, <3>1, <3>2, <3>3, <3>4 DEF SameRows
  <2>5. CASE rows' = [rows EXCEPT ![Newest].analysis = u]
    <3> DEFINE x == [rows[Newest] EXCEPT !.analysis = u]
    <3>1. x.at = rows[Newest].at /\ x.picture = rows[Newest].picture /\ x.effective = rows[Newest].effective
          /\ x.upload = rows[Newest].upload
      BY <2>1 DEF Row
    <3>2. rows' = [rows EXCEPT ![Newest] = x]
      BY <2>5
    <3> HIDE DEF x
    <3>3. Newest' = Newest /\ DOMAIN rows' = DOMAIN rows
      BY <2>3, <3>2
    <3>4. rows' = [rows EXCEPT ![Newest].upload = u] => rows'[Newest].upload = u
      BY <2>1 DEF Row
    <3> QED
      BY <2>1, <3>1, <3>2, <3>3, <3>4 DEF SameRows
  <2> QED
    BY <1>4, <2>2, <2>4, <2>5
<1>5. CASE Finalize
  <2>1. /\ pc = "received" /\ pc' = "stored" /\ UNCHANGED <<events, late>>
        /\ rows' = [rows EXCEPT ![Newest].upload = "completed"]
    BY <1>5 DEF Finalize, histVars
  <2>2. /\ Newest' = Newest /\ DOMAIN rows' = DOMAIN rows /\ Newest \in DOMAIN rows /\ rows'[Newest].upload = "completed"
        /\ \A k \in DOMAIN rows :
             /\ rows'[k].at = rows[k].at /\ rows'[k].picture = rows[k].picture /\ rows'[k].effective = rows[k].effective
             /\ k # Newest => rows'[k].upload = rows[k].upload
    BY <1>4, <2>1
  <2>3. Newest \in Stored' /\ ~ rows[Newest].effective
    BY <2>1, <2>2 DEF Stored, Surplus
  <2> QED
    BY <2>1, <2>2, <2>3, RowsKept DEF Surplus
<1>6. CASE StoreFails
  <2>1. /\ pc = "received" /\ pc' = "idle" /\ UNCHANGED <<events, late>>
        /\ rows' = [rows EXCEPT ![Newest].upload = "failed"]
    BY <1>6 DEF StoreFails
  <2>2. /\ Newest' = Newest /\ DOMAIN rows' = DOMAIN rows /\ Newest \in DOMAIN rows
        /\ \A k \in DOMAIN rows :
             /\ rows'[k].at = rows[k].at /\ rows'[k].picture = rows[k].picture /\ rows'[k].effective = rows[k].effective
             /\ k # Newest => rows'[k].upload = rows[k].upload
    BY <1>4, <2>1
  <2>3. ~ rows[Newest].effective
    BY <2>1 DEF Surplus
  <2> QED
    BY <2>1, <2>2, <2>3, RowsKept DEF Surplus
<1>7. CASE AnalysisFails \/ Crash
  <2>1. /\ pc # "idle" /\ pc' = "idle" /\ UNCHANGED late
        /\ rows' = [rows EXCEPT ![Newest].analysis = "failed"] \/ rows' = rows
        /\ UNCHANGED events \/ (pc = "diffed" /\ NoChangeStep)
    BY <1>7 DEF AnalysisFails, Crash
  <2>2. SameRows
    BY <1>4, <2>1
  <2>3. CASE UNCHANGED events
    <3>1. \A t \in Time : Covered(t)'
      <4>1. Newest \in Stored /\ rows[Newest].effective => Newest \in Stored' /\ rows'[Newest].effective
        BY <2>2, StoredSame DEF SameRows, Stored
      <4> QED
        BY <2>1, <2>2, <2>3, <4>1, RowsKept DEF SameRows
    <3>2. \A e \in DOMAIN events' : \E j \in Stored : rows[j].at = events'[e].start
      BY <2>3 DEF Surplus
    <3> QED
      BY <2>1, <2>2, <3>1, <3>2, SurplusIdle
  <2>4. CASE pc = "diffed" /\ NoChangeStep
    BY <2>1, <2>2, <2>4, SurplusStepped
  <2> QED
    BY <2>1, <2>3, <2>4
<1>8. CASE UNCHANGED vars
  BY <1>8 DEF vars, Surplus, Covered, Starting, OpenEvents, Blocked, IsLate, Stored, Newest
<1> QED
  BY <1>1, <1>2, <1>3, <1>5, <1>6, <1>7, <1>8 DEF Next, Handle

LEMMA SurplusInit == NoChangeAssumption /\ Init => Surplus
<1> SUFFICES ASSUME NoChangeAssumption, Init PROVE Surplus
  OBVIOUS
<1>1. DOMAIN rows = {} /\ DOMAIN events = {} /\ pc = "idle" /\ late = 0
  BY EmptySeq, LenProperties DEF Init
<1>2. \A t : Starting(t) = {}
  BY <1>1 DEF Starting
<1>3. \A t : Cardinality(Starting(t)) = 0
  BY <1>2, FS_EmptySet
<1> QED
  BY <1>1, <1>3 DEF Surplus, Covered

\* Each surplus event for a still interval needs an upload out of order: repeated
\* uploads, failures and crashes alone never make one.
THEOREM SurplusCorrect == Spec => []SurplusNeedsLate
<1>1. Inv /\ Surplus => SurplusNeedsLate
  <2> SUFFICES ASSUME Inv, Surplus, NEW t \in Time PROVE Cardinality(Starting(t)) <= 1 + late
    BY DEF SurplusNeedsLate, Starting
  <2>1. Cardinality(Starting(t)) \in Nat /\ late \in Nat /\ Cardinality(Starting(t)) <= late + 1
    BY StartingFinite DEF Inv, TypeOK, Surplus, Covered
  <2> QED
    BY <2>1
<1> QED
  BY <1>1, NoChangeAssumption, InvInit, InvStep, SurplusInit, SurplusStep, PTL DEF Spec

-----------------------------------------------------------------------------
(* Events and runs *)

Clean == late = 0 /\ repeats = 0 /\ faults = 0

\* Row k has been compared to the one before it.
Judged(k) ==
  /\ rows[k].compared /\ rows[k].prev = k - 1
  /\ k = 1 => ~ rows[k].effective
  /\ k > 1 => rows[k].level # "unknown" /\ (rows[k].effective <=> rows[k].picture # rows[k - 1].picture)

\* The state machine has run for the rows up to Handled.
Handled == IF pc = "idle" THEN Newest ELSE Newest - 1

\* a .. b is a run of the first n rows, and the event that stands for it.
IsRun(n, a, b) ==
  /\ 1 <= a /\ a <= b /\ b <= n /\ b - a + 1 >= Threshold
  /\ \A k \in a .. b : Still(k)
  /\ ~ Still(a - 1) /\ (b = n \/ ~ Still(b + 1))
RunEvent(n, a, b) ==
  [start |-> rows[a].at, streak |-> b - a + 1, severity |-> Severity(b - a + 1),
   end |-> IF b = n THEN Never ELSE rows[b + 1].at, status |-> IF b = n THEN "open" ELSE "closed"]

\* The events are those of the runs, one for each.
Matches(n, evs) ==
  /\ \A e \in DOMAIN evs : \E a, b \in 1 .. n : IsRun(n, a, b) /\ evs[e] = RunEvent(n, a, b)
  /\ \A a, b \in 1 .. n : IsRun(n, a, b) => \E e \in DOMAIN evs : evs[e] = RunEvent(n, a, b)
  /\ \A e, f \in DOMAIN evs : evs[e].start = evs[f].start => e = f
Corresponds(n) == Matches(n, events)

Ordered == \A j, k \in DOMAIN rows : j < k => rows[j].at < rows[k].at
Orderly ==
  Clean =>
    /\ Ordered
    /\ \A k \in DOMAIN rows : k < Newest \/ pc # "received" => rows[k].upload = "completed"
    /\ \A k \in DOMAIN rows : k < Newest \/ pc \in {"idle", "diffed"} => Judged(k)
    /\ Corresponds(Handled)

LEMMA RowFacts ==
  ASSUME Inv
  PROVE  /\ Newest \in Nat /\ DOMAIN rows = 1 .. Newest
         /\ \A k \in 1 .. Newest : rows[k] \in Row /\ rows[k].at \in Nat
         /\ Threshold \in Nat /\ Threshold > 0
         /\ late \in Nat /\ repeats \in Nat /\ faults \in Nat
BY EventAt, NoChangeAssumption DEF Inv, Newest, Row, Time, TypeOK, NoChangeAssumption

\* A prefix of the rows keeps its runs, as long as its times and pictures stay.
LEMMA PrefixKept ==
  ASSUME NEW n \in Nat, Newest \in Nat, Newest' \in Nat, n <= Newest, n <= Newest', UNCHANGED events,
         \A k \in 1 .. n : rows'[k].at = rows[k].at /\ rows'[k].picture = rows[k].picture,
         Corresponds(n)
  PROVE  Corresponds(n)'
<1>1. \A k \in Int : k <= n => (Still(k)' <=> Still(k))
  BY DEF Still
<1>2. \A a, b \in 1 .. n : IsRun(n, a, b)' <=> IsRun(n, a, b)
  <2> SUFFICES ASSUME NEW a \in 1 .. n, NEW b \in 1 .. n PROVE IsRun(n, a, b)' <=> IsRun(n, a, b)
    OBVIOUS
  <2>1. (Still(a - 1)' <=> Still(a - 1)) /\ \A k \in a .. b : Still(k)' <=> Still(k)
    BY <1>1
  <2>2. b # n => (Still(b + 1)' <=> Still(b + 1))
    BY <1>1
  <2> QED
    BY <2>1, <2>2 DEF IsRun
<1>3. \A a, b \in 1 .. n : RunEvent(n, a, b)' = RunEvent(n, a, b)
  <2> SUFFICES ASSUME NEW a \in 1 .. n, NEW b \in 1 .. n PROVE RunEvent(n, a, b)' = RunEvent(n, a, b)
    OBVIOUS
  <2>1. rows'[a].at = rows[a].at /\ (b # n => rows'[b + 1].at = rows[b + 1].at)
    OBVIOUS
  <2> QED
    BY <2>1 DEF RunEvent, Severity
<1> QED
  BY <1>2, <1>3 DEF Corresponds, Matches

LEMMA OrderlyReceived ==
  ASSUME Inv, Orderly, NEW t \in Time, NEW p \in Picture, Receive(t, p), Inv'
  PROVE  Orderly'
<1> SUFFICES ASSUME Clean' PROVE Orderly'
  BY DEF Orderly
<1> DEFINE new == [at |-> t, picture |-> p, upload |-> "pending", analysis |-> "pending",
                   prev |-> NoRow, compared |-> FALSE, level |-> "unknown", effective |-> FALSE]
<1>1. /\ rows' = Append(rows, new) /\ pc = "idle" /\ pc' = "received" /\ UNCHANGED <<events, faults>>
      /\ late' = IF \E k \in Stored : t < rows[k].at THEN late + 1 ELSE late
      /\ repeats' = IF \E k \in Stored : t = rows[k].at THEN repeats + 1 ELSE repeats
  BY DEF Receive
<1>2. new.at = t
  OBVIOUS
<1> HIDE DEF new
<1>3. rows \in Seq(Row) /\ Newest \in Nat /\ DOMAIN rows = 1 .. Newest /\ late \in Nat /\ repeats \in Nat
      /\ \A k \in 1 .. Newest : rows[k].at \in Nat
  BY RowFacts DEF Inv, TypeOK
<1>4. Newest' = Newest + 1 /\ DOMAIN rows' = 1 .. Newest + 1 /\ rows'[Newest + 1] = new
      /\ \A k \in 1 .. Newest : rows'[k] = rows[k]
  <2>1. rows' \in Seq(Row)
    BY DEF Inv, TypeOK
  <2>2. Len(rows') = Len(rows) + 1 /\ rows'[Len(rows) + 1] = new /\ \A k \in 1 .. Len(rows) : rows'[k] = rows[k]
    BY <1>1, <1>3 DEF Newest
  <2> QED
    BY <1>3, <2>1, <2>2, LenProperties DEF Newest
<1>5. Clean /\ \A k \in Stored : ~ (t < rows[k].at) /\ t # rows[k].at
  BY <1>1, <1>3 DEF Clean
<1>6. /\ Ordered /\ \A k \in 1 .. Newest : rows[k].upload = "completed" /\ Judged(k)
      /\ Corresponds(Newest)
  BY <1>1, <1>3, <1>5 DEF Orderly, Handled
<1>7. \A k \in 1 .. Newest : rows[k].at < t
  BY <1>3, <1>5, <1>6 DEF Stored, Time
<1>8. Ordered'
  BY <1>2, <1>3, <1>4, <1>6, <1>7 DEF Ordered
<1>9. PICK n \in Nat : n = Newest
  BY <1>3
<1>10. \A k \in 1 .. n : Judged(k)'
  <2> SUFFICES ASSUME NEW k \in 1 .. n PROVE Judged(k)'
    OBVIOUS
  <2>1. Judged(k) /\ rows'[k] = rows[k] /\ (k > 1 => rows'[k - 1] = rows[k - 1])
    BY <1>4, <1>6, <1>9
  <2> QED
    BY <2>1 DEF Judged
<1>11. Corresponds(n)'
  <2>1. n <= Newest /\ n <= Newest' /\ Newest' \in Nat /\ Corresponds(n)
    BY <1>3, <1>4, <1>6, <1>9
  <2> QED
    BY <1>1, <1>3, <1>4, <1>9, <2>1, PrefixKept
<1>12. Handled' = n
  BY <1>1, <1>3, <1>4, <1>9 DEF Handled
<1>13. Corresponds(Handled)'
  BY <1>11, <1>12 DEF Corresponds
<1>14. \A k \in DOMAIN rows' : k < Newest' \/ pc' # "received" => k \in 1 .. n
  BY <1>1, <1>3, <1>4, <1>9
<1>15. \A k \in 1 .. n : rows'[k].upload = "completed"
  BY <1>4, <1>6, <1>9
<1> QED
  BY <1>1, <1>8, <1>10, <1>13, <1>14, <1>15 DEF Orderly

\* While nothing is late, repeated or failed, the rows before the newest one are
\* stored, and it is compared to the last of them.
LEMMA PreviousIsBefore ==
  ASSUME Inv, Ordered, pc # "idle", rows[Newest].upload = "completed",
         \A k \in DOMAIN rows : k < Newest => rows[k].upload = "completed"
  PROVE  Previous(Newest) = Newest - 1
<1>1. Newest \in 1 .. Newest /\ DOMAIN rows = 1 .. Newest /\ \A k \in 1 .. Newest : rows[k].at \in Nat
  BY RowFacts, NewestExists DEF Inv
<1>2. Stored = 1 .. Newest
  BY <1>1 DEF Stored
<1>3. UpTo(Newest) \ {Newest} = 1 .. Newest - 1
  BY <1>1, <1>2 DEF UpTo, Ordered
<1>4. CASE Newest = 1
  BY <1>1, <1>3, <1>4 DEF Previous, NoRow
<1>5. CASE Newest # 1
  <2>1. Newest - 1 \in UpTo(Newest) \ {Newest}
    BY <1>1, <1>3, <1>5
  <2>2. Previous(Newest) \in 1 .. Newest - 1 /\ (Newest - 1 = Previous(Newest) \/ Precedes(Newest - 1, Previous(Newest)))
    BY <1>3, <2>1, PreviousLast, NoChangeAssumption DEF Inv
  <2>3. ~ Precedes(Newest - 1, Previous(Newest)) \/ Newest - 1 = Previous(Newest)
    <3> DEFINE m == Previous(Newest)
               l == Newest - 1
    <3>1. m \in 1 .. l /\ l \in 1 .. Newest
      BY <1>1, <1>5, <2>2
    <3> HIDE DEF m, l
    <3>2. rows[m].at \in Nat /\ rows[l].at \in Nat /\ (m < l => rows[m].at < rows[l].at)
      BY <1>1, <3>1 DEF Ordered
    <3>3. ~ Precedes(l, m) \/ l = m
      BY <3>1, <3>2 DEF Precedes
    <3> QED
      BY <3>3 DEF m, l
  <2> QED
    BY <2>2, <2>3
<1> QED
  BY <1>4, <1>5

\* A stage that rewrites the newest row before the state machine runs.
LEMMA OrderlyRewritten ==
  ASSUME Inv, Inv', Orderly, Clean', UNCHANGED <<events, late, repeats, faults>>,
         pc \in {"received", "stored"}, pc' \in {"stored", "diffed"},
         NEW x, rows' = [rows EXCEPT ![Newest] = x],
         x.at = rows[Newest].at /\ x.picture = rows[Newest].picture /\ x.upload = "completed",
         pc' = "diffed" => Judged(Newest)'
  PROVE  Orderly'
<1>1. Clean /\ Newest \in 1 .. Newest /\ DOMAIN rows = 1 .. Newest /\ Newest \in Nat
  BY RowFacts, NewestExists DEF Clean, Inv
<1>2. Newest' = Newest /\ DOMAIN rows' = DOMAIN rows /\ rows'[Newest] = x
      /\ \A k \in DOMAIN rows : k # Newest => rows'[k] = rows[k]
  BY <1>1, EventAt DEF Newest, Inv
<1>3. \A k \in DOMAIN rows : rows'[k].at = rows[k].at /\ rows'[k].picture = rows[k].picture
  BY <1>2
<1>4. /\ Ordered /\ \A k \in DOMAIN rows : k < Newest => rows[k].upload = "completed" /\ Judged(k)
      /\ Corresponds(Newest - 1) /\ Handled = Newest - 1
  BY <1>1 DEF Orderly, Handled
<1>5. Ordered'
  BY <1>2, <1>3, <1>4 DEF Ordered
<1>6. \A k \in DOMAIN rows' : rows'[k].upload = "completed"
  BY <1>1, <1>2, <1>4
<1>7. \A k \in DOMAIN rows : k < Newest => Judged(k)'
  <2> SUFFICES ASSUME NEW k \in DOMAIN rows, k < Newest PROVE Judged(k)'
    OBVIOUS
  <2>1. Judged(k) /\ rows'[k] = rows[k] /\ (k > 1 => rows'[k - 1] = rows[k - 1])
    BY <1>1, <1>2, <1>4
  <2> QED
    BY <2>1 DEF Judged
<1>8. PICK n \in Nat : n = Newest - 1
  BY <1>1
<1>9. Corresponds(n)'
  <2>1. n <= Newest /\ n <= Newest' /\ Newest' \in Nat /\ Corresponds(n)
    BY <1>1, <1>2, <1>4, <1>8
  <2>2. \A k \in 1 .. n : k \in DOMAIN rows
    BY <1>1, <1>8
  <2> QED
    BY <1>1, <1>3, <2>1, <2>2, PrefixKept
<1>10. Handled' = n
  BY <1>2, <1>8 DEF Handled
<1>11. Corresponds(Handled)'
  BY <1>9, <1>10 DEF Corresponds
<1>12. \A k \in DOMAIN rows' : k < Newest' \/ pc' \in {"idle", "diffed"} => Judged(k)'
  <2> SUFFICES ASSUME NEW k \in DOMAIN rows', k < Newest' \/ pc' \in {"idle", "diffed"} PROVE Judged(k)'
    OBVIOUS
  <2>1. k \in DOMAIN rows /\ (k < Newest \/ (k = Newest /\ pc' = "diffed"))
    BY <1>1, <1>2
  <2>2. CASE k < Newest
    BY <1>7, <2>1, <2>2
  <2>3. CASE k = Newest /\ pc' = "diffed"
    BY <1>2, <2>3 DEF Judged
  <2> QED
    BY <2>1, <2>2, <2>3
<1> QED
  BY <1>5, <1>6, <1>11, <1>12 DEF Orderly

LEMMA OrderlyFinalized ==
  ASSUME Inv, Inv', Orderly, Clean', Finalize
  PROVE  Orderly'
<1> DEFINE x == [rows[Newest] EXCEPT !.upload = "completed"]
<1>1. rows[Newest] \in Row /\ pc = "received" /\ pc' = "stored" /\ UNCHANGED <<events, late, repeats, faults>>
  BY NewestExists DEF Finalize, histVars, Inv
<1>2. x.at = rows[Newest].at /\ x.picture = rows[Newest].picture /\ x.upload = "completed"
  BY <1>1 DEF Row
<1>3. rows' = [rows EXCEPT ![Newest] = x]
  BY DEF Finalize
<1> HIDE DEF x
<1> QED
  BY <1>1, <1>2, <1>3, OrderlyRewritten

LEMMA OrderlyCompared ==
  ASSUME Inv, Inv', Orderly, Clean', Compare
  PROVE  Orderly'
<1>1. /\ rows[Newest] \in Row /\ pc = "stored" /\ pc' = "diffed" /\ UNCHANGED <<events, late, repeats, faults>>
      /\ Newest \in DOMAIN rows /\ DOMAIN rows = 1 .. Newest /\ Newest \in Nat
  BY NewestExists, RowFacts DEF Compare, histVars, Inv
<1>2. Previous(Newest) = Newest - 1
  <2>1. Clean
    BY <1>1 DEF Clean
  <2>2. Ordered /\ rows[Newest].upload = "completed" /\ \A k \in DOMAIN rows : k < Newest => rows[k].upload = "completed"
    BY <1>1, <2>1 DEF Orderly
  <2> QED
    BY <1>1, <2>2, PreviousIsBefore
<1>3. rows[Newest].upload = "completed"
  BY <1>1 DEF Orderly, Clean
<1>4. ASSUME NEW level, NEW effective \in BOOLEAN, Diffed(level, effective),
             Newest = 1 => ~ effective,
             Newest > 1 => level # "unknown" /\ (effective <=> rows[Newest].picture # rows[Newest - 1].picture)
      PROVE  Orderly'
  <2> DEFINE x == [rows[Newest] EXCEPT !.compared = TRUE, !.analysis = "completed",
                                       !.prev = Previous(Newest), !.level = level, !.effective = effective]
  <2>1. x.at = rows[Newest].at /\ x.picture = rows[Newest].picture /\ x.upload = "completed"
        /\ x.prev = Newest - 1 /\ x.level = level
    BY <1>1, <1>2, <1>3 DEF Row
  <2>2. x.compared = TRUE
    BY <1>1, Zenon DEF Row
  <2>3. x.effective = effective
    BY <1>1, Zenon DEF Row
  <2>4. rows' = [rows EXCEPT ![Newest] = x]
    BY <1>4 DEF Diffed
  <2> HIDE DEF x
  <2>5. rows'[Newest] = x /\ Newest' = Newest /\ \A k \in DOMAIN rows : k # Newest => rows'[k] = rows[k]
    BY <1>1, <2>4, EventAt DEF Newest, Inv
  <2>6. Newest > 1 => rows'[Newest - 1] = rows[Newest - 1]
    BY <1>1, <2>5
  <2>7. Judged(Newest)'
    BY <1>1, <1>4, <2>1, <2>2, <2>3, <2>5, <2>6 DEF Judged
  <2> QED
    BY <1>1, <2>1, <2>4, <2>7, OrderlyRewritten
<1>5. CASE Newest = 1
  <2>1. Previous(Newest) = NoRow
    BY <1>2, <1>5 DEF NoRow
  <2>2. Diffed("unknown", FALSE)
    BY <2>1 DEF Compare
  <2>3. ~ (Newest > 1)
    BY <1>5
  <2> QED
    BY <1>4, <2>2, <2>3, Zenon
<1>6. CASE Newest > 1
  <2> DEFINE p == rows[Previous(Newest)].picture
             q == rows[Newest].picture
  <2>1. \E px \in {Pixels(p, q), <<Missing, Missing>>} :
          Diffed(Level(Hash(p, q), px[1], px[2]), IsEffective(Hash(p, q), px[1], px[2]))
    <3>1. Previous(Newest) # NoRow
      BY <1>1, <1>2, <1>6 DEF NoRow
    <3> QED
      BY <3>1 DEF Compare
  <2>2. PICK px \in {Pixels(p, q), <<Missing, Missing>>} :
          Diffed(Level(Hash(p, q), px[1], px[2]), IsEffective(Hash(p, q), px[1], px[2]))
    BY <2>1
  <2>3. p = rows[Newest - 1].picture
    BY <1>2
  <2> HIDE DEF p, q
  <2>4. CASE p = q
    <3>1. Level(Hash(p, q), px[1], px[2]) = "none" /\ IsEffective(Hash(p, q), px[1], px[2]) = FALSE
      BY <2>4, EqualPictures, LevelType
    <3> QED
      BY <1>4, <1>6, <2>2, <2>3, <2>4, <3>1 DEF q
  <2>5. CASE p # q
    <3>1. Level(Hash(p, q), px[1], px[2]) = "major" /\ IsEffective(Hash(p, q), px[1], px[2]) = TRUE
      BY <2>5, OtherPictures, LevelType
    <3>2. Diffed("major", TRUE)
      BY <2>2, <3>1
    <3>3. rows[Newest].picture # rows[Newest - 1].picture
      BY <2>3, <2>5 DEF q
    <3>4. Newest # 1 /\ "major" # "unknown"
      BY <1>6
    <3> QED
      BY <1>4, <3>2, <3>3, <3>4, Zenon
  <2> QED
    BY <2>4, <2>5
<1> QED
  BY <1>1, <1>5, <1>6

\* Two runs that end at the same row are the same run.
LEMMA RunsUnique ==
  ASSUME NEW m \in Int, NEW n \in Int, NEW a \in Int, NEW c \in Int, NEW b \in Int, IsRun(m, a, b), IsRun(n, c, b)
  PROVE  a = c
<1>1. CASE a < c
  <2>1. c - 1 \in a .. b /\ ~ Still(c - 1)
    BY <1>1 DEF IsRun
  <2> QED
    BY <2>1 DEF IsRun
<1>2. CASE c < a
  <2>1. a - 1 \in c .. b /\ ~ Still(a - 1)
    BY <1>2 DEF IsRun
  <2> QED
    BY <2>1 DEF IsRun
<1> QED
  BY <1>1, <1>2

\* A run that a change has ended stays as it is.
LEMMA EarlierRuns ==
  ASSUME NEW n \in Nat, NEW a \in Int, NEW b \in Int, b < n - 1
  PROVE  (IsRun(n - 1, a, b) <=> IsRun(n, a, b)) /\ RunEvent(n - 1, a, b) = RunEvent(n, a, b)
<1>1. b # n /\ b # n - 1 /\ b <= n /\ b <= n - 1
  OBVIOUS
<1>2. IsRun(n - 1, a, b) <=> IsRun(n, a, b)
  BY <1>1 DEF IsRun
<1>3. RunEvent(n - 1, a, b) = RunEvent(n, a, b)
  BY <1>1 DEF RunEvent
<1> QED
  BY <1>2, <1>3

LEMMA RunStatus ==
  ASSUME NEW n, NEW a, NEW b
  PROVE  /\ RunEvent(n, a, b).start = rows[a].at
         /\ RunEvent(n, a, b).status = "open" <=> b = n
BY DEF RunEvent

LEMMA ClosedMatch ==
  ASSUME NEW n \in Nat, NEW evs, NEW e \in DOMAIN evs, Matches(n - 1, evs), evs[e].status # "open"
  PROVE  \E a, b \in 1 .. n : b < n - 1 /\ IsRun(n, a, b) /\ evs[e] = RunEvent(n, a, b)
<1>1. PICK a \in 1 .. n - 1, b \in 1 .. n - 1 : IsRun(n - 1, a, b) /\ evs[e] = RunEvent(n - 1, a, b)
  BY DEF Matches
<1>2. b # n - 1
  BY <1>1, RunStatus
<1>3. b < n - 1 /\ a \in 1 .. n /\ b \in 1 .. n
  BY <1>1, <1>2
<1>4. IsRun(n, a, b) /\ evs[e] = RunEvent(n, a, b)
  BY <1>1, <1>3, EarlierRuns
<1> QED
  BY <1>3, <1>4

LEMMA OpenMatch ==
  ASSUME NEW n \in Nat, NEW evs, NEW e \in DOMAIN evs, Matches(n - 1, evs), evs[e].status = "open"
  PROVE  \E a \in 1 .. n - 1 : IsRun(n - 1, a, n - 1) /\ evs[e] = RunEvent(n - 1, a, n - 1)
<1>1. PICK a \in 1 .. n - 1, b \in 1 .. n - 1 : IsRun(n - 1, a, b) /\ evs[e] = RunEvent(n - 1, a, b)
  BY DEF Matches
<1>2. b = n - 1
  BY <1>1, RunStatus
<1> QED
  BY <1>1, <1>2

LEMMA OneOpenMatch ==
  ASSUME NEW n \in Nat, NEW evs, NEW e \in DOMAIN evs, NEW f \in DOMAIN evs, Matches(n - 1, evs),
         evs[e].status = "open", evs[f].status = "open"
  PROVE  e = f
<1>1. PICK a \in 1 .. n - 1 : IsRun(n - 1, a, n - 1) /\ evs[e] = RunEvent(n - 1, a, n - 1)
  BY OpenMatch
<1>2. PICK c \in 1 .. n - 1 : IsRun(n - 1, c, n - 1) /\ evs[f] = RunEvent(n - 1, c, n - 1)
  BY OpenMatch
<1>3. a = c
  BY <1>1, <1>2, RunsUnique
<1>4. evs[e].start = evs[f].start
  BY <1>1, <1>2, <1>3
<1> QED
  BY <1>4 DEF Matches

LEMMA RunMatch ==
  ASSUME NEW n \in Nat, NEW evs, NEW a \in 1 .. n, NEW b \in 1 .. n, Matches(n - 1, evs), IsRun(n, a, b), b < n - 1
  PROVE  \E e \in DOMAIN evs : evs[e] = RunEvent(n, a, b) /\ evs[e].status # "open"
<1>1. IsRun(n - 1, a, b) /\ RunEvent(n - 1, a, b) = RunEvent(n, a, b)
  BY EarlierRuns
<1>2. a <= b
  BY DEF IsRun
<1>3. PICK e \in DOMAIN evs : evs[e] = RunEvent(n - 1, a, b)
  BY <1>1, <1>2 DEF Matches
<1> QED
  BY <1>1, <1>3, RunStatus

\* What the queries find while nothing is late, repeated or failed.
LEMMA InOrder ==
  ASSUME Inv, Orderly, Clean, pc = "diffed", NEW n \in Nat, n = Newest
  PROVE  /\ n > 0 /\ UpTo(n) = 1 .. n
         /\ \A k \in 1 .. n : Unchanged(k) <=> Still(k)
         /\ rows[n].effective <=> n > 1 /\ ~ Still(n)
         /\ \A j, i \in 1 .. n : Precedes(j, i) <=> j < i
<1>1. DOMAIN rows = 1 .. n /\ n \in 1 .. n /\ \A k \in 1 .. n : rows[k].at \in Nat
  BY RowFacts, NewestExists DEF Inv
<1>2. Ordered /\ \A k \in 1 .. n : rows[k].upload = "completed" /\ Judged(k)
  BY <1>1 DEF Orderly
<1>3. Stored = 1 .. n
  BY <1>1, <1>2 DEF Stored
<1>4. \A k \in 1 .. n : rows[k].at <= rows[n].at
  <2> SUFFICES ASSUME NEW k \in 1 .. n PROVE rows[k].at <= rows[n].at
    OBVIOUS
  <2>1. k = n \/ k < n
    OBVIOUS
  <2> QED
    BY <1>1, <1>2, <2>1 DEF Ordered
<1>5. UpTo(n) = 1 .. n
  BY <1>3, <1>4 DEF UpTo
<1>6. \A k \in 1 .. n : Unchanged(k) <=> Still(k)
  <2> SUFFICES ASSUME NEW k \in 1 .. n PROVE Unchanged(k) <=> Still(k)
    OBVIOUS
  <2>1. Judged(k)
    BY <1>2
  <2>2. CASE k = 1
    <3>1. ~ Still(k) /\ rows[k].prev = NoRow
      BY <2>1, <2>2 DEF Judged, Still, NoRow
    <3> QED
      BY <3>1 DEF Unchanged
  <2>3. CASE k > 1
    <3>1. rows[k].prev # NoRow /\ k \in 2 .. Newest
      BY <2>1, <2>3 DEF Judged, NoRow
    <3>2. rows[k].compared /\ rows[k].level # "unknown" /\ (rows[k].effective <=> rows[k].picture # rows[k - 1].picture)
      BY <2>1, <2>3 DEF Judged
    <3> QED
      BY <3>1, <3>2, Zenon DEF Unchanged, Still
  <2> QED
    BY <2>2, <2>3
<1>7. rows[n].effective <=> n > 1 /\ ~ Still(n)
  <2>1. Judged(n) /\ (Still(n) <=> n > 1 /\ rows[n].picture = rows[n - 1].picture)
    BY <1>1, <1>2 DEF Still
  <2> QED
    BY <1>1, <2>1 DEF Judged
<1>8. \A j, i \in 1 .. n : Precedes(j, i) <=> j < i
  <2> SUFFICES ASSUME NEW j \in 1 .. n, NEW i \in 1 .. n PROVE Precedes(j, i) <=> j < i
    OBVIOUS
  <2>1. (j < i => rows[j].at < rows[i].at) /\ (i < j => rows[i].at < rows[j].at) /\ rows[i].at \in Nat /\ rows[j].at \in Nat
    BY <1>1, <1>2 DEF Ordered
  <2> QED
    BY <2>1 DEF Precedes
<1> QED
  BY <1>1, <1>5, <1>6, <1>7, <1>8

\* The streak of the row in hand is the run that ends there.
LEMMA StreakIsRun ==
  ASSUME Inv, Orderly, Clean, pc = "diffed", NEW n \in Nat, n = Newest, Still(n)
  PROVE  \E s \in 2 .. n :
           /\ StreakCount(n) = n - s + 1 /\ StreakStart(n) = rows[s].at
           /\ ~ Still(s - 1) /\ \A k \in s .. n : Still(k)
<1>1. /\ n > 0 /\ UpTo(n) = 1 .. n /\ \A k \in 1 .. n : Unchanged(k) <=> Still(k)
      /\ \A j, i \in 1 .. n : Precedes(j, i) <=> j < i
  BY InOrder
<1> DEFINE S == {j \in 1 .. n : \A i \in j .. n : Still(i)}
<1>2. StreakRows(n) = S
  <2>1. \A j \in 1 .. n : (\A i \in UpTo(n) : i = j \/ Precedes(j, i) => Unchanged(i)) <=> \A i \in j .. n : Still(i)
    <3> SUFFICES ASSUME NEW j \in 1 .. n
                 PROVE  (\A i \in UpTo(n) : i = j \/ Precedes(j, i) => Unchanged(i)) <=> \A i \in j .. n : Still(i)
      OBVIOUS
    <3>1. \A i \in 1 .. n : (i = j \/ Precedes(j, i)) <=> i \in j .. n
      BY <1>1
    <3> QED
      BY <1>1, <3>1
  <2> QED
    BY <1>1, <2>1 DEF StreakRows
<1>3. S \in SUBSET Nat /\ n \in S
  BY <1>1
<1>4. PICK s \in S : \A i \in S : s <= i
  <2> HIDE DEF S
  <2> QED
    BY <1>3, LeastExists
<1>5. s \in 2 .. n /\ \A k \in s .. n : Still(k)
  <2>1. s \in 1 .. n /\ \A k \in s .. n : Still(k)
    BY <1>4
  <2>2. Still(s)
    BY <2>1
  <2> QED
    BY <2>1, <2>2 DEF Still
<1>6. ~ Still(s - 1)
  <2> SUFFICES ASSUME Still(s - 1) PROVE FALSE
    OBVIOUS
  <2>1. s - 1 \in 1 .. n /\ \A i \in s - 1 .. n : i = s - 1 \/ i \in s .. n
    BY <1>5
  <2>2. s - 1 \in S
    BY <1>5, <2>1
  <2> QED
    BY <1>4, <1>5, <2>2
<1>7. S = s .. n
  <2>1. \A j \in s .. n : j \in S
    BY <1>5
  <2>2. \A j \in S : j \in s .. n
    BY <1>3, <1>4
  <2> HIDE DEF S
  <2> QED
    BY <2>1, <2>2
<1> HIDE DEF S
<1>8. StreakCount(n) = n - s + 1
  BY <1>2, <1>5, <1>7, FS_Interval DEF StreakCount
<1>9. StreakStart(n) = rows[s].at
  <2>1. s \in StreakRows(n) /\ StreakRows(n) # {}
    BY <1>2, <1>4
  <2>2. PICK j \in StreakRows(n) : rows[j].at = StreakStart(n)
    BY <2>1, StreakStarts, NoChangeAssumption DEF Inv
  <2>3. StreakStart(n) <= rows[s].at
    BY <2>1, StreakStarts, NoChangeAssumption DEF Inv
  <2>4. j = s \/ s < j
    BY <1>2, <1>5, <1>7, <2>2
  <2>5. Ordered /\ DOMAIN rows = 1 .. n /\ \A k \in 1 .. n : rows[k].at \in Nat
    BY RowFacts DEF Orderly
  <2>6. j \in 1 .. n /\ s \in 1 .. n
    BY <1>2, <1>5, <1>7, <2>2
  <2> QED
    BY <2>2, <2>3, <2>4, <2>5, <2>6 DEF Ordered
<1> QED
  BY <1>5, <1>6, <1>8, <1>9

\* Nothing to do: no event is open, and the row in hand neither ends a run nor
\* comes right after one.
LEMMA MatchesSame ==
  ASSUME NEW n \in Nat, NEW evs, Matches(n - 1, evs), \A e \in DOMAIN evs : evs[e].status # "open",
         \A a, b \in 1 .. n : IsRun(n, a, b) => b < n - 1
  PROVE  Matches(n, evs)
<1>1. \A e \in DOMAIN evs : \E a, b \in 1 .. n : IsRun(n, a, b) /\ evs[e] = RunEvent(n, a, b)
  BY ClosedMatch
<1>2. \A a, b \in 1 .. n : IsRun(n, a, b) => \E e \in DOMAIN evs : evs[e] = RunEvent(n, a, b)
  BY RunMatch
<1>3. \A e, f \in DOMAIN evs : evs[e].start = evs[f].start => e = f
  BY DEF Matches
<1> QED
  BY <1>1, <1>2, <1>3 DEF Matches

\* The row in hand makes a run long enough: its event is opened.
LEMMA MatchesOpened ==
  ASSUME NEW n \in Nat, NEW evs, Matches(n - 1, evs), \A e \in DOMAIN evs : evs[e].status # "open",
         \A j, k \in 1 .. n : rows[j].at = rows[k].at => j = k,
         NEW s \in 1 .. n, IsRun(n, s, n), NEW evs2, NEW new, new \notin DOMAIN evs,
         DOMAIN evs2 = DOMAIN evs \cup {new}, evs2[new] = RunEvent(n, s, n),
         \A e \in DOMAIN evs : evs2[e] = evs[e]
  PROVE  Matches(n, evs2)
<1>1. \A e \in DOMAIN evs2 : \E a, b \in 1 .. n : IsRun(n, a, b) /\ evs2[e] = RunEvent(n, a, b)
  <2> SUFFICES ASSUME NEW e \in DOMAIN evs2 PROVE \E a, b \in 1 .. n : IsRun(n, a, b) /\ evs2[e] = RunEvent(n, a, b)
    OBVIOUS
  <2>1. CASE e = new
    <3>1. n \in 1 .. n
      OBVIOUS
    <3> QED
      BY <2>1, <3>1
  <2>2. CASE e \in DOMAIN evs
    BY <2>2, ClosedMatch
  <2> QED
    BY <2>1, <2>2
<1>2. \A a, b \in 1 .. n : IsRun(n, a, b) => \E e \in DOMAIN evs2 : evs2[e] = RunEvent(n, a, b)
  <2> SUFFICES ASSUME NEW a \in 1 .. n, NEW b \in 1 .. n, IsRun(n, a, b)
               PROVE  \E e \in DOMAIN evs2 : evs2[e] = RunEvent(n, a, b)
    OBVIOUS
  <2>1. CASE b = n
    <3>1. a = s
      <4>1. IsRun(n, a, n) /\ n \in Int /\ a \in Int /\ s \in Int
        BY <2>1
      <4> QED
        BY <4>1, RunsUnique
    <3> QED
      BY <2>1, <3>1
  <2>2. CASE b = n - 1
    <3>1. ~ Still(n) /\ n \in s .. n
      BY <2>2 DEF IsRun
    <3> QED
      BY <3>1 DEF IsRun
  <2>3. CASE b < n - 1
    <3>1. PICK e \in DOMAIN evs : evs[e] = RunEvent(n, a, b)
      BY <2>3, RunMatch
    <3> QED
      BY <3>1
  <2> QED
    BY <2>1, <2>2, <2>3
<1>3. \A e \in DOMAIN evs : evs2[e].start # evs2[new].start
  <2> SUFFICES ASSUME NEW e \in DOMAIN evs, evs2[e].start = evs2[new].start PROVE FALSE
    OBVIOUS
  <2>1. PICK a \in 1 .. n, b \in 1 .. n : b < n - 1 /\ IsRun(n, a, b) /\ evs[e] = RunEvent(n, a, b)
    BY ClosedMatch
  <2>2. rows[a].at = rows[s].at
    BY <2>1, RunStatus
  <2>3. a = s
    BY <2>2
  <2>4. b + 1 \in s .. n /\ ~ Still(b + 1)
    BY <2>1, <2>3 DEF IsRun
  <2> QED
    BY <2>4 DEF IsRun
<1>4. \A e, f \in DOMAIN evs2 : evs2[e].start = evs2[f].start => e = f
  <2> SUFFICES ASSUME NEW e \in DOMAIN evs2, NEW f \in DOMAIN evs2, evs2[e].start = evs2[f].start PROVE e = f
    OBVIOUS
  <2>1. CASE e = new \/ f = new
    BY <1>3, <2>1
  <2>2. CASE e \in DOMAIN evs /\ f \in DOMAIN evs
    BY <2>2 DEF Matches
  <2> QED
    BY <2>1, <2>2
<1> QED
  BY <1>1, <1>2, <1>4 DEF Matches

\* The open event is extended to the row in hand (c = n), or closed by it (c = n - 1).
LEMMA MatchesRewritten ==
  ASSUME NEW n \in Nat, NEW evs, Matches(n - 1, evs), NEW o \in DOMAIN evs, evs[o].status = "open",
         NEW a \in 1 .. n, evs[o] = RunEvent(n - 1, a, n - 1),
         NEW c \in {n - 1, n}, c \in 1 .. n, IsRun(n, a, c),
         NEW evs2, DOMAIN evs2 = DOMAIN evs, evs2[o] = RunEvent(n, a, c),
         \A e \in DOMAIN evs : e # o => evs2[e] = evs[e]
  PROVE  Matches(n, evs2)
<1>1. \A e \in DOMAIN evs : e # o => evs[e].status # "open"
  BY OneOpenMatch
<1>2. \A e \in DOMAIN evs2 : \E x, y \in 1 .. n : IsRun(n, x, y) /\ evs2[e] = RunEvent(n, x, y)
  <2> SUFFICES ASSUME NEW e \in DOMAIN evs2 PROVE \E x, y \in 1 .. n : IsRun(n, x, y) /\ evs2[e] = RunEvent(n, x, y)
    OBVIOUS
  <2>1. CASE e = o
    BY <2>1
  <2>2. CASE e # o
    BY <1>1, <2>2, ClosedMatch
  <2> QED
    BY <2>1, <2>2
<1>3. \A x, y \in 1 .. n : IsRun(n, x, y) => \E e \in DOMAIN evs2 : evs2[e] = RunEvent(n, x, y)
  <2> SUFFICES ASSUME NEW x \in 1 .. n, NEW y \in 1 .. n, IsRun(n, x, y)
               PROVE  \E e \in DOMAIN evs2 : evs2[e] = RunEvent(n, x, y)
    OBVIOUS
  <2>1. CASE y = c
    <3>1. a = x
      BY <2>1, RunsUnique
    <3> QED
      BY <2>1, <3>1
  <2>2. CASE y = n /\ c = n - 1
    <3>1. ~ Still(n) /\ n \in x .. y
      BY <2>2 DEF IsRun
    <3> QED
      BY <3>1 DEF IsRun
  <2>3. CASE y = n - 1 /\ c = n
    <3>1. ~ Still(n) /\ n \in a .. c
      BY <2>3 DEF IsRun
    <3> QED
      BY <3>1 DEF IsRun
  <2>4. CASE y < n - 1
    <3>1. PICK e \in DOMAIN evs : evs[e] = RunEvent(n, x, y) /\ evs[e].status # "open"
      BY <2>4, RunMatch
    <3> QED
      BY <3>1
  <2> QED
    BY <2>1, <2>2, <2>3, <2>4
<1>4. \A e \in DOMAIN evs : evs2[e].start = evs[e].start
  BY RunStatus
<1>5. \A e, f \in DOMAIN evs2 : evs2[e].start = evs2[f].start => e = f
  BY <1>4 DEF Matches
<1> QED
  BY <1>2, <1>3, <1>5 DEF Matches

LEMMA SameEvent ==
  ASSUME NEW r \in Event, NEW t, NEW n, NEW v, NEW u, NEW s,
         r.start = t, r.streak = n, r.severity = v, r.end = u, r.status = s
  PROVE  r = [start |-> t, streak |-> n, severity |-> v, end |-> u, status |-> s]
BY DEF Event

\* The state machine keeps the events and the runs together.
LEMMA OrderlyStepped ==
  ASSUME Inv, Orderly, Clean, pc = "diffed", NoChangeStep, NEW n \in Nat, n = Newest
  PROVE  Matches(n, events')
<1>1. /\ n > 0 /\ n \in 1 .. n /\ UpTo(n) = 1 .. n
      /\ \A k \in 1 .. n : Unchanged(k) <=> Still(k)
      /\ rows[n].effective <=> n > 1 /\ ~ Still(n)
  BY InOrder
<1>2. /\ Len(events) \in Nat /\ DOMAIN events = 1 .. Len(events) /\ events \in Seq(Event)
      /\ \A e \in DOMAIN events : events[e] \in Event
      /\ DOMAIN rows = 1 .. n /\ \A k \in 1 .. n : rows[k] \in Row /\ rows[k].at \in Nat
      /\ Threshold \in Nat /\ Threshold > 0
  BY RowFacts, EventAt DEF Inv, TypeOK
<1>3. Matches(n - 1, events) /\ Ordered
  BY <1>1 DEF Orderly, Handled, Corresponds
<1>4. \A j, k \in 1 .. n : rows[j].at = rows[k].at => j = k
  <2> SUFFICES ASSUME NEW j \in 1 .. n, NEW k \in 1 .. n, rows[j].at = rows[k].at, j # k PROVE FALSE
    OBVIOUS
  <2>1. (j < k => rows[j].at < rows[k].at) /\ (k < j => rows[k].at < rows[j].at)
    BY <1>2, <1>3 DEF Ordered
  <2> QED
    BY <1>2, <2>1
<1>5. ASSUME OpenEvents # {}
      PROVE  /\ OpenEvent \in DOMAIN events /\ events[OpenEvent].status = "open"
             /\ \E a \in 1 .. n - 1 : IsRun(n - 1, a, n - 1) /\ events[OpenEvent] = RunEvent(n - 1, a, n - 1)
  <2>1. OpenEvent \in DOMAIN events /\ events[OpenEvent].status = "open"
    BY <1>5, OpenEventIsOpen DEF OpenEvents
  <2> QED
    BY <1>3, <2>1, OpenMatch
<1>6. OpenEvents = {} => \A e \in DOMAIN events : events[e].status # "open"
  BY DEF OpenEvents
<1>7. \A a, b \in 1 .. n : IsRun(n, a, b) /\ b = n => Still(n)
  <2> SUFFICES ASSUME NEW a \in 1 .. n, NEW b \in 1 .. n, IsRun(n, a, b), b = n PROVE Still(n)
    OBVIOUS
  <2>1. n \in a .. b
    BY DEF IsRun
  <2> QED
    BY <2>1 DEF IsRun
<1>8. \A a, b \in 1 .. n : IsRun(n, a, b) /\ b = n - 1 => ~ Still(n)
  BY DEF IsRun
<1>9. \A a, b \in 1 .. n : b = n \/ b = n - 1 \/ b < n - 1
  OBVIOUS
<1>10. CASE ~ Still(n)
  <2>1. \A a \in 1 .. n - 1 : IsRun(n - 1, a, n - 1) <=> IsRun(n, a, n - 1)
    BY <1>10 DEF IsRun
  <2>2. CASE OpenEvents = {}
    <3>1. \A a, b \in 1 .. n : IsRun(n, a, b) => b < n - 1
      <4> SUFFICES ASSUME NEW a \in 1 .. n, NEW b \in 1 .. n, IsRun(n, a, b), b = n - 1 PROVE FALSE
        BY <1>7, <1>9, <1>10
      <4>1. a \in 1 .. n - 1 /\ b \in 1 .. n - 1 /\ IsRun(n - 1, a, b)
        BY <2>1 DEF IsRun
      <4>2. PICK e \in DOMAIN events : events[e] = RunEvent(n - 1, a, b)
        BY <1>3, <4>1 DEF Matches
      <4>3. events[e].status = "open"
        BY <4>2, RunStatus
      <4> QED
        BY <2>2, <4>3 DEF OpenEvents
    <3>2. events' = events
      <4>1. ~ Unchanged(n)
        BY <1>1, <1>10
      <4> QED
        BY <2>2, <4>1 DEF NoChangeStep, Close
    <3> QED
      BY <1>3, <1>6, <2>2, <3>1, <3>2, MatchesSame
  <2>3. CASE OpenEvents # {}
    <3>1. PICK a \in 1 .. n - 1 : IsRun(n - 1, a, n - 1) /\ events[OpenEvent] = RunEvent(n - 1, a, n - 1)
      BY <1>5, <2>3
    <3>2. n > 1 /\ n - 1 \in 1 .. n /\ a \in 1 .. n
      BY <3>1
    <3>3. rows[n].effective
      BY <1>1, <1>10, <3>2
    <3>4. Close(rows[n].at)
      BY <3>3 DEF NoChangeStep, Unchanged
    <3> DEFINE x == [events[OpenEvent] EXCEPT !.end = rows[n].at, !.status = "closed"]
    <3>5. OpenEvent \in DOMAIN events /\ events[OpenEvent] \in Event /\ events[OpenEvent].status = "open"
      BY <1>2, <1>5, <2>3
    <3>6. events' = [events EXCEPT ![OpenEvent] = x]
      BY <1>2, <2>3, <3>4, <3>5 DEF Close, Event
    <3>7. x = RunEvent(n, a, n - 1)
      <4>1. n - 1 # n /\ n - 1 + 1 = n
        BY <3>2
      <4>2. /\ events[OpenEvent].start = rows[a].at /\ events[OpenEvent].streak = n - 1 - a + 1
            /\ events[OpenEvent].severity = Severity(n - 1 - a + 1)
        BY <3>1 DEF RunEvent
      <4>3. x \in Event
        <5>1. rows[n].at \in Time
          BY <1>1, <1>2 DEF Row
        <5> QED
          BY <3>5, <5>1 DEF Event
      <4>4. /\ x.start = rows[a].at /\ x.streak = n - 1 - a + 1 /\ x.severity = Severity(n - 1 - a + 1)
            /\ x.end = rows[n].at /\ x.status = "closed"
        BY <3>5, <4>2 DEF Event
      <4> HIDE DEF x
      <4> QED
        BY <4>1, <4>3, <4>4, SameEvent DEF RunEvent
    <3> HIDE DEF x
    <3>8. DOMAIN events' = DOMAIN events /\ events'[OpenEvent] = RunEvent(n, a, n - 1)
          /\ \A e \in DOMAIN events : e # OpenEvent => events'[e] = events[e]
      BY <3>5, <3>6, <3>7
    <3>9. IsRun(n, a, n - 1)
      BY <2>1, <3>1
    <3> DEFINE o == OpenEvent
               evs2 == events'
               c == n - 1
    <3>10. o \in DOMAIN events /\ events[o].status = "open" /\ events[o] = RunEvent(n - 1, a, n - 1)
           /\ c \in {n - 1, n} /\ c \in 1 .. n /\ IsRun(n, a, c) /\ DOMAIN evs2 = DOMAIN events
           /\ evs2[o] = RunEvent(n, a, c) /\ \A e \in DOMAIN events : e # o => evs2[e] = events[e]
      BY <3>1, <3>2, <3>5, <3>8, <3>9
    <3> HIDE DEF o, evs2, c
    <3>11. Matches(n, evs2)
      BY <1>3, <3>2, <3>10, MatchesRewritten
    <3> QED
      BY <3>11 DEF evs2
  <2> QED
    BY <2>2, <2>3
<1>11. CASE Still(n)
  <2>1. PICK s \in 2 .. n : /\ StreakCount(n) = n - s + 1 /\ StreakStart(n) = rows[s].at
                            /\ ~ Still(s - 1) /\ \A k \in s .. n : Still(k)
    BY <1>11, StreakIsRun
  <2> DEFINE long == n - s + 1 >= Threshold
  <2>2. long <=> IsRun(n, s, n)
    BY <2>1 DEF IsRun
  <2>3. n > 1 /\ s \in 1 .. n /\ n - s + 1 \in Nat
    BY <2>1
  <2>4. ~ rows[Newest].effective /\ Unchanged(Newest) /\ (LongEnough(StreakCount(Newest)) <=> long)
    BY <1>1, <1>11, <2>1 DEF LongEnough
  <2>5. \A a, b \in 1 .. n : IsRun(n, a, b) /\ b = n => a = s /\ long
    <3> SUFFICES ASSUME NEW a \in 1 .. n, NEW b \in 1 .. n, IsRun(n, a, b), b = n PROVE a = s /\ long
      OBVIOUS
    <3>1. ~ (a < s)
      <4> SUFFICES ASSUME a < s PROVE FALSE
        OBVIOUS
      <4>1. s - 1 \in a .. b
        BY <2>3
      <4> QED
        BY <2>1, <4>1 DEF IsRun
    <3>2. ~ (s < a)
      <4> SUFFICES ASSUME s < a PROVE FALSE
        OBVIOUS
      <4>1. a - 1 \in s .. n /\ ~ Still(a - 1)
        BY <2>3 DEF IsRun
      <4> QED
        BY <2>1, <4>1
    <3>3. a = s
      BY <2>3, <3>1, <3>2
    <3> QED
      BY <2>2, <3>3
  <2>6. \A a \in 1 .. n - 1 : IsRun(n - 1, a, n - 1) => a = s /\ long
    <3> SUFFICES ASSUME NEW a \in 1 .. n - 1, IsRun(n - 1, a, n - 1) PROVE a = s /\ long
      OBVIOUS
    <3>1. \A k \in a .. n : Still(k)
      <4>1. \A k \in a .. n : k \in a .. n - 1 \/ k = n
        OBVIOUS
      <4> QED
        BY <1>11, <4>1 DEF IsRun
    <3>2. IsRun(n, a, n)
      BY <1>2, <2>3, <3>1 DEF IsRun
    <3> QED
      BY <1>1, <2>5, <3>2
  <2> HIDE DEF long
  <2>7. CASE ~ long
    <3>1. events' = events
      BY <2>4, <2>7 DEF NoChangeStep
    <3>2. OpenEvents = {}
      BY <1>5, <2>6, <2>7
    <3>3. \A a, b \in 1 .. n : IsRun(n, a, b) => b < n - 1
      BY <1>8, <1>9, <1>11, <2>5, <2>7
    <3> QED
      BY <1>3, <1>6, <3>1, <3>2, <3>3, MatchesSame
  <2>8. CASE long
    <3> DEFINE m == n - s + 1
    <3>1. OpenOrExtend(rows[s].at, m, Severity(m))
      BY <2>1, <2>4, <2>8 DEF NoChangeStep
    <3>2. IsRun(n, s, n)
      BY <2>2, <2>8
    <3>3. CASE OpenEvents = {}
      <4> DEFINE new == [start |-> rows[s].at, end |-> Never, streak |-> m, severity |-> Severity(m), status |-> "open"]
      <4>1. events' = Append(events, new)
        BY <3>1, <3>3 DEF OpenOrExtend
      <4>2. new = RunEvent(n, s, n)
        BY DEF RunEvent
      <4> HIDE DEF new
      <4>3. Len(events') = Len(events) + 1 /\ DOMAIN events' = 1 .. Len(events) + 1
            /\ events'[Len(events) + 1] = new /\ \A e \in 1 .. Len(events) : events'[e] = events[e]
        BY <1>2, <4>1
      <4> DEFINE k == Len(events) + 1
                 evs2 == events'
      <4>4. k \notin DOMAIN events /\ DOMAIN evs2 = DOMAIN events \cup {k} /\ evs2[k] = RunEvent(n, s, n)
            /\ \A e \in DOMAIN events : evs2[e] = events[e]
        BY <1>2, <4>2, <4>3
      <4> HIDE DEF k, evs2
      <4>5. Matches(n, evs2)
        BY <1>3, <1>4, <1>6, <2>3, <3>2, <3>3, <4>4, MatchesOpened
      <4> QED
        BY <4>5 DEF evs2
    <3>4. CASE OpenEvents # {}
      <4>1. IsRun(n - 1, s, n - 1) /\ events[OpenEvent] = RunEvent(n - 1, s, n - 1)
        BY <1>5, <2>6, <3>4
      <4> DEFINE x == [events[OpenEvent] EXCEPT !.streak = m, !.severity = Severity(m)]
      <4>2. OpenEvent \in DOMAIN events /\ events[OpenEvent] \in Event /\ events[OpenEvent].status = "open"
        BY <1>2, <1>5, <3>4
      <4>3. events' = [events EXCEPT ![OpenEvent] = x]
        BY <1>2, <3>1, <3>4, <4>2 DEF OpenOrExtend, Event
      <4>4. x = RunEvent(n, s, n)
        <5>1. events[OpenEvent].start = rows[s].at /\ events[OpenEvent].end = Never
          BY <4>1 DEF RunEvent
        <5>2. x \in Event
          BY <2>3, <4>2 DEF Event, Severity
        <5>3. /\ x.start = rows[s].at /\ x.streak = m /\ x.severity = Severity(m)
              /\ x.end = Never /\ x.status = "open"
          BY <4>2, <5>1 DEF Event
        <5> HIDE DEF x
        <5> QED
          BY <5>2, <5>3, SameEvent DEF RunEvent
      <4> HIDE DEF x
      <4> DEFINE o == OpenEvent
                 evs2 == events'
      <4>5. o \in DOMAIN events /\ events[o].status = "open" /\ events[o] = RunEvent(n - 1, s, n - 1)
            /\ n \in {n - 1, n} /\ n \in 1 .. n /\ DOMAIN evs2 = DOMAIN events
            /\ evs2[o] = RunEvent(n, s, n) /\ \A e \in DOMAIN events : e # o => evs2[e] = events[e]
        BY <1>1, <4>1, <4>2, <4>3, <4>4
      <4> HIDE DEF o, evs2
      <4>6. Matches(n, evs2)
        BY <1>3, <2>3, <3>2, <4>5, MatchesRewritten
      <4> QED
        BY <4>6 DEF evs2
    <3> QED
      BY <3>3, <3>4
  <2> QED
    BY <2>7, <2>8
<1> QED
  BY <1>10, <1>11

LEMMA OrderlyApplied ==
  ASSUME Inv, Inv', Orderly, Clean', ApplyNoChange
  PROVE  Orderly'
<1>1. pc = "diffed" /\ pc' = "idle" /\ NoChangeStep /\ UNCHANGED <<rows, late, repeats, faults>>
  BY DEF ApplyNoChange, histVars
<1>2. Clean /\ Newest \in Nat /\ DOMAIN rows = 1 .. Newest
  BY <1>1, RowFacts DEF Clean
<1>3. PICK n \in Nat : n = Newest
  BY <1>2
<1>4. Matches(n, events')
  BY <1>1, <1>2, <1>3, OrderlyStepped
<1>5. \A k \in Int : Still(k)' <=> Still(k)
  BY <1>1 DEF Still, Newest
<1>6. Corresponds(n)'
  <2>1. \A a, b \in 1 .. n : IsRun(n, a, b)' <=> IsRun(n, a, b)
    BY <1>1 DEF IsRun, Still, Newest
  <2>2. \A a, b \in 1 .. n : RunEvent(n, a, b)' = RunEvent(n, a, b)
    BY <1>1 DEF RunEvent, Severity
  <2> QED
    BY <1>4, <2>1, <2>2 DEF Corresponds, Matches
<1>7. Handled' = n
  BY <1>1, <1>3 DEF Handled, Newest
<1>8. Corresponds(Handled)'
  BY <1>6, <1>7 DEF Corresponds
<1>9. Ordered /\ \A k \in DOMAIN rows : rows[k].upload = "completed" /\ Judged(k)
  BY <1>1, <1>2 DEF Orderly
<1>10. Ordered' /\ \A k \in DOMAIN rows' : rows'[k].upload = "completed" /\ Judged(k)'
  BY <1>1, <1>9 DEF Ordered, Judged
<1> QED
  BY <1>8, <1>10 DEF Orderly

LEMMA OrderlyStep ==
  ASSUME NoChangeAssumption, Inv, Inv', Orderly, [Next]_vars
  PROVE  Orderly'
<1> SUFFICES ASSUME Clean' PROVE Orderly'
  BY DEF Orderly
<1>1. ASSUME NEW t \in Time, NEW p \in Picture, Receive(t, p) PROVE Orderly'
  BY <1>1, OrderlyReceived
<1>2. CASE Finalize
  BY <1>2, OrderlyFinalized
<1>3. CASE Compare
  BY <1>3, OrderlyCompared
<1>4. CASE ApplyNoChange
  BY <1>4, OrderlyApplied
<1>5. CASE StoreFails \/ AnalysisFails \/ Crash
  <2>1. faults' = faults + 1 /\ faults \in Nat
    BY <1>5, RowFacts DEF StoreFails, AnalysisFails, Crash
  <2> QED
    BY <2>1 DEF Clean
<1>6. CASE UNCHANGED vars
  BY <1>6 DEF vars, Orderly, Clean, Ordered, Newest, Handled, Judged, Corresponds, Matches, IsRun, RunEvent, Still, Severity
<1> QED
  BY <1>1, <1>2, <1>3, <1>4, <1>5, <1>6 DEF Next, Handle

LEMMA OrderlyInit ==
  ASSUME NoChangeAssumption, Init
  PROVE  Orderly
<1>1. Newest = 0 /\ DOMAIN rows = {} /\ DOMAIN events = {} /\ Handled = 0
  BY EmptySeq DEF Init, Newest, Handled
<1> QED
  BY <1>1 DEF Orderly, Ordered, Corresponds, Matches

\* One event for each run: as many events as runs.
LEMMA OrderlyMatches ==
  ASSUME Inv, Orderly
  PROVE  EventsMatchRuns
<1> SUFFICES ASSUME pc = "idle", Clean
             PROVE  {events[e] : e \in DOMAIN events} = {EventOf(r) : r \in Runs} /\ Len(events) = Cardinality(Runs)
  BY DEF EventsMatchRuns, Clean
<1>1. Newest \in Nat /\ DOMAIN rows = 1 .. Newest /\ Len(events) \in Nat /\ DOMAIN events = 1 .. Len(events)
      /\ Threshold \in Nat
  BY RowFacts, EventAt DEF Inv
<1>2. PICK n \in Nat : n = Newest
  BY <1>1
<1>3. Matches(n, events)
  BY <1>2 DEF Orderly, Handled, Corresponds
<1>4. \A a, b \in 1 .. n : <<a, b>> \in Runs <=> IsRun(n, a, b)
  <2> SUFFICES ASSUME NEW a \in 1 .. n, NEW b \in 1 .. n PROVE <<a, b>> \in Runs <=> IsRun(n, a, b)
    OBVIOUS
  <2>1. ~ Still(n + 1)
    BY <1>2 DEF Still
  <2>2. b = n => ~ Still(b + 1)
    BY <2>1
  <2> QED
    BY <1>2, <2>2 DEF Runs, IsRun
<1>5. \A a, b \in 1 .. n : EventOf(<<a, b>>) = RunEvent(n, a, b)
  <2> SUFFICES ASSUME NEW a \in 1 .. n, NEW b \in 1 .. n PROVE EventOf(<<a, b>>) = RunEvent(n, a, b)
    OBVIOUS
  <2> QED
    BY <1>2 DEF EventOf, RunEvent, Severity
<1>6. \A r \in Runs : \E a, b \in 1 .. n : r = <<a, b>>
  BY <1>2 DEF Runs
<1>7. \A e \in DOMAIN events : \E r \in Runs : events[e] = EventOf(r)
  <2> SUFFICES ASSUME NEW e \in DOMAIN events PROVE \E r \in Runs : events[e] = EventOf(r)
    OBVIOUS
  <2>1. PICK a \in 1 .. n, b \in 1 .. n : IsRun(n, a, b) /\ events[e] = RunEvent(n, a, b)
    BY <1>3 DEF Matches
  <2>2. <<a, b>> \in Runs /\ events[e] = EventOf(<<a, b>>)
    BY <1>4, <1>5, <2>1
  <2> QED
    BY <2>2
<1>8. \A r \in Runs : \E e \in DOMAIN events : events[e] = EventOf(r)
  BY <1>3, <1>4, <1>5, <1>6 DEF Matches
<1>9. \A r, q \in Runs : EventOf(r) = EventOf(q) => r = q
  <2> SUFFICES ASSUME NEW r \in Runs, NEW q \in Runs, EventOf(r) = EventOf(q) PROVE r = q
    OBVIOUS
  <2>1. PICK a \in 1 .. n, b \in 1 .. n : r = <<a, b>>
    BY <1>6
  <2>2. PICK c \in 1 .. n, d \in 1 .. n : q = <<c, d>>
    BY <1>6
  <2>3. IsRun(n, a, b) /\ IsRun(n, c, d) /\ RunEvent(n, a, b) = RunEvent(n, c, d)
    BY <1>4, <1>5, <2>1, <2>2
  <2>4. rows[a].at = rows[c].at /\ b - a + 1 = d - c + 1
    BY <2>3 DEF RunEvent
  <2>5. a = c
    <3>1. Ordered /\ rows[a].at \in Nat /\ rows[c].at \in Nat
      BY <1>2, RowFacts DEF Orderly
    <3>2. (a < c => rows[a].at < rows[c].at) /\ (c < a => rows[c].at < rows[a].at)
      BY <1>1, <1>2, <3>1 DEF Ordered
    <3> QED
      BY <2>4, <3>1, <3>2
  <2> QED
    BY <2>1, <2>2, <2>4, <2>5
<1> DEFINE E == DOMAIN events
           R == Runs
           g == [e \in E |-> CHOOSE r \in R : events[e] = EventOf(r)]
<1>10. \A e, f \in DOMAIN events : events[e] = events[f] => e = f
  BY <1>3 DEF Matches
<1> HIDE DEF R
<1>11. \A e \in E : g[e] \in R /\ events[e] = EventOf(g[e])
  BY <1>7 DEF R
<1>12. g \in Bijection(E, R)
  <2>1. g \in [E -> R]
    BY <1>11
  <2>2. \A e, f \in E : g[e] = g[f] => e = f
    BY <1>10, <1>11
  <2>3. \A r \in R : \E e \in E : g[e] = r
    <3> SUFFICES ASSUME NEW r \in R PROVE \E e \in E : g[e] = r
      OBVIOUS
    <3>1. PICK e \in E : events[e] = EventOf(r)
      BY <1>8 DEF R
    <3>2. g[e] = r
      BY <1>9, <1>11, <3>1 DEF R
    <3> QED
      BY <3>2
  <2> HIDE DEF g, E
  <2> QED
    BY <2>1, <2>2, <2>3 DEF Bijection, Injection, Surjection, IsInjective
<1>13. Cardinality(E) = Len(events) /\ IsFiniteSet(E)
  <2>1. PICK k \in Nat : k = Len(events)
    BY <1>1
  <2>2. Cardinality(1 .. k) = k /\ IsFiniteSet(1 .. k)
    BY FS_Interval
  <2> QED
    BY <1>1, <2>1, <2>2
<1>14. Cardinality(R) = Cardinality(E)
  <2> HIDE DEF g, E
  <2> QED
    BY <1>12, <1>13, FS_Bijection DEF ExistsBijection
<1> QED
  BY <1>7, <1>8, <1>13, <1>14 DEF R

\* When captures arrive in order and once each and nothing fails, the no-change
\* events are exactly the maximal runs of unchanged captures.
THEOREM RunsCorrect == Spec => []EventsMatchRuns
<1>1. Init => Orderly
  BY OrderlyInit, NoChangeAssumption
<1>2. Inv /\ Inv' /\ Orderly /\ [Next]_vars => Orderly'
  BY OrderlyStep, NoChangeAssumption
<1>3. Inv /\ Orderly => EventsMatchRuns
  BY OrderlyMatches
<1> QED
  BY <1>1, <1>2, <1>3, InvCorrect, PTL DEF Spec
==============================================================================
