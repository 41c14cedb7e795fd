------------------------------- MODULE NoChange -------------------------------
(***************************************************************************)
(* The backend's analysis of the screenshots of one screen of one device:  *)
(* an uploaded screenshot is stored, compared with the previous one, and   *)
(* run through the no-change state machine, which opens, extends and       *)
(* closes "no_change_streak_triggered" events.                             *)
(*                                                                         *)
(* The upload route is a coroutine with no await after the body is read,   *)
(* so uploads are handled one at a time; but each stage commits, so a      *)
(* crash or an exception can fall between two stages.  The agent delivers  *)
(* captures late (a released batch item is sent again after newer ones)    *)
(* and more than once (an answer that was lost).  Time is the capture      *)
(* number.  A picture has a view (what is on the screen) and a detail (a   *)
(* blinking cursor, the clock).                                            *)
(***************************************************************************)
EXTENDS Integers, Sequences, FiniteSets, ChangeLevel

CONSTANTS
  MaxCaptures,  \* bound: capture times
  MaxUploads,   \* bound: uploads received
  MaxLate,      \* bound: uploads of a capture older than one already stored
  MaxRepeats,   \* bound: uploads of a capture already stored
  MaxFaults,    \* bound: storage failures, analysis failures and crashes
  Threshold,    \* Policy.no_change_threshold
  View, Detail  \* what a picture is made of

ASSUME NoChangeAssumption ==
  /\ MaxCaptures \in Nat /\ MaxUploads \in Nat
  /\ MaxLate \in Nat /\ MaxRepeats \in Nat /\ MaxFaults \in Nat
  /\ Threshold \in Nat \ {0}

Time == 1..MaxCaptures
Picture == View \X Detail
NoRow == 0
Never == 0

VARIABLES
  rows,     \* the screenshots in order of creation, each with its diff
  events,   \* the no-change events in order of creation
  pc,       \* the stage of the newest upload: "idle", "received", "stored", "diffed"
  late, repeats, faults   \* history

vars == <<rows, events, pc, late, repeats, faults>>
histVars == <<late, repeats, faults>>

Row == [at : Time, picture : Picture,
        upload : {"pending", "failed", "completed"},
        analysis : {"pending", "failed", "completed"},
        prev : 0..MaxUploads, compared : BOOLEAN,
        level : {"unknown", "none", "minor", "major"}, effective : BOOLEAN]

Event == [start : Time, end : Time \cup {Never}, streak : Nat,
          severity : {"medium", "high"}, status : {"open", "closed"}]

Init ==
  /\ rows = <<>> /\ events = <<>> /\ pc = "idle"
  /\ late = 0 /\ repeats = 0 /\ faults = 0

Newest == Len(rows)   \* the row being handled
Stored == {k \in DOMAIN rows : rows[k].upload = "completed"}

------------------------------------------------------------------------------
(* Queries. *)

\* ORDER BY captured_at, created_at
Precedes(j, k) == rows[j].at < rows[k].at \/ (rows[j].at = rows[k].at /\ j < k)

\* The stored screenshots that were not captured after row k.
UpTo(k) == {j \in Stored : rows[j].at <= rows[k].at}

\* _get_previous_completed_screenshot
Previous(k) ==
  LET others == UpTo(k) \ {k}
  IN  IF others = {} THEN NoRow
      ELSE CHOOSE j \in others : \A i \in others : i = j \/ Precedes(i, j)

Unchanged(j) ==
  /\ rows[j].compared /\ rows[j].prev # NoRow
  /\ rows[j].level # "unknown" /\ ~ rows[j].effective

\* Mutant of StreakRows: the walk does not stop at a change.
StreakSkipsChanges(k) == {j \in UpTo(k) : Unchanged(j)}

\* _no_change_streak: walking back from row k, the rows up to the first change.
StreakRows(k) ==
  {j \in UpTo(k) : \A i \in UpTo(k) : i = j \/ Precedes(j, i) => Unchanged(i)}

StreakCount(k) == Cardinality(StreakRows(k))
StreakTimes(k) == {rows[j].at : j \in StreakRows(k)}
StreakStart(k) == CHOOSE t \in StreakTimes(k) : \A u \in StreakTimes(k) : t <= u

\* Mutant of OpenEvents: the status of the event is not looked at.
OpenEventsOfAnyStatus == DOMAIN events

\* _get_open_no_change_event finds one of these; ORDER BY start_at DESC.
OpenEvents == {e \in DOMAIN events : events[e].status = "open"}
OpenEvent == CHOOSE e \in OpenEvents : \A f \in OpenEvents : events[f].start <= events[e].start

------------------------------------------------------------------------------
(* One upload, stage by stage. *)

\* upload_screenshot commits a row before anything is stored.
Receive(t, p) ==
  /\ pc = "idle"
  /\ Newest < MaxUploads
  /\ \A k \in DOMAIN rows : rows[k].at = t => rows[k].picture = p
  /\ late' = IF \E k \in Stored : t < rows[k].at THEN late + 1 ELSE late
  /\ repeats' = IF \E k \in Stored : t = rows[k].at THEN repeats + 1 ELSE repeats
  /\ late' <= MaxLate /\ repeats' <= MaxRepeats
  /\ rows' = Append(rows, [at |-> t, picture |-> p, upload |-> "pending", analysis |-> "pending",
                           prev |-> NoRow, compared |-> FALSE,
                           level |-> "unknown", effective |-> FALSE])
  /\ pc' = "received"
  /\ UNCHANGED <<events, faults>>

\* storage.save raises: the row is marked and the agent will send it again.
StoreFails ==
  /\ pc = "received"
  /\ faults < MaxFaults /\ faults' = faults + 1
  /\ rows' = [rows EXCEPT ![Newest].upload = "failed"]
  /\ pc' = "idle"
  /\ UNCHANGED <<events, late, repeats>>

\* _finalize_screenshot
Finalize ==
  /\ pc = "received"
  /\ rows' = [rows EXCEPT ![Newest].upload = "completed"]
  /\ pc' = "stored"
  /\ UNCHANGED <<events, histVars>>

\* The three signals of two pictures.  The agent sends the SHA-256 of the image as
\* its "phash": equal for equal files, about half of the 256 bits apart for
\* any others.  The pixels tell a detail from a view, if the previous image
\* is still on disk.
FarDigest == 128
Hash(p, q) == IF p = q THEN 0 ELSE FarDigest
Pixels(p, q) ==
  CASE p = q -> <<1000, 0>>
    [] p # q /\ p[1] = q[1] -> <<999, 1>>
    [] p[1] # q[1] -> <<700, 40>>

\* The diff of the newest row is written, with the row it was compared to.
Diffed(level, effective) ==
  rows' = [rows EXCEPT ![Newest] = [@ EXCEPT !.compared = TRUE, !.analysis = "completed",
                                             !.prev = Previous(Newest),
                                             !.level = level, !.effective = effective]]

\* analyze_completed_screenshot up to its commit: _build_metrics and the diff.
Compare ==
  /\ pc = "stored"
  /\ IF Previous(Newest) = NoRow
     THEN Diffed("unknown", FALSE)
     ELSE LET p == rows[Previous(Newest)].picture
              q == rows[Newest].picture
          IN  \E px \in {Pixels(p, q), <<Missing, Missing>>} :
                Diffed(Level(Hash(p, q), px[1], px[2]), IsEffective(Hash(p, q), px[1], px[2]))
  /\ pc' = "diffed"
  /\ UNCHANGED <<events, histVars>>

\* An effective change closes the open event of this screen, if there is one.
Close(t) ==
  IF OpenEvents = {} THEN UNCHANGED events
  ELSE events' = [events EXCEPT ![OpenEvent].end = t, ![OpenEvent].status = "closed"]

\* Mutant of OpenOrExtend: the open event is not looked up.
OpenAlways(start, n, severity) ==
  events' = Append(events, [start |-> start, end |-> Never, streak |-> n,
                            severity |-> severity, status |-> "open"])

\* A long enough streak opens an event, or updates the open one.
OpenOrExtend(start, n, severity) ==
  IF OpenEvents = {}
  THEN events' = Append(events, [start |-> start, end |-> Never, streak |-> n,
                                 severity |-> severity, status |-> "open"])
  ELSE events' = [events EXCEPT ![OpenEvent].streak = n, ![OpenEvent].severity = severity]

Severity(n) == IF n >= 2 * Threshold THEN "high" ELSE "medium"

\* Mutant of LongEnough: the boundary is off by one.
LongerThan(n) == n > Threshold

LongEnough(n) == n >= Threshold

\* _apply_no_change_state_machine
NoChangeStep ==
  LET n == StreakCount(Newest)
  IN  CASE rows[Newest].effective -> Close(rows[Newest].at)
        [] Unchanged(Newest) /\ LongEnough(n) -> OpenOrExtend(StreakStart(Newest), n, Severity(n))
        [] OTHER -> UNCHANGED events

ApplyNoChange ==
  /\ pc = "diffed"
  /\ NoChangeStep
  /\ pc' = "idle"
  /\ UNCHANGED <<rows, histVars>>

\* Any exception in the analysis, before or after the state machine commits:
\* mark_analysis_failed, and the agent is told that the upload succeeded.
AnalysisFails ==
  /\ pc \in {"stored", "diffed"}
  /\ faults < MaxFaults /\ faults' = faults + 1
  /\ UNCHANGED events \/ (pc = "diffed" /\ NoChangeStep)
  /\ rows' = [rows EXCEPT ![Newest].analysis = "failed"]
  /\ pc' = "idle"
  /\ UNCHANGED <<late, repeats>>

\* The backend dies; what has been committed stays.
Crash ==
  /\ pc # "idle"
  /\ faults < MaxFaults /\ faults' = faults + 1
  /\ pc' = "idle"
  /\ UNCHANGED <<rows, events, late, repeats>>

Handle == Finalize \/ Compare \/ ApplyNoChange

Next ==
  \/ \E t \in Time, p \in Picture : Receive(t, p)
  \/ Handle
  \/ StoreFails
  \/ AnalysisFails
  \/ Crash

Spec == Init /\ [][Next]_vars

------------------------------------------------------------------------------
(* Properties *)

TypeOK ==
  /\ rows \in Seq(Row) /\ Len(rows) <= MaxUploads
  /\ events \in Seq(Event)
  /\ pc \in {"idle", "received", "stored", "diffed"}
  /\ pc # "idle" => rows # <<>>
  /\ late \in 0..MaxLate /\ repeats \in 0..MaxRepeats /\ faults \in 0..MaxFaults

\* However captures arrive, a screen never has two open events: the next change
\* would close only one of them.
OneOpenEvent == Cardinality(OpenEvents) <= 1

\* What a reader of the captures expects: the maximal runs of at least Threshold
\* captures, each equal to the one before it.
Still(k) == k \in 2..Newest /\ rows[k].picture = rows[k - 1].picture
Runs ==
  {r \in (1..Newest) \X (1..Newest) :
     /\ r[1] <= r[2] /\ r[2] - r[1] + 1 >= Threshold
     /\ \A k \in r[1]..r[2] : Still(k)
     /\ ~ Still(r[1] - 1) /\ ~ Still(r[2] + 1)}
EventOf(r) ==
  [start |-> rows[r[1]].at, streak |-> r[2] - r[1] + 1,
   severity |-> IF r[2] - r[1] + 1 >= 2 * Threshold THEN "high" ELSE "medium",
   end |-> IF r[2] = Newest THEN Never ELSE rows[r[2] + 1].at,
   status |-> IF r[2] = Newest THEN "open" ELSE "closed"]

\* When captures arrive in order and once each, and nothing fails, the events
\* are exactly those runs: start, end, length, severity, and open if and only
\* if the screen is still unchanged ("generated and closed accurately").
EventsMatchRuns ==
  (pc = "idle" /\ late = 0 /\ repeats = 0 /\ faults = 0) =>
    /\ {events[e] : e \in DOMAIN events} = {EventOf(r) : r \in Runs}
    /\ Len(events) = Cardinality(Runs)

\* A closed event is history: whatever arrives later, however late, it keeps
\* its interval, its length and its severity, and no event disappears.
ClosedIsFinal ==
  [][\A e \in DOMAIN events :
       /\ e \in DOMAIN events'
       /\ events[e].status = "closed" => events'[e] = events[e]]_vars

\* "The same still interval does not generate several events"
\* (DEVELOPMENT_PLAN.md:266): no two events start at the same capture.
OneEventPerStillInterval ==
  \A e, f \in DOMAIN events : events[e].start = events[f].start => e = f

\* Each surplus event for a still interval needs an upload out of order: a
\* repeated upload, a failure or a crash alone never makes one.
SurplusNeedsLate ==
  \A t \in Time : Cardinality({e \in DOMAIN events : events[e].start = t}) <= 1 + late
==============================================================================
