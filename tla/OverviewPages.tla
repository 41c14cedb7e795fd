----------------------------- MODULE OverviewPages -----------------------------
(***************************************************************************)
(* The pages that only show: dashboard, access roles, realtime status and  *)
(* the frames of a timeline.  A page asks once, when it is opened; the     *)
(* dashboard asks in three stages, each of which waits for all answers of  *)
(* the one before.  A request that fails gives an empty result, and those  *)
(* with a second address try that first.  The page is filled when the last *)
(* answer is there, out of snapshots that the backend took at different    *)
(* times: events are raised, reviewed and ended and devices fall silent    *)
(* in between.                                                             *)
(***************************************************************************)
EXTENDS FrameViews

CONSTANTS
  Kinds,       \* the kinds of the events that are raised, [sev, still]
  Signals,     \* the signals of the comparisons, [h, s, b]
  MaxEvents,   \* bound: events
  MaxFrames,   \* bound: frames
  Activities,  \* the activities of the frames
  Verdicts,    \* the statuses that a review gives
  States,      \* the states of a device
  MaxChanges,  \* bound: changes in the backend while a page is loaded
  MaxFailures  \* bound: failures of requests while a page is loaded

VARIABLES
  db,        \* backend: [events, device, frames, now]
  page,      \* the page that is opened
  stage,     \* the stage of requests that is under way, 0 before the page is opened
  try,       \* [request -> the address that is asked]
  answers,   \* [answered request -> the backend as it was, or nothing]
  changes    \* history: changes in the backend while the page was loading

vars == <<db, page, stage, try, answers, changes>>

\* REVIEW_ACTIONS of the events page
ReviewActions == {"reviewing", "reviewed", "confirmed", "ignored", "closed"}

ASSUME InputsAssumption ==
  /\ Kinds \subseteq [sev : DOMAIN Weight, still : BOOLEAN]
  /\ Signals \subseteq [h : Int, s : Int, b : Int]
  /\ Verdicts \subseteq ReviewActions
  /\ States \subseteq DOMAIN DevicePoints

-----------------------------------------------------------------------------
(* Requests *)

\* Mutant of Stages: the queue is asked for together with the events.
StagesQueueFirst(p) ==
  CASE p = "dashboard" -> <<{"events", "queue"}, {"summary", "risk", "access"}>>
    [] p = "access" -> <<{"access", "employees"}>>
    [] p = "realtime" -> <<{"devices"}>>
    [] p = "timeline" -> <<{"timeline", "anomalies"}>>

\* getDashboardData, loadData of the access page, getRealtimeStatus, loadTimeline;
\* without the health check and the policies, which nothing else here depends on
Stages(p) ==
  CASE p = "dashboard" -> <<{"events"}, {"summary", "risk", "access"}, {"queue"}>>
    [] p = "access" -> <<{"access", "employees"}>>
    [] p = "realtime" -> <<{"devices"}>>
    [] p = "timeline" -> <<{"timeline", "anomalies"}>>

Request == {"events", "summary", "risk", "access", "queue", "employees", "devices", "timeline", "anomalies"}
Addresses(r) == IF r \in {"access", "queue"} THEN 2 ELSE 1

\* The second address of the review queue does not exist.
Exists(r, address) == r = "queue" => address = 1

\* mapRealtimeStatusRows
RealtimeRows(device) ==
  Each(Employees, LAMBDA emp :
    LET status == IF device[emp] = "offline" THEN "offline" ELSE "online"
    IN [emp |-> emp, status |-> status, risk |-> IF status = "offline" THEN "high" ELSE "normal"])

Rows(frames, events) == Each(Reverse(frames), LAMBDA f : FrameRow(TimelineItem(f, events)))

\* What the console makes of an answer that the backend gave when it was as in at.
LiveData(r, at) ==
  CASE r = "events" -> EventRows(at.events)
    [] r = "summary" -> Kpis(Summary(at.events, at.device))
    [] r = "risk" -> RiskRows(RiskScores(at.events, at.device))
    [] r = "access" -> AccessRows(AccessMatrix)
    [] r = "queue" -> QueueRows(ReviewQueue(at.events, at.device))
    [] r = "employees" -> Employees
    [] r = "devices" -> RealtimeRows(at.device)
    [] r = "timeline" -> Rows(at.frames, at.events)
    [] r = "anomalies" -> Rows(Kept(at.frames, LAMBDA f : f.abnormal), at.events)

Live(r) == answers[r] # {}
RowsOf(r) == IF Live(r) THEN LiveData(r, CHOOSE at \in answers[r] : TRUE) ELSE <<>>

\* Without a summary the figures are counted from the events.
Figures == IF Live("summary") THEN RowsOf("summary") ELSE FallbackKpis(RowsOf("events"))

Loading == stage \in DOMAIN Stages(page)
Waited == IF Loading THEN Stages(page)[stage] \ DOMAIN answers ELSE {}
Filled == stage > Len(Stages(page))

\* What a page shows: the setters after its last await.
Dashboard ==
  LET rows == RowsOf("events")
      queue == RowsOf("queue")
      scores == RowsOf("risk")
  IN [kpis |-> Figures, rows |-> rows, queue |-> queue, scores |-> scores,
      heatmap |-> Heatmap(scores), tags |-> Tags(queue, scores, RowsOf("access")),
      panel |-> EventPanel(rows, queue)]
AccessPage ==
  LET people == EmployeeAccess(RowsOf("employees"), RowsOf("access"))
  IN [people |-> people, summary |-> AccessSummary(RowsOf("access"), people)]
RealtimePage == RowsOf("devices")
TimelinePage ==
  [rows |-> RowsOf("timeline"), anomalies |-> RowsOf("anomalies"),
   summary |-> TimelineSummary(RowsOf("timeline"))]

\* r is settled; the last one of a stage starts the next, the last one of all
\* fills the page.
Settle(r, answer) ==
  /\ stage' = IF Waited = {r} THEN stage + 1 ELSE stage
  /\ answers' = [q \in DOMAIN answers \cup {r} |-> IF q = r THEN answer ELSE answers[q]]
  /\ UNCHANGED <<db, page, try, changes>>

Answered(r) ==
  /\ r \in Waited
  /\ Exists(r, try[r])
  /\ Settle(r, {db})

Failures == Cardinality({r \in DOMAIN answers : ~ Live(r)}) + Cardinality({r \in Request : try[r] = 2})
MayFail(r) == Failures < MaxFailures \/ ~ Exists(r, try[r])

\* Mutant of Failed: the error of the last address is thrown.
FailedThrows(r, denied) ==
  /\ r \in Waited /\ MayFail(r)
  /\ denied => Exists(r, try[r])
  /\ IF try[r] < Addresses(r) /\ ~ (r = "queue" /\ denied)
     THEN /\ try' = [try EXCEPT ![r] = @ + 1]
          /\ UNCHANGED <<db, page, stage, answers, changes>>
     ELSE UNCHANGED vars

\* A request fails; only the review queue gives up at once when it is denied.
Failed(r, denied) ==
  /\ r \in Waited /\ MayFail(r)
  /\ denied => Exists(r, try[r])
  /\ IF try[r] < Addresses(r) /\ ~ (r = "queue" /\ denied)
     THEN /\ try' = [try EXCEPT ![r] = @ + 1]
          /\ UNCHANGED <<db, page, stage, answers, changes>>
     ELSE Settle(r, {})

\* With or without an answer.
Settles(r) == Answered(r) \/ \E denied \in BOOLEAN : Failed(r, denied)

OpenPage ==
  /\ stage = 0
  /\ stage' = 1
  /\ UNCHANGED <<db, page, try, answers, changes>>

-----------------------------------------------------------------------------
(* The backend goes on: agents upload, other admins review.  It has a history
   before the page is opened.  What the page does not read is left alone. *)

Changes(pages) ==
  /\ page \in pages /\ ~ Filled
  /\ stage = 0 \/ changes < MaxChanges
  /\ changes' = IF stage = 0 THEN changes ELSE changes + 1
  /\ UNCHANGED <<page, stage, try, answers>>

FramesOf(emp) == Kept(db.frames, LAMBDA f : f.emp = emp)

Event(emp, kind) ==
  [id |-> Len(db.events) + 1, emp |-> emp, sev |-> kind.sev, status |-> "open", still |-> kind.still,
   from |-> db.now, until |-> Open, shot |-> IF FramesOf(emp) = <<>> THEN 0 ELSE Last(FramesOf(emp)).id]

\* A rule or the analysis raises an event for the newest frame of an employee.
RaiseEvent(emp, kind) ==
  /\ Changes({"dashboard", "timeline"})
  /\ Len(db.events) < MaxEvents
  /\ db' = [db EXCEPT !.events = Append(@, Event(emp, kind))]

\* Another admin reviews an event, which may have been reviewed before.
ReviewEvent(i, status) ==
  /\ Changes({"dashboard"})
  /\ i \in DOMAIN db.events /\ db.events[i].status # status
  /\ db' = [db EXCEPT !.events[i].status = status]

\* A still event ends with the next effective change; no other event ends.
EndEvent(i) ==
  /\ Changes({"timeline"})
  /\ i \in DOMAIN db.events /\ db.events[i].still /\ db.events[i].until = Open
  /\ db' = [db EXCEPT !.events[i].until = db.now]

DeviceBecomes(emp, state) ==
  /\ Changes({"dashboard", "realtime"})
  /\ db.device[emp] # state
  /\ db' = [db EXCEPT !.device[emp] = state]

\* A capture of both screens, of which the first may be compared.
Capture(emp, diff, activity, abnormal) ==
  /\ Changes({"timeline"})
  /\ Len(db.frames) < MaxFrames
  /\ LET frame(screen) ==
           [id |-> Len(db.frames) + screen, emp |-> emp, at |-> db.now + 1, screen |-> screen,
            diff |-> IF screen = 1 THEN diff ELSE {}, activity |-> activity, abnormal |-> abnormal /\ screen = 1,
            keys |-> 2, analysis |-> IF abnormal THEN "completed" ELSE "skipped"]
     IN db' = [db EXCEPT !.frames = @ \o <<frame(1), frame(2)>>, !.now = @ + 1]

-----------------------------------------------------------------------------
Page == {"dashboard", "access", "realtime", "timeline"}

Init ==
  /\ db = [events |-> <<>>, device |-> [emp \in Employee |-> "online"], frames |-> <<>>, now |-> 1]
  /\ page \in Page /\ stage = 0
  /\ try = [r \in Request |-> 1]
  /\ answers = <<>>
  /\ changes = 0

Next ==
  \/ OpenPage
  \/ \E r \in Waited : Settles(r)
  \/ \E emp \in Employee, kind \in Kinds : RaiseEvent(emp, kind)
  \/ \E i \in 1 .. MaxEvents, status \in Verdicts : ReviewEvent(i, status)
  \/ \E i \in 1 .. MaxEvents : EndEvent(i)
  \/ \E emp \in Employee, state \in States : DeviceBecomes(emp, state)
  \/ \E emp \in Employee, diff \in {{}} \cup {{d} : d \in Signals}, activity \in Activities,
        abnormal \in BOOLEAN : Capture(emp, diff, activity, abnormal)

Spec == Init /\ [][Next]_vars

\* Every request settles within the client's timeout.
FairSpec == Spec /\ WF_vars(\E r \in Waited : Settles(r))

-----------------------------------------------------------------------------
Opened(p) == page = p /\ Filled
Pending(queue) == Kept(queue, LAMBDA row : row.actionable)

\* The dashboard shows its events as they were when it began to ask, and the
\* queue as it was at the end, with other admins at work in between.  An event
\* that the one shows as dealt with waits in the other only when it was put
\* back to reviewing meanwhile, and never as a new one.
ReviewedStaysOut ==
  Opened("dashboard") => LET d == Dashboard IN \A i \in DOMAIN d.queue, k \in DOMAIN d.rows :
    d.queue[i].actionable /\ d.queue[i].of = d.rows[k].id =>
      InReview(d.rows[k]) \/ (d.queue[i].status = "reviewing" /\ changes > 0)

\* When nothing has happened while the dashboard was loaded, its figures, which
\* come from three requests and two vocabularies of statuses, agree: the list
\* of events holds as many in review as wait in the queue, as many are open as
\* are new in the queue, and as many are high-risk as the list shows.
SettledDashboardAgrees ==
  Opened("dashboard") /\ changes = 0 /\ Live("events") /\ Live("summary") /\ Live("queue") =>
    LET d == Dashboard IN
      /\ Number(d.rows, InReview) = Len(Pending(d.queue))
      /\ d.kpis.risk.note = Number(d.queue, LAMBDA row : row.actionable /\ row.status = "new")
      /\ d.kpis.risk.value = Number(d.rows, LAMBDA row : row.sev \in Urgent)

\* Nothing that is graver is put behind: the events of the queue are ordered by
\* their severity whatever their age, and so are the six that are listed; a
\* cell of the heatmap stands for the worst of the employees with its name; no
\* employee without access comes after one with it.
WorstShownFirst ==
  /\ Opened("dashboard") => LET d == Dashboard  waiting == Pending(d.queue) IN
       /\ \A i, k \in DOMAIN waiting :
            i < k => SeverityWeight[waiting[i].sev] >= SeverityWeight[waiting[k].sev]
       /\ \A i \in DOMAIN d.scores :
            d.scores[i].level <= d.heatmap[d.scores[i].name].level
  /\ Opened("access") => LET people == AccessPage.people IN \A i, k \in DOMAIN people :
       i < k /\ people[i].mapped => people[k].mapped

\* What the pages say of a frame is what the backend has found, and hangs
\* together: the severity is that of the gravest linked risk, a change without
\* a level is never called effective and a major one always is, only frames
\* with a risk are segments at risk, urgent frames are abnormal ones, and the
\* figures that count captures never exceed those that count screens.
FramesAgree ==
  Opened("timeline") => LET t == TimelinePage  rows == t.rows IN
    /\ \A i \in DOMAIN rows : LET row == rows[i] IN
         /\ \A k \in DOMAIN row.risks : Grade(row.risks[k].sev) <= Grade(GalleryCard(row).severity)
         /\ row.effective => LevelWord(row.level) >= 1
         /\ row.level = "major" => Entry(row).tags[2] = "effective"
         /\ SegmentStatus(row) = "risk" <=> HighestSeverity(row) # "none"
         /\ row.still => Entry(row).summary # {}
    /\ GallerySummary(rows).high <= GallerySummary(rows).abnormal
    /\ TimelineKpis(rows).input <= t.summary.input
    /\ TimelineKpis(rows).effective <= t.summary.effective
    /\ changes = 0 /\ Live("timeline") /\ Live("anomalies") =>
         t.anomalies = Kept(rows, LAMBDA row : row.abnormal)

\* Whatever fails, a page that was opened is filled.
PageIsFilled == stage = 1 ~> Filled
==============================================================================
