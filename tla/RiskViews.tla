------------------------------- MODULE RiskViews -------------------------------
(***************************************************************************)
(* How behaviour events, device states and access roles become what the    *)
(* dashboard and the access page show: the answers of the backend          *)
(* (summary, risk scores, review queue, access matrix) and the rows,       *)
(* figures and orders the console makes of them.  Everything here is a     *)
(* function of the data; the pages that ask for it are in OverviewPages.   *)
(*                                                                         *)
(* An event is [id, emp, sev, status, still, from, until, shot]; a later   *)
(* one has a larger id.  Names are numbers, in alphabetical order.         *)
(*                                                                         *)
(* Filters, sorts and sums are defined by places and by counting, without  *)
(* recursion over the data, for the proofs in OverviewPages_proofs;        *)
(* MCOverviewPages compares them with SelectSeq, SortSeq and FoldLeft.     *)
(***************************************************************************)
EXTENDS Integers, Sequences, SequencesExt

CONSTANTS
  Employees,    \* the employees in the order of their numbers
  NameOf,       \* [employee -> name]; two employees may have the same one
  JobOf,        \* [employee -> job role]
  OtherPoints,  \* [employee -> risk points for captures and policies]
  Streak,       \* captures in the streak of a still event
  DeviceAge,    \* age of the heartbeat of a silent device, where an event is as old as later ones are many
  AccessRoles,  \* the access roles in alphabetical order
  MembersOf,    \* [access role -> number of users]
  KeysOf        \* [access role -> its permission keys, <<module, action>>]

Employee == {Employees[i] : i \in DOMAIN Employees}

ASSUME PeopleAssumption ==
  /\ Employees \in Seq(Employee)
  /\ NameOf \in [Employee -> Int] /\ OtherPoints \in [Employee -> Nat]
  /\ Streak \in Nat /\ DeviceAge \in Int

Open == 0  \* in place of the end of an event

Each(s, Row(_)) == [i \in DOMAIN s |-> Row(s[i])]

\* The elements of s at the places in kept, each behind those at ahead[its place].
Arranged(s, kept, ahead) ==
  [n \in 1 .. Cardinality(kept) |-> s[CHOOSE i \in kept : Cardinality(ahead[i]) = n - 1]]

\* Array.sort, which is stable
Sorted(s, Before(_, _)) ==
  Arranged(s, DOMAIN s,
    [i \in DOMAIN s |-> {k \in DOMAIN s : Before(s[k], s[i]) \/ (~ Before(s[i], s[k]) /\ k < i)}])

\* Array.filter
Kept(s, Test(_)) ==
  LET kept == {i \in DOMAIN s : Test(s[i])}
  IN Arranged(s, kept, [i \in kept |-> {k \in kept : k < i}])

Number(s, Test(_)) == Cardinality({i \in DOMAIN s : Test(s[i])})

\* The sum of the natural numbers f[x], unit by unit.
Total(f) == Cardinality(UNION {{x} \X (1 .. f[x]) : x \in DOMAIN f})

\* The places of the events of an employee.
EventsOf(events, emp) == {i \in DOMAIN events : events[i].emp = emp}

-----------------------------------------------------------------------------
(* The answers of the backend *)

Urgent == {"high", "critical"}
Settled == {"resolved", "dismissed"}
Unresolved(e) == e.status \notin Settled

\* SEVERITY_WEIGHTS
Weight == [low |-> 8, medium |-> 18, high |-> 30, critical |-> 42]
\* STATUS_MULTIPLIERS in percent, for the statuses an event comes to have here
Percent(status) ==
  CASE status = "open" -> 100 [] status = "reviewed" -> 60 [] OTHER -> 70
Points(e) == (Weight[e.sev] * Percent(e.status) + 50) \div 100

DevicePoints == [online |-> 0, stale |-> 8, aged |-> 16, offline |-> 18]
Least(a, b) == IF a < b THEN a ELSE b

\* _build_employee_risk_score
RiskScore(emp, events, device) ==
  LET own == EventsOf(events, emp)
      points == Total([i \in own |-> Points(events[i])])
      stalled == \E i \in own : events[i].still /\ Unresolved(events[i])
  IN Least(100, Least(55, points)
                + (IF stalled THEN Least(20, 8 + Streak) ELSE 0)
                + DevicePoints[device[emp]] + OtherPoints[emp])

\* list_risk_scores
RiskScores(events, device) ==
  Sorted(Each(Employees, LAMBDA emp : [emp |-> emp, score |-> RiskScore(emp, events, device)]),
         LAMBDA a, b : a.score > b.score)

\* get_dashboard_summary
Summary(events, device) ==
  [employees |-> Len(Employees),
   devices |-> Len(Employees),
   online |-> Number(Employees, LAMBDA emp : device[emp] # "offline"),
   open |-> Number(events, LAMBDA e : e.status = "open"),
   urgent |-> Number(events, LAMBDA e : e.sev \in Urgent /\ Unresolved(e))]

Reviewable == {"open", "new", "reviewing", "in_progress"}

\* list_review_queue, _review_item_from_event and _review_item_from_device
ReviewQueue(events, device) ==
  LET reviewable == Kept(Reverse(events), LAMBDA e : e.status \in Reviewable)
      silent == Kept(Employees, LAMBDA emp : device[emp] # "online")
      items ==
        Each(reviewable, LAMBDA e :
          [of |-> e.id, sev |-> e.sev, status |-> e.status, age |-> Len(events) - e.id, actionable |-> TRUE])
        \o Each(silent, LAMBDA emp :
             [of |-> emp, sev |-> IF device[emp] = "stale" THEN "medium" ELSE "high",
              status |-> IF device[emp] = "offline" THEN "offline" ELSE "online",
              age |-> DeviceAge, actionable |-> FALSE])
  IN Sorted(items, LAMBDA a, b :
       \/ Weight[a.sev] > Weight[b.sev]
       \/ a.sev = b.sev /\ a.actionable /\ ~ b.actionable
       \/ a.sev = b.sev /\ a.actionable = b.actionable /\ a.age < b.age)

-----------------------------------------------------------------------------
(* Events and the review queue in the console *)

SeverityWeight == [low |-> 10, medium |-> 20, high |-> 30, critical |-> 40]

\* Mutant of EventStatus: the backend's own status is left as it is.
EventStatusAsIs(status) == status

\* normalizeEventStatus
EventStatus(status) == IF status = "open" THEN "reviewing" ELSE status

EventRow(e) ==
  [id |-> e.id, emp |-> e.emp, sev |-> e.sev, status |-> EventStatus(e.status), still |-> e.still]

\* compareEvents
EventPriority(row) == (IF row.still THEN 100 ELSE 0) + SeverityWeight[row.sev]
EventRows(events) ==
  Sorted(Each(Reverse(events), EventRow), LAMBDA a, b : EventPriority(a) > EventPriority(b))

InReview(row) == row.status \in {"new", "reviewing"}

\* normalizeReviewQueueStatus: the status of a device row is the device's.
QueueStatus(status) == IF status = "open" THEN "new" ELSE EventStatus(status)

QueueRow(item) == [item EXCEPT !.status = QueueStatus(item.status)]

StatusWeight(status) ==
  CASE status = "new" -> 20 [] status = "reviewing" -> 15 [] status = "watch" -> 10 [] OTHER -> 0

\* Mutant of QueueBefore: the age comes first.
QueueBeforeByAge(a, b) == a.age > b.age

\* compareReviewQueueItems
QueueBefore(a, b) ==
  LET priority(row) == SeverityWeight[row.sev] + StatusWeight(row.status)
  IN \/ priority(a) > priority(b)
     \/ priority(a) = priority(b) /\ a.age > b.age

QueueRows(items) == Sorted(Each(items, QueueRow), QueueBefore)

\* EventList: what the panel shows of the queue and of the events.
FirstOf(s, n) == SubSeq(s, 1, Least(n, Len(s)))
EventPanel(rows, queue) ==
  [listed |-> FirstOf(queue, 6), total |-> Len(queue),
   urgent |-> Number(queue, LAMBDA row : row.sev \in Urgent),
   latest |-> FirstOf(rows, 3), still |-> Number(rows, LAMBDA row : row.still)]

-----------------------------------------------------------------------------
(* Risk scores in the console *)

\* normalizeRiskScoreValue and normalizeRiskLevel; the backend sends a score
\* between 0 and 100, and neither a level nor a status.
RiskLevel(score) ==
  Cardinality({limit \in {1, 30, 60, 80} : score >= limit})

RiskStatus(level) == CASE level = 4 -> "High risk" [] level = 3 -> "Watch" [] level \in 1 .. 2 -> "Normal" [] OTHER -> "Low"

\* mapRiskScoreRecord
RiskRow(item) ==
  LET level == RiskLevel(item.score)
  IN [name |-> NameOf[item.emp], emp |-> item.emp, score |-> item.score, level |-> level,
      status |-> RiskStatus(level)]

\* sortRiskScores
RiskRows(items) ==
  Sorted(Each(items, RiskRow), LAMBDA a, b :
    \/ a.level > b.level
    \/ a.level = b.level /\ a.score > b.score
    \/ a.level = b.level /\ a.score = b.score /\ a.name < b.name)

\* buildHeatmapFromRiskScores: one cell for a name, as every row has the slot
\* 'Current'; the last of the highest level stays.
Heatmap(rows) ==
  [name \in {rows[i].name : i \in DOMAIN rows} |->
     rows[CHOOSE i \in DOMAIN rows :
            /\ rows[i].name = name
            /\ \A k \in DOMAIN rows : rows[k].name = name =>
                 rows[k].level < rows[i].level \/ (rows[k].level = rows[i].level /\ k <= i)]]

-----------------------------------------------------------------------------
(* Figures *)

Figure(value, note, tone) == [value |-> value, note |-> note, tone |-> tone]

\* buildDashboardKpis: without a summary, from the events of the page.
FallbackKpis(rows) ==
  LET still == Number(rows, LAMBDA row : row.still)
  IN [online |-> Figure(0, 0, "default"), active |-> Figure(0, 0, "default"),
      risk |-> Figure(Number(rows, InReview), still, IF still > 0 THEN "warning" ELSE "default")]

\* mapDashboardSummaryKpis
Kpis(sum) ==
  [online |-> Figure(sum.online, sum.devices, "positive"),
   active |-> Figure(sum.employees, sum.employees, "positive"),
   risk |-> Figure(sum.urgent, sum.open, IF sum.urgent > 0 THEN "warning" ELSE "positive")]

\* The tags above the dashboard.
Tags(queue, scores, access) ==
  [review |-> Len(queue),
   urgent |-> Number(queue, LAMBDA row : row.sev \in Urgent),
   watched |-> {scores[i].name : i \in {k \in DOMAIN scores : scores[k].level >= 3}},
   modules |-> UNION {access[i].modules : i \in DOMAIN access}]

-----------------------------------------------------------------------------
(* Access roles *)

\* get_access_matrix: a role with its permission keys and members.
AccessMatrix ==
  Each(AccessRoles, LAMBDA role : [role |-> role, keys |-> KeysOf[role], members |-> MembersOf[role]])

\* mapAccessMatrixRecord: the backend names no employee, position or department.
AccessRow(item) ==
  [role |-> item.role, members |-> item.members,
   modules |-> {key[1] : key \in item.keys}, actions |-> {key[2] : key \in item.keys}]

\* sortAccessMatrix
AccessRows(items) ==
  Sorted(Each(items, AccessRow), LAMBDA a, b : a.members > b.members)

\* matchesAccessProfile
Matches(emp, row) == row.role = JobOf[emp]

\* employeeAccessRows: unmapped employees first, then by name; the backend sends
\* no risk count.
EmployeeAccess(emps, rows) ==
  LET profiles(emp) == Kept(rows, LAMBDA row : Matches(emp, row))
      row(emp) == [emp |-> emp, name |-> NameOf[emp], mapped |-> profiles(emp) # <<>>,
                   modules |-> UNION {profiles(emp)[i].modules : i \in DOMAIN profiles(emp)},
                   actions |-> UNION {profiles(emp)[i].actions : i \in DOMAIN profiles(emp)}]
  IN Sorted(Each(emps, row), LAMBDA a, b :
       \/ ~ a.mapped /\ b.mapped
       \/ a.mapped = b.mapped /\ a.name < b.name)

\* The summary of the access page.
AccessSummary(rows, people) ==
  [roles |-> Len(rows), modules |-> UNION {rows[i].modules : i \in DOMAIN rows},
   actions |-> UNION {rows[i].actions : i \in DOMAIN rows},
   covered |-> Number(people, LAMBDA p : p.mapped),
   unmapped |-> Len(people) - Number(people, LAMBDA p : p.mapped)]
==============================================================================
