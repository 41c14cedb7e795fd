------------------------------ MODULE FrameViews ------------------------------
(***************************************************************************)
(* How the frames that the backend has compared and judged become what     *)
(* timeline, gallery and detail say of them: the items of the timeline,    *)
(* the words and colours of the change, the risks that are linked to a     *)
(* frame and the figures over a list of frames.                            *)
(*                                                                         *)
(* A frame is [id, emp, at, screen, diff, activity, abnormal, keys,        *)
(* analysis]: at numbers the captures; diff holds the signals of           *)
(* ChangeLevel, [h, s, b], or nothing when no comparison was made.         *)
(***************************************************************************)
EXTENDS ChangeLevel, RiskViews

Severities == <<"none", "low", "medium", "high", "critical">>
Grade(sev) == CHOOSE i \in DOMAIN Severities : Severities[i] = sev

-----------------------------------------------------------------------------
(* The answer of the backend *)

\* _risk_events_for_screenshot; an employee has one device.
Concerns(e, frame) ==
  /\ e.emp = frame.emp
  /\ \/ e.shot = frame.id
     \/ e.from <= frame.at /\ (e.until = Open \/ e.until >= frame.at)

\* list_timeline, one item; a frame that was not compared is not effective.
TimelineItem(frame, events) ==
  [id |-> frame.id, emp |-> frame.emp, at |-> frame.at, activity |-> frame.activity,
   abnormal |-> frame.abnormal, keys |-> frame.keys, analysis |-> frame.analysis,
   level |-> IF frame.diff = {} THEN "unknown" ELSE CHOOSE l \in {Level(d.h, d.s, d.b) : d \in frame.diff} : TRUE,
   effective |-> \E d \in frame.diff : IsEffective(d.h, d.s, d.b),
   risks |-> Kept(events, LAMBDA e : Concerns(e, frame))]

-----------------------------------------------------------------------------
(* One frame in the console *)

\* mapLinkedRisk, and isNoChangeEventCode of its type
LinkedRisk(e) == [of |-> e.id, sev |-> e.sev, status |-> EventStatus(e.status), still |-> e.still]

\* mapScreenshotListItem
FrameRow(item) ==
  LET risks == Each(item.risks, LinkedRisk)
  IN [id |-> item.id, emp |-> item.emp, at |-> item.at, activity |-> item.activity,
      abnormal |-> item.abnormal, keys |-> item.keys, analysis |-> item.analysis,
      level |-> item.level, effective |-> item.effective,
      risks |-> risks, count |-> Len(risks),
      still |-> \E i \in DOMAIN risks : risks[i].still]

\* Mutant of HighestSeverity: the risks are sorted the other way round.
HighestSeverityReversed(row) ==
  IF row.count = 0 THEN IF row.still THEN "high" ELSE "none" ELSE Sorted(row.risks, LAMBDA a, b : Grade(a.sev) < Grade(b.sev))[1].sev

\* resolveHighestRiskSeverity
HighestSeverity(row) ==
  IF row.count = 0 THEN IF row.still THEN "high" ELSE "none" ELSE Sorted(row.risks, LAMBDA a, b : Grade(a.sev) > Grade(b.sev))[1].sev

\* isAbnormalScreenshot
Abnormal(row) == row.abnormal \/ row.still \/ row.count > 0

\* formatChangeLevel of the levels that ChangeLevel knows, as a rank of its words
LevelWord(level) == CASE level = "major" -> 3 [] level = "minor" -> 1 [] level = "none" -> 0 [] OTHER -> -1

\* changeLevelColor
LevelColor(level) ==
  CASE level = "major" -> "error" [] level = "minor" -> "processing" [] level = "none" -> "default" [] OTHER -> "blue"

\* formatChangeMetricsTags, as far as it depends on the verdict
ChangeTags(row) == <<LevelWord(row.level), IF row.effective THEN "effective" ELSE "no effect">>

\* formatRiskSummary
RiskSummary(row) == {row.risks[i].of : i \in DOMAIN row.risks}

\* TimelineEntry
Entry(row) ==
  [tags |-> ChangeTags(row), still |-> row.still, risk |-> row.count, summary |-> RiskSummary(row)]

\* The card of the gallery.
GalleryCard(row) ==
  [severity |-> HighestSeverity(row), tags |-> ChangeTags(row), still |-> row.still, summary |-> RiskSummary(row)]

\* buildAiNotice, of the analysis statuses of the backend
AiNotice(status) ==
  CASE status = "failed" -> "error"
    [] status \in {"processing", "pending"} -> "info"
    [] status = "skipped" -> "warning"
    [] OTHER -> "success"

\* buildTimelineStatus
SegmentStatus(row) ==
  IF row.count > 0 THEN "risk"
  ELSE IF row.activity = "meeting" THEN "meeting"
  ELSE IF row.activity \in {"idle", "locked"} \/ ~ row.effective THEN "idle"
  ELSE "working"

-----------------------------------------------------------------------------
(* Lists of frames *)

\* The summary above the timeline: screens are added up, not captures.
TimelineSummary(rows) ==
  [visible |-> Len(rows), effective |-> Number(rows, LAMBDA row : row.effective),
   input |-> Total([i \in DOMAIN rows |-> rows[i].keys])]

\* The summary above the gallery.
GallerySummary(rows) ==
  [abnormal |-> Number(rows, Abnormal),
   high |-> Number(rows, LAMBDA row : HighestSeverity(row) \in Urgent)]

\* buildTimelineKpis: a capture counts once, whatever the number of its screens.
TimelineKpis(rows) ==
  LET captures == {rows[i].at : i \in DOMAIN rows}
      of(at) == {i \in DOMAIN rows : rows[i].at = at}
      most(at) == rows[CHOOSE i \in of(at) : \A k \in of(at) : rows[k].keys <= rows[i].keys].keys
  IN [frames |-> Cardinality(captures),
      effective |-> Cardinality({at \in captures : \E i \in of(at) : rows[i].effective}),
      still |-> Cardinality({at \in captures : \E i \in of(at) : rows[i].still}),
      input |-> Total([at \in captures |-> most(at)])]
==============================================================================
