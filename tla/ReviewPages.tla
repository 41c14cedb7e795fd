------------------------------ MODULE ReviewPages ------------------------------
(***************************************************************************)
(* The two pages on which a person reviews what the backend has found:     *)
(* Events changes its rows at once, before the backend answers, and puts   *)
(* them back when it refuses; Attendance asks in a dialog and changes its  *)
(* rows with the answer only.  Attendance also edits the default rule.     *)
(***************************************************************************)
EXTENDS ConsolePage

CONSTANTS
  Event,         \* risk events
  Entry,         \* attendance records
  Rules,         \* thresholds that the attendance rule may have
  DefaultRule    \* FALLBACK_RULE_SUMMARY, the thresholds of the program

ReviewActions == {"reviewing", "confirmed"}
Filters == {"reviewable", "all"}

\* The rows that the event list has under a status filter.
EventList(filter) ==
  {[key |-> e, status |-> db[e]] : e \in {e \in Event : filter = "all" \/ db[e] \in {"new", "reviewing"}}}
RowKeys(s) == {r.key : r \in s}

-----------------------------------------------------------------------------
(* Events *)

\* loadEvents: nothing cancels an earlier one.
LoadEvents(filter) ==
  /\ sent < MaxRequests
  /\ sent' = sent + 1
  /\ running' = running \cup {[Handler("load", [filter |-> filter]) EXCEPT !.try = 0]}
  /\ crossed' = (crossed \/ running # {})
  /\ said' = Silent

\* updateFilter, and the effect that loads the list of the new filter.
UpdateFilter(filter) ==
  /\ filter # ui.filter
  /\ LoadEvents(filter)
  /\ ui' = [ui EXCEPT !.filter = filter, !.loading = TRUE]
  /\ UNCHANGED <<page, db, rows, api, listed>>

\* The reload button does not click while it is loading.
ReloadEvents ==
  /\ ~ ui.loading
  /\ LoadEvents(ui.filter)
  /\ ui' = [ui EXCEPT !.loading = TRUE]
  /\ UNCHANGED <<page, db, rows, api, listed>>

WithStatus(s, key, status) == {IF r.key = key THEN [r EXCEPT !.status = status] ELSE r : r \in s}

\* handleReviewAction up to its await.
ReviewAction(e, status) ==
  /\ e \in RowKeys(rows) /\ e \notin ui.pending
  /\ Start("review", [key |-> e, status |-> status, before |-> rows, filter |-> ui.filter])
  /\ rows' = WithStatus(rows, e, status)
  /\ ui' = [ui EXCEPT !.pending = @ \cup {e}]
  /\ UNCHANGED <<page, db, api, listed>>

\* Mutant of ReviewSettled: the rows are not put back.
ReviewSettledKeepsRows(h) ==
  LET result == ReviewEvent(IF h.try = 0 THEN "ok" ELSE h.answer, GetEvents(h.answer, h.list))
  IN /\ h.op = "review" /\ Answered(h) /\ (h.try = 0 \/ h.answer # "ok")
     /\ \/ /\ result.data # {}
           /\ ShowList(h, result)
           /\ ui' = [ui EXCEPT !.pending = @ \ {h.arg.key}]
           /\ Say(h, "success")
        \/ /\ result.data = {} /\ result.label = "Access denied"
           /\ rows' = rows /\ api' = "mock" /\ listed' = listed
           /\ ui' = [ui EXCEPT !.pending = @ \ {h.arg.key}]
           /\ Say(h, "unchanged")
        \/ /\ result.data = {} /\ result.label # "Access denied"
           /\ api' = "mock" /\ UNCHANGED <<rows, listed>>
           /\ ui' = [ui EXCEPT !.pending = @ \ {h.arg.key}]
           /\ Say(h, "locally")
     /\ Ends(h)
     /\ UNCHANGED <<page, db, sent, crossed>>

\* Mutant of ReviewSettled: every pending mark is removed.
ReviewSettledReleasesAll(h) ==
  LET result == ReviewEvent(IF h.try = 0 THEN "ok" ELSE h.answer, GetEvents(h.answer, h.list))
  IN /\ h.op = "review" /\ Answered(h) /\ (h.try = 0 \/ h.answer # "ok")
     /\ \/ /\ result.data # {}
           /\ ShowList(h, result)
           /\ ui' = [ui EXCEPT !.pending = {}]
           /\ Say(h, "success")
        \/ /\ result.data = {}
           /\ api' = "mock" /\ UNCHANGED <<rows, listed>>
           /\ ui' = [ui EXCEPT !.pending = {}]
           /\ Say(h, "locally")
     /\ Ends(h)
     /\ UNCHANGED <<page, db, sent, crossed>>

\* handleReviewAction after its await: the rows of the new list; or, when access
\* is denied, the rows as they were at the click; or the changed rows.
ReviewSettled(h) ==
  LET result == ReviewEvent(IF h.try = 0 THEN "ok" ELSE h.answer, GetEvents(h.answer, h.list))
  IN /\ h.op = "review" /\ Answered(h) /\ (h.try = 0 \/ h.answer # "ok")
     /\ \/ /\ result.data # {}
           /\ ShowList(h, result)
           /\ ui' = [ui EXCEPT !.pending = @ \ {h.arg.key}]
           /\ Say(h, "success")
        \/ /\ result.data = {} /\ result.label = "Access denied"
           /\ rows' = h.arg.before /\ api' = "mock" /\ listed' = listed
           /\ ui' = [ui EXCEPT !.pending = @ \ {h.arg.key}]
           /\ Say(h, "unchanged")
        \/ /\ result.data = {} /\ result.label # "Access denied"
           /\ api' = "mock" /\ UNCHANGED <<rows, listed>>
           /\ ui' = [ui EXCEPT !.pending = @ \ {h.arg.key}]
           /\ Say(h, "locally")
     /\ Ends(h)
     /\ UNCHANGED <<page, db, sent, crossed>>

EventsLoaded(h) ==
  /\ page = "events" /\ h.op = "load" /\ Answered(h)
  /\ ShowList(h, GetEvents(h.answer, h.list))
  /\ ui' = [ui EXCEPT !.loading = FALSE]
  /\ Ends(h)
  /\ UNCHANGED <<page, db, sent, crossed, said>>

\* Mutant of ReviewedList: the list after a review is not filtered.
ReviewedListUnfiltered(h) == EventList("all")

\* The list after a review is asked for with the filters of the click.
ReviewedList(h) == EventList(h.arg.filter)

\* reviewEvent: the review, and the list if it was accepted.
ServeEvents(h) ==
  \/ h.op = "review" /\ ServeChange(h, Answer \ {"invalid"}, [db EXCEPT ![h.arg.key] = h.arg.status])
  \/ /\ h.op = "review" /\ h.try > 0 /\ h.answer = "ok"
     /\ AskList(h)
     /\ UNCHANGED <<page, db, rows, api, ui, sent, crossed, said, listed>>
  \/ h.op = "review" /\ ServeList(h, ReviewedList(h))
  \/ page = "events" /\ h.op = "load" /\ ServeList(h, EventList(h.arg.filter))

EventsInit ==
  /\ Opened("events", [e \in Event |-> "new"], {}, [filter |-> "reviewable"])
  /\ ui = [filter |-> "reviewable", loading |-> TRUE, pending |-> {}]

EventsUser ==
  \/ ReloadEvents
  \/ \E filter \in Filters : UpdateFilter(filter)
  \/ \E e \in Event, status \in ReviewActions : ReviewAction(e, status)

EventsHandles == \E h \in running : ServeEvents(h) \/ ReviewSettled(h) \/ EventsLoaded(h)

EventsNext == page = "events" /\ (EventsUser \/ EventsHandles)

-----------------------------------------------------------------------------
(* Attendance *)

RuleIn(lists) == (CHOOSE r \in UNION lists : TRUE).status
RuleList(rule) == {[key |-> "rule", status |-> rule]}
AttendanceList == {[key |-> r, status |-> db.review[r]] : r \in Entry}

\* The dialog of a record whose state is not yet the one it would set.
OpenReview(r, status) ==
  /\ ui.draft = {} /\ ~ ui.editor
  /\ \E row \in rows : row.key = r /\ row.status # status
  /\ ui' = [ui EXCEPT !.draft = {[key |-> r, status |-> status]}]
  /\ UNCHANGED <<page, db, rows, api, running, sent, crossed, said, listed>>

\* The dialog can be closed while its review is under way.
CloseReview ==
  /\ ui.draft # {}
  /\ ui' = [ui EXCEPT !.draft = {}]
  /\ UNCHANGED <<page, db, rows, api, running, sent, crossed, said, listed>>

\* submitReview up to its await; its button does not click while it is loading.
SubmitReview ==
  \E draft \in ui.draft :
    /\ ui.reviewing # {draft}
    /\ Start("judge", draft)
    /\ ui' = [ui EXCEPT !.reviewing = {draft}]
    /\ UNCHANGED <<page, db, rows, api, listed>>

\* submitReview after its await: whichever dialog is open is closed.
ReviewSubmitted(h) ==
  LET result == ReviewAttendance(IF h.try = 0 THEN "ok" ELSE h.answer, GetAttendance(h.answer, h.list))
  IN /\ h.op = "judge" /\ Answered(h) /\ (h.try = 0 \/ h.answer # "ok")
     /\ \/ /\ result.data # {}
           /\ ShowList(h, result)
           /\ Say(h, "success")
        \/ /\ result.data = {}
           /\ api' = "mock" /\ UNCHANGED <<rows, listed>>
           /\ Say(h, IF result.code = "unavailable" THEN "not saved" ELSE "rejected")
     /\ ui' = [ui EXCEPT !.reviewing = {}, !.draft = {}]
     /\ Ends(h)
     /\ UNCHANGED <<page, db, sent, crossed>>

\* openRuleEditor: the form starts with the rule that is shown.
OpenRuleEditor ==
  /\ ui.draft = {} /\ ~ ui.editor
  /\ ui' = [ui EXCEPT !.editor = TRUE]
  /\ UNCHANGED <<page, db, rows, api, running, sent, crossed, said, listed>>

CloseRuleEditor ==
  /\ ui.editor
  /\ ui' = [ui EXCEPT !.editor = FALSE]
  /\ UNCHANGED <<page, db, rows, api, running, sent, crossed, said, listed>>

\* submitRuleUpdate up to its await.
SubmitRule(rule) ==
  /\ ui.editor /\ ~ ui.ruleSaving
  /\ Start("rule", [rule |-> rule])
  /\ ui' = [ui EXCEPT !.ruleSaving = TRUE]
  /\ UNCHANGED <<page, db, rows, api, listed>>

\* Mutant of RuleSettled: the default of a failed reload stays.
RuleSettledDefault(h) ==
  LET result == UpdateAttendanceRule(IF h.try = 0 THEN "ok" ELSE h.answer, RuleList(h.arg.rule))
      again == GetAttendanceRules(h.answer, h.list, RuleList(DefaultRule))
  IN /\ h.op = "rule" /\ Answered(h) /\ (h.try = 0 \/ h.answer # "ok")
     /\ \/ /\ result.data # {}
           /\ ui' = [ui EXCEPT !.rule = RuleIn(again.data), !.editor = FALSE, !.ruleSaving = FALSE]
           /\ Say(h, "success")
        \/ /\ result.data = {}
           /\ ui' = [ui EXCEPT !.ruleSaving = FALSE]
           /\ Say(h, "not saved")
     /\ Ends(h)
     /\ UNCHANGED <<page, db, rows, api, sent, crossed, listed>>

\* submitRuleUpdate after its awaits: the rule that was reloaded, or the one
\* that was saved when the reload only had a default.
RuleSettled(h) ==
  LET result == UpdateAttendanceRule(IF h.try = 0 THEN "ok" ELSE h.answer, RuleList(h.arg.rule))
      again == GetAttendanceRules(h.answer, h.list, RuleList(DefaultRule))
      rule == IF again.source = "live" THEN again.data ELSE result.data
  IN /\ h.op = "rule" /\ Answered(h) /\ (h.try = 0 \/ h.answer # "ok")
     /\ \/ /\ result.data # {}
           /\ ui' = [ui EXCEPT !.rule = RuleIn(rule), !.editor = FALSE, !.ruleSaving = FALSE]
           /\ Say(h, "success")
        \/ /\ result.data = {}
           /\ ui' = [ui EXCEPT !.ruleSaving = FALSE]
           /\ Say(h, "not saved")
     /\ Ends(h)
     /\ UNCHANGED <<page, db, rows, api, sent, crossed, listed>>

\* The reload button asks for the records and for the rule.
ReloadAttendance ==
  /\ ui.draft = {} /\ ~ ui.editor /\ ~ ui.loading
  /\ sent + 1 < MaxRequests \* two handlers start
  /\ sent' = sent + 2
  /\ running' = running \cup {[Handler(op, NoArg) EXCEPT !.try = 0] : op \in {"load", "rules"}}
  /\ crossed' = (crossed \/ running # {})
  /\ said' = Silent
  /\ ui' = [ui EXCEPT !.loading = TRUE]
  /\ UNCHANGED <<page, db, rows, api, listed>>

\* loadAttendance and loadAttendanceRules after their awaits.
AttendanceLoaded(h) ==
  /\ page = "attendance" /\ h.op = "load" /\ Answered(h)
  /\ ShowList(h, GetAttendance(h.answer, h.list))
  /\ ui' = [ui EXCEPT !.loading = FALSE]
  /\ Ends(h)
  /\ UNCHANGED <<page, db, sent, crossed, said>>

RulesLoaded(h) ==
  /\ h.op = "rules" /\ Answered(h)
  /\ ui' = [ui EXCEPT !.rule = RuleIn(GetAttendanceRules(h.answer, h.list, RuleList(DefaultRule)).data)]
  /\ Ends(h)
  /\ UNCHANGED <<page, db, rows, api, sent, crossed, said, listed>>

ServeAttendance(h) ==
  \/ h.op = "judge" /\ ServeChange(h, Answer, [db EXCEPT !.review[h.arg.key] = h.arg.status])
  \/ h.op = "rule" /\ ServeChange(h, Answer, [db EXCEPT !.rule = h.arg.rule])
  \/ /\ h.op \in {"judge", "rule"} /\ h.try > 0 /\ h.answer = "ok"
     /\ AskList(h)
     /\ UNCHANGED <<page, db, rows, api, ui, sent, crossed, said, listed>>
  \/ h.op \in {"rule", "rules"} /\ ServeList(h, RuleList(db.rule))
  \/ page = "attendance" /\ h.op \in {"judge", "load"} /\ ServeList(h, AttendanceList)

AttendanceInit ==
  /\ page = "attendance"
  /\ \E rule \in Rules : db = [review |-> [r \in Entry |-> "pending"], rule |-> rule]
  /\ rows = {} /\ listed = {}
  /\ api = "none"
  /\ sent = 1
  /\ running = {[n |-> 1, op |-> op, arg |-> NoArg, try |-> 0, answer |-> Waiting, list |-> NoList,
                 times |-> 0, lost |-> FALSE] : op \in {"load", "rules"}}
  /\ crossed = FALSE /\ said = Silent
  /\ ui = [loading |-> TRUE, draft |-> {}, reviewing |-> {}, editor |-> FALSE, ruleSaving |-> FALSE, rule |-> DefaultRule]

AttendanceUser ==
  \/ \E r \in Entry, status \in {"confirmed", "ignored"} : OpenReview(r, status)
  \/ CloseReview \/ SubmitReview \/ ReloadAttendance
  \/ OpenRuleEditor \/ CloseRuleEditor
  \/ \E rule \in Rules : SubmitRule(rule)

AttendanceHandles ==
  \E h \in running :
    ServeAttendance(h) \/ ReviewSubmitted(h) \/ RuleSettled(h) \/ AttendanceLoaded(h) \/ RulesLoaded(h)
AttendanceNext == page = "attendance" /\ (AttendanceUser \/ AttendanceHandles)

-----------------------------------------------------------------------------
(* Properties *)

Reviewing(e) == {h \in running : h.op = "review" /\ h.arg.key = e}

\* Events: while a review of an event is under way no other one of it is, and
\* its buttons are off exactly then, however reviews of others overlap with it.
OneReviewAtATime ==
  page = "events" =>
    \A e \in Event : Cardinality(Reviewing(e)) <= 1 /\ (e \in ui.pending <=> Reviewing(e) # {})

\* Events: a user who waits for each answer sees an event that the backend
\* refused to change as it was, unless an earlier change was made "locally only".
RefusedIsPutBack ==
  page = "events" /\ running = {} /\ ~ crossed /\ said.kind = "unchanged" =>
    \A r \in rows : r.key = said.arg.key => r \in said.arg.before

\* Attendance: after an accepted change of the rule the page shows that rule,
\* though the reload that follows may have had a default only; unless answers of
\* several handlers crossed.
SavedRuleIsShown ==
  page = "attendance" /\ said.kind = "success" /\ said.op = "rule" /\ running = {} /\ ~ crossed =>
    ui.rule = said.arg.rule /\ ui.rule = db.rule

==============================================================================
