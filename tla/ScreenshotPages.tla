---------------------------- MODULE ScreenshotPages ----------------------------
(***************************************************************************)
(* The pages that browse screenshots: Timeline, Gallery and Detail, one of *)
(* which is mounted.  Timeline and Gallery send a request whenever an      *)
(* effect sees a changed selection and show the answer that arrives last;  *)
(* Detail drops the answers to selections that are gone, and shows its     *)
(* image through ProtectedImage.  A state change runs the effects at once, *)
(* and they may change the state again; answers arrive in any order.       *)
(***************************************************************************)
EXTENDS ProtectedImage, Sequences, FiniteSets

CONSTANTS
  Employees,    \* the employees that are not deleted, in the order of the backend
  DeptOf,       \* [employee -> department]
  None,         \* no employee, no screenshot
  All,          \* no filter
  Shots,        \* [employee -> sequence of screenshots, the newest first]
  Discovered,   \* the employee that discoverEmployeeId finds
  ImageOf,      \* [screenshot -> address of its image or NoUri]
  Limit,        \* how many screenshots the detail page asks for, 200 in the code
  MaxPage,      \* bound: pages of a list
  MaxRequests   \* bound: list requests sent

VARIABLES
  mounted,      \* "timeline", "gallery" or "detail"
  sel,          \* the selection of a list, or the address of the detail page
  listed,       \* has the roster of employees arrived?
  rosters,      \* [adopts? -> number]: roster requests under way
  flight,       \* list requests under way: [id, q]
  sent,         \* number of the last list request
  shown,        \* what is shown: [q, live]
  applied,      \* history: the last request whose answer was applied
  overtaken,    \* history: was an older answer applied after a newer one?
  reason,       \* detail: has the user given a reason for looking?
  detail        \* detail: the comparison that is shown

list == <<sel, listed, rosters, flight, sent, shown>>
trace == <<applied, overtaken>>
vars == <<mounted, list, trace, reason, detail, image>>

Employee == {Employees[i] : i \in DOMAIN Employees}
Dept == {DeptOf[e] : e \in Employee}
NoShot == None
Shot == UNION {{Shots[e][i] : i \in DOMAIN Shots[e]} : e \in Employee}
Owner(shot) == CHOOSE e \in Employee : \E i \in DOMAIN Shots[e] : Shots[e][i] = shot

\* A screenshot is in one timeline, at one place.
ASSUME ShotsAssumption ==
  /\ \A e \in Employee : Shots[e] \in Seq(Shot)
  /\ \A e, d \in Employee : \A i \in DOMAIN Shots[e], j \in DOMAIN Shots[d] :
       Shots[e][i] = Shots[d][j] => e = d /\ i = j
  /\ None \notin Shot
  /\ Discovered \in Employee
  /\ Limit \in Nat \ {0}

\* employeeOptions: what the employee menu offers, in the roster's order.
Options(dept, here) ==
  IF ~ here THEN <<>>
  ELSE SelectSeq(Employees, LAMBDA e : dept = All \/ DeptOf[e] = dept)
Offered(dept, here) == {Options(dept, here)[i] : i \in DOMAIN Options(dept, here)}

Selection(e, d, r, p, s) == [emp |-> e, dept |-> d, risk |-> r, page |-> p, side |-> s]
NothingShown == [q |-> Selection(None, All, All, 0, 0), live |-> FALSE]

-----------------------------------------------------------------------------
(* Requests and answers *)

\* What the backend is asked for; without an employee the timeline asks for
\* the one that discoverEmployeeId finds.
TimelineQuery(s) == IF s.emp = None THEN [s EXCEPT !.emp = Discovered] ELSE s
GalleryQuery(s) == s

Request(queries) ==
  /\ sent' = sent + Len(queries)
  /\ flight' = flight \cup {[id |-> sent + i, q |-> queries[i]] : i \in DOMAIN queries}

\* An answer to one of the page's list requests, or its failure, is shown
\* whatever the selection has become.
ListAnswered(f, live) ==
  /\ f \in flight
  /\ mounted # "detail"
  /\ flight' = flight \ {f}
  /\ shown' = [q |-> f.q, live |-> live]
  /\ applied' = f.id
  /\ overtaken' = (overtaken \/ f.id < applied)
  /\ UNCHANGED <<mounted, sel, listed, rosters, sent, reason, detail, image>>

-----------------------------------------------------------------------------
(* Timeline *)

\* The load effect needs an employee or a department.
TimelineReady(s) == s.emp # None \/ s.dept # All
TimelineLoads(s) == IF TimelineReady(s) THEN <<TimelineQuery(s)>> ELSE <<>>

\* The effect that replaces an employee whom the menu does not offer.
OfferedOrFirst(s, here) ==
  IF s.emp = None \/ s.emp \in Offered(s.dept, here) THEN s
  ELSE [s EXCEPT !.emp = IF Offered(s.dept, here) = {} THEN None ELSE Options(s.dept, here)[1]]

\* loadEmployees runs again whenever the employee changes; its closure adopts
\* the first employee if there was none.
RosterAgain(old, new, inFlight) ==
  IF old.emp = new.emp THEN inFlight
  ELSE [inFlight EXCEPT ![new.emp = None] = @ + 1]

\* Mutant of TimelineRender: the load effect does not depend on the pages.
TimelineRenderNoPages(s, t, here, inFlight) ==
  LET u == OfferedOrFirst(t, here)
  IN /\ sel' = u
     /\ listed' = here
     /\ rosters' = RosterAgain(t, u, RosterAgain(s, t, inFlight))
     /\ Request((IF <<t.emp, t.dept>> # <<s.emp, s.dept>> THEN TimelineLoads(t) ELSE <<>>)
                  \o (IF u # t THEN TimelineLoads(u) ELSE <<>>))

\* A state change from s to t on the timeline: the effects see t, and what they
\* set is rendered again.
TimelineRender(s, t, here, inFlight) ==
  LET u == OfferedOrFirst(t, here)
  IN /\ sel' = u
     /\ listed' = here
     /\ rosters' = RosterAgain(t, u, RosterAgain(s, t, inFlight))
     /\ Request((IF t # s THEN TimelineLoads(t) ELSE <<>>) \o (IF u # t THEN TimelineLoads(u) ELSE <<>>))

\* The page is opened, its selection taken from the address.  The menu is still
\* empty, so an employee from the address is replaced by none.
OpenTimeline(e, d, p) ==
  LET s == Selection(e, d, All, p, 1)
      u == OfferedOrFirst(s, FALSE)
  IN /\ sel = u
     /\ rosters = [adopts \in BOOLEAN |->
                     (IF adopts = (e = None) THEN 1 ELSE 0) + (IF u # s /\ adopts THEN 1 ELSE 0)]
     /\ LET queries == TimelineLoads(s) \o (IF u # s THEN TimelineLoads(u) ELSE <<>>)
        IN /\ sent = Len(queries)
           /\ flight = {[id |-> i, q |-> queries[i]] : i \in DOMAIN queries}

\* loadEmployees after its await.
RosterArrived(adopts) ==
  /\ mounted = "timeline"
  /\ rosters[adopts] > 0
  /\ TimelineRender(sel, IF adopts THEN [sel EXCEPT !.emp = Employees[1]] ELSE sel, TRUE,
                    [rosters EXCEPT ![adopts] = @ - 1])
  /\ UNCHANGED <<mounted, shown, trace, reason, detail, image>>

TimelineDepartment(d) ==
  /\ mounted = "timeline" /\ listed
  /\ d # sel.dept
  /\ TimelineRender(sel, [sel EXCEPT !.dept = d, !.page = 1, !.side = 1], listed, rosters)
  /\ UNCHANGED <<mounted, shown, trace, reason, detail, image>>

TimelineEmployee(e) ==
  /\ mounted = "timeline" /\ e \in Offered(sel.dept, listed)
  /\ TimelineRender(sel, [sel EXCEPT !.emp = e, !.page = 1, !.side = 1], listed, rosters)
  /\ UNCHANGED <<mounted, shown, trace, reason, detail, image>>

\* The two paginations appear with the rows of the answer.
TimelinePaged(p, s) ==
  /\ mounted = "timeline" /\ shown.live
  /\ (p = sel.page) # (s = sel.side)
  /\ TimelineRender(sel, [sel EXCEPT !.page = p, !.side = s], listed, rosters)
  /\ UNCHANGED <<mounted, shown, trace, reason, detail, image>>

-----------------------------------------------------------------------------
(* Gallery *)

\* The effect that drops an employee whom the menu does not offer.
OfferedOrNone(s, here) ==
  IF s.emp = None \/ s.emp \in Offered(s.dept, here) THEN s ELSE [s EXCEPT !.emp = None]

FilterOf(s) == [s EXCEPT !.page = 0, !.side = 0]

\* The effect that returns to the first page when the filter has changed.
FirstPage(s, t) == IF FilterOf(t) # FilterOf(s) THEN [t EXCEPT !.page = 1] ELSE t

\* A state change from s to t on the gallery.  The load effect runs before the
\* page is reset: it asks for the old page of the new filter.
GalleryRender(s, t, here) ==
  LET u == FirstPage(s, OfferedOrNone(t, here))
  IN /\ sel' = u
     /\ listed' = here
     /\ Request((IF t # s THEN <<GalleryQuery(t)>> ELSE <<>>) \o (IF u # t THEN <<GalleryQuery(u)>> ELSE <<>>))

OpenGallery ==
  /\ sel = Selection(None, All, All, 1, 1)
  /\ rosters = [adopts \in BOOLEAN |-> IF adopts THEN 0 ELSE 1]
  /\ sent = 1
  /\ flight = {[id |-> 1, q |-> GalleryQuery(sel)]}

GalleryRosterArrived ==
  /\ mounted = "gallery" /\ rosters[FALSE] > 0
  /\ rosters' = [rosters EXCEPT ![FALSE] = @ - 1]
  /\ GalleryRender(sel, sel, TRUE)
  /\ UNCHANGED <<mounted, shown, trace, reason, detail, image>>

GalleryFilter(e, d, r) ==
  /\ mounted = "gallery"
  /\ e = sel.emp \/ e = None \/ e \in Offered(sel.dept, listed)
  /\ d = sel.dept \/ listed
  /\ Cardinality({k \in {1, 2, 3} : <<e, d, r>>[k] # <<sel.emp, sel.dept, sel.risk>>[k]}) = 1
  /\ GalleryRender(sel, [sel EXCEPT !.emp = e, !.dept = d, !.risk = r], listed)
  /\ UNCHANGED <<mounted, rosters, shown, trace, reason, detail, image>>

GalleryPaged(p) ==
  /\ mounted = "gallery" /\ shown.live
  /\ p # sel.page
  /\ GalleryRender(sel, [sel EXCEPT !.page = p], listed)
  /\ UNCHANGED <<mounted, rosters, shown, trace, reason, detail, image>>

\* The reload button of either page.
Refresh ==
  /\ mounted # "detail"
  /\ Request(<<IF mounted = "timeline" THEN TimelineQuery(sel) ELSE GalleryQuery(sel)>>)
  /\ UNCHANGED <<mounted, sel, listed, rosters, shown, trace, reason, detail, image>>

-----------------------------------------------------------------------------
(* Detail *)

IndexIn(s, x) == CHOOSE i \in DOMAIN s : s[i] = x
Among(x, s) == \E i \in DOMAIN s : s[i] = x
FirstRows(s) == SubSeq(s, 1, IF Len(s) < Limit THEN Len(s) ELSE Limit)

\* Mutant of Comparison: the previous screenshot is looked for at the other end.
ComparisonReversed(shot, emp, found, live) ==
  LET of == IF found THEN Owner(shot) ELSE IF emp = None THEN Discovered ELSE emp
      rows == IF live THEN FirstRows(Shots[of]) ELSE <<>>
      current == IF found \/ Among(shot, rows) THEN shot ELSE IF rows # <<>> THEN rows[1] ELSE NoShot
      before == IF Among(current, rows) /\ IndexIn(rows, current) > 1
                THEN rows[IndexIn(rows, current) - 1] ELSE NoShot
  IN [asked |-> shot, found |-> found, live |-> live, current |-> current, previous |-> before]

\* getScreenshotDetail: the screenshot, then the first page of the timeline of
\* its employee, which also stands in when the screenshot was not found.
Comparison(shot, emp, found, live) ==
  LET of == IF found THEN Owner(shot) ELSE IF emp = None THEN Discovered ELSE emp
      rows == IF live THEN FirstRows(Shots[of]) ELSE <<>>
      current == IF found \/ Among(shot, rows) THEN shot ELSE IF rows # <<>> THEN rows[1] ELSE NoShot
      before == IF Among(current, rows) /\ IndexIn(rows, current) < Len(rows)
                THEN rows[IndexIn(rows, current) + 1] ELSE NoShot
  IN [asked |-> shot, found |-> found, live |-> live, current |-> current, previous |-> before]

NoDetail == [asked |-> NoShot, found |-> FALSE, live |-> FALSE, current |-> NoShot, previous |-> NoShot]
ImageProps(d, why) ==
  [uri |-> IF d.current = NoShot THEN NoUri ELSE ImageOf[d.current], reason |-> why]
ShowImage(p) == IF p # props THEN RunEffect(p) ELSE UNCHANGED image

OpenDetail(shot, e) ==
  /\ sel = [shot |-> shot, emp |-> e]
  /\ rosters = [adopts \in BOOLEAN |-> 0]
  /\ sent = 1
  /\ flight = {[id |-> 1, q |-> sel]}

\* The parameters of the address change: the effect of the old ones is
\* cancelled and a request is sent.
Navigate(shot) ==
  LET s == [shot |-> shot, emp |-> Owner(shot)]
  IN /\ mounted = "detail"
     /\ s # sel
     /\ sel' = s
     /\ Request(<<s>>)
     /\ UNCHANGED <<mounted, listed, rosters, shown, trace, reason, detail, image>>

\* Mutant of DetailAnswered: cancelled is not looked at.
DetailAnsweredAlways(f, found, live) ==
  /\ mounted = "detail"
  /\ f \in flight
  /\ flight' = flight \ {f}
  /\ detail' = Comparison(f.q.shot, f.q.emp, found, live)
  /\ ShowImage(ImageProps(detail', reason))
  /\ UNCHANGED <<mounted, sel, listed, rosters, sent, shown, trace, reason>>

\* loadDetail after its awaits; cancelled is true of all but the last request.
DetailAnswered(f, found, live) ==
  /\ mounted = "detail"
  /\ f \in flight
  /\ flight' = flight \ {f}
  /\ detail' = IF f.id = sent THEN Comparison(f.q.shot, f.q.emp, found, live) ELSE detail
  /\ ShowImage(ImageProps(detail', reason))
  /\ UNCHANGED <<mounted, sel, listed, rosters, sent, shown, trace, reason>>

TypeReason ==
  /\ mounted = "detail"
  /\ reason' = ~ reason
  /\ ShowImage(ImageProps(detail, reason'))
  /\ UNCHANGED <<mounted, list, trace, detail>>

-----------------------------------------------------------------------------
Page == 1 .. MaxPage
Risk == {All, "high"}

Init ==
  /\ \/ /\ mounted = "timeline"
        /\ \E e \in Employee \cup {None}, d \in Dept \cup {All}, p \in Page : OpenTimeline(e, d, p)
     \/ mounted = "gallery" /\ OpenGallery
     \/ mounted = "detail" /\ \E shot \in Shot : \E e \in {Owner(shot), None} : OpenDetail(shot, e)
  /\ listed = FALSE
  /\ shown = NothingShown
  /\ applied = 0 /\ overtaken = FALSE
  /\ reason = FALSE
  /\ detail = NoDetail
  /\ ImageInit(ImageProps(NoDetail, FALSE))

Choose ==
  \/ \E d \in Dept \cup {All} : TimelineDepartment(d)
  \/ \E e \in Employee : TimelineEmployee(e)
  \/ \E p, s \in Page : TimelinePaged(p, s)
  \/ \E e \in Employee \cup {None}, d \in Dept \cup {All}, r \in Risk : GalleryFilter(e, d, r)
  \/ \E p \in Page : GalleryPaged(p)
  \/ Refresh
  \/ \E shot \in Shot : Navigate(shot)

Answered ==
  \/ \E adopts \in BOOLEAN : RosterArrived(adopts)
  \/ GalleryRosterArrived
  \/ \E f \in flight, live \in BOOLEAN : ListAnswered(f, live)
  \/ \E f \in flight, found, live \in BOOLEAN : DetailAnswered(f, found, live)

Next ==
  \/ sent < MaxRequests /\ Choose
  \/ Answered
  \/ effect < MaxRequests /\ TypeReason
  \/ SettleImage /\ UNCHANGED <<mounted, list, trace, reason, detail>>

Spec == Init /\ [][Next]_vars

\* Every request settles within the client's timeout.
FairSpec == Spec /\ WF_vars(Answered)

-----------------------------------------------------------------------------
\* Timeline and gallery: unless an older answer was applied after a newer one,
\* what is shown once nothing is under way belongs to the selection, although
\* effects send requests for selections that the next effect replaces.
SettledListIsSelected ==
  flight = {} /\ ~ overtaken =>
    /\ mounted = "timeline" /\ TimelineReady(sel) => shown.q = TimelineQuery(sel)
    /\ mounted = "gallery" => shown.q = GalleryQuery(sel)

\* The detail page only ever replaces what it shows by the answer to its present
\* address, and it does so in the end: it implements LatestView, which the two
\* lists do not.
View == INSTANCE LatestView WITH
  wanted <- IF mounted = "detail" THEN sel.shot ELSE None, view <- detail.asked
ImplementsLatestView == View!Spec

\* The comparison is between neighbours: the previous screenshot is the next
\* older one of the same employee; and there is none only for the oldest, or
\* beyond the first page.  The screenshot that was asked for is the current one
\* unless its own request failed.
ComparesNeighbours ==
  LET d == detail
      rows == Shots[Owner(d.current)]
      i == IndexIn(rows, d.current)
  IN d.current # NoShot =>
       /\ d.found => d.current = d.asked
       /\ d.previous # NoShot => i < Len(rows) /\ d.previous = rows[i + 1]
       /\ d.live /\ d.previous = NoShot => i = Len(rows) \/ i >= Limit
==============================================================================
