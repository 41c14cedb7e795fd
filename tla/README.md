# TLA+ models of the employee behaviour agent, its backend and its console

This directory keeps formal models of the program in `src/`: TLA+ modules
translated from the source, TLC configurations that check them on small
instances, and TLAPS proofs of the properties that matter most, for every value
of the constants. `PROJECT.json` lists the runs, the mutants (each property
is shown to fail on a plausible bug), the map from definitions to source lines,
the hazards, the findings and the theorems.

## The system

| Component | State it keeps | Operations | Hard behaviours | What makes it correct |
|---|---|---|---|---|
| Upload queue (`FileBackedUploadQueue`) | JSONL file of entries with lease fields; payload files | enqueue, lease a batch, complete, release | crash in an append or a rewrite, two loops on one file, leases that run out | nothing acknowledged is lost; a leased batch is not leased twice; files are collected |
| Agent worker (`AgentWorker`) | four loops over the policy cache and the queue | heartbeat, policy refresh, capture, upload | lost answers, failed steps in a batch, retry order | at least once delivery, bounded duplicates, the queue drains |
| Session helper (pipe server, `Win32InputActivityCounter`) | counters fed by hooks | snapshot on request | counters reset by each reader, timeouts | each input event is reported once |
| Launcher (`LauncherForm`, `AttendanceStore`) | profile, panel, clock-out time; attendance log and pending file, work session state file | clock in, clock out, replay | asynchronous button handlers, crash between writes, lost answers | every clock event reaches the backend; monitoring follows the clock |
| Ingestion (`AgentService.upload_screenshot`) | screenshot rows and files | receive, store, finalise | repeated and late uploads, crash between commits | a row for each upload, analysed once |
| Screen analysis (`ScreenshotAnalysisService`) | diffs, behaviour events | compare, classify, no-change machine, AI analysis, retention life cycle | out-of-order captures, failures after a commit | events match the still intervals, one open event a screen |
| Attendance, policies, retention, heartbeats (backend) | rows of each kind, `rules_json` | clock, review, edit rules, clean up | check-then-insert, read-modify-write, a clean-up thread | no lost edit, no duplicate, no live row without its file |
| Console: session (`AuthContext`, `adminSession`, route guard, menu) | stored session, user, page keys, boot state | sign in, sign out, refresh the profile, reload, development session | a stored session checked while the user signs in or out, answers that overtake | the identity is that of the token; only granted pages are shown; the boot screen ends |
| Console: API client (`adminApi`) | none | list with fallback, mutation with outcome, attempts at several addresses | lost answers, partial failure, refused requests | what is reported is what happened |
| Console: policies, events, attendance, employees, devices | rows, selection, forms, pending marks, dialogs | load, create, edit, review, import, issue tokens | optimistic changes, late answers, state read before an `await` | rows, forms and messages follow the backend; buttons return |
| Console: timeline, gallery, screenshot detail, protected images | filters, pages, address, object URL | select, page, fetch, revoke | effects that set each other's inputs, requests that overtake | what is shown belongs to the selection; URLs are revoked |
| Console: dashboard, roles, realtime status, frame views | rows and figures made of several answers | load in stages, derive, order, count | staged loads beside a changing backend, second addresses | figures agree with each other and with the rows |

The launcher writes the work session state file, which the agent worker reads
before every heartbeat and capture. The capture loop asks the session helper for
a snapshot over a named pipe and enqueues one item per screen; the upload
loop takes items from the queue and posts them; the backend stores, compares and
runs the no-change state machine inside that request. The backend is one
process: the upload route is a coroutine without an `await` between its stages,
so uploads do not interleave with each other; the admin routes run in a thread
pool beside it. The console reads and changes the backend's rows through
`adminApi`; its handlers interleave at every `await`, and each request settles
within `REQUEST_TIMEOUT_MS`.

## What is modelled

| Module | Models | State and steps |
|---|---|---|
| `AtLeastOnce` | the promise of a durable queue to its producer | items owed and delivered; `Take`, `Deliver` |
| `UploadQueue` | `FileBackedUploadQueue.cs` and the upload loop of `AgentWorker.cs` | the queue file, payload files, the loop's position and lists; `EnqueueAsync` in two halves (payload, line), `LeaseBatchAsync`, an item's upload with its outcomes, `CleanupUploadTempFiles`, `CompleteAsync`, `ReleaseAsync`, the expiry of a lease, a crash |
| `Launcher` | `LauncherForm.cs`, `AttendanceStore.cs`, `AttendanceReporter.cs`, `WorkSessionStateStore.cs`, the check and capture of `RunCaptureLoopAsync` | each clock-in attempt is a process with a label for every await; clock-out; replay; attendance log and pending file; the work session state; a restart |
| `ChangeLevel` | `_classify_change_level`, `_is_effective_change`, `_changed_block_ratio` | operators over three signals, each possibly missing |
| `NoChange` | `upload_screenshot`, `_finalize_screenshot`, `analyze_completed_screenshot`, `_apply_no_change_state_machine` | rows and events; one action for each commit of an upload, plus storage failure, analysis failure and crash |
| `AdminSession` | `AuthContext.tsx`, `adminSession.ts`, the route guard, the menu, the chunk reload of `main.tsx` | the session in memory and in storage, handlers at their `await`, tokens that expire, reloads |
| `ConsoleApi` | the results of `adminApi`'s lists and changes | what each kind of answer (ok, denied, missing, failed, lost) becomes for the page |
| `ConsolePage` | what the five pages below share | handlers in progress, the backend's database, rows, source mark, what was said; sending, serving, giving up |
| `PolicyPage` | `Policies.tsx` and the policies part of `adminApi` | load, select, create, edit, save, activate, deactivate, set active, delete, live and local |
| `ReviewPages` | `Events.tsx`, `Attendance.tsx` | status filter, optimistic review and its roll-back; review dialog and rule editor |
| `DirectoryPages` | `Employees.tsx`, `Devices.tsx` | export, import with its repeated attempts, create, edit, delete; issue, show and revoke a token |
| `Console` | the page that is open | the three modules above composed, and what all pages promise alike |
| `LatestView` | the promise of a page with an address | it shows the answer for its present address, or is on its way to it |
| `ProtectedImage` | `ProtectedScreenshotImage.tsx` | effect runs, fetches under way, object URLs |
| `ScreenshotPages` | `Timeline.tsx`, the gallery, `ScreenshotDetail.tsx` | selections, effects that answer each other, list requests, the comparison of the detail page |
| `RiskViews`, `FrameViews` | the rows, orders, figures and levels that `adminApi` and the pages derive | pure operators |
| `OverviewPages` | dashboard, access roles, realtime status and frame pages | stages of a load, partial failures, second addresses, a backend that changes meanwhile |
| `*_proofs` | theorems | |
| `MC*` | instances for TLC | sets and functions for the constants |

`NoChange` extends `ChangeLevel`, `ScreenshotPages` extends `ProtectedImage`,
`Console` extends the page modules over `ConsolePage` and `ConsoleApi`, and
`OverviewPages` extends `FrameViews` over `RiskViews`. There are three refinements:
`UploadQueue` and `Launcher` each instantiate `AtLeastOnce` (what is owed is what
can still be read from the disk and is not at the backend), and `ScreenshotPages`
instantiates `LatestView` for the detail page.

Atomicity follows the code. The queue's gate and the store's file lock make each
of their operations one step, but not against a crash: an interrupted append
leaves none, part or all of its line. The launcher's handlers interleave at their
awaits. The upload route has no `await` between its commits, so uploads do not
interleave, but a crash or an exception may fall between two commits. In the
console, a handler runs from one `await` to the next in one step; an effect that
runs because a state was set is part of the step that set it; the backend serves a
request at any time between sending and the answer, and an answer may be lost after
the change was made.

Abstractions a reader should know:

- Queue items, clock records and captures are numbers; payloads, wording, paths
  and time stamps are left out. Lease ids stand for GUIDs, and the clock for
  the set of leases that have run out: a lease may run out at any time, even
  under the loop that holds it.
- In `UploadQueue` every screen of a snapshot is a capture of its own.
- In `NoChange` there is one device and one screen, and the threshold is constant. A
  picture is a view and a detail (a blinking cursor); the previous image may be
  missing, so the pixel signals may be missing.
- In `Launcher` the employee is one person and a profile is present or not.
  A program that dies in a write is the failing action followed by `Restart`.
  Starting the agent processes succeeds or throws; it does not change the agent.
- In `AdminSession` a token is the number of its sign-in, and what a role grants
  does not change. React's doubled effects in development are not modelled.
- In `Console` a policy's rules are two fields, its target roles and the AI key. The
  filters of the events page behave alike and are one. Buttons of a table that is
  loading are clickable in the model although antd's overlay covers them: the model
  allows more than the page.
- In `ScreenshotPages` screenshots are numbers; the thumbnails use the same component
  as the main image and are not composed in.
- In `OverviewPages` figures are computed from whole rows; dates and wording are
  left out, and percentages are kept as the integers the code rounds to.

## What is checked

| Run | Question | Bounds |
|---|---|---|
| `queue` | Losses, duplicates, leases, orphans, and the refinement of `AtLeastOnce` | 3 captures, batches of 2, 4 lease ids, 1 mishap, 1 unfinished line |
| `queue_drains` | Does a healthy item reach the backend and leave the file, next to one that is always refused? | 2 captures, the first refused, batches of 2, 4 lease ids, 2 mishaps |
| `queue_torn_loss` | Violation: an acknowledged item is lost | 2 captures, 3 lease ids, 1 mishap, 1 unfinished line |
| `no_change` | One open event, final closed events, surplus events only for late uploads, and the events exactly the still intervals when nothing goes wrong | 5 captures, 6 uploads, 1 late, 1 repeated, 1 fault, threshold 2, two views |
| `no_change_surplus` | Violation: two events for a still interval | 5 captures, 1 late |
| `launcher` | Lost and repeated clock events, late captures, clock-out against clock-in, refinement of `AtLeastOnce` | 2 clock-in attempts, 1 restart, 1 lost answer, 1 failed operation, 1 cut write |
| `launcher_pause` | Violation: monitoring goes on after a clock-out | 2 clock-in attempts |
| `admin_session` | Is the session that of its token and of the last action, does it show only granted pages, do boot screen and login button return? | 2 handlers, 2 accounts, 2 logins, 1 reload, with the development session |
| `screenshots` | Do lists, detail and images show what is selected; are object URLs revoked; are comparisons between neighbours? | 2 employees of 2 departments, 3 and 1 screenshots, 2 per page, 2 pages, 3 requests |
| `console` | Do rows, forms, dialogs and messages follow the backend, and are buttons released? | 3 handlers, 2 policies, 2 events, 1 attendance entry, 2 employees, 2 devices |
| `policies_key` | Violation: the stored key is forgotten | as `console` |
| `overview` | Do the figures agree with the rows and with each other, is the worst first, is every page filled? | 2 employees of one name, 2 events, 2 frames, reviews to "reviewing" and "reviewed", 1 change and 1 failure during a load |

What the properties say:

- `queue`: each unfinished line costs at most one acknowledged capture
  (`LossBoundedByTears`), an item is stored at most once more than there were
  mishaps (`DuplicatesBounded`), payload files without an item are bounded by them
  too (`OrphansBounded`), and a batch keeps its lease (`BatchStaysLeased`).
- `launcher`: no clock event queued before the cut is lost by a replay (`MissingBounded`), each is
  sent again at most once for each mishap (`ResentBounded`), at most one capture
  follows a clock-out (`AtMostOneLateCapture`), and only a second attempt can undo a
  clock-out (`OneAttemptPauses`).
- `admin_session`: `IdentityMatchesToken` (user, page keys and token belong together),
  `ShownPagesAreGranted`, `LastActionWins` (for a user who waits for each answer, the
  last sign-in or sign-out decides), `BootEnds`, `LoginReturns`.
- `screenshots`: `SettledListIsSelected` (with nothing under way the list belongs to the
  selection, unless an older answer overtook), `ImplementsLatestView`,
  `ShownImageIsCurrent`, `NoObjectUrlLeaks`, `ComparesNeighbours`.
- `console`: policy rows marked live were served by the backend (`LiveRowsWereServed`), the form is
  that of the selected row (`FormShowsRow`), a row has one review at a time
  (`OneReviewAtATime`), a refused optimistic change is put back (`RefusedIsPutBack`), the
  shown rule is the saved one (`SavedRuleIsShown`), the shown token is the last one issued
  (`ShownTokenIsCurrent`), messages are true (`SaysWhatHappened`), rows are the backend's
  after a success (`SettledRowsAreBackends`), for a user who waits an untouched save keeps
  the roles that are targeted (`UntouchedSaveKeepsScope`), every button is released
  (`ButtonsReturn`).
- `overview`: an event that the list shows as dealt with waits in the queue only if
  another admin put it back to reviewing during the load (`ReviewedStaysOut`); when nothing
  happened, list, queue and figures count the same events (`SettledDashboardAgrees`); the
  gravest events, the worst of a name and people without access come first
  (`WorstShownFirst`); rows, tags, segments and figures of frames do not contradict one
  another (`FramesAgree`); every page is filled (`PageIsFilled`).

Why the bounds suffice. Three captures with batches of two give a batch that is
released beside an item behind it, an append during a batch, and an item
leased twice; four lease ids leave one free whenever a batch is
leased. With threshold 2 and five captures an event opens, is extended, reaches
"high" severity at 4 and closes. Two clock-in attempts are the least that overlap,
and with one restart they may also be one on each side of it. Two handlers of a
session overlap in every order, and a reload puts a stored session beside
a fresh sign-in; two accounts with different grants make a mixture visible. Three
console handlers are a change, the reload it causes, and one that
overtakes them. Three screenshots have a middle one with both neighbours and
fill a page and a half. Of the five statuses a review gives, "reviewing" keeps an event in
the queue and "reviewed" takes it out; the other three differ from
the latter only in the score. One fault of a kind shows the rate that the bounded properties
claim; those that are proved hold for any number.

Deadlock checking is off: every model stops when its bounded captures, uploads,
clicks or requests are used up and nothing is left to do.

Fairness.

- `UploadQueue!FairSpec`: the two loops keep running (weak fairness of the
  enqueue in progress, of leasing, of handling the current item and of settling),
  time passes (weak fairness of a lease's expiry), and what is tried again and
  again succeeds at last (strong fairness of a completion and of the upload of an
  item that is not refused for ever). The loops catch every exception and continue
  (`AgentWorker.cs:199-277`), which is what justifies the first; the last is an
  assumption on disk and backend. Crashes are bounded and not fair.
  `HealthyItemsDrain` needs fewer refused items than a batch holds: the code
  leases from the head of the file, so a full batch of refused items starves the rest.
- `AdminSession`, `ScreenshotPages`, `Console`, `OverviewPages`: weak fairness of settling
  requests and of handling their answers, and of nothing else. The client aborts
  every request after `REQUEST_TIMEOUT_MS` (5 s), so a request always settles, with
  an answer or without. Users, backend changes and reloads are not fair.

## What is proved

TLAPS checks the theorems for all values of the constants, under the
assumptions named in the modules: `UploadQueueAssumption`, `NoChangeAssumption`,
`LauncherAssumption`, `BoundsAssumption` of `AdminSession` and `PolicyAssumption` (bounds are
naturals; batch size, threshold and number of policies positive), `NobodyAssumption`,
`NoTaskAssumption`, `GrantsAssumption` (no account or handler is the null value; grants are
sets of page keys), `UriAssumption` (image addresses), `ShotsAssumption` (the screenshots
of an employee form a sequence, and each is at one place only), `PeopleAssumption` (a list of
employees, each with a name and natural numbers of points) and `InputsAssumption` (events,
comparisons, reviews and devices are of the kinds the code knows: four severities, the five
actions of the events page, four states of a device). TLC evaluates these
assumptions on every run.

- `UploadQueue_proofs`: `TypeOK`, `BatchStaysLeased`, `DuplicatesBounded`. None is
  inductive alone. `IInv` adds: the item being enqueued is the newest and
  nowhere else; the loop's lists are disjoint and empty where they must be; a line
  that the next append would spoil (the file ends without newline) is in no
  running batch, because leasing rewrites the file and closes its last line;
  and the payload of a stored item is gone, or about to go, or a mishap
  explains it.
- `UploadQueueLoss_proofs`: `LossBoundedByTears`, `NoAckedLoss` before the first
  unfinished line, `ImplementsAtLeastOnce` and `OrphansBounded`. `LossInv` counts a file that
  ends in an unfinished line as a loss to come, and says that what is about to leave
  the file or lose its payload is at the backend. `OrphanInv` counts with the
  orphans the payloads whose lines are about to go: those of the items to be completed, and of
  the line that the next append would spoil.
- `NoChange_proofs`: `TypeOK`, `OneOpenEvent`, `ClosedIsFinal`, `SurplusNeedsLate`,
  `EventsMatchRuns`. Three invariants. `Inv`: two open events are the same; its type proof
  needs the minimum and maximum of finite sets of times for the queries' ORDER BY.
  `Surplus`: a time at which as many events start as the late uploads allow has an open
  event, or a later change that stops every streak from reaching back to it; so
  one more event there needs one more late upload. `Orderly`, of histories without a late
  or repeated upload and without a fault: rows are stored in the order of their times, each
  is compared with the one before it, and the events stand for the runs of the rows
  handled so far. From that the queries are closed expressions (the previous screenshot is
  the row before, the streak is the run that ends at the row in hand), and the
  state machine is shown to carry the correspondence over a row that extends a run,
  completes one, ends one or does none of these.
- `Launcher_proofs`: `TypeOK`, `OneAttemptPauses`, `AtMostOneLateCapture`, `MissingBounded`,
  `ResentBounded`, `ImplementsAtLeastOnce`. For the first property: the attendance panel is
  only there when an attempt has finished, clock-out needs the panel, and so an
  activation after it belongs to another attempt. For the log and the pending file
  (`RecordInv`): there are never more events than finished attempts, restarts and the
  clock-out of this run; the pending file holds none twice; until a write is cut, what the
  replay has read is still in it; what the replay has finished with is at the
  backend; and what it has still to report was accepted at most once for each mishap.
- `AdminSession_proofs`: `TypeOK`, `IdentityMatchesToken`, `ShownPagesAreGranted`,
  `LastActionWins`. The invariant `SessionInv` says that the session in memory is that of
  its token or of none, that what is stored has a token, and that a handler's answer
  belongs to the token it was sent with; `LastInv` adds that a user who waits has one
  handler at a time, whose kind the status tells.
- `ScreenshotPages_proofs`: `NoObjectUrlLeaks` and `ShownImageIsCurrent`, from `ImageInv`:
  every fetch carries the number of the effect run that started it, and only the last
  run's fetch may set the image. `DetailFollowsAddress` is the safety part of
  `ImplementsLatestView`: `RequestsAreDated` says that only the last request answers the
  present address, and the clean-up of an effect ignores the others. `SettledListIsSelected`:
  the last request is for the present selection, and is under way or, unless an older answer
  was applied after it, shown. `ComparesNeighbours` rests on where a screenshot is in its
  owner's sequence.
- `Console_proofs`: all safety properties of the run `console`. `LiveRowsWereServed`
  (`HandlersHold`: an answered list request holds a list that was served),
  `ShownTokenIsCurrent` (`OneTokenRequest`: a device has one token request at a time, so no
  older answer can arrive), `SaysWhatHappened` (what a handler knows of its attempts
  against how often the backend has carried the change out), `OneReviewAtATime`,
  `RefusedIsPutBack`, `SavedRuleIsShown` (what the one handler of a waiting user holds
  while it runs), `SettledRowsAreBackends` (its last list was served after its
  change, and nothing but its change touches the backend), `FormShowsRow` (the rows have
  different keys, on the page and in every answer under way) and `UntouchedSaveKeepsScope`
  (the roles of a live row are those the backend holds). The last two need what a list
  contains: `OnlyIn` and, in the launcher, `Without` are filters by recursion, and their
  lemmas are inductions over the length, carried out as the search for a least
  counterexample since the library's induction theorem cannot be instantiated.
- `OverviewPages_proofs`: all safety properties of the run `overview`, and of the operators
  of `ChangeLevel` that a pair classified as unchanged is never an effective change
  (`QuietIsIneffective`) and that more difference in every signal stays effective
  (`MoreDifferenceStaysEffective`), whichever signals are missing. The invariant
  `Inv == TypeOK /\ Snapshots` says of the answers which states of the backend they are:
  each the present or an earlier one, that of the queue not earlier than that of the events,
  all the present one while nothing has changed; and which requests have been answered at
  each stage. What the pages make of a snapshot is a chain of lemmas. `ArrangedBy`: a list
  built from places and what is ahead of each goes through every place once, in that order;
  from it `SortedByKeys` (a sort is a rearrangement, ordered by its keys, whatever
  comparison the keys come from) and `KeptBy` (a filter keeps order and elements). From these
  the queue of the page is a rearrangement of its reviewable events and silent
  devices (`QueueRowsAre`), the list one of the events (`EventRowsAre`), and sets of rows
  are counted by the events they stand for (`ListCount`, `QueueCount`). That severity
  decides the order of the queue is arithmetic on the two tables of weights: the steps of
  `SeverityWeight` are 10, while the statuses of an event in the queue are 20 and 15. For
  frames, `Total` grows with its terms (`SmallerTotal`), and an effective change has a
  level, because `ChangeLevel` calls quiet pairs unchanged and everything major effective.

`UntouchedSaveKeepsScope` speaks of a user who waits for each answer. Without that it is false,
which four requests show and three do not: the list of an older reload that
arrives after a save is shown as live, and saving the row it shows, untouched, puts the
earlier roles back.

The lists of `RiskViews` are defined for these proofs. Filters, sorts and sums are given by
the places of elements and by counting, not by recursion, because what a recursive
operator with an operator as parameter returns is beyond the prover. The run `overview`
evaluates `ListsAgree`, which compares them with `SelectSeq`, `SortSeq` and `FoldLeft` on
all lists of up to four elements, with elements that a sort does not tell apart.

Only model-checked: no safety property of a passing run. Out of the prover's reach and
left to TLC are the liveness properties `HealthyItemsDrain`, `BootEnds`, `LoginReturns`,
`ButtonsReturn`, `PageIsFilled` and the liveness of `LatestView` (fairness and ENABLED).

## Findings

- `queue_torn_loss`: the queue appends to an unfinished line after a restart; the next
  acknowledged capture is lost (`FileBackedUploadQueue.cs:51`, against
  `agent/README.md:282`).
- `no_change_surplus`: a capture that arrives late opens a second event for
  an interval whose event is already closed (`screen_analysis.py:787`, against
  `docs/DEVELOPMENT_PLAN.md:266`).
- `launcher_pause`: a second clock-in attempt that overlaps the first undoes a
  clock-out (`LauncherForm.cs:222`, against
  `docs/AGENT_DEPLOYMENT_RUNBOOK.md:123`).
- `policies_key`: saving a policy with an empty key field erases the stored key
  (`adminApi.ts:1875`, against the hint under the field, `Policies.tsx:551`).

Behaviour met while modelling that contradicts no text of the repository, and that the
models reproduce or work around:

- Backend and agent. The agent's `phash` is a digest, so any detail that differs is an
  effective change; repeated uploads count in the streak; a failed analysis
  is never retried.
- Session. Actions that overlap can restore a session that was signed out or end a fresh
  one, which is why `LastActionWins` speaks of a user who waits.
- Policies. An untouched save of a policy without roles targets "All roles"; the backend
  ignores `set_active`; after a failed change the later ones are local only; a failed reload
  empties the table; any reload discards edits, and an action button also selects its
  row, with the same effect; a selection made during an `await` is overridden. A
  threshold of 0.01 is shown as 1, and saved as 100 %.
- Events and attendance. Two overlapping refused reviews put back each other's optimistic
  change (`Events.tsx:73`). A late answer closes whichever review dialog is open.
- Employees and devices. The mark of the row being deleted moves between rows; importing
  a deleted employee counts it as updated and leaves it deleted; a lost import
  answer repeats the import at the next address.
- Screenshot pages. A link with an employee loses the employee when the roster arrives; a
  late roster answer overrides the user's choice; after a failed detail request
  another screenshot is shown.
- Overview pages. A review may put an event back to "reviewing" (`Events.tsx:14`): list
  and queue still count it as in review, the backend's open figure, which counts the status
  "open" only, no longer does; and one that is put back while the dashboard loads is dealt
  with in the list and waits in the queue. Risk labels change at 75, 50 and 25 in the backend and at 80, 60 and 30
  in the console; a risk score of at most 1 would be multiplied by 100; `eventCount` and
  today's risk are always 0; reviewed events still count as unresolved in the backend's
  figure, and ignoring a reviewed one raises the score; severe device rows sort below
  medium events, and only six are listed; KPIs that group by time of day, and the heat map that groups
  by name, merge employees; access roles are compared with job
  roles; a frame without comparison reads "no effective change"; AI events never
  end, so one marks every later screenshot of its device.

## Hazards without a property

`PROJECT.json` lists the hazards with the properties that cover them. Not yet covered:

- `AgentWorker.cs:170`: an exception in one `EnqueueAsync` drops the other screens of the snapshot.
- `Win32InputActivityCounter.cs:136`, `NamedPipeSessionHelperClient.cs:29`: counters
  read one by one by several readers, and reset although the answer may be lost.
- `AttendanceStore.cs:156`, `:165`: the order of replayed records, and a rewrite in place;
  `LauncherForm.cs:236`, `:361`: exceptions and restarts around the agent's processes.
- `screen_analysis.py:738`, `:817`, `:1066`: the complete endpoint beside the upload route;
  the newest policy instead of the device's; a retention state that resets `delete_failed`.
- `retention.py:36`: the clean-up thread beside an analysis; a failed deletion is not tried again.
- `policies.py:45`, `:246`: default creation and edits of `rules_json` by check-then-insert and read-modify-write.
- `attendance.py:19`: deduplication by a query before the insert.

## Plan

The agent's queue and launcher, the backend's ingestion and the console are modelled. Next, in
this order:

1. `InputCounters`: hooks, counters exchanged one by one, the readers (capture,
   heartbeat, tray) that reset them, the pipe with its timeouts. Abstract
   specification: every input event is reported at most once, and exactly once when no
   request times out.
2. `Retention`: file and retention fields of a screenshot under ingestion, the
   analysis life cycle and the clean-up thread. Properties: no live row without
   its file, a failed deletion is visible, protected rows are kept.
3. `Policies`: edits of `rules_json`, default creation, activation, resolution for a
   device; `NoChange` then takes its threshold from it, and `PolicyPage` its thresholds.
4. `Attendance`: the backend's check-then-insert and review, composed with
   `Launcher` so that a resent clock event meets the duplicate check.
5. The GitHub risk and audit log pages, in the form of `OverviewPages`.

## Not modelled

- Screen capture, foreground window, session state: Win32 calls without state.
- Device identity, protected token, backend configuration, employee profile look-up: one-shot
  reads of a file or service. Logging: nothing depends on it.
- The AI provider call, the backend's query projections, employee administration and audit:
  external, read-only or single statements. Schema self-heal: sequential, at
  start-up.
- Heartbeats, backend attendance, policies, retention and authentication: see *Plan*.
  Signatures and password hashes are out of scope.
- Installer scripts, translations, mock data and styling: sequential or without behaviour.
- The normalisation of payload fields under names that this backend does not send.
- The `complete` endpoint beside the upload route: no client calls it.
- A queue that fills the disk, and a pending attendance file that is cut while being
  rewritten beyond what `ResentBounded` says: the code and its documents promise nothing
  there.
