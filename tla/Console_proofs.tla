----------------------------- MODULE Console_proofs -----------------------------
(* Theorems about Console, for any numbers of policies, devices and requests:    *)
(* what the pages show (rows called live, the token of a device, a saved rule, a *)
(* refused review, the settled tables, the form of a policy) is what the backend *)
(* holds or what the user saw, and what they say of a change is what happened.   *)
EXTENDS Console, TLAPS, FiniteSetTheorems, SequenceTheorems, WellFoundedInduction

-----------------------------------------------------------------------------
(* One page is open *)

LEMMA PoliciesStay == PolicyNext => page' = page
<1> SUFFICES ASSUME PolicyNext PROVE page' = page
  OBVIOUS
<1>1. CASE PolicyUser
  BY <1>1 DEF PolicyUser, LoadPolicies, CreateNew, SavePolicy, SelectPolicy, DeleteAction, StateAction, EditForm
<1>2. CASE PolicyHandles
  BY <1>2 DEF PolicyHandles, ServePolicy, PolicyAnswered, ServeChange, ServeList, GoesOn, PoliciesLoaded,
              PolicySaved, StateChanged, PolicyDeleted
<1> QED
  BY <1>1, <1>2 DEF PolicyNext

LEMMA EventsStay == EventsNext => page' = page
<1> SUFFICES ASSUME EventsNext PROVE page' = page
  OBVIOUS
<1>1. CASE EventsUser
  BY <1>1 DEF EventsUser, ReloadEvents, UpdateFilter, ReviewAction
<1>2. CASE EventsHandles
  BY <1>2 DEF EventsHandles, ServeEvents, ServeChange, ServeList, ReviewSettled, EventsLoaded
<1> QED
  BY <1>1, <1>2 DEF EventsNext

LEMMA AttendanceStays == AttendanceNext => page' = page
<1> SUFFICES ASSUME AttendanceNext PROVE page' = page
  OBVIOUS
<1>1. CASE AttendanceUser
  BY <1>1 DEF AttendanceUser, OpenReview, CloseReview, SubmitReview, ReloadAttendance, OpenRuleEditor,
              CloseRuleEditor, SubmitRule
<1>2. CASE AttendanceHandles
  BY <1>2 DEF AttendanceHandles, ServeAttendance, ServeChange, ServeList, ReviewSubmitted, RuleSettled,
              AttendanceLoaded, RulesLoaded
<1> QED
  BY <1>1, <1>2 DEF AttendanceNext

LEMMA EmployeesStay == EmployeesNext => page' = page
<1> SUFFICES ASSUME EmployeesNext PROVE page' = page
  OBVIOUS
<1>1. CASE EmployeesUser
  BY <1>1 DEF EmployeesUser, LoadEmployees, Export, OpenImport, CancelImport, CancelEditor, OpenEditor, Import,
              DeleteEmployee, SaveEmployee, Unchanged
<1>2. CASE EmployeesHandles
  BY <1>2 DEF EmployeesHandles, ServeEmployees, ServeChange, ServeList, EmployeesGoOn, EmployeesLoaded, Exported,
              ImportSettled, EmployeeSaved, EmployeeDeleted
<1> QED
  BY <1>1, <1>2 DEF EmployeesNext

LEMMA DevicesStay == DevicesNext => page' = page
<1> SUFFICES ASSUME DevicesNext PROVE page' = page
  OBVIOUS
<1>1. CASE DevicesUser
  BY <1>1 DEF DevicesUser, LoadDevices, CancelRevoke, RevokeToken, ClearIssuedToken, IssueToken, OpenRevoke, Unchanged
<1>2. CASE DevicesHandles
  BY <1>2 DEF DevicesHandles, ServeDevices, ServeChange, ServeList, DevicesGoOn, DevicesLoaded, TokenIssued, TokenRevoked
<1> QED
  BY <1>1, <1>2 DEF DevicesNext

LEMMA PageStays == [Next]_vars => page' = page
BY PoliciesStay, EventsStay, AttendanceStays, EmployeesStay, DevicesStay DEF Next, vars

-----------------------------------------------------------------------------
(* Handlers *)

\* A handler is a record; when its list request was answered it holds the list.
Shaped(h) ==
  /\ h = [n |-> h.n, op |-> h.op, arg |-> h.arg, try |-> h.try, answer |-> h.answer, list |-> h.list,
          times |-> h.times, lost |-> h.lost]
  /\ h.try \in Nat
HoldsList(h) == h.try = 0 /\ h.answer = "ok" => h.list # {}
HandlersHold == \A h \in running : Shaped(h) /\ HoldsList(h)

\* g is the handler h at a later time.
Same(g, h) == g.n = h.n /\ g.op = h.op /\ g.arg = h.arg

LEMMA NewHandler ==
  ASSUME NEW op, NEW arg
  PROVE  /\ Shaped(Handler(op, arg)) /\ HoldsList(Handler(op, arg))
         /\ Handler(op, arg).op = op /\ Handler(op, arg).arg = arg /\ Handler(op, arg).n = sent + 1
         /\ Handler(op, arg).answer # "ok" /\ Handler(op, arg).list = {} /\ Handler(op, arg).try = 1
BY DEF Handler, Shaped, HoldsList, Waiting, NoList

LEMMA NewLoad ==
  ASSUME NEW op, NEW arg, NEW g, g = [Handler(op, arg) EXCEPT !.try = 0]
  PROVE  /\ Shaped(g) /\ HoldsList(g) /\ g.op = op /\ g.arg = arg /\ g.n = sent + 1 
         /\ g.answer # "ok" /\ g.list = {} /\ g.try = 0
BY DEF Handler, Shaped, HoldsList, Waiting, NoList

LEMMA Asked ==
  ASSUME NEW h, Shaped(h), NEW try \in Nat, NEW g, g = [h EXCEPT !.try = try, !.answer = Waiting]
  PROVE  Shaped(g) /\ HoldsList(g) /\ Same(g, h) /\ g.try = try /\ g.answer # "ok" /\ g.list = h.list
BY DEF Shaped, HoldsList, Same, Waiting

LEMMA ListServed ==
  ASSUME NEW h, Shaped(h), NEW answer, NEW list, NEW g, g = [h EXCEPT !.answer = answer, !.list = {list}]
  PROVE  Shaped(g) /\ HoldsList(g) /\ Same(g, h) /\ g.try = h.try /\ g.answer = answer /\ g.list = {list}
BY DEF Shaped, HoldsList, Same

LEMMA ChangeServed ==
  ASSUME NEW h, Shaped(h), h.try > 0, NEW answer, NEW lost, NEW times,
         NEW g, g = [h EXCEPT !.answer = answer, !.lost = lost, !.times = times]
  PROVE  Shaped(g) /\ HoldsList(g) /\ Same(g, h) /\ g.try = h.try /\ g.answer = answer /\ g.list = h.list
<1>1. g = [n |-> h.n, op |-> h.op, arg |-> h.arg, try |-> h.try, answer |-> answer, list |-> h.list,
           times |-> times, lost |-> lost]
  BY DEF Shaped
<1>2. h.try \in Nat /\ h.try # 0
  BY DEF Shaped
<1> QED
  BY <1>1, <1>2 DEF Shaped, HoldsList, Same

-----------------------------------------------------------------------------
(* Policies *)

\* A result is live only if the list request was answered.
LEMMA LiveIsAnswered ==
  ASSUME NEW h, NEW answer
  PROVE  /\ Refreshed(h).source = "live" => h.answer = "ok"
         /\ AttemptPolicyMutation(answer, Refreshed(h)).source = "live" => h.answer = "ok"
         /\ DeletePolicy(answer, Refreshed(h)).source = "live" => h.answer = "ok"
BY DEF Refreshed, GetPolicies, AttemptPolicyMutation, DeletePolicy, AfterRefresh, Live, Unavailable, Result

LEMMA ShownListIsListed ==
  ASSUME NEW h, NEW result, result.source = "live" => h.answer = "ok", ShowList(h, result)
  PROVE  LiveRowsWereServed'
BY DEF ShowList, LiveRowsWereServed

PolicyInv == page = "policies" => HandlersHold /\ LiveRowsWereServed

LEMMA PolicyHandlersHold ==
  ASSUME HandlersHold, PolicyNext
  PROVE  HandlersHold'
<1>1. ASSUME running' \subseteq running PROVE HandlersHold'
  BY <1>1 DEF HandlersHold
<1>2. ASSUME NEW g, Shaped(g), HoldsList(g), running' \subseteq running \cup {g} PROVE HandlersHold'
  BY <1>2 DEF HandlersHold
<1>3. ASSUME NEW op, NEW arg, Start(op, arg) PROVE HandlersHold'
  BY <1>2, <1>3, NewHandler DEF Start
<1>4. CASE PolicyUser
  <2>1. CASE LoadPolicies
    <3> DEFINE g == [Handler("load", NoArg) EXCEPT !.try = 0]
    <3>1. running' = running \cup {g}
      BY <2>1 DEF LoadPolicies
    <3>2. Shaped(g) /\ HoldsList(g)
      BY NewLoad
    <3> HIDE DEF g
    <3> QED
      BY <1>2, <3>1, <3>2
  <2>2. CASE \/ CreateNew \/ (\E key \in PolicyKey : SelectPolicy(key)) \/ (\E values \in Edits : EditForm(values))
    <3>1. running' = running
      BY <2>2 DEF CreateNew, SelectPolicy, EditForm
    <3> QED
      BY <1>1, <3>1
  <2>3. CASE \/ SavePolicy \/ (\E key \in PolicyKey : DeleteAction(key))
             \/ (\E key \in PolicyKey : \E action \in {"activate", "deactivate", "set_active"} : StateAction(key, action))
    <3>1. (\E op, arg : Start(op, arg)) \/ running' = running
      BY <2>3 DEF SavePolicy, DeleteAction, StateAction
    <3> QED
      BY <1>1, <1>3, <3>1
  <2> QED
    BY <1>4, <2>1, <2>2, <2>3 DEF PolicyUser
<1>5. ASSUME NEW h \in running, NEW list, ServeList(h, list) PROVE HandlersHold'
  <2>1. PICK answer \in {"ok", "denied", "failed"} : Becomes(h, [h EXCEPT !.answer = answer, !.list = {list}])
    BY <1>5 DEF ServeList
  <2> DEFINE g == [h EXCEPT !.answer = answer, !.list = {list}]
  <2>2. Shaped(h)
    BY DEF HandlersHold
  <2>3. Shaped(g) /\ HoldsList(g)
    BY <2>2, ListServed
  <2>4. running' = (running \ {h}) \cup {g}
    BY <2>1 DEF Becomes
  <2> HIDE DEF g
  <2> QED
    BY <1>2, <2>3, <2>4
<1>6. ASSUME NEW h \in running, NEW answers, NEW next, ServeChange(h, answers, next) PROVE HandlersHold'
  <2>1. PICK answer, lost, times : Becomes(h, [h EXCEPT !.answer = answer, !.lost = lost, !.times = times])
    BY <1>6 DEF ServeChange
  <2> DEFINE g == [h EXCEPT !.answer = answer, !.lost = lost, !.times = times]
  <2>2. Shaped(h) /\ h.try > 0
    BY <1>6 DEF HandlersHold, ServeChange
  <2>3. Shaped(g) /\ HoldsList(g)
    BY <2>2, ChangeServed
  <2>4. running' = (running \ {h}) \cup {g}
    BY <2>1, <2>2 DEF Becomes, Shaped
  <2> HIDE DEF g
  <2> QED
    BY <1>2, <2>3, <2>4
<1>7. ASSUME NEW h \in running, ServePolicy(h) PROVE HandlersHold'
  BY <1>5, <1>6, <1>7 DEF ServePolicy
<1>8. ASSUME NEW h \in running, GoesOn(h) PROVE HandlersHold'
  <2>1. Shaped(h) /\ h.try + 1 \in Nat
    BY DEF HandlersHold, Shaped
  <2>2. CASE AskList(h)
    <3> DEFINE g == [h EXCEPT !.try = 0, !.answer = Waiting]
    <3>1. Shaped(g) /\ HoldsList(g)
      BY <2>1, Asked
    <3>2. running' = (running \ {h}) \cup {g}
      BY <2>2 DEF AskList, Becomes
    <3> HIDE DEF g
    <3> QED
      BY <1>2, <3>1, <3>2
  <2>3. CASE AskAgain(h)
    <3> DEFINE g == [h EXCEPT !.try = h.try + 1, !.answer = Waiting]
    <3>1. Shaped(g) /\ HoldsList(g)
      BY <2>1, Asked
    <3>2. running' = (running \ {h}) \cup {g}
      BY <2>3 DEF AskAgain, Becomes
    <3> HIDE DEF g
    <3> QED
      BY <1>2, <3>1, <3>2
  <2> QED
    BY <1>8, <2>2, <2>3 DEF GoesOn
<1>9. ASSUME NEW h \in running, PoliciesLoaded(h) \/ PolicySaved(h) \/ StateChanged(h) \/ PolicyDeleted(h)
      PROVE  HandlersHold'
  <2>1. running' \subseteq running
    BY <1>9 DEF PoliciesLoaded, PolicySaved, StateChanged, PolicyDeleted, Ends
  <2> QED
    BY <1>1, <2>1
<1> QED
  BY <1>4, <1>7, <1>8, <1>9 DEF PolicyNext, PolicyHandles, PolicyAnswered

\* Rows that are changed in the page only are not called live: a handler has no
\* list to show only if its change was not accepted.
LEMMA LocalIsNotLive ==
  ASSUME NEW h, HoldsList(h), Final(h), NEW result,
         result \in {AttemptPolicyMutation(ChangeAnswer(h), Refreshed(h)), DeletePolicy(ChangeAnswer(h), Refreshed(h))},
         result.data = {}
  PROVE  result.source # "live"
<1>1. CASE h.answer # "ok"
  BY <1>1, LiveIsAnswered
<1>2. CASE h.answer = "ok"
  <2>1. h.list # {} /\ ChangeAnswer(h) = "ok"
    BY <1>2 DEF Final, HoldsList, ChangeAnswer
  <2>2. Refreshed(h) = Live(h.list) /\ Live(h.list).data = h.list /\ Live(h.list).source = "live"
    BY <1>2 DEF Refreshed, GetPolicies, Live, Result
  <2>3. AttemptPolicyMutation(ChangeAnswer(h), Refreshed(h)) = Live(h.list)
        /\ DeletePolicy(ChangeAnswer(h), Refreshed(h)) = Live(h.list)
    BY <2>1, <2>2 DEF AttemptPolicyMutation, DeletePolicy, AfterRefresh
  <2> QED
    BY <2>1, <2>2, <2>3
<1> QED
  BY <1>1, <1>2

LEMMA PolicyRowsStep ==
  ASSUME HandlersHold, LiveRowsWereServed, PolicyNext
  PROVE  LiveRowsWereServed'
<1>1. ASSUME UNCHANGED <<page, rows, api, listed>> PROVE LiveRowsWereServed'
  BY <1>1 DEF LiveRowsWereServed
<1>2. ASSUME api' # "live" PROVE LiveRowsWereServed'
  BY <1>2 DEF LiveRowsWereServed
<1>3. CASE PolicyUser
  <2>1. UNCHANGED <<page, rows, api, listed>> \/ api' = "mock"
    BY <1>3 DEF PolicyUser, LoadPolicies, CreateNew, SavePolicy, SelectPolicy, DeleteAction, StateAction, EditForm
  <2> QED
    BY <1>1, <1>2, <2>1
<1>4. ASSUME NEW h \in running, ServePolicy(h) \/ GoesOn(h)
      PROVE  LiveRowsWereServed'
  <2>1. UNCHANGED <<page, rows, api, listed>>
    BY <1>4 DEF ServePolicy, ServeChange, ServeList, GoesOn
  <2> QED
    BY <1>1, <2>1
<1>5. ASSUME NEW h \in running, PoliciesLoaded(h)
      PROVE  LiveRowsWereServed'
  <2>1. ShowList(h, Refreshed(h))
    BY <1>5 DEF PoliciesLoaded
  <2> QED
    BY <2>1, LiveIsAnswered, ShownListIsListed
<1>6. ASSUME NEW h \in running, PolicySaved(h) \/ StateChanged(h) \/ PolicyDeleted(h)
      PROVE  LiveRowsWereServed'
  <2>1. PICK result \in {AttemptPolicyMutation(ChangeAnswer(h), Refreshed(h)), DeletePolicy(ChangeAnswer(h), Refreshed(h))} :
          Final(h) /\ (ShowList(h, result) \/ (result.data = {} /\ api' = result.source))
    BY <1>6 DEF PolicySaved, StateChanged, PolicyDeleted
  <2>2. CASE ShowList(h, result)
    <3>1. result.source = "live" => h.answer = "ok"
      BY LiveIsAnswered
    <3> QED
      BY <2>2, <3>1, ShownListIsListed
  <2>3. CASE result.data = {} /\ api' = result.source
    <3>1. HoldsList(h)
      BY DEF HandlersHold
    <3>2. result.source # "live"
      BY <2>1, <2>3, <3>1, LocalIsNotLive
    <3> QED
      BY <1>2, <2>3, <3>2
  <2> QED
    BY <2>1, <2>2, <2>3
<1> QED
  BY <1>3, <1>4, <1>5, <1>6 DEF PolicyNext, PolicyHandles, PolicyAnswered

LEMMA PolicyInitInv == Init => PolicyInv
<1> SUFFICES ASSUME Init, page = "policies" PROVE HandlersHold /\ LiveRowsWereServed
  BY DEF PolicyInv
<1>1. PolicyInit
  BY DEF Init, EventsInit, AttendanceInit, EmployeesInit, DevicesInit, Opened
<1>2. api = "none" /\ running = {[n |-> 1, op |-> "load", arg |-> NoArg, try |-> 0, answer |-> Waiting,
                                  list |-> NoList, times |-> 0, lost |-> FALSE]}
  BY <1>1 DEF PolicyInit, Opened
<1> QED
  BY <1>2 DEF LiveRowsWereServed, HandlersHold, Shaped, HoldsList, Waiting

LEMMA PolicyStep == PolicyInv /\ [Next]_vars => PolicyInv'
<1> SUFFICES ASSUME PolicyInv, [Next]_vars, page' = "policies" PROVE (HandlersHold /\ LiveRowsWereServed)'
  BY DEF PolicyInv
<1>1. page = "policies" /\ HandlersHold /\ LiveRowsWereServed
  BY PageStays DEF PolicyInv
<1>2. CASE PolicyNext
  BY <1>1, <1>2, PolicyHandlersHold, PolicyRowsStep
<1>3. CASE UNCHANGED vars
  BY <1>1, <1>3 DEF vars, HandlersHold, LiveRowsWereServed
<1> QED
  BY <1>1, <1>2, <1>3 DEF Next, EventsNext, AttendanceNext, EmployeesNext, DevicesNext

\* Whatever changes fail, are made in the page only, or overlap with reloads, the
\* policies page calls live only the rows of the last list that it was sent.
THEOREM LiveRowsCorrect == Spec => []LiveRowsWereServed
<1>1. PolicyInv => LiveRowsWereServed
  BY DEF PolicyInv, LiveRowsWereServed
<1> QED
  BY <1>1, PolicyInitInv, PolicyStep, PTL DEF Spec

-----------------------------------------------------------------------------
(* Devices *)

OfDevices(list) ==
  \A r \in list : r.key \in Device /\ "key" \in DOMAIN r

\* A token request keeps the buttons off, and an issued token closes its dialog
\* before the next is made; so there is one request, and until its answer has
\* been handled the secret that the backend has made for it stands.
TokenHandler(h) == h.op \in {"issue", "revoke"}
DeviceHandler(h) ==
  /\ Shaped(h) /\ HoldsList(h) /\ h.n \in Nat
  /\ h.op = "load" \/ TokenHandler(h)
  /\ h.op = "load" => h.try = 0
  /\ h.op = "issue" => h.try > 0
  /\ TokenHandler(h) => h.arg.key \in Device
  /\ \A list \in h.list : OfDevices(list)
Answering(issued, table, h) ==
  h.op = "issue" => issued = {} /\ (h.answer = "ok" => table[h.arg.key].secret = h.n)
Devices ==
  /\ db \in [Device -> [secret : Nat, revoked : BOOLEAN]]
  /\ sent \in Nat /\ OfDevices(rows)
  /\ ui = [loading |-> ui.loading, issued |-> ui.issued, revoke |-> ui.revoke, pending |-> ui.pending]
  /\ ui.revoke \subseteq Device
  /\ \A shown \in ui.issued : shown.key \in Device /\ db[shown.key].secret = shown.secret
OneTokenRequest ==
  /\ \A h \in running : DeviceHandler(h) /\ Answering(ui.issued, db, h)
  /\ \A g, h \in running : TokenHandler(g) /\ TokenHandler(h) => g = h
  /\ ui.pending = {} => \A h \in running : ~ TokenHandler(h)
DeviceInv == page = "devices" => Devices /\ OneTokenRequest

LEMMA DeviceInitInv == Init => DeviceInv
<1> SUFFICES ASSUME Init, page = "devices" PROVE Devices /\ OneTokenRequest
  BY DEF DeviceInv
<1>1. DevicesInit
  BY DEF Init, PolicyInit, EventsInit, AttendanceInit, EmployeesInit, Opened
<1>2. /\ db = [d \in Device |-> [secret |-> 0, revoked |-> FALSE]] /\ rows = {} /\ sent = 1
      /\ ui = [loading |-> TRUE, issued |-> {}, revoke |-> {}, pending |-> {}]
      /\ running = {[n |-> 1, op |-> "load", arg |-> NoArg, try |-> 0, answer |-> Waiting,
                     list |-> NoList, times |-> 0, lost |-> FALSE]}
  BY <1>1 DEF DevicesInit, Opened
<1>3. Devices
  BY <1>2 DEF Devices, OfDevices
<1>4. OneTokenRequest
  BY <1>2 DEF OneTokenRequest, DeviceHandler, Answering, TokenHandler, Shaped, HoldsList, Waiting, NoList, OfDevices
<1> QED
  BY <1>3, <1>4

\* What the user does.
LEMMA DevicesUserStep ==
  ASSUME Devices, OneTokenRequest, DevicesUser
  PROVE  (Devices /\ OneTokenRequest)'
<1>1. CASE LoadDevices
  <2>1. PICK g : g = [Handler("load", NoArg) EXCEPT !.try = 0]
    OBVIOUS
  <2>2. /\ running' = running \cup {g} /\ sent' = sent + 1 /\ ui' = [ui EXCEPT !.loading = TRUE]
        /\ UNCHANGED <<db, rows>>
    BY <1>1, <2>1 DEF LoadDevices
  <2>3. ui' = [loading |-> TRUE, issued |-> ui.issued, revoke |-> ui.revoke, pending |-> ui.pending]
    BY <2>2 DEF Devices
  <2>4. Shaped(g) /\ HoldsList(g) /\ g.op = "load" /\ g.n = sent + 1 /\ g.list = {} /\ g.try = 0
    BY <2>1 DEF Handler, Shaped, HoldsList, Waiting, NoList
  <2>5. DeviceHandler(g) /\ ~ TokenHandler(g)
    BY <2>4 DEF DeviceHandler, TokenHandler, Devices
  <2>6. Devices'
    <3>1. /\ ui'.issued = ui.issued /\ ui'.revoke = ui.revoke
          /\ ui' = [loading |-> ui'.loading, issued |-> ui'.issued, revoke |-> ui'.revoke, pending |-> ui'.pending]
      BY <2>3
    <3>2. sent' \in Nat
      BY <2>2 DEF Devices
    <3> QED
      BY <2>2, <3>1, <3>2 DEF Devices, OfDevices
  <2>7. OneTokenRequest'
    BY <2>2, <2>3, <2>4, <2>5 DEF OneTokenRequest, Answering
  <2> QED
    BY <2>6, <2>7
<1>2. ASSUME NEW op \in {"issue", "revoke"}, NEW d \in Device, NEW type,
             Start(op, [key |-> d]), ui.pending = {}, op = "issue" => ui.issued = {},
             ui' = [ui EXCEPT !.pending = {[key |-> d, type |-> type]}], UNCHANGED <<db, rows>>
      PROVE  (Devices /\ OneTokenRequest)'
  <2> DEFINE g == Handler(op, [key |-> d])
  <2>1. running' = running \cup {g} /\ sent' = sent + 1
    BY <1>2 DEF Start
  <2>2. ui' = [loading |-> ui.loading, issued |-> ui.issued, revoke |-> ui.revoke, pending |-> {[key |-> d, type |-> type]}]
    BY <1>2 DEF Devices
  <2>3. /\ Shaped(g) /\ HoldsList(g) /\ g.op = op /\ g.arg = [key |-> d] /\ g.n = sent + 1
        /\ g.answer # "ok" /\ g.list = {} /\ g.try = 1
    BY NewHandler
  <2> HIDE DEF g
  <2>4. DeviceHandler(g)
    BY <2>3 DEF DeviceHandler, TokenHandler, Devices
  <2>5. Devices'
    BY <1>2, <2>1, <2>2 DEF Devices
  <2>6. \A h \in running : ~ TokenHandler(h)
    BY <1>2 DEF OneTokenRequest
  <2>7. ui'.pending # {} /\ ui'.issued = ui.issued
    BY <2>2
  <2>8. OneTokenRequest'
    BY <1>2, <2>1, <2>3, <2>4, <2>6, <2>7 DEF OneTokenRequest, Answering, TokenHandler
  <2> QED
    BY <2>5, <2>8
<1>3. ASSUME NEW row \in rows, IssueToken(row) PROVE (Devices /\ OneTokenRequest)'
  <2>1. row.key \in Device
    BY DEF Devices, OfDevices
  <2> QED
    BY <1>2, <1>3, <2>1 DEF IssueToken
<1>4. CASE RevokeToken
  <2>1. PICK d \in ui.revoke : Start("revoke", [key |-> d]) /\ ui.pending = {}
                                /\ ui' = [ui EXCEPT !.pending = {[key |-> d, type |-> "revoke"]}] /\ UNCHANGED <<db, rows>>
    BY <1>4 DEF RevokeToken
  <2>2. d \in Device
    BY DEF Devices
  <2> QED
    BY <1>2, <2>1, <2>2
<1>5. ASSUME UNCHANGED <<db, rows, sent, running>>, NEW issued \in {ui.issued, {}}, NEW revoke \in SUBSET Device,
             ui' = [loading |-> ui.loading, issued |-> issued, revoke |-> revoke, pending |-> ui.pending]
      PROVE  (Devices /\ OneTokenRequest)'
  <2>1. Devices'
    BY <1>5 DEF Devices
  <2>2. OneTokenRequest'
    BY <1>5 DEF OneTokenRequest, Answering
  <2> QED
    BY <2>1, <2>2
<1>6. ASSUME NEW row \in rows, OpenRevoke(row) PROVE (Devices /\ OneTokenRequest)'
  <2>1. ui' = [loading |-> ui.loading, issued |-> ui.issued, revoke |-> {row.key}, pending |-> ui.pending]
    BY <1>6 DEF OpenRevoke, Devices
  <2>2. {row.key} \in SUBSET Device
    BY DEF Devices, OfDevices
  <2> QED
    BY <1>5, <1>6, <2>1, <2>2 DEF OpenRevoke, Unchanged
<1>7. CASE CancelRevoke
  <2>1. ui' = [loading |-> ui.loading, issued |-> ui.issued, revoke |-> {}, pending |-> ui.pending]
    BY <1>7 DEF CancelRevoke, Devices
  <2> QED
    BY <1>5, <1>7, <2>1 DEF CancelRevoke, Unchanged
<1>8. CASE ClearIssuedToken
  <2>1. ui' = [loading |-> ui.loading, issued |-> {}, revoke |-> ui.revoke, pending |-> ui.pending]
    BY <1>8 DEF ClearIssuedToken, Devices
  <2>2. ui.revoke \in SUBSET Device
    BY DEF Devices
  <2> QED
    BY <1>5, <1>8, <2>1, <2>2 DEF ClearIssuedToken, Unchanged
<1> QED
  BY <1>1, <1>3, <1>4, <1>6, <1>7, <1>8 DEF DevicesUser

\* A handler goes on as g; the rest of the page changes in harmless ways.
LEMMA HandlerGoesOn ==
  ASSUME Devices, OneTokenRequest, NEW h \in running, NEW g, DeviceHandler(g), g.op = h.op,
         running' = (running \ {h}) \cup {g}, Answering(ui'.issued, db', g),
         ui'.issued = ui.issued, ui'.pending = ui.pending,
         \A f \in running \ {h} : f.op = "issue" => db' = db
  PROVE  OneTokenRequest'
<1>1. \A f \in running \ {h} : Answering(ui'.issued, db', f)
  BY DEF OneTokenRequest, Answering
<1> QED
  BY <1>1 DEF OneTokenRequest, TokenHandler, DeviceHandler

\* The backend serves a request.
LEMMA DevicesServed ==
  ASSUME Devices, OneTokenRequest, NEW h \in running, ServeDevices(h)
  PROVE  (Devices /\ OneTokenRequest)'
<1>1. DeviceHandler(h) /\ Answering(ui.issued, db, h) /\ UNCHANGED <<rows, ui, sent>> /\ sent \in Nat
  BY DEF OneTokenRequest, Devices, ServeDevices, ServeChange, ServeList
<1>2. ASSUME NEW next \in [Device -> [secret : Nat, revoked : BOOLEAN]], TokenHandler(h),
             ServeChange(h, {"ok", "denied", "missing", "failed", "lost"}, next),
             h.op = "issue" => next[h.arg.key].secret = h.n,
             h.op = "revoke" => \A d \in Device : next[d].secret = db[d].secret
      PROVE  (Devices /\ OneTokenRequest)'
  <2>1. PICK answer, lost, times :
          /\ Becomes(h, [h EXCEPT !.answer = answer, !.lost = lost, !.times = times])
          /\ db' = IF Applied(answer) THEN next ELSE db
    BY <1>2 DEF ServeChange
  <2> DEFINE g == [h EXCEPT !.answer = answer, !.lost = lost, !.times = times]
  <2>3. h.try > 0 /\ Shaped(h)
    BY <1>1, <1>2 DEF ServeChange, DeviceHandler
  <2>4. Shaped(g) /\ HoldsList(g) /\ Same(g, h) /\ g.try = h.try /\ g.answer = answer /\ g.list = h.list
    <3>1. Shaped(g) /\ HoldsList(g)
      BY <2>3, ChangeServed
    <3>2. Same(g, h) /\ g.try = h.try /\ g.answer = answer /\ g.list = h.list
      BY <2>3 DEF Shaped, Same
    <3> QED
      BY <3>1, <3>2
  <2>6. running' = (running \ {h}) \cup {g}
    BY <2>1 DEF Becomes
  <2> HIDE DEF g
  <2>5. DeviceHandler(g)
    BY <1>1, <2>4 DEF DeviceHandler, TokenHandler, Same
  <2>7. h.op = "issue" => ui.issued = {}
    BY <1>1 DEF Answering
  <2>8. \A f \in running \ {h} : ~ TokenHandler(f)
    BY <1>2 DEF OneTokenRequest
  <2>9. Answering(ui'.issued, db', g)
    BY <1>1, <1>2, <2>1, <2>4, <2>7 DEF Answering, Same, Applied
  <2>10. Devices'
    <3>1. db' \in [Device -> [secret : Nat, revoked : BOOLEAN]]
      BY <1>2, <2>1 DEF Devices
    <3>2. h.op # "issue" => \A d \in Device : db'[d].secret = db[d].secret
      BY <1>2, <2>1 DEF TokenHandler
    <3> QED
      BY <1>1, <2>7, <3>1, <3>2 DEF Devices, OfDevices
  <2>11. OneTokenRequest'
    BY <1>1, <2>4, <2>5, <2>6, <2>8, <2>9, HandlerGoesOn DEF Same, TokenHandler
  <2> QED
    BY <2>10, <2>11
<1>3. CASE h.op = "issue" /\ ServeChange(h, {"ok", "denied", "missing", "failed", "lost"}, Issued(h))
  <2>1. h.arg.key \in Device /\ h.n \in Nat
    BY <1>1, <1>3 DEF DeviceHandler, TokenHandler
  <2>2. Issued(h) \in [Device -> [secret : Nat, revoked : BOOLEAN]] /\ Issued(h)[h.arg.key].secret = h.n
    BY <2>1 DEF Issued, Devices
  <2> QED
    BY <1>2, <1>3, <2>2 DEF TokenHandler
<1>4. CASE h.op = "revoke" /\ ServeChange(h, {"ok", "denied", "missing", "failed", "lost"}, Revoked(h.arg))
  <2>1. h.arg.key \in Device
    BY <1>1, <1>4 DEF DeviceHandler, TokenHandler
  <2>2. /\ Revoked(h.arg) \in [Device -> [secret : Nat, revoked : BOOLEAN]]
        /\ \A d \in Device : Revoked(h.arg)[d].secret = db[d].secret
    BY <2>1 DEF Revoked, Devices
  <2> QED
    BY <1>2, <1>4, <2>2 DEF TokenHandler
<1>5. CASE h.op \in {"load", "revoke"} /\ ServeList(h, DeviceList)
  <2>1. PICK answer : Becomes(h, [h EXCEPT !.answer = answer, !.list = {DeviceList}])
    BY <1>5 DEF ServeList
  <2> DEFINE g == [h EXCEPT !.answer = answer, !.list = {DeviceList}]
  <2>2. running' = (running \ {h}) \cup {g} /\ db' = db
    BY <1>5, <2>1 DEF Becomes, ServeList
  <2>3. Shaped(g) /\ HoldsList(g) /\ Same(g, h) /\ g.try = h.try /\ g.list = {DeviceList}
    <3>1. Shaped(h)
      BY <1>1 DEF DeviceHandler
    <3>2. Shaped(g) /\ HoldsList(g)
      BY <3>1, ListServed
    <3>3. Same(g, h) /\ g.try = h.try /\ g.list = {DeviceList}
      BY <3>1 DEF Shaped, Same
    <3> QED
      BY <3>2, <3>3
  <2> HIDE DEF g
  <2>4. OfDevices(DeviceList)
    BY DEF OfDevices, DeviceList, DeviceRow
  <2>5. DeviceHandler(g)
    BY <1>1, <2>3, <2>4 DEF DeviceHandler, TokenHandler, Same
  <2>7. g.op # "issue"
    BY <1>5, <2>3 DEF Same
  <2>8. Devices'
    BY <1>1, <2>2 DEF Devices, OfDevices
  <2>9. OneTokenRequest'
    <3>1. Answering(ui'.issued, db', g)
      BY <2>7 DEF Answering
    <3> QED
      BY <1>1, <2>2, <2>3, <2>5, <3>1, HandlerGoesOn DEF Same
  <2> QED
    BY <2>8, <2>9
<1> QED
  BY <1>3, <1>4, <1>5 DEF ServeDevices

\* A handler that has its answer ends, or asks for the list.
LEMMA HandlerEnds ==
  ASSUME OneTokenRequest, NEW h \in running, running' = running \ {h}, db' = db,
         ui'.issued = ui.issued \/ h.op = "issue", ui'.pending = ui.pending \/ TokenHandler(h)
  PROVE  OneTokenRequest'
<1>1. \A f \in running' : Answering(ui'.issued, db', f)
  BY DEF OneTokenRequest, Answering, TokenHandler
<1>2. ui'.pending = {} => \A f \in running' : ~ TokenHandler(f)
  BY DEF OneTokenRequest
<1> QED
  BY <1>1, <1>2 DEF OneTokenRequest

\* The list of an answer, or none, holds rows of devices.
LEMMA ShownDevices ==
  ASSUME NEW h, DeviceHandler(h), h.try = 0, ShowList(h, GetDevices(h.answer, h.list))
  PROVE  OfDevices(rows')
<1> DEFINE data == GetDevices(h.answer, h.list).data
<1>1. data = h.list \/ data = {{}}
  BY DEF GetDevices, Live, Denied, Unavailable, Result
<1>2. h.answer # "ok" => data = {{}}
  BY DEF GetDevices, Denied, Unavailable, Result
<1>3. h.answer = "ok" => h.list # {}
  BY DEF DeviceHandler, HoldsList
<1>4. data # {} /\ \A list \in data : OfDevices(list)
  BY <1>1, <1>2, <1>3 DEF DeviceHandler, OfDevices
<1>5. rows' = CHOOSE list \in data : TRUE
  BY DEF ShowList
<1> HIDE DEF data
<1> QED
  BY <1>4, <1>5

\* A row of which a token was issued stays the row of its device.
LEMMA IssuedRow ==
  ASSUME NEW row, "key" \in DOMAIN row
  PROVE  /\ [row EXCEPT !.token = TRUE, !.revoked = FALSE].key = row.key
         /\ "key" \in DOMAIN [row EXCEPT !.token = TRUE, !.revoked = FALSE]
OBVIOUS

LEMMA DevicesAnswered ==
  ASSUME Devices, OneTokenRequest, NEW h \in running,
         DevicesGoOn(h) \/ DevicesLoaded(h) \/ TokenIssued(h) \/ TokenRevoked(h)
  PROVE  (Devices /\ OneTokenRequest)'
<1>1. DeviceHandler(h) /\ Answering(ui.issued, db, h) /\ Shaped(h)
  BY DEF OneTokenRequest, DeviceHandler
<1>2. db' = db /\ sent' = sent
  BY DEF DevicesGoOn, DevicesLoaded, TokenIssued, TokenRevoked
<1>3. ASSUME OfDevices(rows'), NEW loading, NEW revoke \in SUBSET Device, NEW pending,
             NEW issued, \A shown \in issued : shown.key \in Device /\ db[shown.key].secret = shown.secret,
             ui' = [loading |-> loading, issued |-> issued, revoke |-> revoke, pending |-> pending]
      PROVE  Devices'
  BY <1>2, <1>3 DEF Devices
<1>4. ui.revoke \in SUBSET Device /\ OfDevices(rows)
      /\ \A shown \in ui.issued : shown.key \in Device /\ db[shown.key].secret = shown.secret
  BY DEF Devices
<1>5. CASE DevicesGoOn(h)
  <2> DEFINE g == [h EXCEPT !.try = 0, !.answer = Waiting]
  <2>1. running' = (running \ {h}) \cup {g} /\ rows' = rows
    BY <1>5 DEF DevicesGoOn, AskList, Becomes
  <2>2. ui' = [loading |-> TRUE, issued |-> ui.issued, revoke |-> ui.revoke, pending |-> ui.pending]
    BY <1>5 DEF DevicesGoOn, Devices
  <2>3. Shaped(g) /\ HoldsList(g)
    BY <1>1, Asked
  <2>4. Same(g, h) /\ g.list = h.list /\ g.try = 0 /\ h.op = "revoke"
    BY <1>1, <1>5 DEF Shaped, Same, DevicesGoOn
  <2> HIDE DEF g
  <2>5. DeviceHandler(g) /\ Answering(ui'.issued, db', g)
    BY <1>1, <2>3, <2>4 DEF DeviceHandler, TokenHandler, Same, Answering
  <2>6. Devices'
    BY <1>3, <1>4, <2>1, <2>2
  <2>7. OneTokenRequest'
    BY <1>2, <2>1, <2>2, <2>4, <2>5, HandlerGoesOn DEF Same
  <2> QED
    BY <2>6, <2>7
<1>6. CASE DevicesLoaded(h)
  <2>1. OfDevices(rows')
    BY <1>1, <1>6, ShownDevices DEF DevicesLoaded, DeviceHandler
  <2>2. ui' = [loading |-> FALSE, issued |-> ui.issued, revoke |-> ui.revoke, pending |-> ui.pending]
    BY <1>6 DEF DevicesLoaded, Devices
  <2>3. Devices'
    BY <1>3, <1>4, <2>1, <2>2
  <2>4. OneTokenRequest'
    BY <1>2, <1>6, <2>2, HandlerEnds DEF DevicesLoaded, Ends
  <2> QED
    BY <2>3, <2>4
<1>7. CASE TokenIssued(h)
  <2>1. h.op = "issue" /\ running' = running \ {h} /\ h.arg.key \in Device
    BY <1>1, <1>7 DEF TokenIssued, Ends, DeviceHandler, TokenHandler
  <2>2. OneTokenRequest'
    BY <1>2, <2>1, HandlerEnds DEF TokenHandler
  <2>3. CASE IssueDeviceAgentToken(h.answer, h.n).data # {}
    <3>1. h.answer = "ok"
      BY <2>3 DEF IssueDeviceAgentToken, Denied, Unavailable, Result
    <3>2. db[h.arg.key].secret = h.n
      BY <1>1, <2>1, <3>1 DEF Answering
    <3>3. ui' = [loading |-> ui.loading, issued |-> {[key |-> h.arg.key, secret |-> h.n]}, revoke |-> ui.revoke,
                 pending |-> {}]
      BY <1>7, <2>3 DEF TokenIssued, Devices
    <3>4. rows' = {IF row.key = h.arg.key THEN [row EXCEPT !.token = TRUE, !.revoked = FALSE] ELSE row : row \in rows}
      BY <1>7, <2>3 DEF TokenIssued
    <3>5. OfDevices(rows')
      <4>1. ASSUME NEW r \in rows' PROVE r.key \in Device /\ "key" \in DOMAIN r
        <5>1. PICK row \in rows : r = IF row.key = h.arg.key THEN [row EXCEPT !.token = TRUE, !.revoked = FALSE] ELSE row
          BY <3>4
        <5>2. row.key \in Device /\ "key" \in DOMAIN row
          BY <1>4 DEF OfDevices
        <5> QED
          BY <5>1, <5>2, IssuedRow
      <4> QED
        BY <4>1 DEF OfDevices
    <3> QED
      BY <1>3, <1>4, <2>1, <2>2, <3>2, <3>3, <3>5
  <2>4. CASE IssueDeviceAgentToken(h.answer, h.n).data = {}
    <3>1. rows' = rows
      BY <1>7, <2>4 DEF TokenIssued
    <3>2. ui' = [loading |-> ui.loading, issued |-> ui.issued, revoke |-> ui.revoke, pending |-> {}]
      BY <1>7, <2>4 DEF TokenIssued, Devices
    <3> QED
      BY <1>3, <1>4, <2>2, <3>1, <3>2
  <2> QED
    BY <2>3, <2>4
<1>8. CASE TokenRevoked(h)
  <2>1. h.op = "revoke" /\ running' = running \ {h}
    BY <1>8 DEF TokenRevoked, Ends
  <2>2. CASE UNCHANGED rows /\ ui' = [ui EXCEPT !.pending = {}]
    <3>1. ui' = [loading |-> ui.loading, issued |-> ui.issued, revoke |-> ui.revoke, pending |-> {}]
      BY <2>2 DEF Devices
    <3>2. Devices'
      BY <1>3, <1>4, <2>2, <3>1
    <3> QED
      BY <1>2, <2>1, <3>1, <3>2, HandlerEnds DEF TokenHandler
  <2>3. CASE /\ h.try = 0 /\ ShowList(h, GetDevices(h.answer, h.list))
             /\ ui' = [ui EXCEPT !.pending = {}, !.loading = FALSE, !.revoke = {}]
    <3>1. ui' = [loading |-> FALSE, issued |-> ui.issued, revoke |-> {}, pending |-> {}]
      BY <2>3 DEF Devices
    <3>2. OfDevices(rows')
      BY <1>1, <2>3, ShownDevices
    <3>3. Devices'
      BY <1>3, <1>4, <3>1, <3>2
    <3> QED
      BY <1>2, <2>1, <3>1, <3>3, HandlerEnds DEF TokenHandler
  <2> QED
    BY <1>8, <2>2, <2>3 DEF TokenRevoked
<1> QED
  BY <1>5, <1>6, <1>7, <1>8

LEMMA DeviceStep == DeviceInv /\ [Next]_vars => DeviceInv'
<1> SUFFICES ASSUME DeviceInv, [Next]_vars, page' = "devices" PROVE (Devices /\ OneTokenRequest)'
  BY DEF DeviceInv
<1>1. page = "devices" /\ Devices /\ OneTokenRequest
  BY PageStays DEF DeviceInv
<1>2. CASE DevicesNext
  BY <1>1, <1>2, DevicesUserStep, DevicesServed, DevicesAnswered DEF DevicesNext, DevicesHandles
<1>3. CASE UNCHANGED vars
  BY <1>1, <1>3 DEF vars, Devices, OneTokenRequest
<1> QED
  BY <1>1, <1>2, <1>3 DEF Next, PolicyNext, EventsNext, AttendanceNext, EmployeesNext

\* The token in the dialog is the one with which the device can log in, although
\* the answer to an earlier request may have been lost, for any number of
\* devices and requests.
THEOREM ShownTokenCorrect == Spec => []ShownTokenIsCurrent
<1>1. DeviceInv => ShownTokenIsCurrent
  BY DEF DeviceInv, Devices, ShownTokenIsCurrent
<1> QED
  BY <1>1, DeviceInitInv, DeviceStep, PTL DEF Spec

-----------------------------------------------------------------------------
(* What is said of a change *)

\* What a handler of any page knows of its change: once its change has been
\* accepted it has happened; while no attempt was accepted and no answer lost,
\* it has not; a creation is tried once.
Knows(h) ==
  /\ h.times \in Nat /\ h.lost \in BOOLEAN
  /\ h.op \in {"export", "issue"} => h.try > 0
  /\ h.op \notin {"load", "rules"} /\ (h.try = 0 \/ h.answer = "ok") => h.times >= 1
  /\ h.try > 0 /\ h.answer # "ok" => h.lost \/ h.times = 0
  /\ h.op \in {"save", "employee"} => h.times <= 1 /\ (h.try > 0 /\ h.answer = Waiting => h.times = 0)
Sound(h) == Shaped(h) /\ HoldsList(h) /\ Knows(h)
\* No list follows an export or a token, which two of the pages ask for.
Belongs(mounted, op) == (op = "export" => mounted = "employees") /\ (op = "issue" => mounted = "devices")
AllSound == \A h \in running : Sound(h) /\ Belongs(page, h.op)

LEMMA SoundStart ==
  ASSUME AllSound, page' = page, NEW op, NEW arg, Start(op, arg), Belongs(page, op)
  PROVE  AllSound'
<1> DEFINE g == Handler(op, arg)
<1>1. running' = running \cup {g}
  BY DEF Start
<1>2. g.times = 0 /\ g.lost = FALSE /\ g.try = 1 /\ g.answer = Waiting /\ g.op = op
  BY DEF Handler
<1>3. Shaped(g) /\ HoldsList(g)
  BY NewHandler
<1> HIDE DEF g
<1>4. g.lost \in BOOLEAN
  BY <1>2, Zenon
<1>5. g.times = 0 /\ g.try = 1 /\ g.answer # "ok"
  BY <1>2 DEF Waiting
<1>6. Knows(g)
  BY <1>2, <1>4, <1>5 DEF Knows
<1> QED
  BY <1>1, <1>2, <1>3, <1>6 DEF AllSound, Sound

\* A request for a list starts.
LEMMA SoundLoad ==
  ASSUME AllSound, page' = page, NEW ops \in SUBSET {"load", "rules"}, NEW arg,
         running' = running \cup {[Handler(op, arg) EXCEPT !.try = 0] : op \in ops}
  PROVE  AllSound'
<1>1. ASSUME NEW op \in ops, NEW g, g = [Handler(op, arg) EXCEPT !.try = 0] PROVE Sound(g) /\ Belongs(page, g.op)
  <2>1. g.times = 0 /\ g.lost = FALSE /\ g.try = 0 /\ g.answer = Waiting /\ g.op = op
    BY <1>1 DEF Handler
  <2>2. Shaped(g) /\ HoldsList(g)
    BY <1>1, NewLoad
  <2>3. g.lost \in BOOLEAN
    BY <2>1, Zenon
  <2>4. g.times = 0 /\ g.try = 0 /\ g.op \in {"load", "rules"} /\ g.op \notin {"export", "issue", "save", "employee"}
    BY <2>1
  <2>5. Knows(g)
    BY <2>3, <2>4 DEF Knows
  <2> QED
    BY <2>2, <2>4, <2>5 DEF Sound, Belongs
<1> QED
  BY <1>1 DEF AllSound, Belongs, Handler

LEMMA SoundNext ==
  ASSUME AllSound, page' = page, NEW h \in running, NEW g, Sound(g), g.op = h.op, Becomes(h, g)
  PROVE  AllSound'
BY DEF AllSound, Becomes

LEMMA SoundEnd ==
  ASSUME AllSound, page' = page, running' \subseteq running
  PROVE  AllSound'
BY DEF AllSound

LEMMA SoundList ==
  ASSUME AllSound, page' = page, NEW h \in running, NEW list, ServeList(h, list)
  PROVE  AllSound'
<1>1. PICK answer \in {"ok", "denied", "failed"} : Becomes(h, [h EXCEPT !.answer = answer, !.list = {list}])
  BY DEF ServeList
<1> DEFINE g == [h EXCEPT !.answer = answer, !.list = {list}]
<1>2. Shaped(h) /\ Knows(h) /\ h.try = 0
  BY DEF AllSound, Sound, ServeList
<1>3. Shaped(g) /\ HoldsList(g)
  BY <1>2, ListServed
<1>4. g.times = h.times /\ g.lost = h.lost /\ g.try = h.try /\ g.op = h.op
  BY <1>2 DEF Shaped
<1>5. Becomes(h, g)
  BY <1>1
<1> HIDE DEF g
<1>6. Knows(g)
  BY <1>2, <1>4 DEF Knows
<1> QED
  BY <1>3, <1>4, <1>5, <1>6, SoundNext DEF Sound

LEMMA SoundChange ==
  ASSUME AllSound, page' = page, NEW h \in running, NEW answers, NEW next, ServeChange(h, answers, next)
  PROVE  AllSound'
<1>1. PICK answer \in answers :
        Becomes(h, [h EXCEPT !.answer = answer, !.lost = @ \/ answer = "lost",
                             !.times = IF Applied(answer) THEN @ + 1 ELSE @])
  BY DEF ServeChange
<1> DEFINE lost == h.lost \/ answer = "lost"
           times == IF Applied(answer) THEN h.times + 1 ELSE h.times
           g == [h EXCEPT !.answer = answer, !.lost = lost, !.times = times]
<1>2. Shaped(h) /\ Knows(h) /\ h.try > 0 /\ h.answer = Waiting
  BY DEF AllSound, Sound, ServeChange
<1>3. Shaped(g) /\ HoldsList(g)
  <2>1. ASSUME NEW l, NEW t, NEW f, f = [h EXCEPT !.answer = answer, !.lost = l, !.times = t]
        PROVE  Shaped(f) /\ HoldsList(f)
    BY <1>2, <2>1, ChangeServed
  <2> HIDE DEF lost, times
  <2> QED
    BY <2>1
<1>4. g.times = times /\ g.lost = lost /\ g.try = h.try /\ g.op = h.op /\ g.answer = answer
  BY <1>2 DEF Shaped
<1>5. Becomes(h, g)
  BY <1>1
<1>6. times \in Nat /\ lost \in BOOLEAN /\ (answer = "ok" => times >= 1)
  BY <1>2 DEF Knows, Applied
<1>7. answer # "ok" => lost \/ times = 0
  BY <1>2 DEF Knows, Applied, Waiting
<1>8. h.op \in {"save", "employee"} => times <= 1
  BY <1>2 DEF Knows, Applied
<1>9. answer = Waiting => times = h.times
  BY DEF Applied, Waiting
<1> HIDE DEF g, times, lost
<1>10. Knows(g)
  BY <1>2, <1>4, <1>6, <1>7, <1>8, <1>9 DEF Knows
<1> QED
  BY <1>3, <1>4, <1>5, <1>10, SoundNext DEF Sound

\* An accepted change asks for the list.
LEMMA SoundAsk ==
  ASSUME AllSound, page' = page, NEW h \in running, h.try > 0, h.answer = "ok", h.op \notin {"export", "issue"}, AskList(h)
  PROVE  AllSound'
<1> DEFINE g == [h EXCEPT !.try = 0, !.answer = Waiting]
<1>1. Shaped(h) /\ Knows(h) /\ Becomes(h, g)
  BY DEF AllSound, Sound, AskList
<1>2. Shaped(g) /\ HoldsList(g)
  BY <1>1, Asked
<1>3. g.times = h.times /\ g.lost = h.lost /\ g.try = 0 /\ g.op = h.op /\ g.answer = Waiting
  BY <1>1 DEF Shaped
<1> HIDE DEF g
<1>4. Knows(g)
  BY <1>1, <1>3 DEF Knows, Waiting
<1> QED
  BY <1>1, <1>2, <1>3, <1>4, SoundNext DEF Sound

\* A change that was not accepted is tried again.
LEMMA SoundAgain ==
  ASSUME AllSound, page' = page, NEW h \in running, h.try > 0, h.answer # "ok", h.op \notin {"save", "employee"}, AskAgain(h)
  PROVE  AllSound'
<1> DEFINE g == [h EXCEPT !.try = h.try + 1, !.answer = Waiting]
<1>1. Shaped(h) /\ Knows(h) /\ Becomes(h, g)
  BY DEF AllSound, Sound, AskAgain
<1>2. h.try + 1 \in Nat /\ h.try + 1 > 0
  BY <1>1 DEF Shaped
<1>3. Shaped(g) /\ HoldsList(g)
  BY <1>1, <1>2, Asked
<1>4. g.times = h.times /\ g.lost = h.lost /\ g.try = h.try + 1 /\ g.op = h.op /\ g.answer = Waiting
  BY <1>1 DEF Shaped
<1> HIDE DEF g
<1>5. Knows(g)
  BY <1>1, <1>2, <1>4 DEF Knows, Waiting
<1> QED
  BY <1>1, <1>3, <1>4, <1>5, SoundNext DEF Sound

LEMMA SaidNothing ==
  ASSUME SaysWhatHappened, said' \in {said, Silent}
  PROVE  SaysWhatHappened'
BY DEF SaysWhatHappened, Silent

LEMMA SaidSuccess ==
  ASSUME NEW h, Sound(h), h.op \notin {"load", "rules"}, h.try = 0 \/ h.answer = "ok", Say(h, "success")
  PROVE  SaysWhatHappened'
<1>1. said'.kind = "success" /\ said'.op = h.op /\ said'.times = h.times
  BY DEF Say
<1> QED
  BY <1>1 DEF SaysWhatHappened, Sound, Knows

LEMMA SaidFailure ==
  ASSUME NEW h, Sound(h), h.try # 0, h.answer # "ok", NEW kind, kind # "success", Say(h, kind)
  PROVE  SaysWhatHappened'
<1>1. said'.kind = kind /\ said'.op = h.op /\ said'.times = h.times /\ said'.lost = h.lost
  BY DEF Say
<1>2. h.try > 0
  BY DEF Sound, Shaped
<1>3. h.lost \/ h.times = 0
  BY <1>2 DEF Sound, Knows
<1>4. h.op \in {"save", "employee"} => h.times <= 1
  BY DEF Sound, Knows
<1>5. said'.lost \/ said'.times = 0
  BY <1>1, <1>3, Zenon
<1> QED
  BY <1>1, <1>4, <1>5 DEF SaysWhatHappened

\* A list request that has its answer gives a list; so a result without data is
\* one of a change that was not accepted.
LEMMA ListArrives ==
  ASSUME NEW h, HoldsList(h), h.try = 0
  PROVE  /\ GetPolicies(h.answer, h.list).data # {} /\ GetEmployees(h.answer, h.list).data # {}
         /\ GetDevices(h.answer, h.list).data # {} /\ GetEvents(h.answer, h.list).data # {}
         /\ GetAttendance(h.answer, h.list).data # {}
BY DEF HoldsList, GetPolicies, GetEmployees, GetDevices, GetEvents, GetAttendance, Live, Denied, Unavailable, Result

LEMMA RefreshKeepsData ==
  ASSUME NEW refreshed
  PROVE  AfterRefresh(refreshed).data = refreshed.data
BY DEF AfterRefresh, Live, Unavailable, Result

LEMMA PolicyResult ==
  ASSUME NEW h, HoldsList(h), Final(h)
  PROVE  /\ AttemptPolicyMutation(ChangeAnswer(h), Refreshed(h)).data = {} <=> h.try # 0
         /\ DeletePolicy(ChangeAnswer(h), Refreshed(h)).data = {} <=> h.try # 0
         /\ h.try # 0 => h.answer # "ok"
<1>1. CASE h.try = 0
  BY <1>1, ListArrives, RefreshKeepsData DEF AttemptPolicyMutation, DeletePolicy, ChangeAnswer, Refreshed
<1>2. CASE h.try # 0
  BY <1>2 DEF Final, AttemptPolicyMutation, DeletePolicy, ChangeAnswer, Unavailable, Result
<1> QED
  BY <1>1, <1>2

LEMMA ReviewResult ==
  ASSUME NEW h, HoldsList(h), h.try = 0 \/ h.answer # "ok", NEW answer, answer = IF h.try = 0 THEN "ok" ELSE h.answer
  PROVE  /\ ReviewEvent(answer, GetEvents(h.answer, h.list)).data = {} <=> h.try # 0
         /\ ReviewAttendance(answer, GetAttendance(h.answer, h.list)).data = {} <=> h.try # 0
         /\ \A list : UpdateAttendanceRule(answer, list).data = {} <=> h.try # 0
         /\ AttemptEmployeeMutation(answer, GetEmployees(h.answer, h.list)).data = {} <=> h.try # 0
<1>1. CASE h.try = 0
  <2>1. answer = "ok"
    BY <1>1
  <2>2. \A list : UpdateAttendanceRule(answer, list).data = {list}
    BY <2>1 DEF UpdateAttendanceRule, Live, Result
  <2>3. /\ ReviewEvent(answer, GetEvents(h.answer, h.list)).data # {}
        /\ ReviewAttendance(answer, GetAttendance(h.answer, h.list)).data # {}
        /\ AttemptEmployeeMutation(answer, GetEmployees(h.answer, h.list)).data # {}
    BY <1>1, <2>1, ListArrives, RefreshKeepsData DEF ReviewEvent, ReviewAttendance, AttemptEmployeeMutation
  <2> QED
    BY <1>1, <2>2, <2>3
<1>2. CASE h.try # 0
  <2>1. answer # "ok"
    BY <1>2
  <2> QED
    BY <1>2, <2>1 DEF ReviewEvent, ReviewAttendance, UpdateAttendanceRule, AttemptEmployeeMutation, Denied, Unavailable, Result
<1> QED
  BY <1>1, <1>2

LEMMA PolicySound ==
  ASSUME AllSound, SaysWhatHappened, PolicyNext
  PROVE  AllSound' /\ SaysWhatHappened'
<1>0. page' = page /\ page = "policies"
  BY PoliciesStay DEF PolicyNext
<1>1. ASSUME running' \subseteq running, said' \in {said, Silent} PROVE AllSound' /\ SaysWhatHappened'
  BY <1>1, <1>0, SoundEnd, SaidNothing
<1>2. ASSUME NEW op \in {"save", "state", "delete"}, NEW arg, Start(op, arg) PROVE AllSound' /\ SaysWhatHappened'
  BY <1>2, <1>0, SoundStart, SaidNothing DEF Start, Belongs
<1>3. CASE LoadPolicies
  <2>1. running' = running \cup {[Handler(op, NoArg) EXCEPT !.try = 0] : op \in {"load"}}
    BY <1>3 DEF LoadPolicies
  <2>2. {"load"} \in SUBSET {"load", "rules"} /\ said' = Silent
    BY <1>3 DEF LoadPolicies
  <2> QED
    BY <1>0, <2>1, <2>2, SoundLoad, SaidNothing
<1>4. CASE \/ CreateNew \/ (\E key \in PolicyKey : SelectPolicy(key)) \/ (\E values \in Edits : EditForm(values))
  <2>1. running' = running /\ said' = said
    BY <1>4 DEF CreateNew, SelectPolicy, EditForm
  <2> QED
    BY <1>1, <2>1
<1>5. CASE \/ SavePolicy \/ (\E key \in PolicyKey : DeleteAction(key))
           \/ (\E key \in PolicyKey : \E action \in {"activate", "deactivate", "set_active"} : StateAction(key, action))
  <2>1. (\E op \in {"save", "state", "delete"} : \E arg : Start(op, arg)) \/ (running' = running /\ said' = Silent)
    BY <1>5 DEF SavePolicy, DeleteAction, StateAction, Start
  <2> QED
    BY <1>1, <1>2, <2>1
<1>6. ASSUME NEW h \in running, ServePolicy(h) PROVE AllSound' /\ SaysWhatHappened'
  <2>1. (\E answers, next : ServeChange(h, answers, next)) \/ ServeList(h, PolicyList)
    BY <1>6 DEF ServePolicy
  <2>2. said' = said
    BY <2>1 DEF ServeChange, ServeList
  <2> QED
    BY <1>0, <2>1, <2>2, SoundList, SoundChange, SaidNothing
<1>7. ASSUME NEW h \in running, GoesOn(h) PROVE AllSound' /\ SaysWhatHappened'
  <2>1. h.try > 0 /\ said' = said /\ h.try \in Nat
    BY <1>7 DEF GoesOn, AllSound, Sound, Shaped
  <2>2. CASE h.answer = "ok"
    <3>1. AskList(h)
      BY <1>7, <2>2 DEF GoesOn
    <3>2. h.op \notin {"export", "issue"}
      BY <1>0 DEF AllSound, Belongs
    <3> QED
      BY <2>1, <2>2, <3>1, <3>2, SoundAsk, <1>0, SaidNothing
  <2>3. CASE h.answer # "ok"
    <3>1. AskAgain(h) /\ h.try < Tries(h.op)
      BY <1>7, <2>3 DEF GoesOn
    <3>2. h.op = "state"
      BY <2>1, <3>1 DEF Tries
    <3> QED
      BY <2>1, <2>3, <3>1, <3>2, SoundAgain, <1>0, SaidNothing
  <2> QED
    BY <2>2, <2>3
<1>8. ASSUME NEW h \in running, PoliciesLoaded(h) PROVE AllSound' /\ SaysWhatHappened'
  <2>1. running' \subseteq running /\ said' = said
    BY <1>8 DEF PoliciesLoaded, Ends
  <2> QED
    BY <1>1, <2>1
<1>9. ASSUME NEW h \in running, PolicySaved(h) \/ StateChanged(h) \/ PolicyDeleted(h)
      PROVE  AllSound' /\ SaysWhatHappened'
  <2>1. Sound(h) /\ HoldsList(h)
    BY DEF AllSound, Sound
  <2>2. PICK result \in {AttemptPolicyMutation(ChangeAnswer(h), Refreshed(h)), DeletePolicy(ChangeAnswer(h), Refreshed(h))} :
          /\ Final(h) /\ h.op \in {"save", "state", "delete"}
          /\ (result.data # {} /\ Say(h, "success")) \/ (result.data = {} /\ Say(h, "not"))
    BY <1>9 DEF PolicySaved, StateChanged, PolicyDeleted
  <2>3. (result.data = {} <=> h.try # 0) /\ (h.try # 0 => h.answer # "ok")
    BY <2>1, <2>2, PolicyResult
  <2>4. SaysWhatHappened'
    BY <2>1, <2>2, <2>3, SaidSuccess, SaidFailure
  <2>5. running' \subseteq running
    BY <1>9 DEF PolicySaved, StateChanged, PolicyDeleted, Ends
  <2> QED
    BY <1>0, <2>4, <2>5, SoundEnd
<1> QED
  BY <1>3, <1>4, <1>5, <1>6, <1>7, <1>8, <1>9 DEF PolicyNext, PolicyUser, PolicyHandles, PolicyAnswered

LEMMA EventsSound ==
  ASSUME AllSound, SaysWhatHappened, EventsNext
  PROVE  AllSound' /\ SaysWhatHappened'
<1>0. page' = page /\ page = "events"
  BY EventsStay DEF EventsNext
<1>1. ASSUME NEW filter, LoadEvents(filter) PROVE AllSound' /\ SaysWhatHappened'
  <2>1. running' = running \cup {[Handler(op, [filter |-> filter]) EXCEPT !.try = 0] : op \in {"load"}}
    BY <1>1 DEF LoadEvents
  <2>2. {"load"} \in SUBSET {"load", "rules"} /\ said' = Silent
    BY <1>1 DEF LoadEvents
  <2> QED
    BY <1>0, <2>1, <2>2, SoundLoad, SaidNothing
<1>2. CASE ReloadEvents \/ \E filter \in Filters : UpdateFilter(filter)
  BY <1>1, <1>2 DEF ReloadEvents, UpdateFilter
<1>3. CASE \E e \in Event, status \in ReviewActions : ReviewAction(e, status)
  <2>1. PICK arg : Start("review", arg)
    BY <1>3 DEF ReviewAction
  <2>2. Belongs(page, "review") /\ said' = Silent
    BY <1>0, <2>1 DEF Belongs, Start
  <2> QED
    BY <1>0, <2>1, <2>2, SoundStart, SaidNothing
<1>4. ASSUME NEW h \in running, ServeEvents(h) PROVE AllSound' /\ SaysWhatHappened'
  <2>1. said' = said
    BY <1>4 DEF ServeEvents, ServeChange, ServeList
  <2>2. CASE h.op = "review" /\ h.try > 0 /\ h.answer = "ok" /\ AskList(h)
    BY <1>0, <2>1, <2>2, SoundAsk, SaidNothing
  <2>3. CASE (\E answers, next : ServeChange(h, answers, next)) \/ (\E list : ServeList(h, list))
    BY <1>0, <2>1, <2>3, SoundList, SoundChange, SaidNothing
  <2> QED
    BY <1>4, <2>2, <2>3 DEF ServeEvents
<1>5. ASSUME NEW h \in running, EventsLoaded(h) PROVE AllSound' /\ SaysWhatHappened'
  <2>1. running' \subseteq running /\ said' = said
    BY <1>5 DEF EventsLoaded, Ends
  <2> QED
    BY <1>0, <2>1, SoundEnd, SaidNothing
<1>6. ASSUME NEW h \in running, ReviewSettled(h) PROVE AllSound' /\ SaysWhatHappened'
  <2>1. Sound(h) /\ HoldsList(h)
    BY DEF AllSound, Sound
  <2> DEFINE result == ReviewEvent(IF h.try = 0 THEN "ok" ELSE h.answer, GetEvents(h.answer, h.list))
  <2>2. h.op = "review" /\ (h.try = 0 \/ h.answer # "ok")
    BY <1>6 DEF ReviewSettled
  <2>3. \/ result.data # {} /\ Say(h, "success")
        \/ result.data = {} /\ (Say(h, "unchanged") \/ Say(h, "locally"))
    BY <1>6 DEF ReviewSettled
  <2>4. result.data = {} <=> h.try # 0
    BY <2>1, <2>2, ReviewResult
  <2> HIDE DEF result
  <2>5. SaysWhatHappened'
    BY <2>1, <2>2, <2>3, <2>4, SaidSuccess, SaidFailure
  <2>6. running' \subseteq running
    BY <1>6 DEF ReviewSettled, Ends
  <2> QED
    BY <1>0, <2>5, <2>6, SoundEnd
<1> QED
  BY <1>2, <1>3, <1>4, <1>5, <1>6 DEF EventsNext, EventsUser, EventsHandles

LEMMA AttendanceSound ==
  ASSUME AllSound, SaysWhatHappened, AttendanceNext
  PROVE  AllSound' /\ SaysWhatHappened'
<1>0. page' = page /\ page = "attendance"
  BY AttendanceStays DEF AttendanceNext
<1>1. CASE ReloadAttendance
  <2>1. running' = running \cup {[Handler(op, NoArg) EXCEPT !.try = 0] : op \in {"load", "rules"}} /\ said' = Silent
    BY <1>1 DEF ReloadAttendance
  <2>2. {"load", "rules"} \in SUBSET {"load", "rules"}
    OBVIOUS
  <2> QED
    BY <1>0, <2>1, <2>2, SoundLoad, SaidNothing
<1>2. CASE \/ (\E r \in Entry, status \in {"confirmed", "ignored"} : OpenReview(r, status))
           \/ CloseReview \/ OpenRuleEditor \/ CloseRuleEditor
  <2>1. running' = running /\ said' = said
    BY <1>2 DEF OpenReview, CloseReview, OpenRuleEditor, CloseRuleEditor
  <2> QED
    BY <1>0, <2>1, SoundEnd, SaidNothing
<1>3. CASE SubmitReview \/ \E rule \in Rules : SubmitRule(rule)
  <2>1. PICK op \in {"judge", "rule"} : \E arg : Start(op, arg)
    BY <1>3 DEF SubmitReview, SubmitRule
  <2>2. Belongs(page, op) /\ said' = Silent
    BY <1>0, <2>1 DEF Belongs, Start
  <2> QED
    BY <1>0, <2>1, <2>2, SoundStart, SaidNothing
<1>4. ASSUME NEW h \in running, ServeAttendance(h) PROVE AllSound' /\ SaysWhatHappened'
  <2>1. said' = said
    BY <1>4 DEF ServeAttendance, ServeChange, ServeList
  <2>2. CASE h.op \in {"judge", "rule"} /\ h.try > 0 /\ h.answer = "ok" /\ AskList(h)
    BY <1>0, <2>1, <2>2, SoundAsk, SaidNothing
  <2>3. CASE (\E answers, next : ServeChange(h, answers, next)) \/ (\E list : ServeList(h, list))
    BY <1>0, <2>1, <2>3, SoundList, SoundChange, SaidNothing
  <2> QED
    BY <1>4, <2>2, <2>3 DEF ServeAttendance
<1>5. ASSUME NEW h \in running, AttendanceLoaded(h) \/ RulesLoaded(h) PROVE AllSound' /\ SaysWhatHappened'
  <2>1. running' \subseteq running /\ said' = said
    BY <1>5 DEF AttendanceLoaded, RulesLoaded, Ends
  <2> QED
    BY <1>0, <2>1, SoundEnd, SaidNothing
<1>6. ASSUME NEW h \in running, ReviewSubmitted(h) \/ RuleSettled(h) PROVE AllSound' /\ SaysWhatHappened'
  <2>1. Sound(h) /\ HoldsList(h)
    BY DEF AllSound, Sound
  <2>2. h.op \in {"judge", "rule"} /\ (h.try = 0 \/ h.answer # "ok")
    BY <1>6 DEF ReviewSubmitted, RuleSettled
  <2> DEFINE answer == IF h.try = 0 THEN "ok" ELSE h.answer
  <2>3. PICK result \in {ReviewAttendance(answer, GetAttendance(h.answer, h.list)),
                         UpdateAttendanceRule(answer, RuleList(h.arg.rule))} :
          \/ result.data # {} /\ Say(h, "success")
          \/ result.data = {} /\ (Say(h, "not saved") \/ Say(h, "rejected"))
    BY <1>6 DEF ReviewSubmitted, RuleSettled
  <2>4. result.data = {} <=> h.try # 0
    <3>1. ReviewAttendance(answer, GetAttendance(h.answer, h.list)).data = {} <=> h.try # 0
      BY <2>1, <2>2, ReviewResult
    <3>2. \A list : UpdateAttendanceRule(answer, list).data = {} <=> h.try # 0
      BY <2>1, <2>2, ReviewResult
    <3> HIDE DEF answer
    <3> QED
      BY <2>3, <3>1, <3>2
  <2>5. SaysWhatHappened'
    BY <2>1, <2>2, <2>3, <2>4, SaidSuccess, SaidFailure
  <2>6. running' \subseteq running
    BY <1>6 DEF ReviewSubmitted, RuleSettled, Ends
  <2> QED
    BY <1>0, <2>5, <2>6, SoundEnd
<1> QED
  BY <1>1, <1>2, <1>3, <1>4, <1>5, <1>6 DEF AttendanceNext, AttendanceUser, AttendanceHandles

LEMMA EmployeesSound ==
  ASSUME AllSound, SaysWhatHappened, EmployeesNext
  PROVE  AllSound' /\ SaysWhatHappened'
<1>0. page' = page /\ page = "employees"
  BY EmployeesStay DEF EmployeesNext
<1>1. CASE LoadEmployees
  <2>1. running' = running \cup {[Handler(op, NoArg) EXCEPT !.try = 0] : op \in {"load"}}
    BY <1>1 DEF LoadEmployees
  <2>2. {"load"} \in SUBSET {"load", "rules"} /\ said' = Silent
    BY <1>1 DEF LoadEmployees
  <2> QED
    BY <1>0, <2>1, <2>2, SoundLoad, SaidNothing
<1>2. CASE \/ OpenImport \/ CancelImport \/ CancelEditor \/ OpenEditor({})
           \/ (\E r \in rows : OpenEditor({r}))
  <2>1. running' = running /\ said' = said
    BY <1>2 DEF OpenImport, CancelImport, CancelEditor, OpenEditor, Unchanged
  <2> QED
    BY <1>0, <2>1, SoundEnd, SaidNothing
<1>3. CASE \/ Export \/ (\E sheet \in Sheet, source \in {"pasted", "file"} : Import(sheet, source))
           \/ (\E r \in rows : DeleteEmployee(r.key))
           \/ (\E e \in Employee, name \in Name : SaveEmployee(e, name))
  <2>1. PICK op \in {"export", "import", "remove", "employee"} : \E arg : Start(op, arg)
    BY <1>3 DEF Export, Import, DeleteEmployee, SaveEmployee
  <2>2. Belongs(page, op) /\ said' = Silent
    BY <1>0, <2>1 DEF Belongs, Start
  <2> QED
    BY <1>0, <2>1, <2>2, SoundStart, SaidNothing
<1>4. ASSUME NEW h \in running, ServeEmployees(h) PROVE AllSound' /\ SaysWhatHappened'
  <2>1. (\E answers, next : ServeChange(h, answers, next)) \/ (\E list : ServeList(h, list))
    BY <1>4 DEF ServeEmployees
  <2>2. said' = said
    BY <2>1 DEF ServeChange, ServeList
  <2> QED
    BY <1>0, <2>1, <2>2, SoundList, SoundChange, SaidNothing
<1>5. ASSUME NEW h \in running, EmployeesGoOn(h) PROVE AllSound' /\ SaysWhatHappened'
  <2>1. h.try > 0 /\ said' = said
    BY <1>5 DEF EmployeesGoOn
  <2>2. CASE h.op \in {"import", "employee", "remove"} /\ h.answer = "ok" /\ AskList(h)
    BY <1>0, <2>1, <2>2, SoundAsk, SaidNothing
  <2>3. CASE h.op = "import" /\ h.answer # "ok" /\ AskAgain(h)
    BY <1>0, <2>1, <2>3, SoundAgain, SaidNothing
  <2> QED
    BY <1>5, <2>2, <2>3 DEF EmployeesGoOn
<1>6. ASSUME NEW h \in running, EmployeesLoaded(h) PROVE AllSound' /\ SaysWhatHappened'
  <2>1. running' \subseteq running /\ said' = said
    BY <1>6 DEF EmployeesLoaded, Ends
  <2> QED
    BY <1>0, <2>1, SoundEnd, SaidNothing
<1>7. ASSUME NEW h \in running, Exported(h) \/ ImportSettled(h) \/ EmployeeSaved(h) \/ EmployeeDeleted(h)
      PROVE  AllSound' /\ SaysWhatHappened'
  <2>1. Sound(h) /\ HoldsList(h)
    BY DEF AllSound, Sound
  <2>2. running' \subseteq running /\ h.op \notin {"load", "rules"}
    BY <1>7 DEF Exported, ImportSettled, EmployeeSaved, EmployeeDeleted, Ends
  <2>3. CASE Exported(h)
    <3>1. h.try # 0
      BY <2>1, <2>3 DEF Exported, Sound, Knows, Shaped
    <3>2. CASE h.answer = "ok"
      <4>1. Say(h, "success")
        BY <2>3, <3>2 DEF Exported, ExportEmployees, Live, Result
      <4> QED
        BY <1>0, <2>1, <2>2, <3>2, <4>1, SaidSuccess, SoundEnd
    <3>3. CASE h.answer # "ok"
      <4>1. Say(h, "not")
        BY <2>3, <3>3 DEF Exported, ExportEmployees, Unavailable, Result
      <4> QED
        BY <1>0, <2>1, <2>2, <3>1, <3>3, <4>1, SaidFailure, SoundEnd
    <3> QED
      BY <1>0, <2>2, <3>2, <3>3, SoundEnd
  <2>4. CASE ImportSettled(h)
    <3>1. \/ h.try # 0 /\ h.answer # "ok" /\ Say(h, "not")
          \/ h.try = 0 /\ Say(h, "success")
      BY <2>4 DEF ImportSettled
    <3> QED
      BY <1>0, <2>1, <2>2, <3>1, SaidSuccess, SaidFailure, SoundEnd
  <2>5. CASE EmployeeSaved(h) \/ EmployeeDeleted(h)
    <3> DEFINE result == EmployeeResult(h)
    <3>1. h.try = 0 \/ h.answer # "ok"
      BY <2>5 DEF EmployeeSaved, EmployeeDeleted, EmployeeFinal
    <3>2. \/ result.data # {} /\ Say(h, "success")
          \/ result.data = {} /\ Say(h, "not")
      BY <2>5 DEF EmployeeSaved, EmployeeDeleted
    <3>3. result.data = {} <=> h.try # 0
      BY <2>1, <3>1, ReviewResult DEF EmployeeResult
    <3> HIDE DEF result
    <3> QED
      BY <1>0, <2>1, <2>2, <3>1, <3>2, <3>3, SaidSuccess, SaidFailure, SoundEnd
  <2> QED
    BY <1>7, <2>3, <2>4, <2>5
<1> QED
  BY <1>1, <1>2, <1>3, <1>4, <1>5, <1>6, <1>7 DEF EmployeesNext, EmployeesUser, EmployeesHandles

LEMMA DevicesSound ==
  ASSUME AllSound, SaysWhatHappened, DevicesNext
  PROVE  AllSound' /\ SaysWhatHappened'
<1>0. page' = page /\ page = "devices"
  BY DevicesStay DEF DevicesNext
<1>1. CASE LoadDevices
  <2>1. running' = running \cup {[Handler(op, NoArg) EXCEPT !.try = 0] : op \in {"load"}}
    BY <1>1 DEF LoadDevices
  <2>2. {"load"} \in SUBSET {"load", "rules"} /\ said' = Silent
    BY <1>1 DEF LoadDevices
  <2> QED
    BY <1>0, <2>1, <2>2, SoundLoad, SaidNothing
<1>2. CASE CancelRevoke \/ ClearIssuedToken \/ \E row \in rows : OpenRevoke(row)
  <2>1. running' = running /\ said' = said
    BY <1>2 DEF CancelRevoke, ClearIssuedToken, OpenRevoke, Unchanged
  <2> QED
    BY <1>0, <2>1, SoundEnd, SaidNothing
<1>3. CASE RevokeToken \/ \E row \in rows : IssueToken(row)
  <2>1. PICK op \in {"issue", "revoke"} : \E arg : Start(op, arg)
    BY <1>3 DEF RevokeToken, IssueToken
  <2>2. Belongs(page, op) /\ said' = Silent
    BY <1>0, <2>1 DEF Belongs, Start
  <2> QED
    BY <1>0, <2>1, <2>2, SoundStart, SaidNothing
<1>4. ASSUME NEW h \in running, ServeDevices(h) PROVE AllSound' /\ SaysWhatHappened'
  <2>1. (\E answers, next : ServeChange(h, answers, next)) \/ (\E list : ServeList(h, list))
    BY <1>4 DEF ServeDevices
  <2>2. said' = said
    BY <2>1 DEF ServeChange, ServeList
  <2> QED
    BY <1>0, <2>1, <2>2, SoundList, SoundChange, SaidNothing
<1>5. ASSUME NEW h \in running, DevicesGoOn(h) PROVE AllSound' /\ SaysWhatHappened'
  <2>1. h.try > 0 /\ h.answer = "ok" /\ h.op \notin {"export", "issue"} /\ AskList(h) /\ said' = said
    BY <1>5 DEF DevicesGoOn
  <2> QED
    BY <1>0, <2>1, SoundAsk, SaidNothing
<1>6. ASSUME NEW h \in running, DevicesLoaded(h) PROVE AllSound' /\ SaysWhatHappened'
  <2>1. running' \subseteq running /\ said' = said
    BY <1>6 DEF DevicesLoaded, Ends
  <2> QED
    BY <1>0, <2>1, SoundEnd, SaidNothing
<1>7. ASSUME NEW h \in running, TokenIssued(h) \/ TokenRevoked(h) PROVE AllSound' /\ SaysWhatHappened'
  <2>1. Sound(h) /\ running' \subseteq running /\ h.op \in {"issue", "revoke"}
    BY <1>7 DEF AllSound, TokenIssued, TokenRevoked, Ends
  <2>2. CASE TokenIssued(h)
    <3>1. h.try # 0
      <4>1. h.op = "issue" /\ Knows(h)
        BY <2>1, <2>2 DEF TokenIssued, Sound
      <4> QED
        BY <4>1 DEF Knows
    <3>2. CASE h.answer = "ok"
      <4>1. Say(h, "success")
        BY <2>2, <3>2 DEF TokenIssued, IssueDeviceAgentToken, Live, Result
      <4> QED
        BY <1>0, <2>1, <3>2, <4>1, SaidSuccess, SoundEnd
    <3>3. CASE h.answer # "ok"
      <4>1. Say(h, "not")
        BY <2>2, <3>3 DEF TokenIssued, IssueDeviceAgentToken, Denied, Unavailable, Result
      <4> QED
        BY <1>0, <2>1, <3>1, <3>3, <4>1, SaidFailure, SoundEnd
    <3> QED
      BY <3>2, <3>3
  <2>3. CASE TokenRevoked(h)
    <3>1. \/ h.try # 0 /\ h.answer # "ok" /\ Say(h, "not")
          \/ h.try = 0 /\ Say(h, "success")
      BY <2>3 DEF TokenRevoked, RevokeDeviceAgentToken, Live, Result
    <3> QED
      BY <1>0, <2>1, <3>1, SaidSuccess, SaidFailure, SoundEnd
  <2> QED
    BY <1>7, <2>2, <2>3
<1> QED
  BY <1>1, <1>2, <1>3, <1>4, <1>5, <1>6, <1>7 DEF DevicesNext, DevicesUser, DevicesHandles

LEMMA SoundInit == Init => AllSound /\ SaysWhatHappened
<1> SUFFICES ASSUME Init PROVE AllSound /\ SaysWhatHappened
  OBVIOUS
<1>1. /\ said = Silent
      /\ \A h \in running : \E arg : \E op \in {"load", "rules"} :
           h = [n |-> 1, op |-> op, arg |-> arg, try |-> 0, answer |-> Waiting, list |-> NoList, times |-> 0, lost |-> FALSE]
  BY DEF Init, PolicyInit, EventsInit, AttendanceInit, EmployeesInit, DevicesInit, Opened
<1>2. ASSUME NEW h \in running PROVE Sound(h) /\ Belongs(page, h.op)
  <2>1. PICK arg : \E op \in {"load", "rules"} :
           h = [n |-> 1, op |-> op, arg |-> arg, try |-> 0, answer |-> Waiting, list |-> NoList, times |-> 0, lost |-> FALSE]
    BY <1>1
  <2>2. h.times = 0 /\ h.try = 0 /\ h.answer = Waiting /\ h.op \in {"load", "rules"} /\ Shaped(h)
    BY <2>1 DEF Shaped
  <2>3. h.lost \in BOOLEAN
    <3>1. h.lost = FALSE
      BY <2>1
    <3> QED
      BY <3>1, Zenon
  <2>4. HoldsList(h) /\ Belongs(page, h.op)
    BY <2>2 DEF HoldsList, Waiting, Belongs
  <2>5. Knows(h)
    BY <2>2, <2>3 DEF Knows, Waiting
  <2> QED
    BY <2>2, <2>4, <2>5 DEF Sound
<1> QED
  BY <1>1, <1>2 DEF AllSound, SaysWhatHappened, Silent

LEMMA SoundStep == AllSound /\ SaysWhatHappened /\ [Next]_vars => AllSound' /\ SaysWhatHappened'
<1> SUFFICES ASSUME AllSound, SaysWhatHappened, [Next]_vars PROVE AllSound' /\ SaysWhatHappened'
  OBVIOUS
<1>1. CASE UNCHANGED vars
  BY <1>1 DEF vars, AllSound, SaysWhatHappened
<1> QED
  BY <1>1, PolicySound, EventsSound, AttendanceSound, EmployeesSound, DevicesSound DEF Next

\* On every page, however handlers overlap and whichever answers are lost: what
\* is reported as done has been done, a creation once, and what is reported as
\* not done was not, unless an answer was lost.
THEOREM SaysCorrect == Spec => []SaysWhatHappened
BY SoundInit, SoundStep, PTL DEF Spec

-----------------------------------------------------------------------------
(* Reviews of events *)

\* g is the handler h after the backend has served it, or after it has sent its
\* next request.
Advances(h, g) ==
  /\ Same(g, h) /\ Shaped(g)
  /\ running' = (running \ {h}) \cup {g}

LEMMA AdvanceByList ==
  ASSUME NEW h, Shaped(h), NEW list, ServeList(h, list)
  PROVE  \E g : Advances(h, g) /\ g.try = 0 /\ g.list = {list}
<1>1. PICK answer \in {"ok", "denied", "failed"} : Becomes(h, [h EXCEPT !.answer = answer, !.list = {list}])
  BY DEF ServeList
<1> DEFINE g == [h EXCEPT !.answer = answer, !.list = {list}]
<1>2. Shaped(g)
  BY ListServed
<1>3. Same(g, h) /\ g.try = 0 /\ g.list = {list}
  BY DEF Shaped, Same, ServeList
<1>4. running' = (running \ {h}) \cup {g}
  BY <1>1 DEF Becomes
<1> HIDE DEF g
<1> QED
  BY <1>2, <1>3, <1>4 DEF Advances

LEMMA AdvanceByChange ==
  ASSUME NEW h, Shaped(h), NEW answers, NEW next, ServeChange(h, answers, next)
  PROVE  \E g : Advances(h, g) /\ g.try = h.try /\ g.try # 0 /\ g.list = h.list /\ (g.answer = "ok" => db' = next)
<1>1. PICK answer \in answers :
        /\ Becomes(h, [h EXCEPT !.answer = answer, !.lost = @ \/ answer = "lost",
                                !.times = IF Applied(answer) THEN @ + 1 ELSE @])
        /\ db' = IF Applied(answer) THEN next ELSE db
  BY DEF ServeChange
<1> DEFINE lost == h.lost \/ answer = "lost"
           times == IF Applied(answer) THEN h.times + 1 ELSE h.times
           g == [h EXCEPT !.answer = answer, !.lost = lost, !.times = times]
<1>2. h.try > 0 /\ h.try \in Nat /\ h.try # 0
  BY DEF ServeChange, Shaped
<1>3. Shaped(g)
  <2>1. ASSUME NEW l, NEW t, NEW f, f = [h EXCEPT !.answer = answer, !.lost = l, !.times = t]
        PROVE  Shaped(f)
    BY <1>2, <2>1, ChangeServed
  <2> HIDE DEF lost, times
  <2> QED
    BY <2>1
<1>4. Same(g, h) /\ g.try = h.try /\ g.answer = answer /\ g.list = h.list
  BY DEF Shaped, Same
<1>5. running' = (running \ {h}) \cup {g}
  BY <1>1 DEF Becomes
<1>6. answer = "ok" => db' = next
  BY <1>1 DEF Applied
<1> HIDE DEF g, lost, times
<1> QED
  BY <1>2, <1>3, <1>4, <1>5, <1>6 DEF Advances

LEMMA AdvanceByAsking ==
  ASSUME NEW h, Shaped(h), AskList(h) \/ AskAgain(h)
  PROVE  \E g : Advances(h, g) /\ g.answer = Waiting /\ g.list = h.list
<1>1. PICK try \in Nat : Becomes(h, [h EXCEPT !.try = try, !.answer = Waiting])
  <2>1. 0 \in Nat /\ h.try + 1 \in Nat
    BY DEF Shaped
  <2>2. CASE AskList(h)
    BY <2>1, <2>2 DEF AskList
  <2>3. CASE AskAgain(h)
    BY <2>1, <2>3 DEF AskAgain
  <2> QED
    BY <2>2, <2>3
<1> DEFINE g == [h EXCEPT !.try = try, !.answer = Waiting]
<1>2. Shaped(g)
  BY Asked
<1>3. Same(g, h) /\ g.answer = Waiting /\ g.list = h.list
  BY DEF Shaped, Same
<1>4. running' = (running \ {h}) \cup {g}
  BY <1>1 DEF Becomes
<1> HIDE DEF g
<1> QED
  BY <1>2, <1>3, <1>4 DEF Advances

\* A review marks its event, and only one does.
EventsShape == ui = [filter |-> ui.filter, loading |-> ui.loading, pending |-> ui.pending]
IsReview(h) == h.op = "review"
ReviewsMarked ==
  /\ \A h \in running : IsReview(h) => h.arg.key \in ui.pending
  /\ \A e \in ui.pending : \E h \in running : IsReview(h) /\ h.arg.key = e
  /\ \A h, k \in running : IsReview(h) /\ IsReview(k) /\ h.arg.key = k.arg.key => h = k
ReviewsInv == page = "events" => EventsShape /\ ReviewsMarked

LEMMA ReviewAdvances ==
  ASSUME ReviewsMarked, NEW h \in running, NEW g, Advances(h, g), ui'.pending = ui.pending
  PROVE  ReviewsMarked'
<1>1. IsReview(g) = IsReview(h) /\ g.arg.key = h.arg.key /\ running' = (running \ {h}) \cup {g}
  BY DEF Advances, Same, IsReview
<1>2. \A f \in running' : IsReview(f) => f.arg.key \in ui'.pending
  BY <1>1 DEF ReviewsMarked
<1>3. \A e \in ui'.pending : \E f \in running' : IsReview(f) /\ f.arg.key = e
  BY <1>1 DEF ReviewsMarked
<1>4. \A f, k \in running' : IsReview(f) /\ IsReview(k) /\ f.arg.key = k.arg.key => f = k
  BY <1>1 DEF ReviewsMarked
<1> QED
  BY <1>2, <1>3, <1>4 DEF ReviewsMarked, IsReview

LEMMA EventsMarked ==
  ASSUME AllSound, EventsShape, ReviewsMarked, EventsNext
  PROVE  EventsShape' /\ ReviewsMarked'
<1>1. ASSUME NEW loading, NEW filter, NEW pending, ui' = [filter |-> filter, loading |-> loading, pending |-> pending]
      PROVE  EventsShape'
  BY <1>1 DEF EventsShape
<1>2. CASE ReloadEvents \/ \E filter \in Filters : UpdateFilter(filter)
  <2>1. PICK filter : LoadEvents(filter) /\ ui' = [filter |-> filter, loading |-> TRUE, pending |-> ui.pending]
    BY <1>2 DEF ReloadEvents, UpdateFilter, EventsShape
  <2> DEFINE g == [Handler("load", [filter |-> filter]) EXCEPT !.try = 0]
  <2>2. g.op = "load"
    BY NewLoad
  <2>3. running' = running \cup {g}
    BY <2>1 DEF LoadEvents
  <2> HIDE DEF g
  <2>4. ui'.pending = ui.pending /\ ~ IsReview(g)
    BY <2>1, <2>2 DEF IsReview
  <2>5. ReviewsMarked'
    BY <2>3, <2>4 DEF ReviewsMarked, IsReview
  <2> QED
    BY <1>1, <2>1, <2>5
<1>3. ASSUME NEW e \in Event, NEW status \in ReviewActions, ReviewAction(e, status)
      PROVE  EventsShape' /\ ReviewsMarked'
  <2> DEFINE g == Handler("review", [key |-> e, status |-> status, before |-> rows, filter |-> ui.filter])
  <2>1. running' = running \cup {g} /\ e \notin ui.pending
    BY <1>3 DEF ReviewAction, Start
  <2>2. ui' = [filter |-> ui.filter, loading |-> ui.loading, pending |-> ui.pending \cup {e}]
    BY <1>3 DEF ReviewAction, EventsShape
  <2>3. IsReview(g) /\ g.arg.key = e
    BY NewHandler DEF IsReview
  <2>4. ui'.pending = ui.pending \cup {e}
    BY <2>2
  <2> HIDE DEF g
  <2>5. \A h \in running' : IsReview(h) => h.arg.key \in ui'.pending
    BY <2>1, <2>3, <2>4 DEF ReviewsMarked
  <2>6. \A f \in ui'.pending : \E h \in running' : IsReview(h) /\ h.arg.key = f
    BY <2>1, <2>3, <2>4 DEF ReviewsMarked
  <2>7. \A h \in running : IsReview(h) => h.arg.key # e
    BY <2>1 DEF ReviewsMarked
  <2>8. \A h, k \in running' : IsReview(h) /\ IsReview(k) /\ h.arg.key = k.arg.key => h = k
    BY <2>1, <2>3, <2>7 DEF ReviewsMarked
  <2> QED
    BY <1>1, <2>2, <2>5, <2>6, <2>8 DEF ReviewsMarked, IsReview
<1>4. ASSUME NEW h \in running, ServeEvents(h) PROVE EventsShape' /\ ReviewsMarked'
  <2>1. Shaped(h) /\ ui' = ui
    BY <1>4 DEF AllSound, Sound, ServeEvents, ServeChange, ServeList
  <2>2. \E g : Advances(h, g)
    BY <1>4, <2>1, AdvanceByList, AdvanceByChange, AdvanceByAsking DEF ServeEvents
  <2> QED
    BY <2>1, <2>2, ReviewAdvances DEF EventsShape
<1>5. ASSUME NEW h \in running, EventsLoaded(h) PROVE EventsShape' /\ ReviewsMarked'
  <2>1. running' = running \ {h} /\ ~ IsReview(h)
    BY <1>5 DEF EventsLoaded, Ends, IsReview
  <2>2. ui' = [filter |-> ui.filter, loading |-> FALSE, pending |-> ui.pending]
    BY <1>5 DEF EventsLoaded, EventsShape
  <2>3. ui'.pending = ui.pending
    BY <2>2
  <2>4. ReviewsMarked'
    BY <2>1, <2>3 DEF ReviewsMarked, IsReview
  <2> QED
    BY <1>1, <2>2, <2>4
<1>6. ASSUME NEW h \in running, ReviewSettled(h) PROVE EventsShape' /\ ReviewsMarked'
  <2>1. running' = running \ {h} /\ IsReview(h)
    BY <1>6 DEF ReviewSettled, Ends, IsReview
  <2>2. ui' = [filter |-> ui.filter, loading |-> ui.loading, pending |-> ui.pending \ {h.arg.key}]
    BY <1>6 DEF ReviewSettled, EventsShape
  <2>3. ui'.pending = ui.pending \ {h.arg.key}
    BY <2>2
  <2>4. \A f \in running' : IsReview(f) => f.arg.key \in ui'.pending
    BY <2>1, <2>3 DEF ReviewsMarked
  <2>5. \A e \in ui'.pending : \E f \in running' : IsReview(f) /\ f.arg.key = e
    BY <2>1, <2>3 DEF ReviewsMarked
  <2>6. \A f, k \in running' : IsReview(f) /\ IsReview(k) /\ f.arg.key = k.arg.key => f = k
    BY <2>1 DEF ReviewsMarked
  <2> QED
    BY <1>1, <2>2, <2>4, <2>5, <2>6 DEF ReviewsMarked, IsReview
<1> QED
  BY <1>2, <1>3, <1>4, <1>5, <1>6 DEF EventsNext, EventsUser, EventsHandles

LEMMA ReviewsInit == Init => ReviewsInv
<1> SUFFICES ASSUME Init, page = "events" PROVE EventsShape /\ ReviewsMarked
  BY DEF ReviewsInv
<1>1. EventsInit
  BY DEF Init, PolicyInit, AttendanceInit, EmployeesInit, DevicesInit, Opened
<1>2. ui = [filter |-> "reviewable", loading |-> TRUE, pending |-> {}] /\ \A h \in running : h.op = "load"
  BY <1>1 DEF EventsInit, Opened
<1>3. ui.pending = {}
  BY <1>2
<1> QED
  BY <1>2, <1>3 DEF EventsShape, ReviewsMarked, IsReview

LEMMA ReviewsStep == AllSound /\ ReviewsInv /\ [Next]_vars => ReviewsInv'
<1> SUFFICES ASSUME AllSound, ReviewsInv, [Next]_vars, page' = "events" PROVE (EventsShape /\ ReviewsMarked)'
  BY DEF ReviewsInv
<1>1. page = "events" /\ EventsShape /\ ReviewsMarked
  BY PageStays DEF ReviewsInv
<1>2. CASE EventsNext
  BY <1>1, <1>2, EventsMarked
<1>3. CASE UNCHANGED vars
  BY <1>1, <1>3 DEF vars, EventsShape, ReviewsMarked
<1> QED
  BY <1>1, <1>2, <1>3 DEF Next, PolicyNext, AttendanceNext, EmployeesNext, DevicesNext

\* Whatever reviews of other events are under way, an event has one review at a
\* time, and its buttons are off exactly then.
THEOREM OneReviewCorrect == Spec => []OneReviewAtATime
<1>1. ReviewsInv => OneReviewAtATime
  <2> SUFFICES ASSUME ReviewsMarked, NEW e \in Event
               PROVE  Cardinality(Reviewing(e)) <= 1 /\ (e \in ui.pending <=> Reviewing(e) # {})
    BY DEF ReviewsInv, OneReviewAtATime
  <2>1. \A h, k \in Reviewing(e) : h = k
    BY DEF ReviewsMarked, Reviewing, IsReview
  <2>2. e \in ui.pending <=> Reviewing(e) # {}
    BY DEF ReviewsMarked, Reviewing, IsReview
  <2>3. CASE Reviewing(e) = {}
    BY <2>2, <2>3, FS_EmptySet
  <2>4. CASE Reviewing(e) # {}
    <3>1. PICK h : Reviewing(e) = {h}
      BY <2>1, <2>4
    <3>2. Cardinality({h}) = 1
      BY FS_Singleton
    <3>3. Cardinality(Reviewing(e)) = 1
      BY <3>1, <3>2, Zenon
    <3> QED
      BY <2>2, <3>3
  <2> QED
    BY <2>3, <2>4
<1> QED
  BY <1>1, ReviewsInit, ReviewsStep, SoundInit, SoundStep, PTL DEF Spec

-----------------------------------------------------------------------------
(* What a step of any page does to its handlers *)

\* Lone handlers are those that a user who waits never has next to another one;
\* after a listed one's change the page asks for the list that it shows.
Lone(h) == h.op \notin {"load", "rules"}
Listed(h) == h.op \notin {"load", "rules", "rule", "export", "issue"}
\* The list that is served to a handler: the filters are those of its click.
ListFor(h) == IF page = "events" /\ h.op = "review" THEN EventList(h.arg.filter) ELSE BackendList

LEMMA BackendListStays ==
  ASSUME page' = page, db' = db, page = "events" => ui'.filter = ui.filter
  PROVE  BackendList' = BackendList
BY DEF BackendList, PolicyList, EventList, AttendanceList, EmployeeList, DeviceList, DeviceRow

\* The user starts handlers, or changes the page without one.
Begins(fresh) ==
  /\ running' = running \cup fresh
  /\ crossed' = (crossed \/ running # {})
  /\ said' = Silent
  /\ \A g \in fresh :
       /\ g.answer = Waiting
       /\ Lone(g) => fresh = {g} /\ g.try # 0
       /\ page = "events" /\ g.op = "review" => g.arg.filter = ui'.filter

\* The page opens or closes something, without a handler.
Idles == page # "events" /\ UNCHANGED <<db, rows, api, running, crossed, said>>

\* The backend serves the handler h, or h goes on.
Serves(h, g) ==
  /\ Advances(h, g)
  /\ UNCHANGED <<rows, api, crossed, said>>
  /\ page = "events" => ui' = ui
  /\ \/ db' = db /\ g.answer = Waiting
     \/ Lone(h) /\ g.try # 0
     \/ db' = db /\ (Listed(h) => g.list = {ListFor(h)})

\* The handler h ends.
Settles(h) ==
  /\ running' = running \ {h}
  /\ UNCHANGED <<db, crossed>>
  /\ page = "events" => ui'.filter = ui.filter
  /\ \/ ~ Lone(h) /\ said' = said
     \/ /\ Lone(h)
        /\ \E kind : kind # "none" /\ Say(h, kind)
        /\ Listed(h) /\ said'.kind = "success" /\ api' = "live" =>
             h.try = 0 /\ h.answer = "ok" /\ rows' = CHOOSE list \in h.list : TRUE
        /\ said'.kind = "unchanged" => rows' = h.arg.before

Moves ==
  \/ \E fresh : Begins(fresh)
  \/ Idles
  \/ \E h \in running : Settles(h) \/ \E g : Serves(h, g)

LEMMA BeginsOne ==
  ASSUME NEW op, op \notin {"load", "rules"}, NEW arg, Start(op, arg),
         page = "events" /\ op = "review" => arg.filter = ui'.filter
  PROVE  Moves
<1> DEFINE g == Handler(op, arg)
<1>1. g.op = op /\ g.arg = arg /\ g.try = 1 /\ g.answer = Waiting
  BY DEF Handler
<1>2. running' = running \cup {g} /\ crossed' = (crossed \/ running # {}) /\ said' = Silent
  BY DEF Start
<1> HIDE DEF g
<1>3. Begins({g})
  BY <1>1, <1>2 DEF Begins
<1> QED
  BY <1>3 DEF Moves

LEMMA BeginsLists ==
  ASSUME NEW ops \in SUBSET {"load", "rules"}, NEW arg, crossed' = (crossed \/ running # {}), said' = Silent,
         running' = running \cup {[Handler(op, arg) EXCEPT !.try = 0] : op \in ops}
  PROVE  Moves
<1> DEFINE fresh == {[Handler(op, arg) EXCEPT !.try = 0] : op \in ops}
<1>1. ASSUME NEW g \in fresh PROVE g.answer = Waiting /\ g.op \in {"load", "rules"}
  BY <1>1 DEF Handler
<1>2. running' = running \cup fresh
  OBVIOUS
<1> HIDE DEF fresh
<1>3. Begins(fresh)
  BY <1>1, <1>2 DEF Begins, Lone
<1> QED
  BY <1>3 DEF Moves

LEMMA BeginsNone ==
  ASSUME crossed' = (crossed \/ running # {}), said' = Silent, running' = running
  PROVE  Moves
<1>1. Begins({})
  BY DEF Begins
<1> QED
  BY <1>1 DEF Moves

LEMMA ServesList ==
  ASSUME NEW h \in running, Shaped(h), NEW list, ServeList(h, list), Listed(h) => list = ListFor(h)
  PROVE  Moves
<1>1. PICK g : Advances(h, g) /\ g.list = {list}
  BY AdvanceByList
<1>2. Serves(h, g)
  BY <1>1 DEF Serves, ServeList
<1> QED
  BY <1>2 DEF Moves

LEMMA ServesChange ==
  ASSUME NEW h \in running, Shaped(h), Lone(h), NEW answers, NEW next, ServeChange(h, answers, next)
  PROVE  Moves
<1>1. PICK g : Advances(h, g) /\ g.try # 0
  BY AdvanceByChange
<1>2. Serves(h, g)
  BY <1>1 DEF Serves, ServeChange
<1> QED
  BY <1>2 DEF Moves

LEMMA ServesRequest ==
  ASSUME NEW h \in running, Shaped(h), AskList(h) \/ AskAgain(h), UNCHANGED <<db, rows, api, crossed, said>>,
         page = "events" => ui' = ui
  PROVE  Moves
<1>1. PICK g : Advances(h, g) /\ g.answer = Waiting
  BY AdvanceByAsking
<1>2. Serves(h, g)
  BY <1>1 DEF Serves
<1> QED
  BY <1>2 DEF Moves

\* A list that is called live is the one that arrived.
LEMMA LiveList ==
  ASSUME NEW h, NEW result,
         result \in {GetPolicies(h.answer, h.list), GetEmployees(h.answer, h.list), GetDevices(h.answer, h.list),
                     GetEvents(h.answer, h.list), GetAttendance(h.answer, h.list)}
  PROVE  /\ result.source = "live" => h.answer = "ok" /\ result.data = h.list
         /\ AfterRefresh(result).source = "live" => h.answer = "ok" /\ AfterRefresh(result).data = h.list
<1>1. (h.answer = "ok" /\ result = Live(h.list)) \/ result.source = "mock"
  <2>1. CASE h.answer = "ok"
    BY <2>1 DEF GetPolicies, GetEmployees, GetDevices, GetEvents, GetAttendance
  <2>2. CASE h.answer # "ok"
    <3>1. \E data : result \in {Unavailable(data), Denied(data)}
      BY <2>2 DEF GetPolicies, GetEmployees, GetDevices, GetEvents, GetAttendance
    <3>2. \A data : Unavailable(data).source = "mock" /\ Denied(data).source = "mock"
      BY DEF Unavailable, Denied, Result
    <3> QED
      BY <3>1, <3>2
  <2> QED
    BY <2>1, <2>2
<1>2. Live(h.list).source = "live" /\ Live(h.list).data = h.list /\ AfterRefresh(Live(h.list)) = Live(h.list)
  BY DEF AfterRefresh, Live, Result
<1>3. result.source = "mock" => AfterRefresh(result).source = "mock"
  BY DEF AfterRefresh, Unavailable, Result
<1> QED
  BY <1>1, <1>2, <1>3

LEMMA SettlesShown ==
  ASSUME NEW h \in running, running' = running \ {h}, UNCHANGED <<db, crossed>>, page = "events" => ui'.filter = ui.filter,
         Lone(h), h.try = 0, NEW result, ShowList(h, result), Say(h, "success"),
         result.source = "live" => h.answer = "ok" /\ result.data = h.list
  PROVE  Moves
<1>1. said'.kind = "success"
  BY DEF Say
<1>2. api' = "live" => h.answer = "ok" /\ rows' = CHOOSE list \in h.list : TRUE
  BY DEF ShowList
<1>3. \E kind : kind # "none" /\ Say(h, kind)
  OBVIOUS
<1>4. Settles(h)
  BY <1>1, <1>2, <1>3 DEF Settles
<1> QED
  BY <1>4 DEF Moves

LEMMA SettlesOtherwise ==
  ASSUME NEW h \in running, running' = running \ {h}, UNCHANGED <<db, crossed>>, page = "events" => ui'.filter = ui.filter,
         Lone(h), NEW kind, kind # "none", Say(h, kind), kind = "success" => ~ Listed(h),
         kind = "unchanged" => rows' = h.arg.before
  PROVE  Moves
<1>1. said'.kind = kind
  BY DEF Say
<1>2. Settles(h)
  BY <1>1 DEF Settles
<1> QED
  BY <1>2 DEF Moves

LEMMA SettlesList ==
  ASSUME NEW h \in running, running' = running \ {h}, UNCHANGED <<db, crossed, said>>,
         page = "events" => ui'.filter = ui.filter, ~ Lone(h)
  PROVE  Moves
<1>1. Settles(h)
  BY DEF Settles
<1> QED
  BY <1>1 DEF Moves

LEMMA PolicyMoves ==
  ASSUME AllSound, PolicyNext
  PROVE  Moves
<1>0. page = "policies"
  BY DEF PolicyNext
<1>1. CASE LoadPolicies
  <2>1. running' = running \cup {[Handler(op, NoArg) EXCEPT !.try = 0] : op \in {"load"}}
    BY <1>1 DEF LoadPolicies
  <2>2. {"load"} \in SUBSET {"load", "rules"} /\ said' = Silent /\ crossed' = (crossed \/ running # {})
    BY <1>1 DEF LoadPolicies
  <2> QED
    BY <2>1, <2>2, BeginsLists
<1>2. CASE \/ CreateNew \/ (\E key \in PolicyKey : SelectPolicy(key)) \/ (\E values \in Edits : EditForm(values))
  BY <1>0, <1>2 DEF CreateNew, SelectPolicy, EditForm, Moves, Idles
<1>3. CASE \/ SavePolicy \/ (\E key \in PolicyKey : DeleteAction(key))
           \/ (\E key \in PolicyKey : \E action \in {"activate", "deactivate", "set_active"} : StateAction(key, action))
  <2>1. \/ \E op \in {"save", "state", "delete"} : \E arg : Start(op, arg)
        \/ running' = running /\ said' = Silent /\ crossed' = (crossed \/ running # {})
    BY <1>3 DEF SavePolicy, DeleteAction, StateAction, Start
  <2> QED
    BY <1>0, <2>1, BeginsOne, BeginsNone
<1>4. ASSUME NEW h \in running, ServePolicy(h) PROVE Moves
  <2>1. Shaped(h)
    BY DEF AllSound, Sound
  <2>2. \/ h.op \in {"save", "state", "delete"} /\ \E answers, next : ServeChange(h, answers, next)
        \/ ServeList(h, PolicyList)
    BY <1>4 DEF ServePolicy
  <2>3. h.op \in {"save", "state", "delete"} => Lone(h)
    BY DEF Lone
  <2>4. ListFor(h) = PolicyList
    BY <1>0 DEF ListFor, BackendList
  <2> QED
    BY <2>1, <2>2, <2>3, <2>4, ServesList, ServesChange
<1>5. ASSUME NEW h \in running, GoesOn(h) PROVE Moves
  <2>1. Shaped(h) /\ (AskList(h) \/ AskAgain(h)) /\ UNCHANGED <<db, rows, api, crossed, said>>
    BY <1>5 DEF AllSound, Sound, GoesOn
  <2> QED
    BY <1>0, <2>1, ServesRequest
<1>6. ASSUME NEW h \in running, PoliciesLoaded(h) PROVE Moves
  <2>1. running' = running \ {h} /\ UNCHANGED <<db, crossed, said>> /\ ~ Lone(h)
    BY <1>6 DEF PoliciesLoaded, Ends, Lone
  <2> QED
    BY <1>0, <2>1, SettlesList
<1>7. ASSUME NEW h \in running, PolicySaved(h) \/ StateChanged(h) \/ PolicyDeleted(h) PROVE Moves
  <2>1. PICK result \in {AttemptPolicyMutation(ChangeAnswer(h), Refreshed(h)), DeletePolicy(ChangeAnswer(h), Refreshed(h))} :
          /\ Final(h)
          /\ (result.data # {} /\ ShowList(h, result) /\ Say(h, "success")) \/ (result.data = {} /\ Say(h, "not"))
    BY <1>7 DEF PolicySaved, StateChanged, PolicyDeleted
  <2>2. running' = running \ {h} /\ UNCHANGED <<db, crossed>> /\ Lone(h)
    BY <1>7 DEF PolicySaved, StateChanged, PolicyDeleted, Ends, Lone
  <2>3. CASE Say(h, "not")
    BY <1>0, <2>2, <2>3, SettlesOtherwise
  <2>4. CASE result.data # {} /\ ShowList(h, result) /\ Say(h, "success")
    <3>1. h.try = 0
      BY <2>1, <2>4, PolicyResult DEF AllSound, Sound
    <3>2. result = AfterRefresh(Refreshed(h))
      BY <3>1, <2>1 DEF ChangeAnswer, AttemptPolicyMutation, DeletePolicy
    <3>3. result.source = "live" => h.answer = "ok" /\ result.data = h.list
      BY <3>2, LiveList DEF Refreshed
    <3> QED
      BY <1>0, <2>2, <2>4, <3>1, <3>3, SettlesShown
  <2> QED
    BY <2>1, <2>3, <2>4
<1> QED
  BY <1>1, <1>2, <1>3, <1>4, <1>5, <1>6, <1>7 DEF PolicyNext, PolicyUser, PolicyHandles, PolicyAnswered

LEMMA EventsMove ==
  ASSUME AllSound, EventsShape, EventsNext
  PROVE  Moves
<1>0. page = "events"
  BY DEF EventsNext
<1>1. CASE ReloadEvents \/ \E filter \in Filters : UpdateFilter(filter)
  <2>1. PICK filter : LoadEvents(filter)
    BY <1>1 DEF ReloadEvents, UpdateFilter
  <2>2. running' = running \cup {[Handler(op, [filter |-> filter]) EXCEPT !.try = 0] : op \in {"load"}}
    BY <2>1 DEF LoadEvents
  <2>3. {"load"} \in SUBSET {"load", "rules"} /\ said' = Silent /\ crossed' = (crossed \/ running # {})
    BY <2>1 DEF LoadEvents
  <2> QED
    BY <2>2, <2>3, BeginsLists
<1>2. ASSUME NEW e \in Event, NEW status \in ReviewActions, ReviewAction(e, status) PROVE Moves
  <2> DEFINE arg == [key |-> e, status |-> status, before |-> rows, filter |-> ui.filter]
  <2>1. Start("review", arg)
    BY <1>2 DEF ReviewAction
  <2>2. ui' = [filter |-> ui.filter, loading |-> ui.loading, pending |-> ui.pending \cup {e}]
    BY <1>2 DEF ReviewAction, EventsShape
  <2>3. arg.filter = ui'.filter
    BY <2>2
  <2> HIDE DEF arg
  <2> QED
    BY <2>1, <2>3, BeginsOne
<1>3. ASSUME NEW h \in running, ServeEvents(h) PROVE Moves
  <2>1. Shaped(h) /\ ui' = ui /\ UNCHANGED <<rows, api, crossed, said>>
    BY <1>3 DEF AllSound, Sound, ServeEvents, ServeChange, ServeList
  <2>2. CASE h.op = "review" /\ \E answers, next : ServeChange(h, answers, next)
    BY <2>1, <2>2, ServesChange DEF Lone
  <2>3. CASE AskList(h) /\ UNCHANGED db
    BY <2>1, <2>3, ServesRequest
  <2>4. CASE h.op \in {"review", "load"} /\ ServeList(h, EventList(h.arg.filter))
    <3>1. Listed(h) => ListFor(h) = EventList(h.arg.filter)
      BY <1>0, <2>4 DEF ListFor, Listed
    <3> QED
      BY <2>1, <2>4, <3>1, ServesList
  <2> QED
    BY <1>3, <2>2, <2>3, <2>4 DEF ServeEvents, ReviewedList
<1>4. ASSUME NEW h \in running, EventsLoaded(h) PROVE Moves
  <2>1. running' = running \ {h} /\ UNCHANGED <<db, crossed, said>> /\ ~ Lone(h)
    BY <1>4 DEF EventsLoaded, Ends, Lone
  <2>2. ui' = [filter |-> ui.filter, loading |-> FALSE, pending |-> ui.pending]
    BY <1>4 DEF EventsLoaded, EventsShape
  <2>3. ui'.filter = ui.filter
    BY <2>2
  <2> QED
    BY <2>1, <2>3, SettlesList
<1>5. ASSUME NEW h \in running, ReviewSettled(h) PROVE Moves
  <2> DEFINE result == ReviewEvent(IF h.try = 0 THEN "ok" ELSE h.answer, GetEvents(h.answer, h.list))
  <2>1. \/ result.data # {} /\ ShowList(h, result) /\ Say(h, "success")
        \/ result.data = {} /\ rows' = h.arg.before /\ Say(h, "unchanged")
        \/ result.data = {} /\ Say(h, "locally")
    BY <1>5 DEF ReviewSettled
  <2>2. running' = running \ {h} /\ UNCHANGED <<db, crossed>> /\ Lone(h) /\ (h.try = 0 \/ h.answer # "ok")
    BY <1>5 DEF ReviewSettled, Ends, Lone
  <2>3. ui' = [filter |-> ui.filter, loading |-> ui.loading, pending |-> ui.pending \ {h.arg.key}]
    BY <1>5 DEF ReviewSettled, EventsShape
  <2>4. ui'.filter = ui.filter
    BY <2>3
  <2>5. result.data = {} <=> h.try # 0
    BY <2>2, ReviewResult DEF AllSound, Sound
  <2>6. h.try = 0 => result = AfterRefresh(GetEvents(h.answer, h.list))
    BY DEF ReviewEvent
  <2> HIDE DEF result
  <2>7. CASE \/ result.data = {} /\ rows' = h.arg.before /\ Say(h, "unchanged")
             \/ result.data = {} /\ Say(h, "locally")
    BY <2>2, <2>4, <2>7, SettlesOtherwise
  <2>8. CASE result.data # {} /\ ShowList(h, result) /\ Say(h, "success")
    <3>1. h.try = 0 /\ result = AfterRefresh(GetEvents(h.answer, h.list))
      BY <2>5, <2>6, <2>8
    <3>2. result.source = "live" => h.answer = "ok" /\ result.data = h.list
      BY <3>1, LiveList
    <3> QED
      BY <2>2, <2>4, <2>8, <3>1, <3>2, SettlesShown
  <2> QED
    BY <2>1, <2>7, <2>8
<1> QED
  BY <1>1, <1>2, <1>3, <1>4, <1>5 DEF EventsNext, EventsUser, EventsHandles

LEMMA AttendanceMoves ==
  ASSUME AllSound, AttendanceNext
  PROVE  Moves
<1>0. page = "attendance"
  BY DEF AttendanceNext
<1>1. CASE ReloadAttendance
  <2>1. /\ running' = running \cup {[Handler(op, NoArg) EXCEPT !.try = 0] : op \in {"load", "rules"}}
        /\ said' = Silent /\ crossed' = (crossed \/ running # {})
    BY <1>1 DEF ReloadAttendance
  <2>2. {"load", "rules"} \in SUBSET {"load", "rules"}
    OBVIOUS
  <2> QED
    BY <2>1, <2>2, BeginsLists
<1>2. CASE \/ (\E r \in Entry, status \in {"confirmed", "ignored"} : OpenReview(r, status))
           \/ CloseReview \/ OpenRuleEditor \/ CloseRuleEditor
  BY <1>0, <1>2 DEF OpenReview, CloseReview, OpenRuleEditor, CloseRuleEditor, Moves, Idles
<1>3. CASE SubmitReview \/ \E rule \in Rules : SubmitRule(rule)
  <2>1. \E op \in {"judge", "rule"} : \E arg : Start(op, arg)
    BY <1>3 DEF SubmitReview, SubmitRule
  <2> QED
    BY <1>0, <2>1, BeginsOne
<1>4. ASSUME NEW h \in running, ServeAttendance(h) PROVE Moves
  <2>1. Shaped(h) /\ UNCHANGED <<rows, api, crossed, said>>
    BY <1>4 DEF AllSound, Sound, ServeAttendance, ServeChange, ServeList
  <2>2. CASE h.op \in {"judge", "rule"} /\ \E answers, next : ServeChange(h, answers, next)
    BY <2>1, <2>2, ServesChange DEF Lone
  <2>3. CASE AskList(h) /\ UNCHANGED db
    BY <1>0, <2>1, <2>3, ServesRequest
  <2>4. CASE h.op \in {"rule", "rules"} /\ ServeList(h, RuleList(db.rule))
    BY <2>1, <2>4, ServesList DEF Listed
  <2>5. CASE ServeList(h, AttendanceList)
    <3>1. ListFor(h) = AttendanceList
      BY <1>0 DEF ListFor, BackendList
    <3> QED
      BY <2>1, <2>5, <3>1, ServesList
  <2> QED
    BY <1>4, <2>2, <2>3, <2>4, <2>5 DEF ServeAttendance
<1>5. ASSUME NEW h \in running, AttendanceLoaded(h) \/ RulesLoaded(h) PROVE Moves
  <2>1. running' = running \ {h} /\ UNCHANGED <<db, crossed, said>> /\ ~ Lone(h)
    BY <1>5 DEF AttendanceLoaded, RulesLoaded, Ends, Lone
  <2> QED
    BY <1>0, <2>1, SettlesList
<1>6. ASSUME NEW h \in running, RuleSettled(h) PROVE Moves
  <2>1. running' = running \ {h} /\ UNCHANGED <<db, crossed>> /\ Lone(h) /\ ~ Listed(h)
    BY <1>6 DEF RuleSettled, Ends, Lone, Listed
  <2>2. Say(h, "success") \/ Say(h, "not saved")
    BY <1>6 DEF RuleSettled
  <2> QED
    BY <1>0, <2>1, <2>2, SettlesOtherwise
<1>7. ASSUME NEW h \in running, ReviewSubmitted(h) PROVE Moves
  <2> DEFINE answer == IF h.try = 0 THEN "ok" ELSE h.answer
             result == ReviewAttendance(answer, GetAttendance(h.answer, h.list))
  <2>1. \/ result.data # {} /\ ShowList(h, result) /\ Say(h, "success")
        \/ result.data = {} /\ (Say(h, "not saved") \/ Say(h, "rejected"))
    BY <1>7 DEF ReviewSubmitted
  <2>2. running' = running \ {h} /\ UNCHANGED <<db, crossed>> /\ Lone(h) /\ (h.try = 0 \/ h.answer # "ok")
    BY <1>7 DEF ReviewSubmitted, Ends, Lone
  <2>3. result.data = {} <=> h.try # 0
    BY <2>2, ReviewResult DEF AllSound, Sound
  <2>4. h.try = 0 => result = AfterRefresh(GetAttendance(h.answer, h.list))
    BY DEF ReviewAttendance
  <2> HIDE DEF result
  <2>5. CASE Say(h, "not saved") \/ Say(h, "rejected")
    BY <1>0, <2>2, <2>5, SettlesOtherwise
  <2>6. CASE result.data # {} /\ ShowList(h, result) /\ Say(h, "success")
    <3>1. h.try = 0 /\ result = AfterRefresh(GetAttendance(h.answer, h.list))
      BY <2>3, <2>4, <2>6
    <3>2. result.source = "live" => h.answer = "ok" /\ result.data = h.list
      BY <3>1, LiveList
    <3> QED
      BY <1>0, <2>2, <2>6, <3>1, <3>2, SettlesShown
  <2> QED
    BY <2>1, <2>5, <2>6
<1> QED
  BY <1>1, <1>2, <1>3, <1>4, <1>5, <1>6, <1>7 DEF AttendanceNext, AttendanceUser, AttendanceHandles

LEMMA EmployeesMove ==
  ASSUME AllSound, EmployeesNext
  PROVE  Moves
<1>0. page = "employees"
  BY DEF EmployeesNext
<1>1. CASE LoadEmployees
  <2>1. running' = running \cup {[Handler(op, NoArg) EXCEPT !.try = 0] : op \in {"load"}}
    BY <1>1 DEF LoadEmployees
  <2>2. {"load"} \in SUBSET {"load", "rules"} /\ said' = Silent /\ crossed' = (crossed \/ running # {})
    BY <1>1 DEF LoadEmployees
  <2> QED
    BY <2>1, <2>2, BeginsLists
<1>2. CASE \/ OpenImport \/ CancelImport \/ CancelEditor \/ OpenEditor({})
           \/ (\E r \in rows : OpenEditor({r}))
  BY <1>0, <1>2 DEF OpenImport, CancelImport, CancelEditor, OpenEditor, Unchanged, Moves, Idles
<1>3. CASE \/ Export \/ (\E sheet \in Sheet, source \in {"pasted", "file"} : Import(sheet, source))
           \/ (\E r \in rows : DeleteEmployee(r.key))
           \/ (\E e \in Employee, name \in Name : SaveEmployee(e, name))
  <2>1. \E op \in {"export", "import", "remove", "employee"} : \E arg : Start(op, arg)
    BY <1>3 DEF Export, Import, DeleteEmployee, SaveEmployee
  <2> QED
    BY <1>0, <2>1, BeginsOne
<1>4. ASSUME NEW h \in running, ServeEmployees(h) PROVE Moves
  <2>1. Shaped(h)
    BY DEF AllSound, Sound
  <2>2. \/ h.op \in {"export", "import", "employee", "remove"} /\ \E answers, next : ServeChange(h, answers, next)
        \/ ServeList(h, EmployeeList)
    BY <1>4 DEF ServeEmployees
  <2>3. h.op \in {"export", "import", "employee", "remove"} => Lone(h)
    BY DEF Lone
  <2>4. ListFor(h) = EmployeeList
    BY <1>0 DEF ListFor, BackendList
  <2> QED
    BY <2>1, <2>2, <2>3, <2>4, ServesList, ServesChange
<1>5. ASSUME NEW h \in running, EmployeesGoOn(h) PROVE Moves
  <2>1. Shaped(h) /\ (AskList(h) \/ AskAgain(h)) /\ UNCHANGED <<db, rows, api, crossed, said>>
    BY <1>5 DEF AllSound, Sound, EmployeesGoOn
  <2> QED
    BY <1>0, <2>1, ServesRequest
<1>6. ASSUME NEW h \in running, EmployeesLoaded(h) PROVE Moves
  <2>1. running' = running \ {h} /\ UNCHANGED <<db, crossed, said>> /\ ~ Lone(h)
    BY <1>6 DEF EmployeesLoaded, Ends, Lone
  <2> QED
    BY <1>0, <2>1, SettlesList
<1>7. ASSUME NEW h \in running, Exported(h) PROVE Moves
  <2>1. running' = running \ {h} /\ UNCHANGED <<db, crossed>> /\ Lone(h) /\ ~ Listed(h)
    BY <1>7 DEF Exported, Ends, Lone, Listed
  <2>2. Say(h, "success") \/ Say(h, "not")
    BY <1>7 DEF Exported
  <2> QED
    BY <1>0, <2>1, <2>2, SettlesOtherwise
<1>8. ASSUME NEW h \in running, ImportSettled(h) PROVE Moves
  <2>1. running' = running \ {h} /\ UNCHANGED <<db, crossed>> /\ Lone(h)
    BY <1>8 DEF ImportSettled, Ends, Lone
  <2>2. CASE Say(h, "not")
    BY <1>0, <2>1, <2>2, SettlesOtherwise
  <2>3. CASE h.try = 0 /\ ShowList(h, GetEmployees(h.answer, h.list)) /\ Say(h, "success")
    <3> DEFINE result == GetEmployees(h.answer, h.list)
    <3>1. result.source = "live" => h.answer = "ok" /\ result.data = h.list
      BY LiveList
    <3> HIDE DEF result
    <3>2. ShowList(h, result)
      BY <2>3 DEF result
    <3> QED
      BY <1>0, <2>1, <2>3, <3>1, <3>2, SettlesShown
  <2> QED
    BY <1>8, <2>2, <2>3 DEF ImportSettled
<1>9. ASSUME NEW h \in running, EmployeeSaved(h) \/ EmployeeDeleted(h) PROVE Moves
  <2> DEFINE result == EmployeeResult(h)
  <2>1. \/ result.data # {} /\ ShowList(h, result) /\ Say(h, "success")
        \/ result.data = {} /\ Say(h, "not")
    BY <1>9 DEF EmployeeSaved, EmployeeDeleted
  <2>2. running' = running \ {h} /\ UNCHANGED <<db, crossed>> /\ Lone(h) /\ (h.try = 0 \/ h.answer # "ok")
    BY <1>9 DEF EmployeeSaved, EmployeeDeleted, EmployeeFinal, Ends, Lone
  <2>3. result.data = {} <=> h.try # 0
    BY <2>2, ReviewResult DEF AllSound, Sound, EmployeeResult
  <2>4. h.try = 0 => result = AfterRefresh(GetEmployees(h.answer, h.list))
    BY DEF EmployeeResult, AttemptEmployeeMutation
  <2> HIDE DEF result
  <2>5. CASE Say(h, "not")
    BY <1>0, <2>2, <2>5, SettlesOtherwise
  <2>6. CASE result.data # {} /\ ShowList(h, result) /\ Say(h, "success")
    <3>1. h.try = 0 /\ result = AfterRefresh(GetEmployees(h.answer, h.list))
      BY <2>3, <2>4, <2>6
    <3>2. result.source = "live" => h.answer = "ok" /\ result.data = h.list
      BY <3>1, LiveList
    <3> QED
      BY <1>0, <2>2, <2>6, <3>1, <3>2, SettlesShown
  <2> QED
    BY <2>1, <2>5, <2>6
<1> QED
  BY <1>1, <1>2, <1>3, <1>4, <1>5, <1>6, <1>7, <1>8, <1>9 DEF EmployeesNext, EmployeesUser, EmployeesHandles

LEMMA DevicesMove ==
  ASSUME AllSound, DevicesNext
  PROVE  Moves
<1>0. page = "devices"
  BY DEF DevicesNext
<1>1. CASE LoadDevices
  <2>1. running' = running \cup {[Handler(op, NoArg) EXCEPT !.try = 0] : op \in {"load"}}
    BY <1>1 DEF LoadDevices
  <2>2. {"load"} \in SUBSET {"load", "rules"} /\ said' = Silent /\ crossed' = (crossed \/ running # {})
    BY <1>1 DEF LoadDevices
  <2> QED
    BY <2>1, <2>2, BeginsLists
<1>2. CASE CancelRevoke \/ ClearIssuedToken \/ \E row \in rows : OpenRevoke(row)
  BY <1>0, <1>2 DEF CancelRevoke, ClearIssuedToken, OpenRevoke, Unchanged, Moves, Idles
<1>3. CASE RevokeToken \/ \E row \in rows : IssueToken(row)
  <2>1. \E op \in {"issue", "revoke"} : \E arg : Start(op, arg)
    BY <1>3 DEF RevokeToken, IssueToken
  <2> QED
    BY <1>0, <2>1, BeginsOne
<1>4. ASSUME NEW h \in running, ServeDevices(h) PROVE Moves
  <2>1. Shaped(h)
    BY DEF AllSound, Sound
  <2>2. \/ h.op \in {"issue", "revoke"} /\ \E answers, next : ServeChange(h, answers, next)
        \/ ServeList(h, DeviceList)
    BY <1>4 DEF ServeDevices
  <2>3. h.op \in {"issue", "revoke"} => Lone(h)
    BY DEF Lone
  <2>4. ListFor(h) = DeviceList
    BY <1>0 DEF ListFor, BackendList
  <2> QED
    BY <2>1, <2>2, <2>3, <2>4, ServesList, ServesChange
<1>5. ASSUME NEW h \in running, DevicesGoOn(h) PROVE Moves
  <2>1. Shaped(h) /\ AskList(h) /\ UNCHANGED <<db, rows, api, crossed, said>>
    BY <1>5 DEF AllSound, Sound, DevicesGoOn
  <2> QED
    BY <1>0, <2>1, ServesRequest
<1>6. ASSUME NEW h \in running, DevicesLoaded(h) PROVE Moves
  <2>1. running' = running \ {h} /\ UNCHANGED <<db, crossed, said>> /\ ~ Lone(h)
    BY <1>6 DEF DevicesLoaded, Ends, Lone
  <2> QED
    BY <1>0, <2>1, SettlesList
<1>7. ASSUME NEW h \in running, TokenIssued(h) PROVE Moves
  <2>1. running' = running \ {h} /\ UNCHANGED <<db, crossed>> /\ Lone(h) /\ ~ Listed(h)
    BY <1>7 DEF TokenIssued, Ends, Lone, Listed
  <2>2. Say(h, "success") \/ Say(h, "not")
    BY <1>7 DEF TokenIssued
  <2> QED
    BY <1>0, <2>1, <2>2, SettlesOtherwise
<1>8. ASSUME NEW h \in running, TokenRevoked(h) PROVE Moves
  <2>1. running' = running \ {h} /\ UNCHANGED <<db, crossed>> /\ Lone(h)
    BY <1>8 DEF TokenRevoked, Ends, Lone
  <2>2. CASE Say(h, "not")
    BY <1>0, <2>1, <2>2, SettlesOtherwise
  <2>3. CASE h.try = 0 /\ ShowList(h, GetDevices(h.answer, h.list)) /\ Say(h, "success")
    <3> DEFINE result == GetDevices(h.answer, h.list)
    <3>1. result.source = "live" => h.answer = "ok" /\ result.data = h.list
      BY LiveList
    <3> HIDE DEF result
    <3>2. ShowList(h, result)
      BY <2>3 DEF result
    <3> QED
      BY <1>0, <2>1, <2>3, <3>1, <3>2, SettlesShown
  <2> QED
    BY <1>8, <2>2, <2>3 DEF TokenRevoked
<1> QED
  BY <1>1, <1>2, <1>3, <1>4, <1>5, <1>6, <1>7, <1>8 DEF DevicesNext, DevicesUser, DevicesHandles

LEMMA NextMoves ==
  ASSUME AllSound, ReviewsInv, Next
  PROVE  Moves
<1>1. ASSUME EventsNext PROVE Moves
  BY <1>1, EventsMove DEF ReviewsInv, EventsNext
<1> QED
  BY <1>1, PolicyMoves, AttendanceMoves, EmployeesMove, DevicesMove DEF Next

-----------------------------------------------------------------------------
(* A user who waits for each answer *)

\* While no action has crossed a running handler, a handler is alone, but for the
\* two lists of a reload; and once something was said, none is running.
Single ==
  ~ crossed =>
    /\ \A h, k \in running : Lone(h) => k = h
    /\ said.kind # "none" => running = {}

\* The list that a handler holds is still the backend's.
ListsFresh ==
  ~ crossed => \A h \in running :
    /\ Listed(h) /\ h.try = 0 /\ h.answer = "ok" => h.list = {BackendList}
    /\ page = "events" /\ h.op = "review" => h.arg.filter = ui.filter

\* A refusal shows the rows of the click.
PutBack == ~ crossed /\ said.kind = "unchanged" => rows = said.arg.before

\* A success shows the backend's rows.
ShowsBackend ==
  ~ crossed /\ said.kind = "success" /\ api = "live" /\ said.op \notin {"rule", "export", "issue"} =>
    rows = BackendList

WaitingUser == Single /\ ListsFresh /\ PutBack /\ ShowsBackend

LEMMA SingleStep ==
  ASSUME Single, Moves
  PROVE  Single'
<1>1. ASSUME NEW fresh, Begins(fresh) PROVE Single'
  <2>1. said'.kind = "none"
    BY <1>1 DEF Begins, Silent
  <2>2. ~ crossed' => running' = fresh
    BY <1>1 DEF Begins
  <2>3. \A h \in fresh : Lone(h) => fresh = {h}
    BY <1>1 DEF Begins
  <2> QED
    BY <2>1, <2>2, <2>3 DEF Single, Lone
<1>2. CASE Idles
  BY <1>2 DEF Idles, Single, Lone
<1>3. ASSUME NEW h \in running, NEW g, Serves(h, g) PROVE Single'
  <2>1. crossed' = crossed /\ said' = said /\ running' = (running \ {h}) \cup {g} /\ g.op = h.op
    BY <1>3 DEF Serves, Advances, Same
  <2>2. Lone(g) = Lone(h)
    BY <2>1 DEF Lone
  <2>3. ASSUME ~ crossed' PROVE \A f, k \in running' : Lone(f) => k = f
    BY <2>1, <2>2, <2>3 DEF Single
  <2>4. ~ crossed' => said'.kind = "none"
    BY <2>1 DEF Single
  <2> QED
    BY <2>3, <2>4 DEF Single, Lone
<1>4. ASSUME NEW h \in running, Settles(h) PROVE Single'
  <2>1. crossed' = crossed /\ running' = running \ {h}
    BY <1>4 DEF Settles
  <2>2. CASE ~ Lone(h) /\ said' = said
    BY <2>1, <2>2 DEF Single, Lone
  <2>3. CASE Lone(h)
    <3>1. ~ crossed' => running' = {}
      BY <2>1, <2>3 DEF Single
    <3> QED
      BY <3>1 DEF Single
  <2> QED
    BY <1>4, <2>2, <2>3 DEF Settles
<1> QED
  BY <1>1, <1>2, <1>3, <1>4 DEF Moves

LEMMA ListsFreshStep ==
  ASSUME Single, ListsFresh, Moves, page' = page
  PROVE  ListsFresh'
<1> SUFFICES ASSUME ~ crossed', NEW f \in running'
             PROVE  /\ Listed(f) /\ f.try = 0 /\ f.answer = "ok" => f.list = {BackendList'}
                    /\ page = "events" /\ f.op = "review" => f.arg.filter = ui'.filter
  BY DEF ListsFresh, Listed
<1>1. ASSUME NEW fresh, Begins(fresh)
      PROVE  /\ Listed(f) /\ f.try = 0 /\ f.answer = "ok" => f.list = {BackendList'}
             /\ page = "events" /\ f.op = "review" => f.arg.filter = ui'.filter
  BY <1>1 DEF Begins, Waiting
<1>2. ASSUME f \in running, db' = db, ~ crossed, page = "events" => ui'.filter = ui.filter
      PROVE  /\ Listed(f) /\ f.try = 0 /\ f.answer = "ok" => f.list = {BackendList'}
             /\ page = "events" /\ f.op = "review" => f.arg.filter = ui'.filter
  BY <1>2, BackendListStays DEF ListsFresh
<1>3. CASE Idles
  BY <1>2, <1>3 DEF Idles
<1>4. ASSUME NEW h \in running, Settles(h)
      PROVE  /\ Listed(f) /\ f.try = 0 /\ f.answer = "ok" => f.list = {BackendList'}
             /\ page = "events" /\ f.op = "review" => f.arg.filter = ui'.filter
  BY <1>2, <1>4 DEF Settles
<1>5. ASSUME NEW h \in running, NEW g, Serves(h, g)
      PROVE  /\ Listed(f) /\ f.try = 0 /\ f.answer = "ok" => f.list = {BackendList'}
             /\ page = "events" /\ f.op = "review" => f.arg.filter = ui'.filter
  <2>1. /\ g.op = h.op /\ g.arg = h.arg /\ running' = (running \ {h}) \cup {g} /\ crossed' = crossed
        /\ page = "events" => ui'.filter = ui.filter
    BY <1>5 DEF Serves, Advances, Same
  <2>2. page = "events" /\ h.op = "review" => h.arg.filter = ui.filter
    BY <2>1 DEF ListsFresh
  <2>3. CASE Lone(h) /\ g.try # 0
    <3>1. f = g
      BY <2>1, <2>3 DEF Single
    <3> QED
      BY <2>1, <2>2, <2>3, <3>1
  <2>4. CASE db' = db /\ f # g
    <3>1. f \in running
      BY <2>1, <2>4
    <3> QED
      BY <1>2, <2>1, <2>4, <3>1
  <2>5. CASE db' = db /\ f = g /\ g.answer = Waiting
    BY <2>1, <2>2, <2>5 DEF Waiting
  <2>6. CASE db' = db /\ f = g /\ (Listed(h) => g.list = {ListFor(h)})
    <3>1. BackendList' = BackendList
      BY <2>1, <2>6, BackendListStays
    <3>2. Listed(g) = Listed(h)
      BY <2>1 DEF Listed
    <3>3. ListFor(h) = BackendList
      BY <2>2 DEF ListFor, BackendList
    <3> QED
      BY <2>1, <2>2, <2>6, <3>1, <3>2, <3>3
  <2> QED
    BY <1>5, <2>3, <2>4, <2>5, <2>6 DEF Serves
<1> QED
  BY <1>1, <1>3, <1>4, <1>5 DEF Moves

LEMMA PutBackStep ==
  ASSUME Single, PutBack, Moves
  PROVE  PutBack'
<1>1. ASSUME NEW fresh, Begins(fresh) PROVE PutBack'
  BY <1>1 DEF Begins, Silent, PutBack
<1>2. CASE Idles
  BY <1>2 DEF Idles, PutBack
<1>3. ASSUME NEW h \in running, NEW g, Serves(h, g) PROVE PutBack'
  BY <1>3 DEF Serves, PutBack
<1>4. ASSUME NEW h \in running, Settles(h) PROVE PutBack'
  <2>1. CASE ~ Lone(h) /\ said' = said
    <3>1. ~ crossed' => said'.kind = "none"
      BY <1>4, <2>1 DEF Settles, Single
    <3> QED
      BY <3>1 DEF PutBack
  <2>2. CASE Lone(h)
    <3>1. PICK kind : Say(h, kind)
      BY <1>4, <2>2 DEF Settles
    <3>2. said'.arg = h.arg
      BY <3>1 DEF Say
    <3> QED
      BY <1>4, <2>2, <3>2 DEF Settles, PutBack
  <2> QED
    BY <1>4, <2>1, <2>2 DEF Settles
<1> QED
  BY <1>1, <1>2, <1>3, <1>4 DEF Moves

LEMMA ShowsBackendStep ==
  ASSUME Single, ListsFresh, ShowsBackend, Moves, page' = page
  PROVE  ShowsBackend'
<1>1. ASSUME NEW fresh, Begins(fresh) PROVE ShowsBackend'
  BY <1>1 DEF Begins, Silent, ShowsBackend
<1>2. CASE Idles
  <2>1. BackendList' = BackendList
    BY <1>2, BackendListStays DEF Idles
  <2> QED
    BY <1>2, <2>1 DEF Idles, ShowsBackend
<1>3. ASSUME NEW h \in running, crossed' = crossed, said' = said PROVE ShowsBackend'
  <2>1. ~ crossed' => said'.kind = "none"
    BY <1>3 DEF Single
  <2> QED
    BY <2>1 DEF ShowsBackend
<1>4. ASSUME NEW h \in running, NEW g, Serves(h, g) PROVE ShowsBackend'
  BY <1>3, <1>4 DEF Serves
<1>5. ASSUME NEW h \in running, Settles(h) PROVE ShowsBackend'
  <2>1. CASE ~ Lone(h) /\ said' = said
    BY <1>3, <1>5, <2>1 DEF Settles
  <2>2. CASE Lone(h)
    <3>1. PICK kind : Say(h, kind)
      BY <1>5, <2>2 DEF Settles
    <3>2. said'.op = h.op
      BY <3>1 DEF Say
    <3> SUFFICES ASSUME ~ crossed', said'.kind = "success", api' = "live", said'.op \notin {"rule", "export", "issue"}
                 PROVE  rows' = BackendList'
      BY DEF ShowsBackend
    <3>3. Listed(h)
      BY <2>2, <3>2 DEF Lone, Listed
    <3>4. h.try = 0 /\ h.answer = "ok" /\ rows' = CHOOSE list \in h.list : TRUE
      BY <1>5, <2>2, <3>3 DEF Settles, Lone, Listed
    <3>5. h.list = {BackendList}
      BY <1>5, <3>3, <3>4 DEF Settles, ListsFresh
    <3>6. BackendList' = BackendList
      BY <1>5, BackendListStays DEF Settles
    <3> QED
      BY <3>4, <3>5, <3>6
  <2> QED
    BY <1>5, <2>1, <2>2 DEF Settles
<1> QED
  BY <1>1, <1>2, <1>4, <1>5 DEF Moves

LEMMA WaitingInit == Init => WaitingUser
<1> SUFFICES ASSUME Init PROVE WaitingUser
  OBVIOUS
<1>1. said = Silent /\ \A h \in running : h.op \in {"load", "rules"}
  BY DEF Init, PolicyInit, EventsInit, AttendanceInit, EmployeesInit, DevicesInit, Opened
<1> QED
  BY <1>1 DEF WaitingUser, Single, ListsFresh, PutBack, ShowsBackend, Lone, Listed, Silent

LEMMA WaitingStep == AllSound /\ ReviewsInv /\ WaitingUser /\ [Next]_vars => WaitingUser'
<1> SUFFICES ASSUME AllSound, ReviewsInv, WaitingUser, [Next]_vars PROVE WaitingUser'
  OBVIOUS
<1>1. CASE Next
  <2>1. Moves /\ page' = page
    BY <1>1, NextMoves, PageStays
  <2> QED
    BY <2>1, SingleStep, ListsFreshStep, PutBackStep, ShowsBackendStep DEF WaitingUser
<1>2. CASE UNCHANGED vars
  <2>1. BackendList' = BackendList
    BY <1>2, BackendListStays DEF vars
  <2> QED
    BY <1>2, <2>1 DEF vars, WaitingUser, Single, ListsFresh, PutBack, ShowsBackend, Lone, Listed
<1> QED
  BY <1>1, <1>2

\* A user who waits for each answer sees the rows of the click when the backend
\* refuses a review, whatever was shown and made in the page before.
THEOREM RefusedCorrect == Spec => []RefusedIsPutBack
<1>1. WaitingUser => RefusedIsPutBack
  BY DEF WaitingUser, PutBack, RefusedIsPutBack
<1> QED
  BY <1>1, SoundInit, SoundStep, ReviewsInit, ReviewsStep, WaitingInit, WaitingStep, PTL DEF Spec

-----------------------------------------------------------------------------
(* The attendance rule *)

AttendanceShape ==
  /\ db = [review |-> db.review, rule |-> db.rule]
  /\ ui = [loading |-> ui.loading, draft |-> ui.draft, reviewing |-> ui.reviewing, editor |-> ui.editor,
           ruleSaving |-> ui.ruleSaving, rule |-> ui.rule]

\* Once a change of the rule was accepted the backend has that rule, a reload
\* that has arrived holds it, and a success shows it.
RuleHandler(h) ==
  h.op = "rule" =>
    /\ h.try = 0 \/ h.answer = "ok" => db.rule = h.arg.rule
    /\ h.try = 0 /\ h.answer = "ok" => h.list = {RuleList(h.arg.rule)}
RuleSaid == said.kind = "success" /\ said.op = "rule" => ui.rule = said.arg.rule /\ ui.rule = db.rule
RuleStored == ~ crossed => RuleSaid /\ \A h \in running : RuleHandler(h)
RuleInv == page = "attendance" => AttendanceShape /\ RuleStored

LEMMA AttendanceShapeStep ==
  ASSUME AttendanceShape, AttendanceNext
  PROVE  AttendanceShape'
<1>1. ASSUME NEW l, NEW d, NEW r, NEW e, NEW s, NEW u,
             ui' = [loading |-> l, draft |-> d, reviewing |-> r, editor |-> e, ruleSaving |-> s, rule |-> u]
      PROVE  ui' = [loading |-> ui'.loading, draft |-> ui'.draft, reviewing |-> ui'.reviewing, editor |-> ui'.editor,
                    ruleSaving |-> ui'.ruleSaving, rule |-> ui'.rule]
  BY <1>1
<1>2. ui' = [loading |-> ui'.loading, draft |-> ui'.draft, reviewing |-> ui'.reviewing, editor |-> ui'.editor,
             ruleSaving |-> ui'.ruleSaving, rule |-> ui'.rule]
  <2>1. ASSUME AttendanceUser
        PROVE  \E l, d, r, e, s, u :
                 ui' = [loading |-> l, draft |-> d, reviewing |-> r, editor |-> e, ruleSaving |-> s, rule |-> u]
    BY <2>1 DEF AttendanceShape, AttendanceUser, OpenReview, CloseReview, SubmitReview, ReloadAttendance,
                OpenRuleEditor, CloseRuleEditor, SubmitRule
  <2>2. ASSUME NEW h \in running,
               ServeAttendance(h) \/ ReviewSubmitted(h) \/ RuleSettled(h) \/ AttendanceLoaded(h) \/ RulesLoaded(h)
        PROVE  \E l, d, r, e, s, u :
                 ui' = [loading |-> l, draft |-> d, reviewing |-> r, editor |-> e, ruleSaving |-> s, rule |-> u]
    <3>1. CASE ServeAttendance(h)
      BY <3>1 DEF AttendanceShape, ServeAttendance, ServeChange, ServeList
    <3>2. CASE ReviewSubmitted(h)
      BY <3>2 DEF AttendanceShape, ReviewSubmitted
    <3>3. CASE RuleSettled(h)
      <4>1. PICK u : ui' = [ui EXCEPT !.rule = u, !.editor = FALSE, !.ruleSaving = FALSE] \/ ui' = [ui EXCEPT !.ruleSaving = FALSE]
        BY <3>3 DEF RuleSettled
      <4> QED
        BY <4>1 DEF AttendanceShape
    <3>4. CASE AttendanceLoaded(h)
      BY <3>4 DEF AttendanceShape, AttendanceLoaded
    <3>5. CASE RulesLoaded(h)
      <4>1. PICK u : ui' = [ui EXCEPT !.rule = u]
        BY <3>5 DEF RulesLoaded
      <4> QED
        BY <4>1 DEF AttendanceShape
    <3> QED
      BY <2>2, <3>1, <3>2, <3>3, <3>4, <3>5
  <2> QED
    BY <1>1, <2>1, <2>2 DEF AttendanceNext, AttendanceHandles
<1>3. db' = [review |-> db'.review, rule |-> db'.rule]
  <2>1. ASSUME NEW h \in running, NEW answers, NEW next, ServeChange(h, answers, next),
               next = [review |-> next.review, rule |-> next.rule]
        PROVE  db' = [review |-> db'.review, rule |-> db'.rule]
    BY <2>1 DEF ServeChange, AttendanceShape
  <2>2. ASSUME NEW k, NEW s PROVE [db EXCEPT !.review[k] = s] = [review |-> [db.review EXCEPT ![k] = s], rule |-> db.rule]
    BY DEF AttendanceShape
  <2>3. ASSUME NEW s PROVE [db EXCEPT !.rule = s] = [review |-> db.review, rule |-> s]
    BY DEF AttendanceShape
  <2>4. ASSUME NEW h \in running, ServeAttendance(h) PROVE db' = [review |-> db'.review, rule |-> db'.rule]
    <3>1. CASE ServeChange(h, Answer, [db EXCEPT !.review[h.arg.key] = h.arg.status])
      <4> DEFINE next == [db EXCEPT !.review[h.arg.key] = h.arg.status]
      <4>1. next = [review |-> next.review, rule |-> next.rule]
        BY <2>2
      <4> HIDE DEF next
      <4>2. ServeChange(h, Answer, next)
        BY <3>1 DEF next
      <4> QED
        BY <2>1, <4>1, <4>2
    <3>2. CASE ServeChange(h, Answer, [db EXCEPT !.rule = h.arg.rule])
      <4> DEFINE next == [db EXCEPT !.rule = h.arg.rule]
      <4>1. next = [review |-> next.review, rule |-> next.rule]
        BY <2>3
      <4> HIDE DEF next
      <4>2. ServeChange(h, Answer, next)
        BY <3>2 DEF next
      <4> QED
        BY <2>1, <4>1, <4>2
    <3>3. CASE db' = db
      BY <3>3 DEF AttendanceShape
    <3> QED
      BY <2>4, <3>1, <3>2, <3>3 DEF ServeAttendance, ServeList
  <2>5. db' = db \/ \E h \in running : ServeAttendance(h)
    BY DEF AttendanceNext, AttendanceUser, AttendanceHandles, OpenReview, CloseReview, SubmitReview, ReloadAttendance,
           OpenRuleEditor, CloseRuleEditor, SubmitRule, ReviewSubmitted, RuleSettled, AttendanceLoaded, RulesLoaded
  <2> QED
    BY <2>4, <2>5 DEF AttendanceShape
<1> QED
  BY <1>2, <1>3 DEF AttendanceShape

LEMMA OnlyRule ==
  ASSUME NEW rule
  PROVE  RuleIn({RuleList(rule)}) = rule
<1> DEFINE row == [key |-> "rule", status |-> rule]
<1>1. UNION {RuleList(rule)} = {row}
  BY DEF RuleList
<1>2. row.status = rule
  OBVIOUS
<1> HIDE DEF row
<1>3. (CHOOSE r \in {row} : TRUE) = row
  OBVIOUS
<1> QED
  BY <1>1, <1>2, <1>3 DEF RuleIn

\* The backend serves a handler, or it goes on.
LEMMA RuleServed ==
  ASSUME AllSound, Single, AttendanceShape, RuleStored, NEW h \in running, page = "attendance", ServeAttendance(h)
  PROVE  RuleStored'
<1>1. Shaped(h) /\ UNCHANGED <<rows, api, ui, crossed, said>>
  BY DEF AllSound, Sound, ServeAttendance, ServeChange, ServeList
<1> SUFFICES ASSUME ~ crossed' PROVE RuleSaid' /\ \A f \in running' : RuleHandler(f)'
  BY DEF RuleStored
<1>2. ~ crossed /\ said'.kind = "none"
  BY <1>1 DEF Single
<1>3. RuleSaid'
  BY <1>2 DEF RuleSaid
<1>4. CASE h.op # "rule"
  <2>1. \A f \in running : f.op # "rule"
    BY <1>2, <1>4 DEF Single, Lone
  <2>2. \E g : Advances(h, g)
    BY <1>1, AdvanceByList, AdvanceByChange, AdvanceByAsking DEF ServeAttendance
  <2>3. \A f \in running' : f.op # "rule"
    BY <1>4, <2>1, <2>2 DEF Advances, Same
  <2> QED
    BY <1>3, <2>3 DEF RuleHandler
<1>5. CASE h.op = "rule"
  <2>1. \A f \in running : f = h
    BY <1>2, <1>5 DEF Single, Lone
  <2>2. RuleHandler(h)
    BY <1>2 DEF RuleStored
  <2>3. ASSUME NEW g, Advances(h, g), g.try = 0 \/ g.answer = "ok" => db'.rule = h.arg.rule,
               g.try = 0 /\ g.answer = "ok" => g.list = {RuleList(h.arg.rule)}
        PROVE  \A f \in running' : RuleHandler(f)'
    <3>1. running' = {g} /\ g.arg = h.arg
      BY <2>1, <2>3 DEF Advances, Same
    <3> QED
      BY <2>3, <3>1 DEF RuleHandler
  <2>4. CASE ServeChange(h, Answer, [db EXCEPT !.rule = h.arg.rule])
    <3> DEFINE next == [db EXCEPT !.rule = h.arg.rule]
    <3>1. next.rule = h.arg.rule
      BY DEF AttendanceShape
    <3>2. ServeChange(h, Answer, next)
      BY <2>4
    <3> HIDE DEF next
    <3>3. PICK g : Advances(h, g) /\ g.try # 0 /\ (g.answer = "ok" => db' = next)
      BY <1>1, <3>2, AdvanceByChange
    <3> QED
      BY <1>3, <2>3, <3>1, <3>3
  <2>5. CASE h.answer = "ok" /\ AskList(h) /\ UNCHANGED db
    <3>1. PICK g : Advances(h, g) /\ g.answer = Waiting
      BY <1>1, <2>5, AdvanceByAsking
    <3>2. db'.rule = h.arg.rule
      BY <1>5, <2>2, <2>5 DEF RuleHandler
    <3> QED
      BY <1>3, <2>3, <3>1, <3>2 DEF Waiting
  <2>6. CASE ServeList(h, RuleList(db.rule))
    <3>1. PICK g : Advances(h, g) /\ g.list = {RuleList(db.rule)}
      BY <1>1, <2>6, AdvanceByList
    <3>2. db'.rule = h.arg.rule /\ db.rule = h.arg.rule
      BY <1>5, <2>2, <2>6 DEF RuleHandler, ServeList
    <3> QED
      BY <1>3, <2>3, <3>1, <3>2
  <2> QED
    BY <1>5, <2>4, <2>5, <2>6 DEF ServeAttendance
<1> QED
  BY <1>4, <1>5

\* A handler ends.
LEMMA RuleEnds ==
  ASSUME AllSound, Single, AttendanceShape, RuleStored, NEW h \in running, page = "attendance",
         ReviewSubmitted(h) \/ RuleSettled(h) \/ AttendanceLoaded(h) \/ RulesLoaded(h)
  PROVE  RuleStored'
<1>1. running' = running \ {h} /\ UNCHANGED <<db, crossed>>
  BY DEF ReviewSubmitted, RuleSettled, AttendanceLoaded, RulesLoaded, Ends
<1> SUFFICES ASSUME ~ crossed' PROVE RuleSaid' /\ \A f \in running' : RuleHandler(f)'
  BY DEF RuleStored
<1>2. ~ crossed /\ said.kind = "none"
  BY <1>1 DEF Single
<1>3. \A f \in running' : RuleHandler(f)'
  BY <1>1, <1>2 DEF RuleStored, RuleHandler
<1>4. CASE ReviewSubmitted(h)
  <2>1. said'.op = "judge"
    <3>1. h.op = "judge" /\ \E kind : Say(h, kind)
      BY <1>4 DEF ReviewSubmitted
    <3> QED
      BY <3>1 DEF Say
  <2> QED
    BY <1>3, <2>1 DEF RuleSaid
<1>5. CASE AttendanceLoaded(h) \/ RulesLoaded(h)
  <2>1. said'.kind = "none"
    BY <1>2, <1>5 DEF AttendanceLoaded, RulesLoaded
  <2> QED
    BY <1>3, <2>1 DEF RuleSaid
<1>6. CASE RuleSettled(h)
  <2> DEFINE answer == IF h.try = 0 THEN "ok" ELSE h.answer
             result == UpdateAttendanceRule(answer, RuleList(h.arg.rule))
             again == GetAttendanceRules(h.answer, h.list, RuleList(DefaultRule))
             rule == IF again.source = "live" THEN again.data ELSE result.data
  <2>1. \/ /\ result.data # {}
           /\ ui' = [ui EXCEPT !.rule = RuleIn(rule), !.editor = FALSE, !.ruleSaving = FALSE]
        \/ Say(h, "not saved")
    BY <1>6 DEF RuleSettled
  <2>2. \/ Say(h, "success")
        \/ Say(h, "not saved")
    BY <1>6 DEF RuleSettled
  <2>3. h.op = "rule" /\ (h.try = 0 \/ h.answer # "ok")
    BY <1>6 DEF RuleSettled
  <2>4. result.data = {} <=> h.try # 0
    BY <2>3, ReviewResult DEF AllSound, Sound
  <2>5. CASE Say(h, "not saved")
    <3>1. said'.kind = "not saved"
      BY <2>5 DEF Say
    <3> QED
      BY <1>3, <3>1 DEF RuleSaid
  <2>6. CASE h.try = 0 /\ Say(h, "success") /\ ui' = [ui EXCEPT !.rule = RuleIn(rule), !.editor = FALSE, !.ruleSaving = FALSE]
    <3>1. db.rule = h.arg.rule /\ (h.answer = "ok" => h.list = {RuleList(h.arg.rule)})
      BY <1>2, <2>3, <2>6 DEF RuleStored, RuleHandler
    <3>2. result.data = {RuleList(h.arg.rule)}
      BY <2>6 DEF UpdateAttendanceRule, Live, Result
    <3>3. again.source = "live" => h.answer = "ok" /\ again.data = h.list
      BY DEF GetAttendanceRules, Live, Unavailable, Result
    <3>4. rule = {RuleList(h.arg.rule)}
      BY <3>1, <3>2, <3>3
    <3>5. ui'.rule = RuleIn(rule)
      BY <2>6 DEF AttendanceShape
    <3>6. said'.arg = h.arg
      BY <2>6 DEF Say
    <3>7. ui'.rule = h.arg.rule
      BY <3>4, <3>5, OnlyRule
    <3> QED
      BY <1>1, <1>3, <3>1, <3>6, <3>7 DEF RuleSaid
  <2> QED
    BY <2>1, <2>2, <2>4, <2>5, <2>6
<1> QED
  BY <1>4, <1>5, <1>6

LEMMA RuleStoredStep ==
  ASSUME AllSound, Single, AttendanceShape, RuleStored, AttendanceNext
  PROVE  RuleStored'
<1>1. CASE SubmitReview \/ ReloadAttendance \/ \E rule \in Rules : SubmitRule(rule)
  <2>1. said' = Silent /\ crossed' = (crossed \/ running # {})
    BY <1>1 DEF SubmitReview, ReloadAttendance, SubmitRule, Start
  <2>2. \A h \in running' \ running : h.op = "rule" => h.try # 0 /\ h.answer = Waiting
    BY <1>1 DEF SubmitReview, ReloadAttendance, SubmitRule, Start, Handler
  <2>3. ~ crossed' => running = {}
    BY <2>1
  <2>4. RuleSaid'
    BY <2>1 DEF RuleSaid, Silent
  <2>5. ~ crossed' => \A h \in running' : RuleHandler(h)'
    BY <2>2, <2>3 DEF RuleHandler, Waiting
  <2> QED
    BY <2>4, <2>5 DEF RuleStored
<1>2. CASE \/ (\E r \in Entry, status \in {"confirmed", "ignored"} : OpenReview(r, status))
           \/ CloseReview \/ OpenRuleEditor \/ CloseRuleEditor
  <2>1. UNCHANGED <<db, running, crossed, said>>
    BY <1>2 DEF OpenReview, CloseReview, OpenRuleEditor, CloseRuleEditor
  <2>2. ui'.rule = ui.rule
    BY <1>2 DEF OpenReview, CloseReview, OpenRuleEditor, CloseRuleEditor, AttendanceShape
  <2> QED
    BY <2>1, <2>2 DEF RuleStored, RuleSaid, RuleHandler
<1> QED
  BY <1>1, <1>2, RuleServed, RuleEnds DEF AttendanceNext, AttendanceUser, AttendanceHandles

LEMMA RuleInit == Init => RuleInv
<1> SUFFICES ASSUME Init, page = "attendance" PROVE AttendanceShape /\ RuleStored
  BY DEF RuleInv
<1>1. AttendanceInit
  BY DEF Init, PolicyInit, EventsInit, EmployeesInit, DevicesInit, Opened
<1>2. said = Silent /\ \A h \in running : h.op # "rule"
  BY <1>1 DEF AttendanceInit
<1>3. AttendanceShape
  BY <1>1 DEF AttendanceInit, AttendanceShape
<1> QED
  BY <1>2, <1>3 DEF RuleStored, RuleSaid, RuleHandler, Silent

LEMMA RuleStep == AllSound /\ WaitingUser /\ RuleInv /\ [Next]_vars => RuleInv'
<1> SUFFICES ASSUME AllSound, Single, RuleInv, [Next]_vars, page' = "attendance" PROVE (AttendanceShape /\ RuleStored)'
  BY DEF RuleInv, WaitingUser
<1>1. page = "attendance" /\ AttendanceShape /\ RuleStored
  BY PageStays DEF RuleInv
<1>2. CASE AttendanceNext
  BY <1>1, <1>2, AttendanceShapeStep, RuleStoredStep
<1>3. CASE UNCHANGED vars
  BY <1>1, <1>3 DEF vars, AttendanceShape, RuleStored, RuleSaid, RuleHandler
<1> QED
  BY <1>1, <1>2, <1>3 DEF Next, PolicyNext, EventsNext, EmployeesNext, DevicesNext

\* After an accepted change of the rule the page shows that rule, which is the
\* backend's, although the reload that follows may have brought the default.
THEOREM SavedRuleCorrect == Spec => []SavedRuleIsShown
<1>1. RuleInv => SavedRuleIsShown
  BY DEF RuleInv, RuleStored, RuleSaid, SavedRuleIsShown
<1> QED
  BY <1>1, SoundInit, SoundStep, ReviewsInit, ReviewsStep, WaitingInit, WaitingStep, RuleInit, RuleStep, PTL DEF Spec

-----------------------------------------------------------------------------
(* The rows after a token was issued *)

Row(r) == r = [key |-> r.key, token |-> r.token, revoked |-> r.revoked]
DeviceRows(list) == \A r \in list : Row(r)

\* Until the answer to a token request has been handled the row stands from which
\* it was made, and the device is not revoked once it was granted.
IssuedStands ==
  ~ crossed => \A h \in running : h.op = "issue" =>
    /\ \E r \in rows : r.key = h.arg.key
    /\ h.answer = "ok" => ~ db[h.arg.key].revoked
IssueSaid ==
  ~ crossed /\ said.kind = "success" /\ said.op = "issue" => Of(rows, said.arg.key) = Of(DeviceList, said.arg.key)
HoldsRows(h) == (\A list \in h.list : DeviceRows(list)) /\ (h.op = "issue" => h.n > 0)
Issues ==
  /\ DeviceRows(rows)
  /\ \A h \in running : HoldsRows(h)
  /\ IssuedStands
  /\ IssueSaid
IssueInv == page = "devices" => Issues

LEMMA IssueUser ==
  ASSUME Devices, OneTokenRequest, Single, Issues, DevicesUser
  PROVE  Issues'
<1>1. ASSUME crossed' = (crossed \/ running # {}), said' = Silent, UNCHANGED <<db, rows>>,
             NEW g, running' = running \cup {g}, HoldsRows(g), g.answer = Waiting,
             g.op = "issue" => \E r \in rows : r.key = g.arg.key
      PROVE  Issues'
  <2>1. ~ crossed' => running' = {g}
    BY <1>1
  <2>2. IssueSaid'
    BY <1>1 DEF IssueSaid, Silent
  <2>3. IssuedStands'
    BY <1>1, <2>1 DEF IssuedStands, Waiting
  <2> QED
    BY <1>1, <2>2, <2>3 DEF Issues, HoldsRows, DeviceRows
<1>2. CASE LoadDevices
  <2> DEFINE g == [Handler("load", NoArg) EXCEPT !.try = 0]
  <2>1. g.op = "load" /\ g.list = {} /\ g.answer = Waiting
    BY DEF Handler, NoList
  <2>2. /\ running' = running \cup {g} /\ crossed' = (crossed \/ running # {}) /\ said' = Silent
        /\ UNCHANGED <<db, rows>>
    BY <1>2 DEF LoadDevices
  <2> HIDE DEF g
  <2>3. HoldsRows(g)
    BY <2>1 DEF HoldsRows
  <2> QED
    BY <1>1, <2>1, <2>2, <2>3
<1>3. CASE RevokeToken \/ \E row \in rows : IssueToken(row)
  <2>1. PICK op, d :
          op \in {"issue", "revoke"} /\ Start(op, [key |-> d]) /\ UNCHANGED <<db, rows>> /\ (op = "issue" => \E row \in rows : row.key = d)
    <3>1. ASSUME NEW row \in rows, IssueToken(row) PROVE Start("issue", [key |-> row.key]) /\ UNCHANGED <<db, rows>>
      BY <3>1 DEF IssueToken
    <3>2. ASSUME RevokeToken PROVE \E d : Start("revoke", [key |-> d]) /\ UNCHANGED <<db, rows>>
      BY <3>2 DEF RevokeToken
    <3> QED
      BY <1>3, <3>1, <3>2
  <2> DEFINE g == Handler(op, [key |-> d])
  <2>2. g.op = op /\ g.list = {} /\ g.answer = Waiting /\ g.n = sent + 1 /\ g.arg.key = d
    BY DEF Handler, NoList
  <2>3. running' = running \cup {g} /\ crossed' = (crossed \/ running # {}) /\ said' = Silent
    BY <2>1 DEF Start
  <2> HIDE DEF g
  <2>4. HoldsRows(g)
    BY <2>2 DEF HoldsRows, Devices
  <2> QED
    BY <1>1, <2>1, <2>2, <2>3, <2>4
<1>4. CASE CancelRevoke \/ ClearIssuedToken \/ \E row \in rows : OpenRevoke(row)
  <2>1. UNCHANGED <<db, rows, running, crossed, said>>
    BY <1>4 DEF CancelRevoke, ClearIssuedToken, OpenRevoke, Unchanged
  <2> QED
    BY <2>1 DEF Issues, DeviceRows, HoldsRows, IssuedStands, IssueSaid, Of, DeviceList, DeviceRow
<1> QED
  BY <1>2, <1>3, <1>4 DEF DevicesUser

LEMMA IssueServed ==
  ASSUME Devices, OneTokenRequest, Single, Issues, NEW h \in running, ServeDevices(h) \/ DevicesGoOn(h)
  PROVE  Issues'
<1>1. DeviceHandler(h) /\ Shaped(h) /\ UNCHANGED <<rows, crossed, said>>
  BY DEF OneTokenRequest, DeviceHandler, ServeDevices, DevicesGoOn, ServeChange, ServeList
<1>2. IssueSaid'
  BY <1>1 DEF Single, IssueSaid
<1>3. ASSUME NEW g, Advances(h, g), \A list \in g.list : DeviceRows(list),
             ~ crossed /\ g.op = "issue" => (g.answer = "ok" => ~ db'[g.arg.key].revoked)
      PROVE  Issues'
  <2>1. g.op = h.op /\ g.arg = h.arg /\ g.n = h.n /\ running' = (running \ {h}) \cup {g}
    BY <1>3 DEF Advances, Same
  <2>2. \A f \in running' : HoldsRows(f)
    BY <1>3, <2>1 DEF Issues, HoldsRows
  <2>3. IssuedStands'
    <3> SUFFICES ASSUME ~ crossed, NEW f \in running', f.op = "issue"
                 PROVE  (\E r \in rows : r.key = f.arg.key) /\ (f.answer = "ok" => ~ db'[f.arg.key].revoked)
      BY <1>1 DEF IssuedStands
    <3>1. CASE f = g
      BY <1>3, <2>1, <3>1 DEF Issues, IssuedStands
    <3>2. CASE f # g
      BY <2>1, <3>2 DEF Single, Lone
    <3> QED
      BY <3>1, <3>2
  <2> QED
    BY <1>1, <1>2, <2>2, <2>3 DEF Issues, DeviceRows, HoldsRows
<1>4. CASE h.op = "issue" /\ \E answers : ServeChange(h, answers, Issued(h))
  <2>1. PICK g : Advances(h, g) /\ g.list = h.list /\ (g.answer = "ok" => db' = Issued(h))
    BY <1>1, <1>4, AdvanceByChange
  <2>2. h.arg.key \in Device
    BY <1>1, <1>4 DEF DeviceHandler, TokenHandler
  <2>3. Issued(h)[h.arg.key].revoked = FALSE
    BY <2>2 DEF Issued, Devices
  <2>4. g.arg = h.arg
    BY <2>1 DEF Advances, Same
  <2> QED
    BY <1>3, <2>1, <2>3, <2>4 DEF Issues, HoldsRows
<1>5. CASE h.op = "revoke" /\ \E answers : ServeChange(h, answers, Revoked(h.arg))
  <2>1. PICK g : Advances(h, g) /\ g.list = h.list
    BY <1>1, <1>5, AdvanceByChange
  <2>2. g.op = "revoke"
    BY <1>5, <2>1 DEF Advances, Same
  <2> QED
    BY <1>3, <2>1, <2>2 DEF Issues, HoldsRows
<1>6. CASE h.op \in {"load", "revoke"} /\ ServeList(h, DeviceList)
  <2>1. PICK g : Advances(h, g) /\ g.list = {DeviceList}
    BY <1>1, <1>6, AdvanceByList
  <2>2. g.op # "issue"
    BY <1>6, <2>1 DEF Advances, Same
  <2>3. DeviceRows(DeviceList)
    BY DEF DeviceRows, Row, DeviceList, DeviceRow
  <2> QED
    BY <1>3, <2>1, <2>2, <2>3
<1>7. CASE DevicesGoOn(h)
  <2>1. PICK g : Advances(h, g) /\ g.list = h.list
    BY <1>1, <1>7, AdvanceByAsking DEF DevicesGoOn
  <2>2. g.op = "revoke"
    BY <1>7, <2>1 DEF Advances, Same, DevicesGoOn
  <2> QED
    BY <1>3, <2>1, <2>2 DEF Issues, HoldsRows
<1> QED
  BY <1>4, <1>5, <1>6, <1>7 DEF ServeDevices

\* The list of an answer, or none, holds rows.
LEMMA ShownRows ==
  ASSUME NEW h, HoldsList(h), h.try = 0, \A list \in h.list : DeviceRows(list), ShowList(h, GetDevices(h.answer, h.list))
  PROVE  DeviceRows(rows')
<1> DEFINE data == GetDevices(h.answer, h.list).data
<1>1. data # {}
  BY ListArrives
<1>2. data = h.list \/ data = {{}}
  BY DEF GetDevices, Live, Denied, Unavailable, Result
<1>3. \A list \in data : DeviceRows(list)
  BY <1>2 DEF DeviceRows
<1>4. rows' = CHOOSE list \in data : TRUE
  BY DEF ShowList
<1> HIDE DEF data
<1> QED
  BY <1>1, <1>3, <1>4

LEMMA RowOfIssued ==
  ASSUME NEW row, Row(row)
  PROVE  [row EXCEPT !.token = TRUE, !.revoked = FALSE] = [key |-> row.key, token |-> TRUE, revoked |-> FALSE]
<1> DEFINE k == row.key
           t == row.token
           v == row.revoked
<1>1. row = [key |-> k, token |-> t, revoked |-> v]
  BY DEF Row
<1> HIDE DEF k, t, v
<1>2. ASSUME NEW a, NEW b PROVE [row EXCEPT !.token = a, !.revoked = b] = [key |-> k, token |-> a, revoked |-> b]
  <2> DEFINE first == [row EXCEPT !.token = a]
  <2>1. first = [key |-> k, token |-> a, revoked |-> v]
    BY <1>1
  <2>2. [row EXCEPT !.token = a, !.revoked = b] = [first EXCEPT !.revoked = b]
    BY Zenon
  <2> HIDE DEF first
  <2>3. [first EXCEPT !.revoked = b] = [key |-> k, token |-> a, revoked |-> b]
    BY <2>1
  <2> QED
    BY <2>2, <2>3
<1>3. [row EXCEPT !.token = TRUE, !.revoked = FALSE] = [key |-> k, token |-> TRUE, revoked |-> FALSE]
  BY <1>2, Zenon
<1> QED
  BY <1>3 DEF k

\* The page changes the row of an issued token as the backend has changed it.
LEMMA IssuedRowIsBackends ==
  ASSUME Devices, DeviceRows(rows), NEW d \in Device, db[d].secret > 0, ~ db[d].revoked, \E r \in rows : r.key = d,
         rows' = {IF row.key = d THEN [row EXCEPT !.token = TRUE, !.revoked = FALSE] ELSE row : row \in rows}
  PROVE  DeviceRows(rows') /\ Of(rows', d) = Of(DeviceList, d)
<1> DEFINE new == [key |-> d, token |-> TRUE, revoked |-> FALSE]
<1>1. ASSUME NEW row \in rows, row.key = d PROVE [row EXCEPT !.token = TRUE, !.revoked = FALSE] = new
  <2>1. [row EXCEPT !.token = TRUE, !.revoked = FALSE] = [key |-> row.key, token |-> TRUE, revoked |-> FALSE]
    BY RowOfIssued DEF DeviceRows
  <2> QED
    BY <1>1, <2>1, Zenon
<1>2. rows' = {IF row.key = d THEN new ELSE row : row \in rows}
  <2> DEFINE old(row) == IF row.key = d THEN [row EXCEPT !.token = TRUE, !.revoked = FALSE] ELSE row
             now(row) == IF row.key = d THEN new ELSE row
  <2>1. \A row \in rows : old(row) = now(row)
    BY <1>1, Zenon
  <2>2. rows' = {old(row) : row \in rows}
    BY Zenon
  <2> HIDE DEF old, new, now
  <2>3. {old(row) : row \in rows} = {now(row) : row \in rows}
    BY <2>1
  <2> QED
    BY <2>2, <2>3 DEF now
<1>3. new.key = d /\ Row(new)
  BY DEF Row
<1>4. DeviceRow(d) = new
  <2>1. db[d].revoked = FALSE
    <3>1. db[d].revoked \in BOOLEAN
      BY DEF Devices
    <3> QED
      BY <3>1, Zenon
  <2>2. (db[d].secret > 0) = TRUE
    OBVIOUS
  <2> QED
    BY <2>1, <2>2, Zenon DEF DeviceRow
<1> HIDE DEF new
<1>5. Of(rows', d) = {new}
  BY <1>2, <1>3 DEF Of
<1>6. \A x \in Device : DeviceRow(x).key = x
  BY DEF DeviceRow
<1>7. Of(DeviceList, d) = {new}
  BY <1>3, <1>4, <1>6 DEF Of, DeviceList
<1>8. \A r \in rows' : Row(r)
  BY <1>2, <1>3 DEF DeviceRows
<1> QED
  BY <1>5, <1>7, <1>8 DEF DeviceRows, Row

LEMMA IssueEnds ==
  ASSUME Devices, OneTokenRequest, Single, Issues, NEW h \in running,
         DevicesLoaded(h) \/ TokenIssued(h) \/ TokenRevoked(h)
  PROVE  Issues'
<1>1. DeviceHandler(h) /\ HoldsList(h) /\ running' = running \ {h} /\ UNCHANGED <<db, crossed>>
  BY DEF OneTokenRequest, DeviceHandler, DevicesLoaded, TokenIssued, TokenRevoked, Ends
<1>2. \A f \in running' : HoldsRows(f)
  BY <1>1 DEF Issues
<1>3. \A list \in h.list : DeviceRows(list)
  BY DEF Issues, HoldsRows
<1>4. ASSUME rows' = rows \/ Lone(h) PROVE IssuedStands'
  BY <1>1, <1>4 DEF Issues, IssuedStands, Single
<1>5. CASE DevicesLoaded(h)
  <2>1. DeviceRows(rows')
    BY <1>1, <1>3, <1>5, ShownRows DEF DevicesLoaded, DeviceHandler
  <2>2. \A f \in running' : ~ crossed => f.op # "issue"
    BY <1>1, <1>5 DEF Single, Lone, DevicesLoaded
  <2>3. ~ crossed' => said'.kind = "none"
    BY <1>1, <1>5 DEF Single, DevicesLoaded
  <2> QED
    BY <1>1, <1>2, <2>1, <2>2, <2>3 DEF Issues, DeviceRows, HoldsRows, IssuedStands, IssueSaid
<1>6. CASE TokenRevoked(h)
  <2>1. DeviceRows(rows')
    BY <1>1, <1>3, <1>6, ShownRows DEF TokenRevoked, Issues
  <2>2. Lone(h) /\ h.op = "revoke" /\ \E kind : Say(h, kind)
    BY <1>6 DEF TokenRevoked, Lone
  <2>3. said'.op = "revoke"
    BY <2>2 DEF Say
  <2> QED
    BY <1>2, <1>4, <2>1, <2>2, <2>3 DEF Issues, DeviceRows, HoldsRows, IssueSaid
<1>7. CASE TokenIssued(h)
  <2>1. Lone(h) /\ h.op = "issue" /\ h.arg.key \in Device
    BY <1>1, <1>7 DEF TokenIssued, Lone, DeviceHandler, TokenHandler
  <2>2. CASE IssueDeviceAgentToken(h.answer, h.n).data = {}
    <3>1. rows' = rows /\ said'.kind = "not"
      BY <1>7, <2>2 DEF TokenIssued, Say
    <3> QED
      BY <1>2, <1>4, <3>1 DEF Issues, DeviceRows, HoldsRows, IssueSaid
  <2>3. CASE IssueDeviceAgentToken(h.answer, h.n).data # {}
    <3>1. h.answer = "ok"
      BY <2>3 DEF IssueDeviceAgentToken, Denied, Unavailable, Result
    <3>2. /\ rows' = {IF row.key = h.arg.key THEN [row EXCEPT !.token = TRUE, !.revoked = FALSE] ELSE row : row \in rows}
          /\ Say(h, "success")
      BY <1>7, <2>3 DEF TokenIssued
    <3>3. said'.arg = h.arg
      BY <3>2 DEF Say
    <3>4. db[h.arg.key].secret = h.n /\ h.n \in Nat /\ h.n > 0
      BY <1>1, <2>1, <3>1 DEF OneTokenRequest, Answering, Issues, HoldsRows, DeviceHandler
    <3>5. DeviceRows(rows')
      <4>1. ASSUME NEW row \in rows PROVE Row([row EXCEPT !.token = TRUE, !.revoked = FALSE])
        <5>1. [row EXCEPT !.token = TRUE, !.revoked = FALSE] = [key |-> row.key, token |-> TRUE, revoked |-> FALSE]
          BY RowOfIssued DEF Issues, DeviceRows
        <5>2. Row([key |-> row.key, token |-> TRUE, revoked |-> FALSE])
          BY DEF Row
        <5> QED
          BY <5>1, <5>2, Zenon
      <4>2. \A row \in rows : Row(row)
        BY DEF Issues, DeviceRows
      <4>3. \A r \in rows' : Row(r)
        BY <3>2, <4>1, <4>2
      <4> QED
        BY <4>3 DEF DeviceRows
    <3>6. ~ crossed => Of(rows', h.arg.key) = Of(DeviceList, h.arg.key)
      <4> SUFFICES ASSUME ~ crossed PROVE Of(rows', h.arg.key) = Of(DeviceList, h.arg.key)
        OBVIOUS
      <4>1. (\E r \in rows : r.key = h.arg.key) /\ ~ db[h.arg.key].revoked
        BY <2>1, <3>1 DEF Issues, IssuedStands
      <4>2. DeviceRows(rows)
        BY DEF Issues
      <4> QED
        BY <2>1, <3>2, <3>4, <4>1, <4>2, IssuedRowIsBackends
    <3>7. DeviceList' = DeviceList
      BY <1>1 DEF DeviceList, DeviceRow
    <3>8. IssueSaid'
      BY <1>1, <3>3, <3>6, <3>7 DEF IssueSaid, Of
    <3> QED
      BY <1>2, <1>4, <2>1, <3>5, <3>8 DEF Issues, DeviceRows, HoldsRows
  <2> QED
    BY <2>2, <2>3
<1> QED
  BY <1>5, <1>6, <1>7

LEMMA IssueInit == Init => IssueInv
<1> SUFFICES ASSUME Init, page = "devices" PROVE Issues
  BY DEF IssueInv
<1>1. DevicesInit
  BY DEF Init, PolicyInit, EventsInit, AttendanceInit, EmployeesInit, Opened
<1>2. rows = {} /\ said = Silent /\ \A h \in running : h.op = "load" /\ h.list = {}
  BY <1>1 DEF DevicesInit, Opened, NoList
<1> QED
  BY <1>2 DEF Issues, DeviceRows, HoldsRows, IssuedStands, IssueSaid, Silent

LEMMA IssueStep == DeviceInv /\ WaitingUser /\ IssueInv /\ [Next]_vars => IssueInv'
<1> SUFFICES ASSUME DeviceInv, Single, IssueInv, [Next]_vars, page' = "devices" PROVE Issues'
  BY DEF IssueInv, WaitingUser
<1>1. page = "devices" /\ Devices /\ OneTokenRequest /\ Issues
  BY PageStays DEF DeviceInv, IssueInv
<1>2. CASE DevicesNext
  BY <1>1, <1>2, IssueUser, IssueServed, IssueEnds DEF DevicesNext, DevicesHandles
<1>3. CASE UNCHANGED vars
  BY <1>1, <1>3 DEF vars, Issues, DeviceRows, HoldsRows, IssuedStands, IssueSaid, Of, DeviceList, DeviceRow
<1> QED
  BY <1>1, <1>2, <1>3 DEF Next, PolicyNext, EventsNext, AttendanceNext, EmployeesNext

\* A token that was issued was issued on the device page.
SaidHere == said.op = "issue" => page = "devices"

LEMMA SaidHereStep ==
  ASSUME AllSound, SaidHere, Moves, page' = page
  PROVE  SaidHere'
<1>1. ASSUME NEW h \in running, NEW kind, Say(h, kind) PROVE SaidHere'
  <2>1. said'.op = h.op
    BY <1>1 DEF Say
  <2> QED
    BY <2>1 DEF AllSound, Belongs, SaidHere
<1>2. said' = said \/ said' = Silent \/ \E h \in running : \E kind : Say(h, kind)
  BY DEF Moves, Begins, Idles, Serves, Settles
<1> QED
  BY <1>1, <1>2 DEF SaidHere, Silent

LEMMA SaidHereInit == Init => SaidHere
BY DEF Init, PolicyInit, EventsInit, AttendanceInit, EmployeesInit, DevicesInit, Opened, SaidHere, Silent

LEMMA SaidHereNext == AllSound /\ ReviewsInv /\ SaidHere /\ [Next]_vars => SaidHere'
<1>1. ASSUME UNCHANGED vars, SaidHere PROVE SaidHere'
  BY <1>1 DEF vars, SaidHere
<1> QED
  BY <1>1, NextMoves, PageStays, SaidHereStep

\* On every page a user who waits for each answer sees, after a success whose
\* status is live, the rows that the backend has; after a token was issued, its
\* row of the device, which the page has changed by itself.
THEOREM SettledRowsCorrect == Spec => []SettledRowsAreBackends
<1>1. WaitingUser /\ IssueInv /\ SaidHere => SettledRowsAreBackends
  <2> SUFFICES ASSUME ShowsBackend, IssueInv, running = {}, ~ crossed, said.kind = "success", api = "live", SaidHere
               PROVE  CASE said.op \in {"rule", "export"} -> TRUE
                        [] said.op = "issue" -> Of(rows, said.arg.key) = Of(BackendList, said.arg.key)
                        [] OTHER -> rows = BackendList
    BY DEF SettledRowsAreBackends, WaitingUser
  <2>1. CASE said.op = "issue"
    <3>1. BackendList = DeviceList
      BY <2>1 DEF BackendList, SaidHere
    <3>2. Of(rows, said.arg.key) = Of(DeviceList, said.arg.key)
      BY <2>1 DEF SaidHere, IssueInv, Issues, IssueSaid
    <3> QED
      BY <2>1, <3>1, <3>2
  <2>2. CASE said.op \notin {"issue", "rule", "export"}
    BY <2>2 DEF ShowsBackend
  <2> QED
    BY <2>1, <2>2
<1> QED
  BY <1>1, SoundInit, SoundStep, ReviewsInit, ReviewsStep, WaitingInit, WaitingStep, DeviceInitInv, DeviceStep,
     IssueInit, IssueStep, SaidHereInit, SaidHereNext, PTL DEF Spec

-----------------------------------------------------------------------------
(* The policies' form *)

\* The rows of the page: a sequence in which a key stands for one row.
Keyed(s) ==
  /\ s \in Seq(Rows(s))
  /\ \A r \in Rows(s) : {"key", "name", "roles", "status"} \subseteq DOMAIN r /\ r.key \in PolicyKey
  /\ \A r, q \in Rows(s) : r.key = q.key => r = q
PolicyShape == {"selected", "form", "edited", "saving", "loading", "deleting", "pending"} \subseteq DOMAIN ui
HoldsKeyed(h) ==
  /\ \A list \in h.list : Keyed(list)
  /\ h.op = "save" => Keyed(<<h.arg.record>>) /\ h.arg.record.key = h.arg.key
FormShows == ~ ui.edited => ui.form = FormFor(rows, ui.selected)
Form ==
  /\ sent \in Nat /\ DOMAIN db \subseteq 1 .. MaxPolicies
  /\ Keyed(rows) /\ PolicyShape /\ FormShows
  /\ \A h \in running : HoldsKeyed(h)
FormInv == page = "policies" => Form
\* A set of numbers has a least element.
LEMMA LeastNumber ==
  ASSUME NEW S \in SUBSET Nat, S # {}
  PROVE  \E m \in S : \A i \in S : m <= i
<1>1. PICK m \in S : \A i \in S : ~ (<<i, m>> \in OpToRel(<, Nat))
  BY NatLessThanWellFounded, WFMin, Zenon
<1>2. \A i \in S : i \in Nat /\ m \in Nat /\ ~ (i < m)
  BY <1>1, Zenon DEF OpToRel
<1> QED
  BY <1>2

LEMMA AppendedRows ==
  ASSUME NEW S, NEW s \in Seq(S), NEW r \in S
  PROVE  Append(s, r) \in Seq(S) /\ Rows(Append(s, r)) = Rows(s) \cup {r}
<1>1. /\ Append(s, r) \in Seq(S) /\ Len(s) \in Nat /\ DOMAIN s = 1..Len(s)
      /\ DOMAIN Append(s, r) = 1..(Len(s) + 1)
      /\ \A i \in 1..Len(s) : Append(s, r)[i] = s[i]
      /\ Append(s, r)[Len(s) + 1] = r
  BY AppendProperties, LenProperties
<1>2. 1..(Len(s) + 1) = 1..Len(s) \cup {Len(s) + 1}
  BY <1>1
<1> QED
  BY <1>1, <1>2 DEF Rows

LEMMA JoinedRows ==
  ASSUME NEW S, NEW s \in Seq(S), NEW t \in Seq(S)
  PROVE  s \o t \in Seq(S) /\ Rows(s \o t) = Rows(s) \cup Rows(t)
<1>1. /\ s \o t \in Seq(S) /\ Len(s) \in Nat /\ Len(t) \in Nat
      /\ DOMAIN s = 1..Len(s) /\ DOMAIN t = 1..Len(t) /\ DOMAIN (s \o t) = 1..(Len(s) + Len(t))
      /\ \A i \in 1..(Len(s) + Len(t)) : (s \o t)[i] = IF i <= Len(s) THEN s[i] ELSE t[i - Len(s)]
  BY ConcatProperties, LenProperties
<1>2. Rows(s \o t) \subseteq Rows(s) \cup Rows(t)
  <2>1. \A i \in 1..(Len(s) + Len(t)) : i \in 1..Len(s) \/ i - Len(s) \in 1..Len(t)
    BY <1>1
  <2>2. \A i \in 1..(Len(s) + Len(t)) : (s \o t)[i] \in Rows(s) \cup Rows(t)
    BY <1>1, <2>1 DEF Rows
  <2> QED
    BY <1>1, <2>2 DEF Rows
<1>3. Rows(s) \subseteq Rows(s \o t)
  BY <1>1 DEF Rows
<1>4. Rows(t) \subseteq Rows(s \o t)
  <2>1. \A i \in 1..Len(t) : i + Len(s) \in 1..(Len(s) + Len(t)) /\ (s \o t)[i + Len(s)] = t[i]
    BY <1>1
  <2> QED
    BY <1>1, <2>1 DEF Rows
<1> QED
  BY <1>1, <1>2, <1>3, <1>4

\* The recursion of OnlyIn defines a function.
LEMMA OnlyExists ==
  ASSUME NEW T, NEW s \in Seq(T), NEW S
  PROVE  \E f : /\ f = [n \in 0..Len(s) |->
                          IF n = 0 THEN <<>>
                          ELSE IF s[n] \in S THEN Append(f[n - 1], s[n]) ELSE f[n - 1]]
                /\ OnlyIn(s, S) = f[Len(s)]
<1> DEFINE Kept(f, m) ==
      f = [n \in 0..m |-> IF n = 0 THEN <<>>
                          ELSE IF s[n] \in S THEN Append(f[n - 1], s[n]) ELSE f[n - 1]]
           Bad == {m \in Nat : m <= Len(s) /\ \A f : ~ Kept(f, m)}
<1>1. Bad = {}
  <2>1. SUFFICES ASSUME Bad # {} PROVE FALSE
    OBVIOUS
  <2>2. PICK m \in Bad : \A i \in Bad : m <= i
    <3> HIDE DEF Bad
    <3>1. Bad \in SUBSET Nat
      BY DEF Bad
    <3> QED
      BY <2>1, <3>1, LeastNumber
  <2>3. m # 0
    <3>1. Kept([n \in {0} |-> <<>>], 0)
      BY 0..0 = {0}
    <3> QED
      BY <3>1
  <2>4. m - 1 \in Nat /\ m \in Nat /\ m <= Len(s) /\ Len(s) \in Nat
    BY <2>2, <2>3, LenProperties
  <2>5. m - 1 \notin Bad
    <3> HIDE DEF Bad
    <3> QED
      BY <2>2, <2>4
  <2>6. PICK f : Kept(f, m - 1)
    <3>1. m - 1 \in Nat /\ m - 1 <= Len(s)
      BY <2>4
    <3> HIDE DEF Kept
    <3> QED
      BY <2>5, <3>1
  <2> DEFINE g == [n \in 0..m |-> IF n = m THEN IF s[m] \in S THEN Append(f[m - 1], s[m]) ELSE f[m - 1]
                                  ELSE f[n]]
  <2>7. Kept(g, m)
    <3>1. \A n \in 0..(m - 1) : f[n] = IF n = 0 THEN <<>>
                          ELSE IF s[n] \in S THEN Append(f[n - 1], s[n]) ELSE f[n - 1]
      BY <2>6
    <3>2. \A n \in 0..(m - 1) : g[n] = f[n]
      BY <2>4
    <3>3. \A n \in 0..m : g[n] = IF n = 0 THEN <<>>
                          ELSE IF s[n] \in S THEN Append(g[n - 1], s[n]) ELSE g[n - 1]
      BY <2>3, <2>4, <3>1, <3>2
    <3> HIDE DEF g
    <3>4. g = [n \in 0..m |-> g[n]]
      BY DEF g
    <3> QED
      BY <3>3, <3>4
  <2> QED
    BY <2>2, <2>7
<1>2. \E f : Kept(f, Len(s))
  <2>1. Len(s) \in Nat /\ Len(s) <= Len(s) /\ Len(s) \notin Bad
    <3> HIDE DEF Bad
    <3> QED
      BY <1>1, LenProperties
  <2> HIDE DEF Kept
  <2> QED
    BY <2>1
<1> QED
  BY <1>2 DEF OnlyIn

\* OnlyIn keeps what is in the set.
LEMMA OnlyHolds ==
  ASSUME NEW T, NEW s \in Seq(T), NEW S
  PROVE  OnlyIn(s, S) \in Seq(T) /\ Rows(OnlyIn(s, S)) = Rows(s) \cap S
<1>1. PICK f : /\ f = [n \in 0..Len(s) |->
                         IF n = 0 THEN <<>>
                         ELSE IF s[n] \in S THEN Append(f[n - 1], s[n]) ELSE f[n - 1]]
               /\ OnlyIn(s, S) = f[Len(s)]
  BY OnlyExists
<1>2. f[0] = <<>> /\ Len(s) \in Nat /\ DOMAIN s = 1..Len(s)
  BY <1>1, LenProperties
<1>3. \A n \in 1..Len(s) :
        n \in 0..Len(s) /\ f[n] = IF s[n] \in S THEN Append(f[n - 1], s[n]) ELSE f[n - 1]
  <2>1. \A n \in 1..Len(s) : n \in 0..Len(s) /\ n # 0
    BY <1>2
  <2> QED
    BY <1>1, <2>1
<1> DEFINE Holds(n) == f[n] \in Seq(T) /\ Rows(f[n]) = {s[i] : i \in 1..n} \cap S
           Bad == {n \in Nat : n <= Len(s) /\ ~ Holds(n)}
<1>4. Bad = {}
  <2>1. SUFFICES ASSUME Bad # {} PROVE FALSE
    OBVIOUS
  <2>2. PICK m \in Bad : \A i \in Bad : m <= i
    <3> HIDE DEF Bad
    <3>1. Bad \in SUBSET Nat
      BY DEF Bad
    <3> QED
      BY <2>1, <3>1, LeastNumber
  <2>3. Holds(0)
    BY <1>2 DEF Rows
  <2>4. m # 0 /\ m \in 1..Len(s) /\ m - 1 \in Nat /\ m - 1 <= Len(s)
    <3>1. m # 0 /\ m \in Nat /\ m <= Len(s)
      BY <2>2, <2>3
    <3> QED
      BY <1>2, <3>1
  <2>5. m - 1 \notin Bad
    <3> HIDE DEF Bad
    <3> QED
      BY <2>2, <2>4
  <2>6. Holds(m - 1)
    BY <2>4, <2>5
  <2>7. s[m] \in T
    BY <2>4, ElementOfSeq
  <2>8. {s[i] : i \in 1..m} = {s[i] : i \in 1..(m - 1)} \cup {s[m]}
    <3>1. 1..m = 1..(m - 1) \cup {m}
      BY <2>4
    <3> QED
      BY <3>1
  <2>9. CASE s[m] \notin S
    <3>1. f[m] = f[m - 1]
      BY <1>3, <2>4, <2>9
    <3> QED
      BY <2>2, <2>6, <2>8, <2>9, <3>1
  <2>10. CASE s[m] \in S
    <3>1. f[m] = Append(f[m - 1], s[m])
      BY <1>3, <2>4, <2>10
    <3>2. f[m] \in Seq(T) /\ Rows(f[m]) = Rows(f[m - 1]) \cup {s[m]}
      BY <2>6, <2>7, <3>1, AppendedRows
    <3>3. Holds(m)
      BY <2>6, <2>8, <2>10, <3>2
    <3> QED
      BY <2>2, <3>3
  <2> QED
    BY <2>9, <2>10
<1>5. Holds(Len(s))
  <2>1. Len(s) \in Nat /\ Len(s) <= Len(s) /\ Len(s) \notin Bad
    <3> HIDE DEF Bad
    <3> QED
      BY <1>2, <1>4
  <2> QED
    BY <2>1
<1>6. {s[i] : i \in 1..Len(s)} = Rows(s)
  BY <1>2 DEF Rows
<1> QED
  BY <1>1, <1>5, <1>6

\* The list of the backend holds its policies, each once.
LEMMA ListKeyed ==
  ASSUME NEW table, DOMAIN table \subseteq 1 .. MaxPolicies
  PROVE  /\ Keyed(ListPolicies(table))
         /\ \A r \in Rows(ListPolicies(table)) : \E id \in DOMAIN table : r = PolicyRow(id, table[id])
<1> DEFINE newest == [i \in 1 .. MaxPolicies |-> MaxPolicies + 1 - i]
           those(active) == OnlyIn(newest, {i \in DOMAIN table : table[i].active = active})
           ids == those(TRUE) \o those(FALSE)
           rowOf(id) == PolicyRow(id, table[id])
           list == [i \in DOMAIN ids |-> rowOf(ids[i])]
<1>1. newest \in Seq(1 .. MaxPolicies)
  BY PolicyAssumption
<1>2. ASSUME NEW active PROVE those(active) \in Seq(1 .. MaxPolicies) /\ Rows(those(active)) \subseteq DOMAIN table
  <2> DEFINE S == {i \in DOMAIN table : table[i].active = active}
  <2>1. S \subseteq DOMAIN table
    OBVIOUS
  <2> HIDE DEF newest, S
  <2>2. OnlyIn(newest, S) \in Seq(1 .. MaxPolicies) /\ Rows(OnlyIn(newest, S)) = Rows(newest) \cap S
    BY <1>1, OnlyHolds
  <2> QED
    BY <2>1, <2>2 DEF S
<1>3. ASSUME NEW a, NEW b
      PROVE  those(a) \o those(b) \in Seq(1 .. MaxPolicies) /\ Rows(those(a) \o those(b)) \subseteq DOMAIN table
  <2> HIDE DEF those
  <2>1. those(a) \in Seq(1 .. MaxPolicies) /\ those(b) \in Seq(1 .. MaxPolicies)
        /\ Rows(those(a)) \subseteq DOMAIN table /\ Rows(those(b)) \subseteq DOMAIN table
    BY <1>2
  <2> QED
    BY <2>1, JoinedRows
<1>4. ids \in Seq(1 .. MaxPolicies) /\ Rows(ids) \subseteq DOMAIN table
  BY <1>3, Zenon
<1> HIDE DEF ids
<1>5. Len(ids) \in Nat /\ DOMAIN ids = 1 .. Len(ids) /\ \A i \in DOMAIN ids : ids[i] \in DOMAIN table
  BY <1>4, LenProperties DEF Rows
<1>6. \A r \in Rows(list) : \E id \in DOMAIN table : r = rowOf(id)
  <2> HIDE DEF rowOf
  <2> QED
    BY <1>5 DEF Rows
<1>7. \A id : rowOf(id).key = id /\ {"key", "name", "roles", "status"} \subseteq DOMAIN rowOf(id)
  BY DEF PolicyRow
<1>8. DOMAIN table \subseteq PolicyKey
  BY PolicyAssumption DEF PolicyKey
<1>9. list \in Seq(Rows(list))
  <2> HIDE DEF rowOf
  <2>1. \A i \in 1 .. Len(ids) : list[i] \in Rows(list)
    BY <1>5 DEF Rows
  <2>2. list = [i \in 1 .. Len(ids) |-> list[i]]
    BY <1>5
  <2> HIDE DEF list
  <2> QED
    BY <1>5, <2>1, <2>2
<1>10. ListPolicies(table) = list
  BY DEF ListPolicies, ids
<1> HIDE DEF list, rowOf
<1>11. Keyed(list)
  BY <1>6, <1>7, <1>8, <1>9 DEF Keyed
<1> QED
  BY <1>6, <1>10, <1>11 DEF rowOf

LEMMA EmptyKeyed == Keyed(<<>>) /\ KeysOf(<<>>) = {}
<1>1. Rows(<<>>) = {} /\ <<>> \in Seq({})
  BY DEF Rows
<1> QED
  BY <1>1 DEF Keyed, KeysOf

\* In such rows the form of a key is that of the row.
LEMMA RowOfKey ==
  ASSUME NEW s, Keyed(s), NEW r \in Rows(s)
  PROVE  r.key \in KeysOf(s) /\ FormFor(s, r.key) = EditorValues(r) /\ RowWith(s, r.key) = r
<1>1. r.key \in KeysOf(s)
  BY DEF Rows, KeysOf
<1>2. RowWith(s, r.key) = r
  BY DEF RowWith, Keyed
<1>3. Selected(s, r.key) = {r}
  BY <1>1, <1>2 DEF Selected
<1> QED
  BY <1>1, <1>2, <1>3 DEF FormFor

LEMMA KeyHasRow ==
  ASSUME NEW s, NEW key \in KeysOf(s)
  PROVE  \E r \in Rows(s) : r.key = key
BY DEF KeysOf, Rows

\* Rows that stand keep their form.
LEMMA FormStands ==
  ASSUME NEW s, Keyed(s), Keyed(rows), NEW key \in KeysOf(s), \A r \in Rows(s) : r.key = key => r \in Rows(rows)
  PROVE  FormFor(s, key) = FormFor(rows, key)
<1>1. PICK r \in Rows(s) : r.key = key
  BY KeyHasRow
<1> QED
  BY <1>1, RowOfKey

\* What is rendered shows in an untouched form the row that is selected.
LEMMA RenderedShows ==
  ASSUME FormShows, NEW u, DOMAIN u = DOMAIN ui, PolicyShape, u.form = ui.form, u.edited = ui.edited,
         NEW s, NEW key, NEW fresh,
         key = ui.selected /\ key \in KeysOf(rows) /\ key \in KeysOf(s) /\ key \notin fresh
           => FormFor(s, key) = FormFor(rows, key),
         NEW v, v = Rendered(s, key, fresh, u)
  PROVE  /\ DOMAIN v = DOMAIN ui /\ v.selected = key
         /\ ~ v.edited => v.form = FormFor(s, key)
         /\ v.loading = u.loading /\ v.saving = u.saving
<1> DEFINE runs == \/ ui.selected \in KeysOf(rows) /\ ~ (key \in KeysOf(s))
                   \/ key \in KeysOf(s) /\ (~ (ui.selected \in KeysOf(rows)) \/ key # ui.selected \/ key \in fresh)
<1>1. CASE runs
  <2>1. v = [u EXCEPT !.selected = key, !.form = FormFor(s, key), !.edited = FALSE]
    BY <1>1 DEF Rendered
  <2> QED
    BY <2>1 DEF PolicyShape
<1>2. CASE ~ runs
  <2>1. v = [u EXCEPT !.selected = key]
    BY <1>2 DEF Rendered
  <2>2. DOMAIN v = DOMAIN u /\ v.selected = key /\ v.form = u.form /\ v.edited = u.edited
        /\ v.loading = u.loading /\ v.saving = u.saving
    BY <2>1 DEF PolicyShape
  <2>3. CASE key \in KeysOf(s)
    BY <1>2, <2>2, <2>3 DEF FormShows
  <2>4. CASE key \notin KeysOf(s)
    <3>1. FormFor(s, key) = EmptyValues /\ FormFor(rows, ui.selected) = EmptyValues
      BY <1>2, <2>4 DEF FormFor, Selected
    <3> QED
      BY <2>2, <3>1 DEF FormShows
  <2> QED
    BY <2>3, <2>4
<1> QED
  BY <1>1, <1>2

\* Rows that are replaced one for one keep their keys.
LEMMA ReplacedKeyed ==
  ASSUME NEW s, Keyed(s), NEW t, t = [i \in DOMAIN s |-> t[i]],
         \A i \in DOMAIN s : {"key", "name", "roles", "status"} \subseteq DOMAIN t[i] /\ t[i].key = s[i].key,
         \A i, j \in DOMAIN s : s[i] = s[j] => t[i] = t[j]
  PROVE  Keyed(t)
<1>1. Len(s) \in Nat /\ DOMAIN s = 1 .. Len(s) /\ DOMAIN t = DOMAIN s
  BY LenProperties DEF Keyed
<1>2. t \in Seq(Rows(t))
  <2>1. t = [i \in 1 .. Len(s) |-> t[i]]
    BY <1>1
  <2>2. \A i \in 1 .. Len(s) : t[i] \in Rows(t)
    BY <1>1 DEF Rows
  <2> QED
    BY <1>1, <2>1, <2>2
<1>3. \A r \in Rows(t) : \E i \in DOMAIN s : r = t[i]
  BY <1>1 DEF Rows
<1>4. \A i \in DOMAIN s : s[i] \in Rows(s)
  BY DEF Rows
<1>5. \A r \in Rows(t) : {"key", "name", "roles", "status"} \subseteq DOMAIN r /\ r.key \in PolicyKey
  BY <1>3, <1>4 DEF Keyed
<1>6. ASSUME NEW r \in Rows(t), NEW q \in Rows(t), r.key = q.key PROVE r = q
  <2>1. PICK i \in DOMAIN s : r = t[i]
    BY <1>3
  <2>2. PICK j \in DOMAIN s : q = t[j]
    BY <1>3
  <2>3. s[i].key = s[j].key /\ s[i] \in Rows(s) /\ s[j] \in Rows(s)
    BY <1>4, <1>6, <2>1, <2>2
  <2>4. s[i] = s[j]
    BY <2>3 DEF Keyed
  <2> QED
    BY <2>1, <2>2, <2>4
<1> QED
  BY <1>2, <1>5, <1>6 DEF Keyed

LEMMA StateKeyed ==
  ASSUME Keyed(rows), NEW key, NEW action
  PROVE  /\ Keyed(WithState(rows, key, action))
         /\ \A r \in Rows(WithState(rows, key, action)) :
              r.key \notin Changed(rows, WithState(rows, key, action)) => r \in Rows(rows)
<1> DEFINE t == WithState(rows, key, action)
<1>1. t = [i \in DOMAIN rows |-> t[i]]
  BY DEF WithState
<1>2. \A i \in DOMAIN rows : \/ t[i] = rows[i]
                             \/ \E status : t[i] = [rows[i] EXCEPT !.status = status]
  BY DEF WithState
<1>3. \A i, j \in DOMAIN rows : rows[i] = rows[j] => t[i] = t[j]
  BY DEF WithState
<1> HIDE DEF t
<1>4. \A i \in DOMAIN rows : {"key", "name", "roles", "status"} \subseteq DOMAIN rows[i]
  BY DEF Keyed, Rows
<1>5. \A i \in DOMAIN rows : {"key", "name", "roles", "status"} \subseteq DOMAIN t[i] /\ t[i].key = rows[i].key
  BY <1>2, <1>4
<1>6. Keyed(t)
  BY <1>1, <1>3, <1>5, ReplacedKeyed
<1>7. \A r \in Rows(t) : r.key \notin Changed(rows, t) => r \in Rows(rows)
  BY DEF Changed
<1> QED
  BY <1>6, <1>7 DEF t

LEMMA OneRow ==
  ASSUME NEW r
  PROVE  <<r>> \in Seq({r}) /\ Rows(<<r>>) = {r}
BY DEF Rows

LEMMA UpsertKeyed ==
  ASSUME Keyed(rows), NEW record, Keyed(<<record>>)
  PROVE  Keyed(Upsert(rows, record))
<1>1. {"key", "name", "roles", "status"} \subseteq DOMAIN record /\ record.key \in PolicyKey
  BY OneRow DEF Keyed
<1>2. CASE record.key \in KeysOf(rows)
  <2> DEFINE t == [i \in DOMAIN rows |-> IF rows[i].key = record.key THEN record ELSE rows[i]]
  <2>1. Upsert(rows, record) = t
    BY <1>2 DEF Upsert
  <2>2. t = [i \in DOMAIN rows |-> t[i]] /\ \A i, j \in DOMAIN rows : rows[i] = rows[j] => t[i] = t[j]
    OBVIOUS
  <2>3. \A i \in DOMAIN rows : (t[i] = record /\ rows[i].key = record.key) \/ t[i] = rows[i]
    OBVIOUS
  <2> HIDE DEF t
  <2>4. \A i \in DOMAIN rows : {"key", "name", "roles", "status"} \subseteq DOMAIN rows[i]
    BY DEF Keyed, Rows
  <2>5. \A i \in DOMAIN rows : {"key", "name", "roles", "status"} \subseteq DOMAIN t[i] /\ t[i].key = rows[i].key
    BY <1>1, <2>3, <2>4
  <2> QED
    BY <2>1, <2>2, <2>5, ReplacedKeyed
<1>3. CASE record.key \notin KeysOf(rows)
  <2> DEFINE T == Rows(rows) \cup {record}
             t == <<record>> \o rows
  <2>1. rows \in Seq(T) /\ <<record>> \in Seq(T)
    <3>1. rows \in Seq(Rows(rows))
      BY DEF Keyed
    <3>2. Rows(rows) \subseteq T /\ record \in T
      OBVIOUS
    <3> HIDE DEF T
    <3> QED
      BY <3>1, <3>2
  <2>2. t \in Seq(T) /\ Rows(t) = {record} \cup Rows(rows)
    <3> DEFINE one == <<record>>
    <3>1. one \in Seq(T) /\ Rows(one) = {record}
      BY <2>1, OneRow
    <3> HIDE DEF T, one
    <3>2. one \o rows \in Seq(T) /\ Rows(one \o rows) = Rows(one) \cup Rows(rows)
      BY <2>1, <3>1, JoinedRows
    <3> QED
      BY <3>1, <3>2 DEF one
  <2>3. Rows(t) = T
    BY <2>2
  <2>4. \A r \in Rows(rows) : r.key # record.key
    BY <1>3 DEF Rows, KeysOf
  <2>5. Upsert(rows, record) = t
    BY <1>3 DEF Upsert
  <2> HIDE DEF t
  <2> QED
    BY <1>1, <2>2, <2>3, <2>4, <2>5 DEF Keyed
<1> QED
  BY <1>2, <1>3

LEMMA OthersKeyed ==
  ASSUME Keyed(rows), NEW S
  PROVE  Keyed(OnlyIn(rows, S)) /\ Rows(OnlyIn(rows, S)) \subseteq Rows(rows)
<1> DEFINE t == OnlyIn(rows, S)
<1>1. t \in Seq(Rows(rows)) /\ Rows(t) \subseteq Rows(rows)
  BY OnlyHolds DEF Keyed
<1> HIDE DEF t
<1>2. t \in Seq(Rows(t))
  <2>1. Len(t) \in Nat /\ DOMAIN t = 1 .. Len(t) /\ t = [i \in 1 .. Len(t) |-> t[i]]
    BY <1>1, LenProperties
  <2>2. \A i \in 1 .. Len(t) : t[i] \in Rows(t)
    BY <2>1 DEF Rows
  <2> QED
    BY <2>1, <2>2
<1>3. Keyed(t)
  BY <1>1, <1>2 DEF Keyed
<1> QED
  BY <1>1, <1>3 DEF t

LEMMA LocalKeyed ==
  ASSUME NEW values, NEW current, NEW key \in PolicyKey
  PROVE  Keyed(<<LocalRecord(values, current, key)>>) /\ LocalRecord(values, current, key).key = key
<1> DEFINE r == LocalRecord(values, current, key)
<1>1. {"key", "name", "roles", "status"} \subseteq DOMAIN r /\ r.key = key
  BY DEF LocalRecord
<1> HIDE DEF r
<1>2. Keyed(<<r>>)
  BY <1>1, OneRow DEF Keyed
<1> QED
  BY <1>1, <1>2 DEF r

LEMMA FormKept ==
  ASSUME Form, Keyed(rows'), DOMAIN ui' = DOMAIN ui, FormShows', sent' \in Nat, DOMAIN db' \subseteq 1 .. MaxPolicies,
         \A h \in running' : h \in running \/ HoldsKeyed(h)
  PROVE  Form'
<1>1. PolicyShape'
  BY DEF Form, PolicyShape
<1>2. Keyed(rows)'
  BY DEF Keyed, PolicyKey
<1>3. \A h \in running' : HoldsKeyed(h)
  BY DEF Form
<1>4. (\A h \in running : HoldsKeyed(h))'
  BY <1>3 DEF HoldsKeyed, Keyed, PolicyKey
<1> QED
  BY <1>1, <1>2, <1>4 DEF Form

\* The new handler of a click.
LEMMA FormStarted ==
  ASSUME Form, NEW op, NEW arg, Start(op, arg),
         op = "save" => Keyed(<<arg.record>>) /\ arg.record.key = arg.key
  PROVE  sent' \in Nat /\ \A h \in running' : h \in running \/ HoldsKeyed(h)
<1>1. HoldsKeyed(Handler(op, arg))
  BY NewHandler DEF HoldsKeyed
<1>2. running' = running \cup {Handler(op, arg)} /\ sent' = sent + 1
  BY DEF Start
<1> QED
  BY <1>1, <1>2 DEF Form

\* Rows that are replaced and rendered.
LEMMA FormRendered ==
  ASSUME Form, Keyed(rows'), NEW u, DOMAIN u = DOMAIN ui, u.form = ui.form, u.edited = ui.edited,
         NEW key, NEW fresh, ui' = Rendered(rows', key, fresh, u),
         key \notin fresh => \A r \in Rows(rows') : r.key = key => r \in Rows(rows)
  PROVE  DOMAIN ui' = DOMAIN ui /\ FormShows'
<1>1. key = ui.selected /\ key \in KeysOf(rows) /\ key \in KeysOf(rows') /\ key \notin fresh
        => FormFor(rows', key) = FormFor(rows, key)
  <2>1. Keyed(rows)
    BY DEF Form
  <2> QED
    BY <2>1, FormStands
<1>2. FormShows /\ PolicyShape
  BY DEF Form
<1>3. DOMAIN ui' = DOMAIN ui /\ ui'.selected = key /\ (~ ui'.edited => ui'.form = FormFor(rows', key))
  BY <1>1, <1>2, RenderedShows
<1> QED
  BY <1>3 DEF FormShows

LEMMA FormUser ==
  ASSUME Form, PolicyUser
  PROVE  Form'
<1>1. Keyed(rows) /\ PolicyShape /\ FormShows /\ sent \in Nat /\ DOMAIN db \subseteq 1 .. MaxPolicies
  BY DEF Form
<1>2. KeysOf(rows) \subseteq PolicyKey
  BY <1>1, KeyHasRow DEF Keyed
<1>3. CASE LoadPolicies
  <2> DEFINE g == [Handler("load", NoArg) EXCEPT !.try = 0]
  <2>1. HoldsKeyed(g)
    <3>1. g.list = {} /\ g.op = "load"
      BY DEF Handler, NoList
    <3> HIDE DEF g
    <3> QED
      BY <3>1 DEF HoldsKeyed
  <2>2. running' = running \cup {g} /\ sent' = sent + 1 /\ db' = db /\ rows' = rows
    BY <1>3 DEF LoadPolicies
  <2> HIDE DEF g
  <2>3. ui' = [ui EXCEPT !.loading = TRUE]
    BY <1>3 DEF LoadPolicies
  <2>4. DOMAIN ui' = DOMAIN ui /\ ui'.selected = ui.selected /\ ui'.form = ui.form /\ ui'.edited = ui.edited
    BY <1>1, <2>3 DEF PolicyShape
  <2> QED
    BY <1>1, <2>1, <2>2, <2>4, FormKept DEF FormShows
<1>4. ASSUME NEW key, SelectPolicy(key) PROVE Form'
  <2>1. ui' = Rendered(rows', key, {}, ui) /\ UNCHANGED <<rows, db, running, sent>>
    BY <1>4 DEF SelectPolicy
  <2>2. DOMAIN ui' = DOMAIN ui /\ FormShows'
    BY <1>1, <2>1, FormRendered
  <2> QED
    BY <1>1, <2>1, <2>2, FormKept
<1>5. CASE CreateNew
  <2>1. UNCHANGED <<rows, db, running, sent>> /\ ui' = [ui EXCEPT !.selected = NewKey, !.form = EmptyValues, !.edited = FALSE]
    BY <1>5 DEF CreateNew
  <2>2. DOMAIN ui' = DOMAIN ui /\ ui'.selected = NewKey /\ ui'.form = EmptyValues
    BY <1>1, <2>1 DEF PolicyShape
  <2>3. NewKey \notin KeysOf(rows)
    BY <1>2, PolicyAssumption DEF NewKey, PolicyKey
  <2>4. FormShows'
    BY <2>1, <2>2, <2>3 DEF FormShows, FormFor, Selected
  <2> QED
    BY <1>1, <2>1, <2>2, <2>4, FormKept
<1>6. ASSUME NEW values, EditForm(values) PROVE Form'
  <2>1. UNCHANGED <<rows, db, running, sent>> /\ ui' = [ui EXCEPT !.form = values, !.edited = TRUE]
    BY <1>6 DEF EditForm
  <2>2. DOMAIN ui' = DOMAIN ui /\ ui'.edited = TRUE
    BY <1>1, <2>1 DEF PolicyShape
  <2>3. FormShows'
    BY <2>2, Zenon DEF FormShows
  <2> QED
    BY <1>1, <2>1, <2>2, <2>3, FormKept
<1>7. CASE SavePolicy
  <2> DEFINE current == Selected(rows, ui.selected)
             key == IF current = {} THEN LocalKey(sent + 1) ELSE ui.selected
             record == LocalRecord(ui.form, current, key)
  <2>1. sent < MaxRequests
    BY <1>7 DEF SavePolicy, Start
  <2>2. key \in PolicyKey
    <3>1. CASE current = {}
      BY <1>1, <2>1, <3>1, PolicyAssumption DEF LocalKey, PolicyKey
    <3>2. CASE current # {}
      BY <1>2, <3>2 DEF Selected
    <3> QED
      BY <3>1, <3>2
  <2>3. Keyed(<<record>>) /\ record.key = key
    <3> HIDE DEF key, current
    <3> QED
      BY <2>2, LocalKeyed
  <2>4. CASE \E arg : Start("save", arg) /\ arg.record = record /\ arg.key = key /\ ui' = [ui EXCEPT !.saving = TRUE] /\ UNCHANGED <<db, rows>>
    <3>1. PICK arg : Start("save", arg) /\ arg.record = record /\ arg.key = key /\ ui' = [ui EXCEPT !.saving = TRUE] /\ UNCHANGED <<db, rows>>
      BY <2>4
    <3> HIDE DEF key, current, record
    <3>2. sent' \in Nat /\ \A h \in running' : h \in running \/ HoldsKeyed(h)
      BY <2>3, <3>1, FormStarted
    <3>3. DOMAIN ui' = DOMAIN ui /\ ui'.selected = ui.selected /\ ui'.form = ui.form /\ ui'.edited = ui.edited
      BY <1>1, <3>1 DEF PolicyShape
    <3> QED
      BY <1>1, <3>1, <3>2, <3>3, FormKept DEF FormShows
  <2>5. CASE /\ Start("local", NoArg) /\ running' = running /\ db' = db
             /\ rows' = Upsert(rows, record) /\ ui' = Rendered(rows', key, {key}, ui)
    <3> HIDE DEF key, current, record
    <3>1. Keyed(rows')
      BY <1>1, <2>3, <2>5, UpsertKeyed
    <3>2. DOMAIN ui' = DOMAIN ui /\ FormShows'
      BY <2>5, <3>1, FormRendered
    <3>3. sent' \in Nat
      BY <1>1, <2>5 DEF Start
    <3> QED
      BY <1>1, <2>5, <3>1, <3>2, <3>3, FormKept
  <2> QED
    BY <1>7, <2>4, <2>5 DEF SavePolicy
<1>8. ASSUME NEW key \in PolicyKey, NEW action, StateAction(key, action) PROVE Form'
  <2>1. CASE /\ \E arg : Start("state", arg)
             /\ ui' = Rendered(rows, key, {}, [ui EXCEPT !.pending[key] = action]) /\ UNCHANGED <<db, rows>>
    <3> DEFINE u == [ui EXCEPT !.pending[key] = action]
    <3>1. DOMAIN u = DOMAIN ui /\ u.form = ui.form /\ u.edited = ui.edited
      BY <1>1 DEF PolicyShape
    <3>2. ui' = Rendered(rows', key, {}, u)
      BY <2>1
    <3> HIDE DEF u
    <3>3. DOMAIN ui' = DOMAIN ui /\ FormShows'
      BY <1>1, <2>1, <3>1, <3>2, FormRendered
    <3>4. sent' \in Nat /\ \A h \in running' : h \in running \/ HoldsKeyed(h)
      BY <2>1, FormStarted
    <3> QED
      BY <1>1, <2>1, <3>3, <3>4, FormKept
  <2>2. CASE /\ Start("local", NoArg) /\ running' = running /\ db' = db /\ rows' = WithState(rows, key, action)
             /\ ui' = Rendered(rows', key, Changed(rows, rows'), [ui EXCEPT !.pending[key] = "none"])
    <3> DEFINE u == [ui EXCEPT !.pending[key] = "none"]
    <3>1. DOMAIN u = DOMAIN ui /\ u.form = ui.form /\ u.edited = ui.edited
      BY <1>1 DEF PolicyShape
    <3>2. ui' = Rendered(rows', key, Changed(rows, rows'), u)
      BY <2>2
    <3> HIDE DEF u
    <3>3. Keyed(rows') /\ \A r \in Rows(rows') : r.key \notin Changed(rows, rows') => r \in Rows(rows)
      BY <1>1, <2>2, StateKeyed
    <3>4. DOMAIN ui' = DOMAIN ui /\ FormShows'
      BY <3>1, <3>2, <3>3, FormRendered
    <3>5. sent' \in Nat
      BY <1>1, <2>2 DEF Start
    <3> QED
      BY <1>1, <2>2, <3>3, <3>4, <3>5, FormKept
  <2> QED
    BY <1>8, <2>1, <2>2 DEF StateAction
<1>9. ASSUME NEW key \in PolicyKey, DeleteAction(key) PROVE Form'
  <2>1. CASE (\E arg : Start("delete", arg)) /\ ui' = [ui EXCEPT !.deleting = key] /\ UNCHANGED <<db, rows>>
    <3>1. DOMAIN ui' = DOMAIN ui /\ ui'.selected = ui.selected /\ ui'.form = ui.form /\ ui'.edited = ui.edited
      BY <1>1, <2>1 DEF PolicyShape
    <3>2. sent' \in Nat /\ \A h \in running' : h \in running \/ HoldsKeyed(h)
      BY <2>1, FormStarted
    <3> QED
      BY <1>1, <2>1, <3>1, <3>2, FormKept DEF FormShows
  <2>2. CASE /\ Start("local", NoArg) /\ running' = running /\ db' = db
             /\ \E S : rows' = OnlyIn(rows, S)
             /\ \E to : ui' = Rendered(rows', to, {}, [ui EXCEPT !.deleting = NoKey])
    <3> DEFINE u == [ui EXCEPT !.deleting = NoKey]
    <3>1. DOMAIN u = DOMAIN ui /\ u.form = ui.form /\ u.edited = ui.edited
      BY <1>1 DEF PolicyShape
    <3>2. PICK to : ui' = Rendered(rows', to, {}, u)
      BY <2>2
    <3> HIDE DEF u
    <3>3. Keyed(rows') /\ Rows(rows') \subseteq Rows(rows)
      BY <1>1, <2>2, OthersKeyed
    <3>4. DOMAIN ui' = DOMAIN ui /\ FormShows'
      BY <3>1, <3>2, <3>3, FormRendered
    <3>5. sent' \in Nat
      BY <1>1, <2>2 DEF Start
    <3> QED
      BY <1>1, <2>2, <3>3, <3>4, <3>5, FormKept
  <2> QED
    BY <1>9, <2>1, <2>2 DEF DeleteAction
<1> QED
  BY <1>3, <1>4, <1>5, <1>6, <1>7, <1>8, <1>9 DEF PolicyUser

\* A policy that is saved is stored, or gets the least free number.
LEMMA SavedTable ==
  ASSUME DOMAIN db \subseteq 1 .. MaxPolicies, NEW arg, IF arg.new THEN Free # {} ELSE Stored(arg)
  PROVE  /\ DOMAIN Saved(arg) \subseteq 1 .. MaxPolicies
         /\ ~ arg.new => Saved(arg)[arg.key].targets = arg.values.roles
<1> DEFINE id == IF arg.new THEN CHOOSE i \in Free : \A j \in Free : i <= j ELSE arg.key
<1>1. DOMAIN Saved(arg) = DOMAIN db \cup {id}
  BY DEF Saved
<1>2. CASE arg.new
  <2>1. Free \in SUBSET Nat /\ Free # {} /\ Free \subseteq 1 .. MaxPolicies
    BY <1>2, PolicyAssumption DEF Free
  <2>2. id \in Free
    BY <1>2, <2>1, LeastNumber
  <2> QED
    BY <1>1, <1>2, <2>1, <2>2
<1>3. CASE ~ arg.new
  <2>1. id = arg.key /\ id \in DOMAIN db
    BY <1>3 DEF Stored
  <2>2. Saved(arg)[arg.key].targets = arg.values.roles
    BY <1>3, <2>1 DEF Saved, PolicyPayload
  <2> QED
    BY <1>1, <2>1, <2>2
<1> QED
  BY <1>2, <1>3

LEMMA FormServed ==
  ASSUME Form, AllSound, NEW h \in running, ServePolicy(h) \/ GoesOn(h)
  PROVE  Form'
<1>1. Shaped(h) /\ HoldsKeyed(h) /\ UNCHANGED <<rows, ui, sent>> /\ DOMAIN db \subseteq 1 .. MaxPolicies
  BY DEF AllSound, Sound, Form, ServePolicy, ServeChange, ServeList, GoesOn
<1>2. ASSUME NEW g, Advances(h, g), g.list = h.list \/ \A list \in g.list : Keyed(list),
             DOMAIN db' \subseteq 1 .. MaxPolicies
      PROVE  Form'
  <2>1. HoldsKeyed(g)
    BY <1>1, <1>2 DEF Advances, Same, HoldsKeyed
  <2>2. running' = (running \ {h}) \cup {g}
    BY <1>2 DEF Advances
  <2>3. Keyed(rows') /\ DOMAIN ui' = DOMAIN ui /\ FormShows' /\ sent' \in Nat
    BY <1>1 DEF Form, FormShows
  <2> QED
    BY <1>2, <2>1, <2>2, <2>3, FormKept
<1>3. ASSUME NEW answers, NEW next, ServeChange(h, answers, next), DOMAIN next \subseteq 1 .. MaxPolicies
      PROVE  Form'
  <2>1. PICK g : Advances(h, g) /\ g.list = h.list
    BY <1>1, <1>3, AdvanceByChange
  <2>2. db' = next \/ db' = db
    BY <1>3 DEF ServeChange
  <2> QED
    BY <1>1, <1>2, <1>3, <2>1, <2>2
<1>4. CASE ServeList(h, PolicyList)
  <2>1. PICK g : Advances(h, g) /\ g.list = {PolicyList}
    BY <1>1, <1>4, AdvanceByList
  <2>2. Keyed(PolicyList)
    BY <1>1, ListKeyed DEF PolicyList
  <2>3. db' = db
    BY <1>4 DEF ServeList
  <2> QED
    BY <1>1, <1>2, <2>1, <2>2, <2>3
<1>5. CASE GoesOn(h)
  <2>1. PICK g : Advances(h, g) /\ g.list = h.list
    BY <1>1, <1>5, AdvanceByAsking DEF GoesOn
  <2>2. db' = db
    BY <1>5 DEF GoesOn
  <2> QED
    BY <1>1, <1>2, <2>1, <2>2
<1>6. CASE ServePolicy(h)
  <2>1. (IF h.arg.new THEN Free # {} ELSE Stored(h.arg)) => DOMAIN Saved(h.arg) \subseteq 1 .. MaxPolicies
    BY <1>1, SavedTable
  <2>2. DOMAIN Activated(h.arg) \subseteq 1 .. MaxPolicies /\ DOMAIN Deleted(h.arg) \subseteq 1 .. MaxPolicies
    BY <1>1 DEF Activated, Deleted
  <2> QED
    BY <1>1, <1>3, <1>4, <1>6, <2>1, <2>2 DEF ServePolicy
<1> QED
  BY <1>5, <1>6

\* The list of an answer, or the empty one that stands for none.
LEMMA ShownKeyed ==
  ASSUME NEW h, HoldsList(h), HoldsKeyed(h), h.try = 0 \/ h.answer # "ok", NEW result,
         result.data = Refreshed(h).data, ShowList(h, result)
  PROVE  Keyed(rows')
<1> DEFINE data == Refreshed(h).data
<1>1. data # {}
  BY ListArrives DEF Refreshed, GetPolicies, Unavailable, Result
<1>2. data = h.list \/ data = {<<>>}
  BY DEF Refreshed, GetPolicies, Live, Unavailable, Result
<1>3. \A list \in data : Keyed(list)
  BY <1>2, EmptyKeyed DEF HoldsKeyed
<1>4. rows' = CHOOSE list \in data : TRUE
  BY DEF ShowList
<1> HIDE DEF data
<1> QED
  BY <1>1, <1>3, <1>4

LEMMA FormEnds ==
  ASSUME Form, AllSound, NEW h \in running,
         PoliciesLoaded(h) \/ PolicySaved(h) \/ StateChanged(h) \/ PolicyDeleted(h)
  PROVE  Form'
<1>1. /\ HoldsList(h) /\ HoldsKeyed(h) /\ Final(h) /\ Keyed(rows) /\ PolicyShape /\ FormShows
      /\ running' = running \ {h} /\ UNCHANGED <<db, sent>>
  BY DEF AllSound, Sound, Form, PoliciesLoaded, PolicySaved, StateChanged, PolicyDeleted, Ends
<1>2. ASSUME Keyed(rows'), DOMAIN ui' = DOMAIN ui, FormShows' PROVE Form'
  <2>1. sent' \in Nat /\ DOMAIN db' \subseteq 1 .. MaxPolicies
    BY <1>1 DEF Form
  <2> QED
    BY <1>1, <1>2, <2>1, FormKept
<1>3. ASSUME Keyed(rows'), NEW v, DOMAIN v = DOMAIN ui,
             ~ v.edited => v.form = FormFor(rows', v.selected),
             \/ \E x : ui' = [v EXCEPT !.loading = x]
             \/ \E x : ui' = [v EXCEPT !.saving = x]
             \/ ui' = v
      PROVE  Form'
  <2>1. DOMAIN ui' = DOMAIN v /\ ui'.selected = v.selected /\ ui'.form = v.form /\ ui'.edited = v.edited
    BY <1>1, <1>3 DEF PolicyShape
  <2> QED
    BY <1>2, <1>3, <2>1 DEF FormShows
<1>4. ASSUME NEW u, DOMAIN u = DOMAIN ui, u.form = ui.form, u.edited = ui.edited, Keyed(rows'),
             NEW key, NEW fresh, NEW v, v = Rendered(rows', key, fresh, u),
             \A r \in Rows(rows') : r.key = key /\ key \notin fresh => r \in Rows(rows)
      PROVE  DOMAIN v = DOMAIN ui /\ (~ v.edited => v.form = FormFor(rows', v.selected))
  <2>1. key = ui.selected /\ key \in KeysOf(rows) /\ key \in KeysOf(rows') /\ key \notin fresh
          => FormFor(rows', key) = FormFor(rows, key)
    BY <1>1, <1>4, FormStands
  <2>2. DOMAIN v = DOMAIN ui /\ v.selected = key /\ (~ v.edited => v.form = FormFor(rows', key))
    BY <1>1, <1>4, <2>1, RenderedShows
  <2> QED
    BY <2>2
<1>5. \A r \in Rows(rows') : r.key \in KeysOf(rows')
  BY DEF Rows, KeysOf
<1>6. ASSUME NEW result, ShowList(h, result), result.data # {},
             result \in {AttemptPolicyMutation(ChangeAnswer(h), Refreshed(h)), DeletePolicy(ChangeAnswer(h), Refreshed(h))}
      PROVE  Keyed(rows')
  <2>1. h.try = 0
    BY <1>1, <1>6, PolicyResult
  <2>2. result.data = Refreshed(h).data
    BY <1>6, <2>1, RefreshKeepsData DEF ChangeAnswer, AttemptPolicyMutation, DeletePolicy
  <2> QED
    BY <1>1, <1>6, <2>1, <2>2, ShownKeyed
<1>7. CASE PoliciesLoaded(h)
  <2>1. PICK key : /\ ShowList(h, Refreshed(h))
                   /\ ui' = [Rendered(rows', key, KeysOf(rows'), ui) EXCEPT !.loading = FALSE]
    BY <1>7 DEF PoliciesLoaded
  <2>2. Keyed(rows')
    BY <1>1, <2>1, ShownKeyed DEF Final
  <2> DEFINE v == Rendered(rows', key, KeysOf(rows'), ui)
  <2>3. DOMAIN v = DOMAIN ui /\ (~ v.edited => v.form = FormFor(rows', v.selected))
    BY <1>4, <1>5, <2>2
  <2> HIDE DEF v
  <2>4. \E x : ui' = [v EXCEPT !.loading = x]
    BY <2>1 DEF v
  <2> QED
    BY <1>3, <2>2, <2>3, <2>4
<1>8. CASE PolicySaved(h)
  <2> DEFINE result == AttemptPolicyMutation(ChangeAnswer(h), Refreshed(h))
  <2>1. CASE result.data # {}
    <3>1. PICK key : /\ ShowList(h, result)
                     /\ ui' = [Rendered(rows', key, KeysOf(rows'), ui) EXCEPT !.saving = FALSE]
      BY <1>8, <2>1 DEF PolicySaved
    <3>2. Keyed(rows')
      BY <1>6, <2>1, <3>1
    <3> DEFINE v == Rendered(rows', key, KeysOf(rows'), ui)
    <3>3. DOMAIN v = DOMAIN ui /\ (~ v.edited => v.form = FormFor(rows', v.selected))
      BY <1>4, <1>5, <3>2
    <3> HIDE DEF v
    <3>4. \E x : ui' = [v EXCEPT !.saving = x]
      BY <3>1 DEF v
    <3> QED
      BY <1>3, <3>2, <3>3, <3>4
  <2>2. CASE result.data = {}
    <3>1. /\ rows' = Upsert(rows, h.arg.record)
          /\ ui' = [Rendered(rows', h.arg.key, {h.arg.key}, ui) EXCEPT !.saving = FALSE]
          /\ h.op = "save"
      BY <1>8, <2>2 DEF PolicySaved
    <3>2. Keyed(rows')
      BY <1>1, <3>1, UpsertKeyed DEF HoldsKeyed
    <3> DEFINE v == Rendered(rows', h.arg.key, {h.arg.key}, ui)
    <3>3. DOMAIN v = DOMAIN ui /\ (~ v.edited => v.form = FormFor(rows', v.selected))
      BY <1>4, <3>2
    <3> HIDE DEF v
    <3>4. \E x : ui' = [v EXCEPT !.saving = x]
      BY <3>1 DEF v
    <3> QED
      BY <1>3, <3>2, <3>3, <3>4
  <2> QED
    BY <2>1, <2>2
<1>9. CASE StateChanged(h)
  <2> DEFINE result == AttemptPolicyMutation(ChangeAnswer(h), Refreshed(h))
             u == [ui EXCEPT !.pending[h.arg.key] = "none"]
  <2>1. DOMAIN u = DOMAIN ui /\ u.form = ui.form /\ u.edited = ui.edited
    BY <1>1 DEF PolicyShape
  <2>2. CASE result.data # {}
    <3>1. ShowList(h, result) /\ ui' = Rendered(rows', ui.selected, KeysOf(rows'), u)
      BY <1>9, <2>2 DEF StateChanged
    <3>2. Keyed(rows')
      BY <1>6, <2>2, <3>1
    <3> HIDE DEF u
    <3> QED
      BY <1>3, <1>4, <1>5, <2>1, <3>1, <3>2
  <2>3. CASE result.data = {}
    <3>1. /\ rows' = WithState(rows, h.arg.key, h.arg.action)
          /\ ui' = Rendered(rows', ui.selected, Changed(rows, rows'), u)
      BY <1>9, <2>3 DEF StateChanged
    <3>2. Keyed(rows') /\ \A r \in Rows(rows') : r.key \notin Changed(rows, rows') => r \in Rows(rows)
      BY <1>1, <3>1, StateKeyed
    <3> HIDE DEF u
    <3> QED
      BY <1>3, <1>4, <2>1, <3>1, <3>2
  <2> QED
    BY <2>2, <2>3
<1>10. CASE PolicyDeleted(h)
  <2> DEFINE result == DeletePolicy(ChangeAnswer(h), Refreshed(h))
             u == [ui EXCEPT !.deleting = NoKey]
  <2>1. DOMAIN u = DOMAIN ui /\ u.form = ui.form /\ u.edited = ui.edited /\ u.selected = ui.selected
    BY <1>1 DEF PolicyShape
  <2>2. CASE result.data # {}
    <3>1. PICK key : ShowList(h, result) /\ ui' = Rendered(rows', key, KeysOf(rows'), u)
      BY <1>10, <2>2 DEF PolicyDeleted
    <3>2. Keyed(rows')
      BY <1>6, <2>2, <3>1
    <3> HIDE DEF u
    <3> QED
      BY <1>3, <1>4, <1>5, <2>1, <3>1, <3>2
  <2>3. CASE result.data = {}
    <3>1. rows' = rows /\ ui' = u
      BY <1>10, <2>3 DEF PolicyDeleted
    <3> HIDE DEF u
    <3> QED
      BY <1>1, <1>2, <2>1, <3>1 DEF FormShows
  <2> QED
    BY <2>2, <2>3
<1> QED
  BY <1>7, <1>8, <1>9, <1>10

LEMMA FormInit == Init => FormInv
<1> SUFFICES ASSUME Init, page = "policies" PROVE Form
  BY DEF FormInv
<1>1. PolicyInit
  BY DEF Init, EventsInit, AttendanceInit, EmployeesInit, DevicesInit, Opened
<1>2. /\ rows = <<>> /\ sent = 1 /\ DOMAIN db = {1}
      /\ ui.selected = NoKey /\ ui.form = EmptyValues /\ PolicyShape
      /\ \A h \in running : h.op = "load" /\ h.list = {}
  BY <1>1 DEF PolicyInit, Opened, NoList, PolicyShape
<1>3. FormShows
  BY <1>2, EmptyKeyed DEF FormShows, FormFor, Selected
<1> QED
  BY <1>2, <1>3, EmptyKeyed, PolicyAssumption DEF Form, HoldsKeyed

LEMMA FormStep == AllSound /\ FormInv /\ [Next]_vars => FormInv'
<1> SUFFICES ASSUME AllSound, FormInv, [Next]_vars, page' = "policies" PROVE Form'
  BY DEF FormInv
<1>1. page = "policies" /\ Form
  BY PageStays DEF FormInv
<1>2. CASE PolicyNext
  BY <1>1, <1>2, FormUser, FormServed, FormEnds DEF PolicyNext, PolicyHandles, PolicyAnswered
<1>3. CASE UNCHANGED vars
  BY <1>1, <1>3 DEF vars, Form, FormShows, PolicyShape, HoldsKeyed, Keyed
<1> QED
  BY <1>1, <1>2, <1>3 DEF Next, EventsNext, AttendanceNext, EmployeesNext, DevicesNext

\* A form that the user has not touched shows the selected policy as the table
\* does, whatever answers, failures and changes in the page have replaced rows.
THEOREM FormCorrect == Spec => []FormShowsRow
<1>1. FormInv => FormShowsRow
  BY DEF FormInv, Form, FormShows, FormShowsRow
<1> QED
  BY <1>1, SoundInit, SoundStep, FormInit, FormStep, PTL DEF Spec

-----------------------------------------------------------------------------
(* Saving a form that was not touched *)

\* A save that the backend has not served, from a form that was not touched.
Untouched(h) ==
  /\ h.op = "save" /\ h.try # 0 /\ h.answer = Waiting
  /\ ~ h.arg.new /\ ~ h.arg.edited /\ h.arg.key \in DOMAIN db /\ db[h.arg.key].targets # {}
OldScope(h) == Untouched(h) => h.arg.values.roles = db[h.arg.key].targets

\* While no action has crossed a running handler, there is one at most, and the
\* list that it holds and the rows that are called live are still the backend's.
OneFresh(h) == h.try = 0 /\ h.answer = "ok" => h.list = {PolicyList}
RowsFresh == api = "live" /\ running = {} => rows = PolicyList
Waits ==
  ~ crossed =>
    /\ \A h, k \in running : h = k
    /\ \A h \in running : OneFresh(h) /\ OldScope(h)
    /\ RowsFresh
WaitsInv == page = "policies" => Waits

LEMMA ScopeStarts ==
  ASSUME Form, FormShows, ~ crossed, running = {}, Waits, SavePolicy
  PROVE  \A g \in running' : g.answer = Waiting /\ (Untouched(g) => g.arg.values.roles = db[g.arg.key].targets)
<1> SUFFICES ASSUME NEW g \in running' 
             PROVE  g.answer = Waiting /\ (Untouched(g) => g.arg.values.roles = db[g.arg.key].targets)
  OBVIOUS
<1> DEFINE current == Selected(rows, ui.selected)
           key == IF current = {} THEN LocalKey(sent + 1) ELSE ui.selected
           record == LocalRecord(ui.form, current, key)
           isNew == current = {}
           arg == [key |-> key, new |-> isNew, values |-> ui.form, edited |-> ui.edited, record |-> record]
<1>1. api = "live" /\ g = Handler("save", arg)
  BY DEF SavePolicy, Start
<1>2. g.arg = arg /\ g.answer = Waiting
  BY <1>1 DEF Handler
<1>3. arg.values = ui.form /\ arg.key = key
  OBVIOUS
<1>4. arg.new = isNew /\ arg.edited = ui.edited
  BY Zenon
<1>5. rows = PolicyList
  BY <1>1 DEF Waits, RowsFresh
<1> HIDE DEF arg, record
<1>6. ASSUME Untouched(g) PROVE g.arg.values.roles = db[g.arg.key].targets
  <2>1. current # {} /\ ~ ui.edited /\ key = ui.selected
    <3>1. ~ g.arg.new /\ ~ g.arg.edited
      BY <1>6 DEF Untouched
    <3>2. ~ isNew /\ ~ ui.edited
      BY <1>2, <1>4, <3>1, Zenon
    <3> QED
      BY <3>2
  <2>2. key \in KeysOf(rows) /\ ui.form = FormFor(rows, key)
    BY <2>1 DEF FormShows, Selected
  <2>3. PICK r \in Rows(rows) : r.key = key
    BY <2>2, KeyHasRow
  <2>4. ui.form = EditorValues(r)
    BY <2>2, <2>3, RowOfKey DEF Form
  <2>5. PICK id \in DOMAIN db : r = PolicyRow(id, db[id])
    BY <1>5, <2>3, ListKeyed DEF Form, PolicyList
  <2>6. id = key
    BY <2>3, <2>5 DEF PolicyRow
  <2>7. db[id].targets # {}
    BY <1>2, <1>3, <1>6, <2>6 DEF Untouched
  <2>8. r.roles = db[id].targets
    BY <2>5, <2>7 DEF PolicyRow
  <2>9. ui.form.roles = r.roles
    BY <2>4 DEF EditorValues
  <2> QED
    BY <1>2, <1>3, <2>6, <2>8, <2>9
<1> QED
  BY <1>2, <1>6

LEMMA WaitsUser ==
  ASSUME Form, Waits, PolicyUser
  PROVE  Waits'
<1>1. ASSUME crossed' = (crossed \/ running # {}), db' = db, NEW g, running' = running \cup {g}, g.answer = Waiting,
             ~ crossed /\ running = {} => OldScope(g)
      PROVE  Waits'
  <2>1. ~ crossed' => running' = {g} /\ OldScope(g)
    BY <1>1
  <2>2. OneFresh(g)'
    BY <1>1 DEF OneFresh, Waiting
  <2> QED
    BY <1>1, <2>1, <2>2 DEF Waits, OneFresh, OldScope, Untouched, RowsFresh
<1>2. ASSUME crossed' = (crossed \/ running # {}), running' = running, api' # "live" PROVE Waits'
  BY <1>2 DEF Waits, RowsFresh
<1>3. CASE LoadPolicies
  <2> DEFINE g == [Handler("load", NoArg) EXCEPT !.try = 0]
  <2>1. g.op = "load" /\ g.answer = Waiting
    BY DEF Handler
  <2>2. running' = running \cup {g} /\ crossed' = (crossed \/ running # {}) /\ db' = db
    BY <1>3 DEF LoadPolicies
  <2> HIDE DEF g
  <2> QED
    BY <1>1, <2>1, <2>2 DEF OldScope, Untouched
<1>4. CASE \/ CreateNew \/ (\E key \in PolicyKey : SelectPolicy(key)) \/ (\E values \in Edits : EditForm(values))
  <2>1. UNCHANGED <<db, rows, api, running, crossed>>
    BY <1>4 DEF CreateNew, SelectPolicy, EditForm
  <2> QED
    BY <2>1 DEF Waits, OneFresh, OldScope, Untouched, RowsFresh, PolicyList
<1>5. CASE SavePolicy
  <2>1. (\E arg : Start("save", arg) /\ db' = db) \/ (crossed' = (crossed \/ running # {}) /\ running' = running /\ api' = "mock")
    BY <1>5 DEF SavePolicy, Start
  <2>2. CASE \E arg : Start("save", arg) /\ db' = db
    <3>1. PICK arg : Start("save", arg) /\ db' = db
      BY <2>2
    <3> DEFINE g == Handler("save", arg)
    <3>2. g.answer = Waiting
      BY DEF Handler
    <3>3. running' = running \cup {g} /\ crossed' = (crossed \/ running # {})
      BY <3>1 DEF Start
    <3>4. ~ crossed /\ running = {} => OldScope(g)
      BY <1>5, <3>3, ScopeStarts DEF Form, OldScope
    <3> HIDE DEF g
    <3> QED
      BY <1>1, <3>1, <3>2, <3>3, <3>4
  <2> QED
    BY <1>2, <2>1, <2>2
<1>6. CASE \/ (\E key \in PolicyKey : DeleteAction(key))
           \/ (\E key \in PolicyKey : \E action \in {"activate", "deactivate", "set_active"} : StateAction(key, action))
  <2>1. \/ \E op \in {"state", "delete"} : \E arg : Start(op, arg) /\ db' = db
        \/ crossed' = (crossed \/ running # {}) /\ running' = running /\ api' = "mock"
    BY <1>6 DEF DeleteAction, StateAction, Start
  <2>2. ASSUME NEW op \in {"state", "delete"}, NEW arg, Start(op, arg), db' = db PROVE Waits'
    <3> DEFINE g == Handler(op, arg)
    <3>1. g.answer = Waiting /\ g.op # "save"
      BY DEF Handler
    <3>2. running' = running \cup {g} /\ crossed' = (crossed \/ running # {})
      BY <2>2 DEF Start
    <3> HIDE DEF g
    <3> QED
      BY <1>1, <2>2, <3>1, <3>2 DEF OldScope, Untouched
  <2> QED
    BY <1>2, <2>1, <2>2
<1> QED
  BY <1>3, <1>4, <1>5, <1>6 DEF PolicyUser

LEMMA WaitsServed ==
  ASSUME AllSound, Waits, NEW h \in running, ServePolicy(h) \/ GoesOn(h)
  PROVE  Waits'
<1>1. Shaped(h) /\ crossed' = crossed
  BY DEF AllSound, Sound, ServePolicy, ServeChange, ServeList, GoesOn
<1>2. ASSUME NEW g, Advances(h, g), (~ crossed => OneFresh(g) /\ OldScope(g))'
      PROVE  Waits'
  <2>1. running' = (running \ {h}) \cup {g}
    BY <1>2 DEF Advances
  <2>2. ~ crossed => running = {h}
    BY DEF Waits
  <2>3. ~ crossed' => running' = {g}
    BY <1>1, <2>1, <2>2
  <2> QED
    BY <1>2, <2>3 DEF Waits, RowsFresh
<1>3. ASSUME NEW answers, Waiting \notin answers, NEW next, ServeChange(h, answers, next)
      PROVE  Waits'
  <2>1. PICK answer \in answers :
          Becomes(h, [h EXCEPT !.answer = answer, !.lost = @ \/ answer = "lost",
                               !.times = IF Applied(answer) THEN @ + 1 ELSE @])
    BY <1>3 DEF ServeChange
  <2> DEFINE lost == h.lost \/ answer = "lost"
             times == IF Applied(answer) THEN h.times + 1 ELSE h.times
             g == [h EXCEPT !.answer = answer, !.lost = lost, !.times = times]
  <2>2. g.try = h.try /\ g.answer = answer /\ Same(g, h)
    BY <1>1 DEF Shaped, Same
  <2>3. h.try # 0 /\ answer # Waiting
    BY <1>1, <1>3 DEF ServeChange, Shaped
  <2>4. running' = (running \ {h}) \cup {g}
    BY <2>1 DEF Becomes
  <2>5. Shaped(g)
    <3>1. ASSUME NEW l, NEW t, NEW f, f = [h EXCEPT !.answer = answer, !.lost = l, !.times = t] PROVE Shaped(f)
      <4>1. h.try > 0
        BY <1>3 DEF ServeChange
      <4> QED
        BY <1>1, <3>1, <4>1, ChangeServed
    <3> HIDE DEF lost, times
    <3> QED
      BY <3>1
  <2> HIDE DEF g
  <2>6. OneFresh(g)' /\ OldScope(g)'
    BY <2>2, <2>3 DEF OneFresh, OldScope, Untouched
  <2> QED
    BY <1>2, <2>2, <2>4, <2>5, <2>6 DEF Advances
<1>4. CASE ServeList(h, PolicyList)
  <2>1. PICK g : Advances(h, g) /\ g.try = 0 /\ g.list = {PolicyList}
    BY <1>1, <1>4, AdvanceByList
  <2>2. PolicyList' = PolicyList
    BY <1>4 DEF ServeList, PolicyList
  <2> QED
    BY <1>2, <2>1, <2>2 DEF OneFresh, OldScope, Untouched
<1>5. CASE GoesOn(h)
  <2>1. \E try \in Nat : Becomes(h, [h EXCEPT !.try = try, !.answer = Waiting]) /\ (try # 0 => h.op # "save")
    <3>1. CASE AskList(h)
      BY <3>1 DEF AskList
    <3>2. CASE AskAgain(h) /\ h.try < Tries(h.op)
      <4>1. h.try \in Nat /\ h.try > 0 /\ h.op # "save"
        BY <1>1, <1>5, <3>2 DEF GoesOn, Tries, Shaped
      <4> DEFINE n == h.try + 1
      <4>2. Becomes(h, [h EXCEPT !.try = n, !.answer = Waiting])
        BY <3>2 DEF AskAgain
      <4>3. n \in Nat
        BY <4>1
      <4> HIDE DEF n
      <4> QED
        BY <4>1, <4>2, <4>3
    <3> QED
      BY <1>5, <3>1, <3>2 DEF GoesOn
  <2>2. PICK try \in Nat : Becomes(h, [h EXCEPT !.try = try, !.answer = Waiting]) /\ (try # 0 => h.op # "save")
    BY <2>1
  <2> DEFINE g == [h EXCEPT !.try = try, !.answer = Waiting]
  <2>3. Shaped(g) /\ Same(g, h) /\ g.try = try /\ g.answer # "ok"
    <3>1. Shaped(g)
      BY <1>1, Asked
    <3> QED
      BY <1>1, <3>1 DEF Shaped, Same, Waiting
  <2>4. running' = (running \ {h}) \cup {g}
    BY <2>2 DEF Becomes
  <2> HIDE DEF g
  <2>5. OneFresh(g)' /\ OldScope(g)'
    BY <2>2, <2>3 DEF OneFresh, OldScope, Untouched, Same
  <2> QED
    BY <1>2, <2>3, <2>4, <2>5 DEF Advances
<1>6. CASE ServePolicy(h)
  BY <1>3, <1>4, <1>6 DEF ServePolicy, Waiting
<1> QED
  BY <1>5, <1>6

LEMMA WaitsEnds ==
  ASSUME AllSound, Waits, NEW h \in running,
         PoliciesLoaded(h) \/ PolicySaved(h) \/ StateChanged(h) \/ PolicyDeleted(h)
  PROVE  Waits'
<1>1. /\ HoldsList(h) /\ Final(h) /\ running' = running \ {h} /\ UNCHANGED <<db, crossed>>
  BY DEF AllSound, Sound, PoliciesLoaded, PolicySaved, StateChanged, PolicyDeleted, Ends
<1>2. PolicyList' = PolicyList
  BY <1>1 DEF PolicyList
<1>3. ASSUME ~ crossed, api' = "live" PROVE rows' = PolicyList
  <2>1. ASSUME NEW result, ShowList(h, result), result.source = "live" => h.answer = "ok" /\ result.data = h.list
        PROVE  rows' = PolicyList
    <3>1. h.answer = "ok" /\ rows' = CHOOSE list \in h.list : TRUE
      BY <1>3, <2>1 DEF ShowList
    <3>2. h.try = 0
      BY <1>1, <3>1 DEF Final
    <3>3. h.list = {PolicyList}
      BY <1>3, <3>1, <3>2 DEF Waits, OneFresh
    <3> QED
      BY <3>1, <3>3
  <2>2. CASE PoliciesLoaded(h)
    <3>1. ShowList(h, Refreshed(h))
      BY <2>2 DEF PoliciesLoaded
    <3>2. Refreshed(h).source = "live" => h.answer = "ok" /\ Refreshed(h).data = h.list
      BY DEF Refreshed, GetPolicies, Live, Unavailable, Result
    <3> QED
      BY <2>1, <3>1, <3>2
  <2>3. CASE PolicySaved(h) \/ StateChanged(h) \/ PolicyDeleted(h)
    <3>1. PICK result \in {AttemptPolicyMutation(ChangeAnswer(h), Refreshed(h)), DeletePolicy(ChangeAnswer(h), Refreshed(h))} :
            (result.data # {} /\ ShowList(h, result)) \/ (result.data = {} /\ api' = result.source)
      BY <2>3 DEF PolicySaved, StateChanged, PolicyDeleted
    <3>2. CASE result.data = {} /\ api' = result.source
      BY <1>1, <1>3, <3>1, <3>2, LocalIsNotLive
    <3>3. CASE result.data # {} /\ ShowList(h, result)
      <4>1. h.try = 0
        BY <1>1, <3>1, <3>3, PolicyResult
      <4>2. result = AfterRefresh(Refreshed(h))
        BY <3>1, <4>1 DEF ChangeAnswer, AttemptPolicyMutation, DeletePolicy
      <4>3. result.source = "live" => h.answer = "ok" /\ result.data = h.list
        BY <4>2, LiveList DEF Refreshed
      <4> QED
        BY <2>1, <3>3, <4>3
    <3> QED
      BY <3>1, <3>2, <3>3
  <2> QED
    BY <2>2, <2>3
<1> QED
  BY <1>1, <1>2, <1>3 DEF Waits, OneFresh, OldScope, Untouched, RowsFresh

LEMMA WaitsInit == Init => WaitsInv
<1> SUFFICES ASSUME Init, page = "policies" PROVE Waits
  BY DEF WaitsInv
<1>1. PolicyInit
  BY DEF Init, EventsInit, AttendanceInit, EmployeesInit, DevicesInit, Opened
<1>2. (\A h \in running : h.op = "load" /\ h.answer = Waiting) /\ (\A h, k \in running : h = k) /\ api = "none"
  BY <1>1 DEF PolicyInit, Opened
<1> QED
  BY <1>2 DEF Waits, OneFresh, OldScope, Untouched, RowsFresh, Waiting

LEMMA WaitsStep == AllSound /\ FormInv /\ WaitsInv /\ [Next]_vars => WaitsInv'
<1> SUFFICES ASSUME AllSound, FormInv, WaitsInv, [Next]_vars, page' = "policies" PROVE Waits'
  BY DEF WaitsInv
<1>1. page = "policies" /\ Form /\ Waits
  BY PageStays DEF FormInv, WaitsInv
<1>2. CASE PolicyNext
  BY <1>1, <1>2, WaitsUser, WaitsServed, WaitsEnds DEF PolicyNext, PolicyHandles, PolicyAnswered
<1>3. CASE UNCHANGED vars
  BY <1>1, <1>3 DEF vars, Waits, OneFresh, OldScope, Untouched, RowsFresh, PolicyList
<1> QED
  BY <1>1, <1>2, <1>3 DEF Next, EventsNext, AttendanceNext, EmployeesNext, DevicesNext

\* The handler that leaves while the table changes is the one that the backend serves.
LEMMA SaveServed ==
  ASSUME PolicyNext, db' # db, NEW h \in running \ running', h.op = "save", ~ h.arg.new
  PROVE  \E answers : ServeChange(h, answers, Saved(h.arg)) /\ Stored(h.arg)
<1>1. ASSUME PolicyUser PROVE db' = db
  BY <1>1 DEF PolicyUser, LoadPolicies, CreateNew, SavePolicy, SelectPolicy, DeleteAction, StateAction, EditForm
<1>2. ASSUME NEW k \in running, ServePolicy(k) PROVE ServePolicy(h)
  <2>1. \E f : Becomes(k, f)
    BY <1>2 DEF ServePolicy, ServeChange, ServeList
  <2>2. k = h
    BY <2>1 DEF Becomes
  <2> QED
    BY <1>2, <2>2
<1>3. ASSUME NEW k \in running, PolicyAnswered(k) PROVE db' = db
  BY <1>3 DEF PolicyAnswered, GoesOn, PoliciesLoaded, PolicySaved, StateChanged, PolicyDeleted
<1>4. ServePolicy(h)
  <2>1. PolicyUser \/ \E k \in running : ServePolicy(k) \/ PolicyAnswered(k)
    BY DEF PolicyNext, PolicyHandles
  <2>2. ~ PolicyUser /\ \A k \in running : ~ PolicyAnswered(k)
    BY <1>1, <1>3
  <2> QED
    BY <1>2, <2>1, <2>2
<1>5. CASE h.op = "save" /\ Stored(h.arg) /\ ServeChange(h, {"ok", "lost", "failed"}, Saved(h.arg))
  BY <1>5
<1>6. ASSUME NEW answers, ServeChange(h, answers, db) PROVE db' = db
  BY <1>6 DEF ServeChange
<1>7. ASSUME ServeList(h, PolicyList) PROVE db' = db
  BY <1>7 DEF ServeList
<1> QED
  BY <1>4, <1>5, <1>6, <1>7 DEF ServePolicy

\* A user who waits for each answer and saves a policy that has target roles
\* without touching the form does not change whom it targets.
THEOREM ScopeCorrect == Spec => UntouchedSaveKeepsScope
<1> DEFINE Keeps == page = "policies" /\ ~ crossed => \A h \in running \ running' :
             h.op = "save" /\ ~ h.arg.new /\ ~ h.arg.edited /\ h.arg.key \in DOMAIN db \cap DOMAIN db'
               /\ db[h.arg.key].targets # {}
             => db'[h.arg.key].targets = db[h.arg.key].targets
<1>1. AllSound /\ FormInv /\ WaitsInv /\ [Next]_vars => [Keeps]_vars
  <2> SUFFICES ASSUME AllSound, FormInv, WaitsInv, Next, page = "policies", ~ crossed, NEW h \in running \ running',
                      h.op = "save", ~ h.arg.new, ~ h.arg.edited, h.arg.key \in DOMAIN db \cap DOMAIN db',
                      db[h.arg.key].targets # {}
               PROVE  db'[h.arg.key].targets = db[h.arg.key].targets
    OBVIOUS
  <2>1. PolicyNext /\ Form /\ Waits
    BY DEF Next, EventsNext, AttendanceNext, EmployeesNext, DevicesNext, FormInv, WaitsInv
  <2>2. CASE db' = db
    BY <2>2
  <2>3. CASE db' # db
    <3>1. PICK answers : ServeChange(h, answers, Saved(h.arg)) /\ Stored(h.arg)
      BY <2>1, <2>3, SaveServed
    <3>2. db' = Saved(h.arg) /\ h.try > 0 /\ h.answer = Waiting
      BY <2>3, <3>1 DEF ServeChange
    <3>3. h.try # 0
      <4>1. h.try \in Nat
        BY DEF AllSound, Sound, Shaped
      <4> QED
        BY <3>2, <4>1
    <3>4. h.arg.values.roles = db[h.arg.key].targets
      BY <2>1, <3>2, <3>3 DEF Waits, OldScope, Untouched
    <3>5. db'[h.arg.key].targets = h.arg.values.roles
      BY <2>1, <3>1, <3>2, SavedTable DEF Form
    <3> QED
      BY <3>4, <3>5
  <2> QED
    BY <2>2, <2>3
<1>2. Spec => [][Keeps]_vars
  BY <1>1, SoundInit, SoundStep, FormInit, FormStep, WaitsInit, WaitsStep, PTL DEF Spec
<1> QED
  BY <1>2 DEF UntouchedSaveKeepsScope
==============================================================================
