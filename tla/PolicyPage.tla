------------------------------ MODULE PolicyPage ------------------------------
(***************************************************************************)
(* The policies page: a table of policies and an editor for the selected   *)
(* one.  While the API status is live, changes go to the backend, which    *)
(* returns the new list; otherwise, and after a change that failed, they   *)
(* are made in the rows only, and the status is no longer live.            *)
(***************************************************************************)
EXTENDS ConsolePage, SequencesExt

CONSTANTS
  MaxPolicies,  \* bound: policies the backend stores
  StoredRoles,  \* the sets of target roles that a policy may have at first
  Edits         \* what the user types into the editor: [name, roles, typed]

ASSUME PolicyAssumption == MaxPolicies \in Nat \ {0} /\ MaxRequests \in Nat

AllRoles == "All roles"   \* the label for a policy without target roles
NoKey == 0                \* no selection
LocalKey(n) == MaxPolicies + n       \* `local-${Date.now()}`
NewKey == MaxPolicies + MaxRequests + 1  \* NEW_POLICY_KEY

\* isPersistedPolicyKey
IsPersisted(key) == key \in 1 .. MaxPolicies

\* mapPolicyRecord
PolicyRow(id, stored) ==
  [key |-> id, name |-> stored.name,
   roles |-> IF stored.targets = {} THEN {AllRoles} ELSE stored.targets,
   status |-> IF stored.active THEN "active" ELSE "inactive",
   hasKey |-> stored.secret]

\* The elements of s that are in S, in the order of s.
OnlyIn(s, S) ==
  LET kept[n \in 0 .. Len(s)] ==
        IF n = 0 THEN <<>> ELSE IF s[n] \in S THEN Append(kept[n - 1], s[n]) ELSE kept[n - 1]
  IN kept[Len(s)]

\* list_policies: the active ones first, then the newest.
ListPolicies(table) ==
  LET newest == [i \in 1 .. MaxPolicies |-> MaxPolicies + 1 - i]
      those(active) == OnlyIn(newest, {i \in DOMAIN table : table[i].active = active})
      ids == those(TRUE) \o those(FALSE)
  IN [i \in DOMAIN ids |-> PolicyRow(ids[i], table[ids[i]])]
PolicyList == ListPolicies(db)

Rows(s) == {s[i] : i \in DOMAIN s}
KeysOf(s) == {s[i].key : i \in DOMAIN s}
RowWith(s, key) == CHOOSE r \in Rows(s) : r.key = key
FirstKey(s, default) == IF s = <<>> THEN default ELSE s[1].key

-----------------------------------------------------------------------------
(* The editor *)

\* createEmptyEditorValues
EmptyValues == [name |-> "", roles |-> {}, typed |-> FALSE]

\* Mutant of EditorValues: the roles are not taken over.
EditorValuesNoRoles(row) == [name |-> row.name, roles |-> {}, typed |-> FALSE]

\* policyToEditorValues: the field for the API key is always empty.
EditorValues(row) == [name |-> row.name, roles |-> row.roles, typed |-> FALSE]

Selected(s, key) == IF key \in KeysOf(s) THEN {RowWith(s, key)} ELSE {}
FormFor(s, key) ==
  IF Selected(s, key) = {} THEN EmptyValues ELSE EditorValues(CHOOSE r \in Selected(s, key) : TRUE)

Changed(s, t) == {r.key : r \in Rows(t) \ Rows(s)}

\* Mutant of Rendered: the form effect looks at the key only.
RenderedByKey(s, key, fresh, u) ==
  IF key # ui.selected
  THEN [u EXCEPT !.selected = key, !.form = FormFor(s, key), !.edited = FALSE]
  ELSE [u EXCEPT !.selected = key]

\* The rows s are rendered with the selection key, starting from u; the rows of
\* the keys in fresh are new objects.  The form effect runs when the selected
\* record is another object.
Rendered(s, key, fresh, u) ==
  LET was == ui.selected \in KeysOf(rows)
      is == key \in KeysOf(s)
  IN IF \/ was /\ ~ is
        \/ is /\ (~ was \/ key # ui.selected \/ key \in fresh)
     THEN [u EXCEPT !.selected = key, !.form = FormFor(s, key), !.edited = FALSE]
     ELSE [u EXCEPT !.selected = key]

\* buildPolicyRecord
LocalRecord(values, current, key) ==
  [key |-> key, name |-> values.name, roles |-> values.roles,
   status |-> IF current = {} THEN "draft" ELSE (CHOOSE r \in current : TRUE).status,
   hasKey |-> values.typed \/ \E r \in current : r.hasKey]

\* upsertLocalPolicy
Upsert(s, record) ==
  IF record.key \in KeysOf(s) THEN [i \in DOMAIN s |-> IF s[i].key = record.key THEN record ELSE s[i]]
  ELSE <<record>> \o s

\* applyLocalPolicyState
WithState(s, key, action) ==
  [i \in DOMAIN s |->
     CASE s[i].key = key -> [s[i] EXCEPT !.status = IF action = "deactivate" THEN "inactive" ELSE "active"]
       [] s[i].key # key /\ action = "set_active" /\ s[i].status = "active" -> [s[i] EXCEPT !.status = "inactive"]
       [] OTHER -> s[i]]

-----------------------------------------------------------------------------
(* Handlers, up to their first await *)

\* loadPolicies
LoadPolicies ==
  /\ ~ ui.loading
  /\ sent < MaxRequests
  /\ sent' = sent + 1
  /\ running' = running \cup {[Handler("load", NoArg) EXCEPT !.try = 0]}
  /\ ui' = [ui EXCEPT !.loading = TRUE]
  /\ crossed' = (crossed \/ running # {})
  /\ said' = Silent
  /\ UNCHANGED <<page, db, rows, api, listed>>

SelectPolicy(key) ==
  /\ key \in KeysOf(rows) /\ key # ui.selected
  /\ ui' = Rendered(rows, key, {}, ui)
  /\ UNCHANGED <<page, db, rows, api, running, sent, crossed, said, listed>>

\* handleCreateNew
CreateNew ==
  /\ ui' = [ui EXCEPT !.selected = NewKey, !.form = EmptyValues, !.edited = FALSE]
  /\ ui' # ui
  /\ UNCHANGED <<page, db, rows, api, running, sent, crossed, said, listed>>

EditForm(values) ==
  /\ ~ ui.edited /\ values # ui.form
  /\ ui' = [ui EXCEPT !.form = values, !.edited = TRUE]
  /\ UNCHANGED <<page, db, rows, api, running, sent, crossed, said, listed>>

\* handleSave
SavePolicy ==
  LET current == Selected(rows, ui.selected)
      key == IF current = {} THEN LocalKey(sent + 1) ELSE ui.selected
      record == LocalRecord(ui.form, current, key)
      live == api = "live" /\ (current = {} \/ IsPersisted(key))
  IN /\ ~ ui.saving /\ ui.form.name # ""
     /\ IF live
        THEN /\ Start("save", [key |-> key, new |-> current = {}, values |-> ui.form,
                               edited |-> ui.edited, record |-> record])
             /\ ui' = [ui EXCEPT !.saving = TRUE]
             /\ UNCHANGED <<page, db, rows, api, listed>>
        ELSE /\ Start("local", NoArg) /\ running' = running
             /\ rows' = Upsert(rows, record)
             /\ ui' = Rendered(rows', key, {key}, ui)
             /\ api' = "mock"
             /\ UNCHANGED <<page, db, listed>>

\* handleStateAction up to its await; the click also reaches the table row,
\* which is selected.
StateAction(key, action) ==
  LET live == api = "live" /\ IsPersisted(key)
  IN /\ key \in KeysOf(rows)
     /\ (action = "deactivate") = (RowWith(rows, key).status = "active")
     /\ ui.pending[key] # action
     /\ IF live
        THEN /\ Start("state", [key |-> key, action |-> action])
             /\ ui' = Rendered(rows, key, {}, [ui EXCEPT !.pending[key] = action])
             /\ UNCHANGED <<page, db, rows, api, listed>>
        ELSE /\ Start("local", NoArg) /\ running' = running
             /\ rows' = WithState(rows, key, action)
             /\ ui' = Rendered(rows', key, Changed(rows, rows'), [ui EXCEPT !.pending[key] = "none"])
             /\ api' = "mock"
             /\ UNCHANGED <<page, db, listed>>

\* handleDeletePolicy up to its await.  The click on Delete has selected the row,
\* but the selection may have moved before it was confirmed.
DeleteAction(key) ==
  LET live == api = "live" /\ IsPersisted(key)
      others == OnlyIn(rows, {r \in Rows(rows) : r.key # key})
  IN /\ key \in KeysOf(rows) /\ ui.deleting # key
     /\ IF live
        THEN /\ Start("delete", [key |-> key])
             /\ ui' = [ui EXCEPT !.deleting = key]
             /\ UNCHANGED <<page, db, rows, api, listed>>
        ELSE /\ Start("local", NoArg) /\ running' = running
             /\ rows' = others
             /\ ui' = Rendered(others, IF ui.selected = key THEN FirstKey(others, NoKey) ELSE ui.selected, {},
                               [ui EXCEPT !.deleting = NoKey])
             /\ api' = "mock"
             /\ UNCHANGED <<page, db, listed>>

-----------------------------------------------------------------------------
(* The backend *)

Free == (1 .. MaxPolicies) \ DOMAIN db

\* buildPolicyPayload: the rules hold an API key only if one was typed.
PolicyPayload(values) == [name |-> values.name, targets |-> values.roles, secret |-> values.typed]

\* create_policy makes an active policy; update_policy replaces the rules of a
\* stored one by those of the request.
Saved(arg) ==
  LET id == IF arg.new THEN CHOOSE i \in Free : \A j \in Free : i <= j ELSE arg.key
      asked == PolicyPayload(arg.values)
      stored == [name |-> asked.name, targets |-> asked.targets, secret |-> asked.secret,
                 active |-> IF arg.new THEN TRUE ELSE db[id].active]
  IN [i \in DOMAIN db \cup {id} |-> IF i = id THEN stored ELSE db[i]]

\* set_policy_activation looks at is_active and not at set_active.
Activated(arg) == [db EXCEPT ![arg.key].active = arg.action # "deactivate"]
Deleted(arg) == [i \in DOMAIN db \ {arg.key} |-> db[i]]

Stored(arg) == arg.key \in DOMAIN db

\* The requests of a handler that the backend can serve: the other paths that
\* updatePolicyState and savePolicy try do not exist there and are left out.
Tries(op) == IF op = "state" THEN 2 ELSE 1

ServePolicy(h) ==
  \/ /\ h.op = "save" /\ (IF h.arg.new THEN Free # {} ELSE Stored(h.arg))
     /\ ServeChange(h, {"ok", "lost", "failed"}, Saved(h.arg))
  \/ h.op = "state" /\ Stored(h.arg) /\ ServeChange(h, {"ok", "lost", "failed"}, Activated(h.arg))
  \/ h.op = "delete" /\ Stored(h.arg) /\ ServeChange(h, {"ok", "lost", "failed"}, Deleted(h.arg))
  \/ /\ h.op = "save" /\ h.arg.new /\ Free = {} /\ ServeChange(h, {"failed"}, db)
  \/ /\ h.op \in {"save", "state", "delete"} /\ (h.op = "save" => ~ h.arg.new) /\ ~ Stored(h.arg)
     /\ ServeChange(h, {"missing"}, db)
  \/ ServeList(h, PolicyList)

-----------------------------------------------------------------------------
(* Handlers, after an await *)

\* A change that was not the last attempt, or was accepted, leads to a request.
GoesOn(h) ==
  /\ Answered(h) /\ h.try > 0
  /\ IF h.answer = "ok" THEN AskList(h) ELSE h.try < Tries(h.op) /\ AskAgain(h)
  /\ UNCHANGED <<page, db, rows, api, ui, sent, crossed, said, listed>>

Final(h) == Answered(h) /\ (h.try = 0 \/ (h.answer # "ok" /\ h.try >= Tries(h.op)))
ChangeAnswer(h) == IF h.try = 0 THEN "ok" ELSE h.answer
Refreshed(h) == GetPolicies(h.answer, h.list)

PoliciesLoaded(h) ==
  /\ h.op = "load" /\ Final(h)
  /\ ShowList(h, Refreshed(h))
  /\ ui' = [Rendered(rows', IF ui.selected = NewKey \/ ui.selected \in KeysOf(rows') THEN ui.selected
                            ELSE FirstKey(rows', NoKey), KeysOf(rows'), ui) EXCEPT !.loading = FALSE]
  /\ Ends(h)
  /\ UNCHANGED <<page, db, sent, crossed, said>>

Matching(s, arg) ==
  SelectSeq(s, LAMBDA r : (~ arg.new /\ r.key = arg.key) \/ r.name = arg.values.name)

\* handleSave; the saved policy is looked for by its key or its name.
PolicySaved(h) ==
  LET result == AttemptPolicyMutation(ChangeAnswer(h), Refreshed(h))
  IN /\ h.op = "save" /\ Final(h)
     /\ \/ /\ result.data # {}
           /\ ShowList(h, result)
           /\ ui' = [Rendered(rows', FirstKey(Matching(rows', h.arg), FirstKey(rows', NewKey)), KeysOf(rows'), ui)
                       EXCEPT !.saving = FALSE]
           /\ Say(h, "success")
        \/ /\ result.data = {}
           /\ rows' = Upsert(rows, h.arg.record)
           /\ ui' = [Rendered(rows', h.arg.key, {h.arg.key}, ui) EXCEPT !.saving = FALSE]
           /\ api' = result.source
           /\ Say(h, "not")
           /\ UNCHANGED listed
     /\ Ends(h)
     /\ UNCHANGED <<page, db, sent, crossed>>

\* Mutant of StateChanged: the API status stays what it was.
StateChangedStillLive(h) ==
  LET result == AttemptPolicyMutation(ChangeAnswer(h), Refreshed(h))
      settled == [ui EXCEPT !.pending[h.arg.key] = "none"]
  IN /\ h.op = "state" /\ Final(h)
     /\ \/ /\ result.data # {}
           /\ ShowList(h, result)
           /\ Say(h, "success")
        \/ /\ result.data = {}
           /\ rows' = WithState(rows, h.arg.key, h.arg.action)
           /\ Say(h, "not")
           /\ UNCHANGED <<api, listed>>
     /\ ui' = Rendered(rows', ui.selected, IF result.data = {} THEN Changed(rows, rows') ELSE KeysOf(rows'), settled)
     /\ Ends(h)
     /\ UNCHANGED <<page, db, sent, crossed>>

\* Mutant of StateChanged: a failure returns before the button is released.
StateChangedStaysPending(h) ==
  LET result == AttemptPolicyMutation(ChangeAnswer(h), Refreshed(h))
      settled == IF result.data = {} THEN ui ELSE [ui EXCEPT !.pending[h.arg.key] = "none"]
  IN /\ h.op = "state" /\ Final(h)
     /\ \/ /\ result.data # {}
           /\ ShowList(h, result)
           /\ Say(h, "success")
        \/ /\ result.data = {}
           /\ rows' = WithState(rows, h.arg.key, h.arg.action)
           /\ api' = result.source
           /\ Say(h, "not")
           /\ UNCHANGED listed
     /\ ui' = Rendered(rows', ui.selected, IF result.data = {} THEN Changed(rows, rows') ELSE KeysOf(rows'), settled)
     /\ Ends(h)
     /\ UNCHANGED <<page, db, sent, crossed>>

\* handleStateAction
StateChanged(h) ==
  LET result == AttemptPolicyMutation(ChangeAnswer(h), Refreshed(h))
      settled == [ui EXCEPT !.pending[h.arg.key] = "none"]
  IN /\ h.op = "state" /\ Final(h)
     /\ \/ /\ result.data # {}
           /\ ShowList(h, result)
           /\ Say(h, "success")
        \/ /\ result.data = {}
           /\ rows' = WithState(rows, h.arg.key, h.arg.action)
           /\ api' = result.source
           /\ Say(h, "not")
           /\ UNCHANGED listed
     /\ ui' = Rendered(rows', ui.selected, IF result.data = {} THEN Changed(rows, rows') ELSE KeysOf(rows'), settled)
     /\ Ends(h)
     /\ UNCHANGED <<page, db, sent, crossed>>

\* handleDeletePolicy
PolicyDeleted(h) ==
  LET result == DeletePolicy(ChangeAnswer(h), Refreshed(h))
      settled == [ui EXCEPT !.deleting = NoKey]
  IN /\ h.op = "delete" /\ Final(h)
     /\ \/ /\ result.data # {}
           /\ ShowList(h, result)
           /\ ui' = Rendered(rows', IF ui.selected = h.arg.key THEN FirstKey(rows', NoKey) ELSE ui.selected,
                             KeysOf(rows'), settled)
           /\ Say(h, "success")
        \/ /\ result.data = {}
           /\ ui' = settled
           /\ api' = result.source
           /\ Say(h, "not")
           /\ UNCHANGED <<rows, listed>>
     /\ Ends(h)
     /\ UNCHANGED <<page, db, sent, crossed>>

-----------------------------------------------------------------------------
PolicyKey == 1 .. MaxPolicies + MaxRequests

PolicyInit ==
  /\ \E targets \in StoredRoles :
       Opened("policies", [i \in {1} |-> [name |-> "p", targets |-> targets, secret |-> TRUE, active |-> TRUE]], <<>>, NoArg)
  /\ ui = [selected |-> NoKey, form |-> EmptyValues, edited |-> FALSE, saving |-> FALSE,
           loading |-> TRUE, deleting |-> NoKey, pending |-> [k \in PolicyKey |-> "none"]]

PolicyUser ==
  \/ LoadPolicies \/ CreateNew \/ SavePolicy
  \/ \E key \in PolicyKey :
       \/ SelectPolicy(key) \/ DeleteAction(key)
       \/ \E action \in {"activate", "deactivate", "set_active"} : StateAction(key, action)
  \/ \E values \in Edits : EditForm(values)

PolicyAnswered(h) ==
  GoesOn(h) \/ PoliciesLoaded(h) \/ PolicySaved(h) \/ StateChanged(h) \/ PolicyDeleted(h)
PolicyHandles == \E h \in running : ServePolicy(h) \/ PolicyAnswered(h)

PolicyNext == page = "policies" /\ (PolicyUser \/ PolicyHandles)

-----------------------------------------------------------------------------
\* Policies: while the status says live, every row that is shown came from the
\* backend in the last list, however changes that failed, changes made in the
\* page only and reloads overlap.
LiveRowsWereServed == page = "policies" /\ api = "live" => rows = listed

\* A form that the user has not touched shows the selected policy as the table
\* does, whatever answers have replaced the rows: what is saved is what was seen.
FormShowsRow ==
  page = "policies" /\ ~ ui.edited => ui.form = FormFor(rows, ui.selected)

\* A user who waits for each answer and saves a policy that has target roles
\* without touching the form does not change whom it targets.  (A policy without
\* target roles then targets the role named by AllRoles.  Without waiting, the
\* list of an older reload may arrive after a save, and saving what it shows puts
\* the old roles back.)
UntouchedSaveKeepsScope ==
  [][ page = "policies" /\ ~ crossed => \A h \in running \ running' :
        h.op = "save" /\ ~ h.arg.new /\ ~ h.arg.edited /\ h.arg.key \in DOMAIN db \cap DOMAIN db'
          /\ db[h.arg.key].targets # {}
        => db'[h.arg.key].targets = db[h.arg.key].targets ]_vars

\* The hint under the key field: an empty field keeps the stored key.
StoredKeyStands ==
  [][ page = "policies" => \A h \in running \ running' :
        h.op = "save" /\ ~ h.arg.new /\ ~ h.arg.values.typed /\ h.arg.key \in DOMAIN db \cap DOMAIN db'
          /\ db[h.arg.key].secret
        => db'[h.arg.key].secret ]_vars
==============================================================================
