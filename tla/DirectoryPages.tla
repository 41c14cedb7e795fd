----------------------------- MODULE DirectoryPages -----------------------------
(***************************************************************************)
(* The employee directory and the device list.  Employees are created,     *)
(* edited and imported in dialogs, and deleted and exported from the page; *)
(* every change but an export is followed by the new list.  Devices issues *)
(* agent tokens, whose plaintext one answer and one dialog show, and       *)
(* revokes them; it changes the row of an issued token by itself.          *)
(***************************************************************************)
EXTENDS ConsolePage

CONSTANTS
  Employee,    \* employee numbers
  Name,        \* names an employee may have
  Sheet,       \* the CSV files: sets of employee numbers
  Device       \* devices

-----------------------------------------------------------------------------
(* Employees *)

\* A deleted employee stays in the table of the backend.
EmployeeList == {[key |-> e, status |-> db[e].name] : e \in {e \in Employee : db[e].state = "active"}}

NoDialog == ~ ui.importOpen /\ ui.editor = {}
Unchanged == UNCHANGED <<page, db, rows, api, running, sent, crossed, said, listed>>

\* loadEmployees; its button can be clicked again at any time.
LoadEmployees ==
  /\ NoDialog
  /\ sent < MaxRequests
  /\ sent' = sent + 1
  /\ running' = running \cup {[Handler("load", NoArg) EXCEPT !.try = 0]}
  /\ crossed' = (crossed \/ running # {})
  /\ said' = Silent
  /\ UNCHANGED <<page, db, rows, api, ui, listed>>

\* handleExport up to its await.
Export ==
  /\ ~ ui.exporting /\ NoDialog
  /\ Start("export", NoArg)
  /\ ui' = [ui EXCEPT !.exporting = TRUE]
  /\ UNCHANGED <<page, db, rows, api, listed>>

\* buildEmployeeImportAttempts: pasted text is sent in four forms, a file in one.
Attempts(source) == IF source = "pasted" THEN 4 ELSE 1

OpenImport ==
  /\ NoDialog
  /\ ui' = [ui EXCEPT !.importOpen = TRUE]
  /\ Unchanged

\* handleImport up to its first await.
Import(sheet, source) ==
  /\ ui.importOpen /\ ~ ui.importing
  /\ Start("import", [key |-> 0, sheet |-> sheet, tries |-> Attempts(source)])
  /\ ui' = [ui EXCEPT !.importing = TRUE]
  /\ UNCHANGED <<page, db, rows, api, listed>>

CancelImport ==
  /\ ui.importOpen /\ ~ ui.importing
  /\ ui' = [ui EXCEPT !.importOpen = FALSE]
  /\ Unchanged

\* openCreateEditor, openEditEditor
OpenEditor(record) ==
  /\ NoDialog /\ record \subseteq rows
  /\ ui' = [ui EXCEPT !.editor = {record}]
  /\ Unchanged

\* handleSaveEmployee up to its await; the number of a record is not edited.
SaveEmployee(number, name) ==
  \E record \in ui.editor :
    /\ ~ ui.saving
    /\ record # {} => \E r \in record : r.key = number
    /\ Start("employee", [key |-> number, new |-> record = {}, name |-> name])
    /\ ui' = [ui EXCEPT !.saving = TRUE]
    /\ UNCHANGED <<page, db, rows, api, listed>>

CancelEditor ==
  /\ ui.editor # {} /\ ~ ui.saving
  /\ ui' = [ui EXCEPT !.editor = {}]
  /\ Unchanged

\* handleDeleteEmployee up to its await: the mark of another row moves here.
DeleteEmployee(e) ==
  /\ NoDialog /\ \E r \in rows : r.key = e
  /\ ui.deleting # {e}
  /\ Start("remove", [key |-> e])
  /\ ui' = [ui EXCEPT !.deleting = {e}]
  /\ UNCHANGED <<page, db, rows, api, listed>>

\* create_employee (which revives a deleted one), update_employee, delete_employee
\* and import_employees_csv (which leaves a deleted one deleted).
Created(arg) == [db EXCEPT ![arg.key] = [name |-> arg.name, state |-> "active"]]
Renamed(arg) == [db EXCEPT ![arg.key].name = arg.name]
Removed(arg) == [db EXCEPT ![arg.key].state = "deleted"]
Imported(arg) ==
  [e \in Employee |->
     IF e \in arg.sheet
     THEN [name |-> CHOOSE n \in Name : TRUE, state |-> IF db[e].state = "absent" THEN "active" ELSE db[e].state]
     ELSE db[e]]

Rejected(h) ==
  \/ h.op = "employee" /\ h.arg.new = (db[h.arg.key].state = "active")
  \/ h.op = "remove" /\ db[h.arg.key].state # "active"

ServeEmployees(h) ==
  \/ h.op = "export" /\ ServeChange(h, {"ok", "denied", "lost"}, db)
  \/ h.op = "import" /\ ServeChange(h, {"ok", "invalid", "lost"}, Imported(h.arg))
  \/ h.op \in {"employee", "remove"} /\ Rejected(h) /\ ServeChange(h, {"invalid"}, db)
  \/ /\ h.op = "employee" /\ ~ Rejected(h)
     /\ ServeChange(h, {"ok", "denied", "lost"}, IF h.arg.new THEN Created(h.arg) ELSE Renamed(h.arg))
  \/ h.op = "remove" /\ ~ Rejected(h) /\ ServeChange(h, {"ok", "denied", "lost"}, Removed(h.arg))
  \/ h.op \in {"load", "import", "employee", "remove"} /\ ServeList(h, EmployeeList)

\* importEmployees goes on to its next attempt; a change is followed by the list.
EmployeesGoOn(h) ==
  /\ Answered(h) /\ h.try > 0
  /\ \/ h.op \in {"import", "employee", "remove"} /\ h.answer = "ok" /\ AskList(h)
     \/ h.op = "import" /\ h.answer # "ok" /\ h.try < h.arg.tries /\ AskAgain(h)
  /\ UNCHANGED <<page, db, rows, api, ui, sent, crossed, said, listed>>

EmployeesLoaded(h) ==
  /\ h.op = "load" /\ Answered(h)
  /\ ShowList(h, GetEmployees(h.answer, h.list))
  /\ Ends(h)
  /\ UNCHANGED <<page, db, ui, sent, crossed, said>>

\* handleExport after its await.
Exported(h) ==
  /\ h.op = "export" /\ Answered(h)
  /\ Say(h, IF ExportEmployees(h.answer).data = {} THEN "not" ELSE "success")
  /\ ui' = [ui EXCEPT !.exporting = FALSE]
  /\ Ends(h)
  /\ UNCHANGED <<page, db, rows, api, sent, crossed, listed>>

\* handleImport after the import, and after the list it waits for.
ImportSettled(h) ==
  /\ h.op = "import" /\ Answered(h)
  /\ \/ /\ h.try > 0 /\ h.answer # "ok" /\ h.try = h.arg.tries
        /\ ui' = [ui EXCEPT !.importing = FALSE]
        /\ Say(h, "not")
        /\ UNCHANGED <<rows, api, listed>>
     \/ /\ h.try = 0
        /\ ShowList(h, GetEmployees(h.answer, h.list))
        /\ ui' = [ui EXCEPT !.importing = FALSE, !.importOpen = FALSE]
        /\ Say(h, "success")
  /\ Ends(h)
  /\ UNCHANGED <<page, db, sent, crossed>>

EmployeeResult(h) == AttemptEmployeeMutation(IF h.try = 0 THEN "ok" ELSE h.answer, GetEmployees(h.answer, h.list))
EmployeeFinal(h) == Answered(h) /\ (h.try = 0 \/ h.answer # "ok")

\* handleSaveEmployee after its await.
EmployeeSaved(h) ==
  LET result == EmployeeResult(h)
  IN /\ h.op = "employee" /\ EmployeeFinal(h)
     /\ \/ /\ result.data # {}
           /\ ShowList(h, result)
           /\ ui' = [ui EXCEPT !.saving = FALSE, !.editor = {}]
           /\ Say(h, "success")
        \/ /\ result.data = {}
           /\ api' = result.source
           /\ ui' = [ui EXCEPT !.saving = FALSE]
           /\ Say(h, "not")
           /\ UNCHANGED <<rows, listed>>
     /\ Ends(h)
     /\ UNCHANGED <<page, db, sent, crossed>>

\* handleDeleteEmployee after its await: the mark goes, whosever it is.
EmployeeDeleted(h) ==
  LET result == EmployeeResult(h)
  IN /\ h.op = "remove" /\ EmployeeFinal(h)
     /\ \/ result.data # {} /\ ShowList(h, result) /\ Say(h, "success")
        \/ result.data = {} /\ api' = result.source /\ Say(h, "not") /\ UNCHANGED <<rows, listed>>
     /\ ui' = [ui EXCEPT !.deleting = {}]
     /\ Ends(h)
     /\ UNCHANGED <<page, db, sent, crossed>>

EmployeesInit ==
  /\ \E e \in Employee :
       Opened("employees", [k \in Employee |-> [name |-> CHOOSE n \in Name : TRUE,
                                                state |-> IF k = e THEN "active" ELSE "absent"]], {}, NoArg)
  /\ ui = [exporting |-> FALSE, importOpen |-> FALSE, importing |-> FALSE, editor |-> {}, saving |-> FALSE,
           deleting |-> {}]

EmployeesUser ==
  \/ LoadEmployees \/ Export \/ OpenImport \/ CancelImport \/ CancelEditor \/ OpenEditor({})
  \/ \E sheet \in Sheet, source \in {"pasted", "file"} : Import(sheet, source)
  \/ \E r \in rows : OpenEditor({r}) \/ DeleteEmployee(r.key)
  \/ \E e \in Employee, name \in Name : SaveEmployee(e, name)

EmployeesHandles ==
  \E h \in running :
    ServeEmployees(h) \/ EmployeesGoOn(h) \/ EmployeesLoaded(h) \/ Exported(h) \/ ImportSettled(h)
      \/ EmployeeSaved(h) \/ EmployeeDeleted(h)
EmployeesNext == page = "employees" /\ (EmployeesUser \/ EmployeesHandles)

-----------------------------------------------------------------------------
(* Devices *)

\* The secret of a device is the number of the handler it was made for, 0 before
\* the first.
DeviceRow(d) == [key |-> d, token |-> db[d].secret > 0, revoked |-> db[d].revoked]
DeviceList == {DeviceRow(d) : d \in Device}

\* isDeviceTokenActive
TokenActive(row) == row.token /\ ~ row.revoked

\* loadDevices
LoadDevices ==
  /\ ~ ui.loading /\ ui.issued = {} /\ ui.revoke = {}
  /\ sent < MaxRequests
  /\ sent' = sent + 1
  /\ running' = running \cup {[Handler("load", NoArg) EXCEPT !.try = 0]}
  /\ crossed' = (crossed \/ running # {})
  /\ said' = Silent
  /\ ui' = [ui EXCEPT !.loading = TRUE]
  /\ UNCHANGED <<page, db, rows, api, listed>>

\* Mutant of IssueToken: its button clicks while it is loading.
IssueTokenTwice(row) ==
  /\ row \in rows /\ ui.issued = {} /\ ui.revoke = {}
  /\ Start("issue", [key |-> row.key])
  /\ ui' = [ui EXCEPT !.pending = {[key |-> row.key, type |-> "issue"]}]
  /\ UNCHANGED <<page, db, rows, api, listed>>

\* The buttons of the rows, and handleIssueToken up to its await: no button works
\* while a token is issued or revoked.
IssueToken(row) ==
  /\ row \in rows /\ ui.issued = {} /\ ui.revoke = {}
  /\ ui.pending = {}
  /\ Start("issue", [key |-> row.key])
  /\ ui' = [ui EXCEPT !.pending = {[key |-> row.key, type |-> "issue"]}]
  /\ UNCHANGED <<page, db, rows, api, listed>>

OpenRevoke(row) ==
  /\ row \in rows /\ TokenActive(row)
  /\ ui.issued = {} /\ ui.revoke = {} /\ ui.pending = {}
  /\ ui' = [ui EXCEPT !.revoke = {row.key}]
  /\ Unchanged

CancelRevoke ==
  /\ ui.revoke # {} /\ ui.pending = {}
  /\ ui' = [ui EXCEPT !.revoke = {}]
  /\ Unchanged

\* handleRevokeToken up to its first await.
RevokeToken ==
  \E d \in ui.revoke :
    /\ ui.pending = {}
    /\ Start("revoke", [key |-> d])
    /\ ui' = [ui EXCEPT !.pending = {[key |-> d, type |-> "revoke"]}]
    /\ UNCHANGED <<page, db, rows, api, listed>>

\* The user closes the dialog with the token, or its 60 seconds are over.
ClearIssuedToken ==
  /\ ui.issued # {}
  /\ ui' = [ui EXCEPT !.issued = {}]
  /\ Unchanged

\* issue_device_agent_token: the secret of an earlier token is replaced.
Issued(h) == [db EXCEPT ![h.arg.key] = [secret |-> h.n, revoked |-> FALSE]]
Revoked(arg) == [db EXCEPT ![arg.key].revoked = TRUE]

ServeDevices(h) ==
  \/ h.op = "issue" /\ ServeChange(h, {"ok", "denied", "missing", "failed", "lost"}, Issued(h))
  \/ h.op = "revoke" /\ ServeChange(h, {"ok", "denied", "missing", "failed", "lost"}, Revoked(h.arg))
  \/ h.op \in {"load", "revoke"} /\ ServeList(h, DeviceList)

DevicesGoOn(h) ==
  /\ h.op = "revoke" /\ h.try > 0 /\ h.answer = "ok"
  /\ AskList(h)
  /\ ui' = [ui EXCEPT !.loading = TRUE]
  /\ UNCHANGED <<page, db, rows, api, sent, crossed, said, listed>>

DevicesLoaded(h) ==
  /\ h.op = "load" /\ Answered(h)
  /\ ShowList(h, GetDevices(h.answer, h.list))
  /\ ui' = [ui EXCEPT !.loading = FALSE]
  /\ Ends(h)
  /\ UNCHANGED <<page, db, sent, crossed, said>>

\* handleIssueToken after its await: the token is shown, and the row changed as
\* the backend has changed it.
TokenIssued(h) ==
  LET result == IssueDeviceAgentToken(h.answer, h.n)
      now(row) == IF row.key = h.arg.key THEN [row EXCEPT !.token = TRUE, !.revoked = FALSE] ELSE row
  IN /\ h.op = "issue" /\ Answered(h)
     /\ \/ /\ result.data # {}
           /\ rows' = {now(row) : row \in rows}
           /\ ui' = [ui EXCEPT !.pending = {}, !.issued = {[key |-> h.arg.key, secret |-> h.n]}]
           /\ Say(h, "success")
        \/ /\ result.data = {}
           /\ rows' = rows
           /\ ui' = [ui EXCEPT !.pending = {}]
           /\ Say(h, "not")
     /\ Ends(h)
     /\ UNCHANGED <<page, db, api, sent, crossed, listed>>

\* handleRevokeToken after its awaits: a refusal leaves the dialog open.
TokenRevoked(h) ==
  /\ h.op = "revoke" /\ Answered(h)
  /\ \/ /\ h.try > 0 /\ RevokeDeviceAgentToken(h.answer).data = {}
        /\ ui' = [ui EXCEPT !.pending = {}]
        /\ Say(h, "not")
        /\ UNCHANGED <<rows, api, listed>>
     \/ /\ h.try = 0
        /\ ShowList(h, GetDevices(h.answer, h.list))
        /\ ui' = [ui EXCEPT !.pending = {}, !.loading = FALSE, !.revoke = {}]
        /\ Say(h, "success")
  /\ Ends(h)
  /\ UNCHANGED <<page, db, sent, crossed>>

DevicesInit ==
  /\ Opened("devices", [d \in Device |-> [secret |-> 0, revoked |-> FALSE]], {}, NoArg)
  /\ ui = [loading |-> TRUE, issued |-> {}, revoke |-> {}, pending |-> {}]

DevicesUser ==
  \/ LoadDevices \/ CancelRevoke \/ RevokeToken \/ ClearIssuedToken
  \/ \E row \in rows : IssueToken(row) \/ OpenRevoke(row)

DevicesHandles ==
  \E h \in running :
    ServeDevices(h) \/ DevicesGoOn(h) \/ DevicesLoaded(h) \/ TokenIssued(h) \/ TokenRevoked(h)
DevicesNext == page = "devices" /\ (DevicesUser \/ DevicesHandles)

-----------------------------------------------------------------------------
\* Devices: the token in the dialog is the one the device can log in with: the
\* last one that was issued for it, whichever answers came late or were lost.
ShownTokenIsCurrent ==
  page = "devices" => \A shown \in ui.issued : db[shown.key].secret = shown.secret
==============================================================================
