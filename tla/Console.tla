-------------------------------- MODULE Console --------------------------------
(***************************************************************************)
(* The admin console with the page that is open: policies, events,         *)
(* attendance, employees or devices.  What the pages promise alike is      *)
(* stated here once for all of them.                                       *)
(***************************************************************************)
EXTENDS PolicyPage, ReviewPages, DirectoryPages

Init == PolicyInit \/ EventsInit \/ AttendanceInit \/ EmployeesInit \/ DevicesInit

Next == PolicyNext \/ EventsNext \/ AttendanceNext \/ EmployeesNext \/ DevicesNext

\* Requests are served or given up, and their answers are handled.
Handles ==
  \/ page = "policies" /\ PolicyHandles
  \/ page = "events" /\ EventsHandles
  \/ page = "attendance" /\ AttendanceHandles
  \/ page = "employees" /\ EmployeesHandles
  \/ page = "devices" /\ DevicesHandles

Spec == Init /\ [][Next]_vars /\ WF_vars(Handles)

-----------------------------------------------------------------------------
\* What a page says of a change is true of the backend: a success has happened
\* there, a creation once; and unless an answer was lost, "not" (saved, deleted,
\* changed) and "locally only" mean that nothing has.
SaysWhatHappened ==
  /\ said.kind = "success" => said.times >= 1
  /\ said.kind \in {"not", "unchanged", "locally"} /\ ~ said.lost => said.times = 0
  /\ said.op \in {"save", "employee"} /\ said.arg.new => said.times <= 1

\* The list that the backend would send to the page now.
BackendList ==
  CASE page = "policies" -> PolicyList
    [] page = "events" -> EventList(ui.filter)
    [] page = "attendance" -> AttendanceList
    [] page = "employees" -> EmployeeList
    [] page = "devices" -> DeviceList

\* A user who waits for each answer sees, after a success whose status is live,
\* the backend's rows; or its row of the device, when a token was issued and the
\* page has changed the row by itself.
Of(s, key) == {r \in s : r.key = key}
SettledRowsAreBackends ==
  running = {} /\ ~ crossed /\ said.kind = "success" /\ api = "live" =>
    CASE said.op \in {"rule", "export"} -> TRUE
      [] said.op = "issue" -> Of(rows, said.arg.key) = Of(BackendList, said.arg.key)
      [] OTHER -> rows = BackendList

\* Every button that waits for an answer is released.
Busy ==
  CASE page = "policies" -> ui.saving \/ ui.loading \/ \E key \in PolicyKey : ui.pending[key] # "none"
    [] page = "events" -> ui.loading \/ ui.pending # {}
    [] page = "attendance" -> ui.loading \/ ui.reviewing # {} \/ ui.ruleSaving
    [] page = "employees" -> ui.exporting \/ ui.importing \/ ui.saving \/ ui.deleting # {}
    [] page = "devices" -> ui.loading \/ ui.pending # {}
ButtonsReturn == Busy ~> ~ Busy
==============================================================================
