------------------------------ MODULE ConsoleApi ------------------------------
(***************************************************************************)
(* The client side of the backend, adminApi: what each of its functions    *)
(* returns for the answers its requests get.  No function throws; a page   *)
(* sees data or none, and a status that says where the data comes from.    *)
(* An answer is "ok", an HTTP error ("denied" 401 and 403, "missing" 404,  *)
(* "invalid" 400 and 422, "failed" any other), or "lost": the backend has  *)
(* done what was asked, and the client has given up waiting.               *)
(***************************************************************************)
EXTENDS Naturals, Sequences

Answer == {"ok", "denied", "missing", "invalid", "failed", "lost"}

\* What the backend has carried out, whatever the client knows of it.
Applied(answer) == answer \in {"ok", "lost"}

\* A result: data is empty or holds one value.
Result(data, source, label, code) == [data |-> data, source |-> source, label |-> label, code |-> code]

\* liveStatus, unavailableStatus and fallbackStatus
Live(data) == Result(data, "live", "Live API", "none")
Unavailable(data) == Result(data, "mock", "Backend unavailable", "unavailable")
Denied(data) == Result(data, "mock", "Access denied", "forbidden")

\* readErrorStatus, as the functions use it.
ErrorCode(answer) ==
  CASE answer = "denied" -> "forbidden"
    [] answer = "missing" -> "not_found"
    [] answer = "invalid" -> "invalid"
    [] OTHER -> "unavailable"

\* A successful change is followed by a request for the list, whose failure
\* makes the status one of fallback data; the (empty) list is used all the same.
AfterRefresh(refreshed) ==
  IF refreshed.source = "live" THEN Live(refreshed.data) ELSE Unavailable(refreshed.data)

-----------------------------------------------------------------------------
(* Lists.  A list that could not be loaded is an empty one; list holds the
   list of the answer. *)

GetPolicies(answer, list) == IF answer = "ok" THEN Live(list) ELSE Unavailable({<<>>})

GetEmployees(answer, list) == IF answer = "ok" THEN Live(list) ELSE Unavailable({{}})

GetDevices(answer, list) ==
  CASE answer = "ok" -> Live(list)
    [] answer = "denied" -> Denied({{}})
    [] OTHER -> Unavailable({{}})

GetEvents(answer, list) ==
  CASE answer = "ok" -> Live(list)
    [] answer = "denied" -> Denied({{}})
    [] OTHER -> Unavailable({{}})

GetAttendance(answer, list) ==
  CASE answer = "ok" -> Live(list)
    [] answer = "denied" -> Denied({{}})
    [] OTHER -> Unavailable({{}})

\* getAttendanceRules: the first endpoint that answers; the thresholds of the
\* program when none does.
GetAttendanceRules(answer, rule, default) ==
  IF answer = "ok" THEN Live(rule) ELSE Unavailable({default})

-----------------------------------------------------------------------------
(* Changes.  refreshed is the result of the list that follows. *)

\* Mutant of AttemptPolicyMutation: the list is taken for an answer.
AttemptPolicyMutationByList(answer, refreshed) == AfterRefresh(refreshed)

\* attemptPolicyMutation, with the answer to its last attempt.
AttemptPolicyMutation(answer, refreshed) ==
  IF answer = "ok" THEN AfterRefresh(refreshed) ELSE Unavailable({})

DeletePolicy(answer, refreshed) ==
  IF answer = "ok" THEN AfterRefresh(refreshed) ELSE Unavailable({})

AttemptEmployeeMutation(answer, refreshed) ==
  IF answer = "ok" THEN AfterRefresh(refreshed)
  ELSE [Unavailable({}) EXCEPT !.code = ErrorCode(answer)]

\* reviewEvent
ReviewEvent(answer, refreshed) ==
  CASE answer = "ok" -> AfterRefresh(refreshed)
    [] answer = "denied" -> Denied({})
    [] OTHER -> Unavailable({})

\* reviewAttendance
ReviewAttendance(answer, refreshed) ==
  CASE answer = "ok" -> AfterRefresh(refreshed)
    [] answer = "denied" -> Denied({})
    [] OTHER -> [Unavailable({}) EXCEPT !.code = ErrorCode(answer)]

\* updateAttendanceRule
UpdateAttendanceRule(answer, rule) ==
  CASE answer = "ok" -> Live({rule})
    [] answer = "denied" -> Denied({})
    [] OTHER -> [Unavailable({}) EXCEPT !.code = ErrorCode(answer)]

\* importEmployees: the answer to its last attempt.
ImportEmployees(answer) == IF answer = "ok" THEN Live({"summary"}) ELSE Unavailable({})

ExportEmployees(answer) == IF answer = "ok" THEN Live({"file"}) ELSE Unavailable({})

\* issueDeviceAgentToken: the token is in this answer only.
IssueDeviceAgentToken(answer, token) ==
  CASE answer = "ok" -> Live({token})
    [] answer = "denied" -> Denied({})
    [] OTHER -> [Unavailable({}) EXCEPT !.code = ErrorCode(answer)]

RevokeDeviceAgentToken(answer) ==
  CASE answer = "ok" -> Live({"revoked"})
    [] answer = "denied" -> Denied({})
    [] OTHER -> [Unavailable({}) EXCEPT !.code = ErrorCode(answer)]
==============================================================================
