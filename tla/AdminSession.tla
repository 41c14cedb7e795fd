----------------------------- MODULE AdminSession -----------------------------
(***************************************************************************)
(* The session of the admin console: what AuthContext keeps in React state *)
(* and in the browser's session storage, the handlers that change it, and  *)
(* the route guard and menu that read it.  Sign-in and the check of a      *)
(* stored session are asynchronous: each is a task that other user actions *)
(* overlap at its awaits.  The backend is external; an answer may be lost  *)
(* (the client gives up after five seconds), a token may expire.           *)
(***************************************************************************)
EXTENDS Naturals, FiniteSets

CONSTANTS
  User,         \* accounts of the backend
  Nobody,       \* in place of a user when there is none
  Grants,       \* [User -> set of permission keys]: what each account's role grants
  Task,         \* identifiers for asynchronous handlers
  NoTask,       \* in place of a task when there is none
  MaxLogins,    \* bound: tokens the backend issues
  MaxReloads,   \* bound: page reloads
  Dev           \* import.meta.env.DEV

ASSUME NobodyAssumption == Nobody \notin User
ASSUME NoTaskAssumption == NoTask \notin Task
ASSUME BoundsAssumption == MaxLogins \in Nat /\ MaxReloads \in Nat /\ Dev \in BOOLEAN
ASSUME GrantsAssumption == \A u \in User : Grants[u] \in SUBSET STRING

VARIABLES
  status,       \* AuthContext status
  session,      \* AuthContext session
  stored,       \* the session in window.sessionStorage
  mounted,      \* has the provider's effect run since the page was loaded?
  tasks,        \* the running asynchronous handlers
  waiting,      \* the task that the shown login page waits for, NoTask if none
  fallback,     \* does the login page offer the local development session?
  guard,        \* the chunk reload guard in window.sessionStorage
  issued,       \* backend: the user of each token issued, Nobody if not issued
  dead,         \* backend: the tokens that are no longer accepted
  reloads,      \* how often the page was reloaded
  intended,     \* history: the user of the last sign-in, Nobody after a log-out
  overlapped    \* history: did the user act while a task was running?

page == <<status, session, stored, waiting, fallback>>
backend == <<issued, dead>>
history == <<intended, overlapped>>
vars == <<page, mounted, tasks, guard, backend, reloads, history>>

-----------------------------------------------------------------------------
(* Sessions, identities and tokens *)

\* Token 0 stands for no token, LocalToken for one that the console made up.
LocalToken == MaxLogins + 1
Token == 1 .. LocalToken
Identity == [user : User, keys : SUBSET STRING, resolved : BOOLEAN]
NoSession == [token |-> 0, user |-> Nobody, keys |-> {}, resolved |-> FALSE, source |-> "live"]
SessionOf(token, identity, source) ==
  [token |-> token, user |-> identity.user, keys |-> identity.keys,
   resolved |-> identity.resolved, source |-> source]
IdentityOf(s) == [user |-> s.user, keys |-> s.keys, resolved |-> s.resolved]

\* What the backend says of a user: one source of permissions, those of the role.
Payload(u) == [user |-> u, sources |-> {Grants[u]}]

\* mapAuthIdentity: the union of the permission sources; resolved when there is one.
MapAuthIdentity(payload) ==
  [user |-> payload.user, keys |-> UNION payload.sources, resolved |-> payload.sources # {}]

\* mergeIdentity: the new identity, unless it says nothing of permissions.
MergeIdentity(current, next) ==
  [user |-> next.user,
   keys |-> IF next.keys # {} \/ next.resolved THEN next.keys ELSE current.keys,
   resolved |-> next.resolved \/ current.resolved]

\* What a request carrying the token may come back with.
Alive(token) == token \in 1 .. MaxLogins /\ issued[token] # Nobody /\ token \notin dead
Answers(token) == IF Alive(token) THEN {"ok", "silent"} ELSE {"denied", "silent"}

\* getCurrentUser: a 401 or 403 ends it at once; after any other failure the
\* second endpoint is tried, which this backend does not have.
CurrentUser(token, answer) ==
  CASE answer = "ok" -> [data |-> {MapAuthIdentity(Payload(issued[token]))}, unauthorized |-> FALSE]
    [] answer = "denied" -> [data |-> {}, unauthorized |-> TRUE]
    [] answer = "silent" -> [data |-> {}, unauthorized |-> FALSE]

-----------------------------------------------------------------------------
(* What the session allows *)

NavPermission ==
  [dashboard |-> {"dashboard.view"},
   realtime |-> {"screenshots.metadata.view", "dashboard.view"},
   employees |-> {"directory.view"},
   devices |-> {"directory.view"},
   timeline |-> {"screenshots.metadata.view"},
   screenshots |-> {"screenshots.metadata.view"},
   events |-> {"events.review"},
   attendance |-> {"attendance.view"},
   accessRoles |-> {"access_matrix.view"},
   policies |-> {"policies.manage"},
   auditLogs |-> {"audit_logs.view"},
   githubRisk |-> {"github_risks.view"}]
NavRoute == DOMAIN NavPermission

\* Mutant of CanAccess: all the keys are granted to a session that is signed in.
CanAccessAny(s, keys) == keys = {} \/ s.source = "live" \/ keys \cap s.keys # {}

CanAccess(s, keys) ==
  \/ keys = {}
  \/ ~ s.resolved /\ s.source = "local-dev"
  \/ s.resolved /\ keys \cap s.keys # {}

\* App: the page of a route is shown, the login page or a refusal otherwise.
RouteShown(r) ==
  /\ status = "authenticated"
  /\ ~ session.resolved \/ CanAccess(session, NavPermission[r])

\* AdminLayout: the routes in the menu.
VisibleRoutes ==
  IF session.resolved THEN {r \in NavRoute : CanAccess(session, NavPermission[r])} ELSE NavRoute

-----------------------------------------------------------------------------
(* The steps that handlers share *)

\* commitSession: storage and state change together.
Commit(s) ==
  /\ stored' = s
  /\ session' = s
  /\ status' = "authenticated"
  /\ waiting' = NoTask \* the login page navigates away
  /\ UNCHANGED fallback

\* Mutant of Clear: logout forgets the storage.
ClearState ==
  /\ session' = NoSession
  /\ status' = "unauthenticated"
  /\ UNCHANGED <<stored, fallback>>

\* logout
Clear ==
  /\ stored' = NoSession
  /\ session' = NoSession
  /\ status' = "unauthenticated"
  /\ UNCHANGED fallback

Idle == [pc |-> "idle", user |-> Nobody, base |-> NoSession, asked |-> 0]
Running == {t \in Task : tasks[t] # Idle}
Act == overlapped' = (overlapped \/ Running # {})

\* getStoredAccessToken, read when the request is sent.
StoredToken(s) == s.token
AskMe(t, pc, base) ==
  tasks' = [tasks EXCEPT ![t] = [pc |-> pc, user |-> base.user, base |-> base, asked |-> StoredToken(stored')]]

Finish(t) == tasks' = [tasks EXCEPT ![t] = Idle]

-----------------------------------------------------------------------------
(* The page is loaded *)

\* Mutant of Boot: without a stored session the effect does nothing.
BootSilent(t) ==
  /\ ~ mounted
  /\ mounted' = TRUE
  /\ UNCHANGED stored
  /\ IF stored = NoSession
     THEN UNCHANGED <<status, session, tasks>>
     ELSE /\ tasks[t] = Idle
          /\ session' = stored
          /\ UNCHANGED status
          /\ AskMe(t, "boot", stored)
  /\ UNCHANGED <<waiting, fallback, guard, backend, reloads, history>>

\* The provider's effect: a stored session is shown and checked.
Boot(t) ==
  /\ ~ mounted
  /\ mounted' = TRUE
  /\ UNCHANGED stored
  /\ IF stored = NoSession
     THEN /\ status' = "unauthenticated"
          /\ UNCHANGED <<session, tasks>>
     ELSE /\ tasks[t] = Idle
          /\ session' = stored
          /\ UNCHANGED status
          /\ AskMe(t, "boot", stored)
  /\ UNCHANGED <<waiting, fallback, guard, backend, reloads, history>>

\* Mutant of BootAnswered: the token is read from the storage after the await.
BootAnsweredLateToken(t, answer) ==
  LET base == tasks[t].base
      me == CurrentUser(tasks[t].asked, answer)
  IN /\ tasks[t].pc = "boot"
     /\ answer \in Answers(tasks[t].asked)
     /\ \/ \E next \in me.data :
             Commit(SessionOf(stored.token, MergeIdentity(IdentityOf(base), next), "live"))
        \/ /\ me.data = {} /\ ~ me.unauthorized /\ Dev
           /\ Commit([base EXCEPT !.source = "local-dev"])
        \/ /\ me.data = {} /\ (me.unauthorized \/ ~ Dev)
           /\ Clear
           /\ UNCHANGED waiting
     /\ Finish(t)
     /\ UNCHANGED <<mounted, guard, backend, reloads, history>>

\* refreshStoredSession after its await: the session it was called with is
\* committed again, whatever happened meanwhile.
BootAnswered(t, answer) ==
  LET base == tasks[t].base
      me == CurrentUser(tasks[t].asked, answer)
  IN /\ tasks[t].pc = "boot"
     /\ answer \in Answers(tasks[t].asked)
     /\ \/ \E next \in me.data :
             Commit(SessionOf(base.token, MergeIdentity(IdentityOf(base), next), "live"))
        \/ /\ me.data = {} /\ ~ me.unauthorized /\ Dev
           /\ Commit([base EXCEPT !.source = "local-dev"])
        \/ /\ me.data = {} /\ (me.unauthorized \/ ~ Dev)
           /\ Clear
           /\ UNCHANGED waiting
     /\ Finish(t)
     /\ UNCHANGED <<mounted, guard, backend, reloads, history>>

\* vite:preloadError: unless the guard is set, it is set and the page reloads.
PreloadError ==
  /\ mounted
  /\ ~ guard
  /\ reloads < MaxReloads
  /\ guard' = TRUE
  /\ UNCHANGED <<page, mounted, tasks, backend, reloads, history>>

\* The start of the program after a reload: the session storage stays,
\* except for the guard, which is removed; everything else is lost.
Reload ==
  /\ mounted
  /\ reloads < MaxReloads
  /\ reloads' = reloads + 1
  /\ guard' = FALSE
  /\ mounted' = FALSE
  /\ status' = "booting"
  /\ session' = NoSession
  /\ tasks' = [t \in Task |-> Idle]
  /\ waiting' = NoTask
  /\ fallback' = FALSE
  /\ UNCHANGED <<stored, backend, history>>

-----------------------------------------------------------------------------
(* Sign-in and log-out *)

\* handleSubmit of the login page, up to the request.
SubmitLogin(t, u) ==
  /\ mounted
  /\ status # "authenticated"
  /\ waiting = NoTask \* the button does not submit while it is loading
  /\ tasks[t] = Idle
  /\ tasks' = [tasks EXCEPT ![t] = [Idle EXCEPT !.pc = "login", !.user = u]]
  /\ waiting' = t
  /\ fallback' = FALSE
  /\ intended' = u
  /\ Act
  /\ UNCHANGED <<status, session, stored, mounted, guard, backend, reloads>>

\* Mutant of ReturnToForm: submitting is not reset.
ReturnNothing(t, offer) ==
  /\ fallback' = IF waiting = t THEN offer ELSE fallback
  /\ UNCHANGED waiting

\* handleSubmit after a sign-in that did not succeed.
ReturnToForm(t, offer) ==
  /\ waiting' = IF waiting = t THEN NoTask ELSE waiting
  /\ fallback' = IF waiting = t THEN offer ELSE fallback

\* adminApi.login: the token and the profile of an accepted sign-in.
LoginAccepted(t) ==
  \E token \in 1 .. MaxLogins :
    /\ issued[token] = Nobody
    /\ \A earlier \in 1 .. token - 1 : issued[earlier] # Nobody
    /\ issued' = [issued EXCEPT ![token] = tasks[t].user]
    /\ LET s == SessionOf(token, MapAuthIdentity(Payload(tasks[t].user)), "live")
       IN Commit(s) /\ AskMe(t, "me", s)

\* signIn after the answer to the login request.
SignInAnswered(t) ==
  /\ tasks[t].pc = "login"
  /\ \/ LoginAccepted(t)
     \/ \E denied \in BOOLEAN :
          /\ status' = "unauthenticated"
          /\ ReturnToForm(t, Dev /\ ~ denied)
          /\ Finish(t)
          /\ UNCHANGED <<session, stored, issued>>
  /\ UNCHANGED <<mounted, guard, dead, reloads, history>>

\* signIn after the answer to the profile request.  Without a profile the
\* session of the login answer stays.
SignInCompleted(t, answer) ==
  LET base == tasks[t].base
      me == CurrentUser(tasks[t].asked, answer)
  IN /\ tasks[t].pc = "me"
     /\ answer \in Answers(tasks[t].asked)
     /\ \/ \E next \in me.data :
             Commit(SessionOf(base.token, MergeIdentity(IdentityOf(base), next), "live"))
        \/ /\ me.unauthorized
           /\ Clear
           /\ UNCHANGED waiting
        \/ /\ me.data = {} /\ ~ me.unauthorized
           /\ IF Dev THEN Commit([base EXCEPT !.source = "local-dev"]) ELSE UNCHANGED page
     /\ Finish(t)
     /\ UNCHANGED <<mounted, guard, backend, reloads, history>>

\* useLocalDevSession, offered after a sign-in that got no answer.
UseLocalDevSession(u) ==
  /\ status # "authenticated" /\ fallback
  /\ Commit(SessionOf(LocalToken, [user |-> u, keys |-> {}, resolved |-> FALSE], "local-dev"))
  /\ intended' = u
  /\ Act
  /\ UNCHANGED <<mounted, tasks, guard, backend, reloads>>

\* The log-out button of AdminLayout.
LogOut ==
  /\ status = "authenticated"
  /\ Clear
  /\ intended' = Nobody
  /\ Act
  /\ UNCHANGED <<waiting, mounted, tasks, guard, backend, reloads>>

\* The backend stops accepting a token.
Expire(token) ==
  /\ Alive(token)
  /\ dead' = dead \cup {token}
  /\ UNCHANGED <<page, mounted, tasks, guard, issued, reloads, history>>

-----------------------------------------------------------------------------
Init ==
  /\ status = "booting"
  /\ session = NoSession
  /\ mounted = FALSE
  /\ tasks = [t \in Task |-> Idle]
  /\ waiting = NoTask
  /\ fallback = FALSE
  /\ guard = FALSE
  /\ issued = [n \in 1 .. MaxLogins |-> Nobody]
  /\ dead = {}
  /\ stored = NoSession
  /\ reloads = 0
  /\ intended = Nobody
  /\ overlapped = FALSE

Resolve(t) ==
  \/ Boot(t)
  \/ \E answer \in {"ok", "denied", "silent"} : BootAnswered(t, answer) \/ SignInCompleted(t, answer)
  \/ SignInAnswered(t)

Next ==
  \/ \E t \in Task : Resolve(t)
  \/ \E t \in Task, u \in User : SubmitLogin(t, u)
  \/ \E u \in User : UseLocalDevSession(u)
  \/ LogOut
  \/ PreloadError
  \/ Reload
  \/ \E token \in 1 .. MaxLogins : Expire(token)

Spec == Init /\ [][Next]_vars

\* Every request settles: the client aborts it after REQUEST_TIMEOUT_MS.
FairSpec == Spec /\ \A t \in Task : WF_vars(Resolve(t))

-----------------------------------------------------------------------------
Session == [token : 0 .. LocalToken, user : User \cup {Nobody}, keys : SUBSET STRING,
            resolved : BOOLEAN, source : {"live", "local-dev"}]
TaskState == [pc : {"idle", "boot", "login", "me"}, user : User \cup {Nobody},
              base : Session, asked : 0 .. LocalToken]

\* The variables have their types.
TypeOK ==
  /\ status \in {"booting", "authenticated", "unauthenticated"}
  /\ session \in Session /\ stored \in Session
  /\ mounted \in BOOLEAN /\ fallback \in BOOLEAN /\ guard \in BOOLEAN /\ overlapped \in BOOLEAN
  /\ tasks \in [Task -> TaskState]
  /\ waiting \in Task \cup {NoTask}
  /\ issued \in [1 .. MaxLogins -> User \cup {Nobody}]
  /\ dead \subseteq 1 .. MaxLogins
  /\ reloads \in Nat
  /\ intended \in User \cup {Nobody}

\* A live session never mixes two sign-ins: the user it names is the one its
\* token was issued to, however sign-ins, log-outs and the check of a stored
\* session overlap.  Requests send the stored token, pages show the user.
IdentityMatchesToken ==
  \A s \in {session, stored} :
    s.token \in 1 .. MaxLogins => issued[s.token] = s.user

\* A page that is shown in a live session, or offered in the menu of one, is
\* granted to the owner of the token that its requests will send.
ShownPagesAreGranted ==
  status = "authenticated" /\ session.source = "live" =>
    \A r \in NavRoute :
      RouteShown(r) \/ r \in VisibleRoutes =>
        NavPermission[r] \cap Grants[issued[stored.token]] # {}

\* Unless the user acted while a request was running, the session is that of
\* the last sign-in, and after a log-out there is none, in the storage neither.
LastActionWins ==
  overlapped \/ (session.user \in {intended, Nobody} /\ stored.user \in {intended, Nobody})

\* The console does not stay on its boot screen, nor does the login button
\* spin for ever.
BootEnds == status = "booting" ~> status # "booting"
LoginReturns == \A t \in Task : waiting = t ~> waiting # t
==============================================================================
