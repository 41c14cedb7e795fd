-------------------------- MODULE AdminSession_proofs --------------------------
(* Theorems about AdminSession, for any number of accounts, handlers, tokens     *)
(* and reloads: a session never mixes two sign-ins, and it shows only the pages   *)
(* that the backend grants to the owner of its token.                            *)
EXTENDS AdminSession, TLAPS

-----------------------------------------------------------------------------
(* Types *)

LEMMA SessionType ==
  /\ NoSession \in Session
  /\ Idle \in TaskState
  /\ \A s \in Session : StoredToken(s) \in 0 .. LocalToken
BY BoundsAssumption DEF Session, NoSession, Idle, TaskState, StoredToken, LocalToken

LEMMA SessionOfType ==
  ASSUME NEW token \in 0 .. LocalToken, NEW identity \in [user : User \cup {Nobody}, keys : SUBSET STRING, resolved : BOOLEAN],
         NEW source \in {"live", "local-dev"}
  PROVE  SessionOf(token, identity, source) \in Session
BY DEF SessionOf, Session

\* What the console makes of what the backend says of a user.
Owner(u) == [user |-> u, keys |-> Grants[u], resolved |-> TRUE]

LEMMA OwnerType ==
  ASSUME NEW u \in User
  PROVE  /\ Owner(u) \in Identity
         /\ MapAuthIdentity(Payload(u)) = Owner(u)
<1>1. UNION {Grants[u]} = Grants[u] /\ {Grants[u]} # {}
  OBVIOUS
<1> QED
  BY <1>1, GrantsAssumption DEF MapAuthIdentity, Payload, Identity, Owner

\* What a request says of the owner of a token, if it says anything.
LEMMA MeIsOwner ==
  ASSUME NEW token, NEW answer \in Answers(token), issued \in [1 .. MaxLogins -> User \cup {Nobody}],
         NEW next \in CurrentUser(token, answer).data
  PROVE  token \in 1 .. MaxLogins /\ issued[token] \in User /\ next = Owner(issued[token])
<1>1. answer = "ok" /\ Alive(token)
  BY DEF Answers, CurrentUser
<1>2. token \in 1 .. MaxLogins /\ issued[token] \in User
  BY <1>1 DEF Alive
<1>3. CurrentUser(token, answer).data = {MapAuthIdentity(Payload(issued[token]))}
  BY <1>1 DEF CurrentUser
<1> QED
  BY <1>2, <1>3, OwnerType

\* The session that a request about an account completes.
Completed(base, next) == SessionOf(base.token, MergeIdentity(IdentityOf(base), next), "live")

LEMMA CompletedType ==
  ASSUME NEW base \in Session, NEW u \in User
  PROVE  /\ Completed(base, Owner(u)) \in Session
         /\ Completed(base, Owner(u)) = SessionOf(base.token, Owner(u), "live")
<1>1. MergeIdentity(IdentityOf(base), Owner(u)) = Owner(u)
  BY GrantsAssumption DEF MergeIdentity, IdentityOf, Session, Owner
<1>2. Owner(u) \in [user : User \cup {Nobody}, keys : SUBSET STRING, resolved : BOOLEAN]
  BY GrantsAssumption DEF Owner
<1>3. base.token \in 0 .. LocalToken
  BY DEF Session
<1>4. Completed(base, Owner(u)) = SessionOf(base.token, Owner(u), "live")
  BY <1>1 DEF Completed
<1>5. SessionOf(base.token, Owner(u), "live") \in Session
  BY <1>2, <1>3, SessionOfType
<1> QED
  BY <1>4, <1>5

Resolved(s) == s.resolved

LEMMA OwnerSession ==
  ASSUME NEW token, NEW u
  PROVE  /\ SessionOf(token, Owner(u), "live").token = token
         /\ SessionOf(token, Owner(u), "live").user = u
         /\ SessionOf(token, Owner(u), "live").keys = Grants[u]
         /\ Resolved(SessionOf(token, Owner(u), "live"))
BY DEF SessionOf, Owner, Resolved

-----------------------------------------------------------------------------
(* The invariant *)

\* The user of a session with one of the backend's tokens is the owner of the
\* token; a live session has such a token and the keys of its user.
OwnedIn(owners, s) == s.token \in 1 .. MaxLogins => owners[s.token] = s.user /\ s.user \in User
Owned(s) == OwnedIn(issued, s)
Granted(s) ==
  s.source = "live" /\ s.token # 0 => s.token \in 1 .. MaxLogins /\ Resolved(s) /\ s.keys = Grants[s.user]

\* Handlers that wait have asked about the token of the session they began with.
TasksOwned ==
  \A t \in Task :
    /\ Owned(tasks[t].base)
    /\ tasks[t].pc = "login" => tasks[t].user \in User
    /\ tasks[t].pc \in {"boot", "me"} => tasks[t].asked = tasks[t].base.token /\ tasks[t].base.token # 0

\* The two copies of the session that is shown are the same.
OneSession == status = "authenticated" => session = stored /\ session.token # 0
StoredHasToken == stored # NoSession => stored.token # 0

Sound == Owned(session) /\ Owned(stored) /\ Granted(session) /\ Granted(stored)

SessionInv == TypeOK /\ Sound /\ OneSession /\ StoredHasToken /\ TasksOwned

LEMMA NoSessionSound ==
  Owned(NoSession) /\ Granted(NoSession) /\ Idle.base = NoSession /\ Idle.pc = "idle"
BY DEF Owned, OwnedIn, Granted, NoSession, Idle

LEMMA SessionInit == Init => SessionInv
<1> SUFFICES ASSUME Init PROVE SessionInv
  OBVIOUS
<1>1. TypeOK
  BY SessionType, BoundsAssumption DEF Init, TypeOK
<1> QED
  BY <1>1, NoSessionSound DEF Init, SessionInv, Sound, OneSession, StoredHasToken, TasksOwned

\* A session is committed that is sound and has a token.
LEMMA Committed ==
  ASSUME SessionInv, NEW s \in Session, Commit(s), OwnedIn(issued', s), Granted(s), s.token # 0
  PROVE  /\ session' \in Session /\ stored' \in Session
         /\ Sound' /\ OneSession' /\ StoredHasToken'
         /\ status' \in {"booting", "authenticated", "unauthenticated"}
         /\ waiting' \in Task \cup {NoTask} /\ fallback' \in BOOLEAN
BY DEF Commit, Sound, OneSession, StoredHasToken, Owned, OwnedIn, Granted, SessionInv, TypeOK

LEMMA Cleared ==
  ASSUME SessionInv, Clear
  PROVE  /\ session' \in Session /\ stored' \in Session
         /\ Sound' /\ OneSession' /\ StoredHasToken'
         /\ status' \in {"booting", "authenticated", "unauthenticated"}
         /\ fallback' \in BOOLEAN
BY SessionType DEF Clear, NoSession, Sound, OneSession, StoredHasToken, Owned, OwnedIn, Granted, SessionInv, TypeOK

\* The checked session, or what it falls back to, is committed or cleared.
LEMMA CheckedStep ==
  ASSUME SessionInv, NEW t \in Task, NEW answer \in {"ok", "denied", "silent"},
         BootAnswered(t, answer) \/ SignInCompleted(t, answer)
  PROVE  SessionInv'
<1> DEFINE base == tasks[t].base
           me == CurrentUser(tasks[t].asked, answer)
<1>1. tasks[t] \in TaskState /\ base \in Session /\ Owned(base)
  BY DEF TypeOK, TasksOwned, TaskState, SessionInv
<1>2. /\ tasks[t].asked = base.token /\ base.token # 0 /\ answer \in Answers(tasks[t].asked)
      /\ Finish(t) /\ UNCHANGED <<mounted, guard, issued, dead, reloads, intended, overlapped>>
  BY DEF BootAnswered, SignInCompleted, TasksOwned, SessionInv, backend, history
<1>3. \/ \E next \in me.data : Commit(Completed(base, next))
      \/ Commit([base EXCEPT !.source = "local-dev"])
      \/ Clear /\ UNCHANGED waiting
      \/ UNCHANGED <<status, session, stored, waiting, fallback>>
  BY DEF BootAnswered, SignInCompleted, page, Completed
<1>4. /\ session' \in Session /\ stored' \in Session
      /\ Sound' /\ OneSession' /\ StoredHasToken'
      /\ status' \in {"booting", "authenticated", "unauthenticated"}
      /\ waiting' \in Task \cup {NoTask} /\ fallback' \in BOOLEAN
  <2>1. CASE \E next \in me.data : Commit(Completed(base, next))
    <3>1. PICK next \in me.data : Commit(Completed(base, next))
      BY <2>1
    <3>2. base.token \in 1 .. MaxLogins /\ issued[base.token] \in User /\ next = Owner(issued[base.token])
      BY <1>2, <3>1, MeIsOwner DEF TypeOK, SessionInv
    <3>3. /\ Completed(base, next) \in Session
          /\ Completed(base, next) = SessionOf(base.token, Owner(issued[base.token]), "live")
      BY <1>1, <3>2, CompletedType
    <3>4. /\ Completed(base, next).token = base.token
          /\ Completed(base, next).user = issued[base.token]
          /\ Completed(base, next).keys = Grants[issued[base.token]]
          /\ Resolved(Completed(base, next))
      BY <3>3, OwnerSession
    <3>5. OwnedIn(issued', Completed(base, next)) /\ Granted(Completed(base, next)) /\ Completed(base, next).token # 0
      BY <1>2, <3>2, <3>4 DEF Owned, OwnedIn, Granted
    <3> QED
      BY <3>1, <3>3, <3>5, Committed
  <2>2. CASE Commit([base EXCEPT !.source = "local-dev"])
    <3> DEFINE s == [base EXCEPT !.source = "local-dev"]
    <3>1. s \in Session /\ s.token = base.token /\ s.user = base.user /\ s.source = "local-dev"
      BY <1>1 DEF Session
    <3>2. OwnedIn(issued', s) /\ Granted(s) /\ s.token # 0
      BY <1>1, <1>2, <3>1 DEF Owned, OwnedIn, Granted
    <3> QED
      BY <2>2, <3>1, <3>2, Committed
  <2>3. CASE Clear /\ UNCHANGED waiting
    BY <2>3, Cleared DEF TypeOK, SessionInv
  <2>4. CASE UNCHANGED <<status, session, stored, waiting, fallback>>
    BY <1>2, <2>4 DEF Owned, OwnedIn, Granted, Sound, OneSession, StoredHasToken, TypeOK, SessionInv
  <2> QED
    BY <1>3, <2>1, <2>2, <2>3, <2>4
<1>5. /\ tasks' = [tasks EXCEPT ![t] = Idle]
      /\ tasks' \in [Task -> TaskState]
  BY <1>2, SessionType DEF Finish, TypeOK, SessionInv
<1>6. TasksOwned'
  <2>1. Owned(Idle.base)'
    BY DEF Owned, OwnedIn, Idle, NoSession
  <2> QED
    BY <1>2, <1>5, <2>1, NoSessionSound DEF TasksOwned, Owned, OwnedIn, TypeOK, SessionInv
<1> QED
  BY <1>2, <1>4, <1>5, <1>6 DEF TypeOK, SessionInv

\* A stored session is shown, and a handler asks about it.
LEMMA BootStep ==
  ASSUME SessionInv, NEW t \in Task, Boot(t)
  PROVE  SessionInv'
<1> USE DEF SessionInv
<1>1. /\ stored' = stored /\ issued' = issued /\ mounted' = TRUE
      /\ UNCHANGED <<waiting, fallback, guard, dead, reloads, intended, overlapped>>
  BY DEF Boot, backend, history
<1>2. CASE stored = NoSession
  <2>1. status' = "unauthenticated" /\ UNCHANGED <<session, tasks>>
    BY <1>2 DEF Boot
  <2> QED
    BY <1>1, <2>1 DEF TypeOK, Sound, OneSession, StoredHasToken, TasksOwned, Owned, OwnedIn, Granted
<1>3. CASE stored # NoSession
  <2>1. /\ session' = stored /\ status' = status
        /\ tasks' = [tasks EXCEPT ![t] = [pc |-> "boot", user |-> stored.user, base |-> stored, asked |-> stored.token]]
    BY <1>1, <1>3 DEF Boot, AskMe, StoredToken
  <2>2. tasks' \in [Task -> TaskState]
    <3>1. stored \in Session /\ stored.user \in User \cup {Nobody} /\ stored.token \in 0 .. LocalToken
      BY DEF TypeOK, Session
    <3> QED
      BY <2>1, <3>1 DEF TypeOK, TaskState
  <2>3. TasksOwned'
    BY <1>1, <1>3, <2>1 DEF TasksOwned, Owned, OwnedIn, Sound, StoredHasToken, TypeOK
  <2>4. Sound' /\ OneSession' /\ StoredHasToken'
    BY <1>1, <2>1 DEF Sound, OneSession, StoredHasToken, Owned, OwnedIn, Granted
  <2> QED
    BY <1>1, <2>1, <2>2, <2>3, <2>4 DEF TypeOK
<1> QED
  BY <1>2, <1>3

\* A token is issued to the user who signed in; the owners of others stay.
LEMMA SignInStep ==
  ASSUME SessionInv, NEW t \in Task, SignInAnswered(t)
  PROVE  SessionInv'
<1> USE DEF SessionInv
<1>1. tasks[t].pc = "login" /\ tasks[t].user \in User /\ UNCHANGED <<mounted, guard, dead, reloads, intended, overlapped>>
  BY DEF SignInAnswered, TasksOwned, history
<1>2. CASE LoginAccepted(t)
  <2> DEFINE u == tasks[t].user
             s(token) == SessionOf(token, MapAuthIdentity(Payload(u)), "live")
  <2>1. PICK token \in 1 .. MaxLogins :
          /\ issued[token] = Nobody
          /\ issued' = [issued EXCEPT ![token] = u]
          /\ Commit(s(token)) /\ AskMe(t, "me", s(token))
    BY <1>2 DEF LoginAccepted
  <2>2. s(token) = SessionOf(token, Owner(u), "live") /\ Owner(u) \in Identity
    BY <1>1, OwnerType
  <2>3. /\ s(token).token = token /\ s(token).user = u /\ Resolved(s(token))
        /\ s(token).keys = Grants[u]
    BY <2>2, OwnerSession
  <2>4. token \in 0 .. LocalToken /\ token # 0
    BY <2>1, BoundsAssumption DEF LocalToken
  <2>5. s(token) \in Session
    BY <2>2, <2>4, SessionOfType DEF Identity
  <2>6. issued' \in [1 .. MaxLogins -> User \cup {Nobody}] /\ issued'[token] = u
        /\ \A other \in 1 .. MaxLogins : issued[other] \in User => issued'[other] = issued[other]
    BY <1>1, <2>1, NobodyAssumption DEF TypeOK
  <2> HIDE DEF s, u
  <2>7. OwnedIn(issued', s(token)) /\ Granted(s(token))
    BY <1>1, <2>1, <2>3, <2>6 DEF Owned, OwnedIn, Granted, u
  <2>8. /\ session' \in Session /\ stored' \in Session
        /\ Sound' /\ OneSession' /\ StoredHasToken'
        /\ status' \in {"booting", "authenticated", "unauthenticated"}
        /\ waiting' \in Task \cup {NoTask} /\ fallback' \in BOOLEAN
    BY <2>1, <2>3, <2>4, <2>5, <2>7, Committed
  <2>9. tasks' = [tasks EXCEPT ![t] = [pc |-> "me", user |-> u, base |-> s(token), asked |-> token]]
    BY <2>1, <2>3 DEF AskMe, StoredToken, Commit
  <2>10. tasks' \in [Task -> TaskState]
    BY <1>1, <2>4, <2>5, <2>9 DEF TypeOK, TaskState, u
  <2>11. TasksOwned'
    <3>1. \A other \in Task : OwnedIn(issued', tasks[other].base)
      BY <2>6 DEF TasksOwned, Owned, OwnedIn
    <3> QED
      BY <2>3, <2>4, <2>7, <2>9, <3>1 DEF TasksOwned, Owned, OwnedIn, TypeOK
  <2> QED
    BY <1>1, <2>6, <2>8, <2>10, <2>11 DEF TypeOK
<1>3. CASE ~ LoginAccepted(t)
  <2>1. PICK denied \in BOOLEAN :
          /\ status' = "unauthenticated" /\ ReturnToForm(t, Dev /\ ~ denied)
          /\ Finish(t) /\ UNCHANGED <<session, stored, issued>>
    BY <1>3 DEF SignInAnswered
  <2>2. tasks' = [tasks EXCEPT ![t] = Idle] /\ tasks' \in [Task -> TaskState]
    BY <2>1, SessionType DEF Finish, TypeOK
  <2>3. TasksOwned'
    BY <2>1, <2>2, NoSessionSound DEF TasksOwned, Owned, OwnedIn, TypeOK
  <2>4. Sound' /\ OneSession' /\ StoredHasToken'
    BY <2>1 DEF Sound, OneSession, StoredHasToken, Owned, OwnedIn, Granted
  <2>5. waiting' \in Task \cup {NoTask} /\ fallback' \in BOOLEAN
    BY <2>1, BoundsAssumption DEF ReturnToForm, TypeOK
  <2> QED
    BY <1>1, <2>1, <2>2, <2>3, <2>4, <2>5 DEF TypeOK
<1> QED
  BY <1>2, <1>3

\* The user's own steps, a reload and the backend's.
LEMMA OtherStep ==
  ASSUME SessionInv,
         \/ \E t \in Task, u \in User : SubmitLogin(t, u)
         \/ \E u \in User : UseLocalDevSession(u)
         \/ LogOut \/ PreloadError \/ Reload
         \/ \E token \in 1 .. MaxLogins : Expire(token)
         \/ UNCHANGED vars
  PROVE  SessionInv'
<1> USE DEF SessionInv
<1>1. CASE \E t \in Task, u \in User : SubmitLogin(t, u)
  <2>1. PICK t \in Task, u \in User : SubmitLogin(t, u)
    BY <1>1
  <2>2. /\ tasks' = [tasks EXCEPT ![t] = [Idle EXCEPT !.pc = "login", !.user = u]]
        /\ waiting' = t /\ fallback' = FALSE /\ intended' = u
        /\ overlapped' \in BOOLEAN
        /\ UNCHANGED <<status, session, stored, mounted, guard, issued, dead, reloads>>
    BY <2>1 DEF SubmitLogin, Act, backend, TypeOK
  <2>3. tasks' \in [Task -> TaskState]
    BY <2>2, SessionType DEF TypeOK, TaskState, Idle
  <2>4. TasksOwned'
    BY <2>2, NoSessionSound DEF TasksOwned, Owned, OwnedIn, Idle, NoSession, TypeOK
  <2> QED
    BY <2>2, <2>3, <2>4 DEF TypeOK, Sound, OneSession, StoredHasToken, Owned, OwnedIn, Granted
<1>2. CASE \E u \in User : UseLocalDevSession(u)
  <2>1. PICK u \in User : UseLocalDevSession(u)
    BY <1>2
  <2> DEFINE s == SessionOf(LocalToken, [user |-> u, keys |-> {}, resolved |-> FALSE], "local-dev")
  <2>2. s \in Session
    <3>1. [user |-> u, keys |-> {}, resolved |-> FALSE] \in [user : User \cup {Nobody}, keys : SUBSET STRING, resolved : BOOLEAN]
      OBVIOUS
    <3>2. LocalToken \in 0 .. LocalToken
      BY BoundsAssumption DEF LocalToken
    <3> QED
      BY <3>1, <3>2, SessionOfType
  <2>3. s.token = LocalToken /\ s.source = "local-dev"
    BY DEF SessionOf
  <2>4. LocalToken # 0 /\ LocalToken \notin 1 .. MaxLogins
    BY BoundsAssumption DEF LocalToken
  <2>5. /\ Commit(s) /\ intended' = u /\ overlapped' \in BOOLEAN
        /\ UNCHANGED <<mounted, tasks, guard, issued, dead, reloads>>
    BY <2>1 DEF UseLocalDevSession, Act, backend, TypeOK
  <2> HIDE DEF s
  <2>6. OwnedIn(issued', s) /\ Granted(s)
    BY <2>3, <2>4 DEF Owned, OwnedIn, Granted
  <2>7. /\ session' \in Session /\ stored' \in Session
        /\ Sound' /\ OneSession' /\ StoredHasToken'
        /\ status' \in {"booting", "authenticated", "unauthenticated"}
        /\ waiting' \in Task \cup {NoTask} /\ fallback' \in BOOLEAN
    BY <2>2, <2>3, <2>4, <2>5, <2>6, Committed
  <2> QED
    BY <2>5, <2>7 DEF TypeOK, TasksOwned, Owned, OwnedIn
<1>3. CASE LogOut
  <2>1. /\ Clear /\ intended' = Nobody /\ overlapped' \in BOOLEAN
        /\ UNCHANGED <<waiting, mounted, tasks, guard, issued, dead, reloads>>
    BY <1>3 DEF LogOut, Act, backend, TypeOK
  <2> QED
    BY <2>1, Cleared DEF TypeOK, TasksOwned, Owned, OwnedIn
<1>4. CASE PreloadError
  BY <1>4 DEF PreloadError, page, backend, history, TypeOK, Sound, OneSession, StoredHasToken, TasksOwned, Owned, OwnedIn, Granted
<1>5. CASE Reload
  <2>1. /\ status' = "booting" /\ session' = NoSession /\ tasks' = [t \in Task |-> Idle]
        /\ waiting' = NoTask /\ fallback' = FALSE /\ guard' = FALSE /\ mounted' = FALSE
        /\ reloads' = reloads + 1
        /\ UNCHANGED <<stored, issued, dead, intended, overlapped>>
    BY <1>5 DEF Reload, backend, history
  <2>2. Sound' /\ OneSession' /\ StoredHasToken'
    BY <2>1 DEF Sound, OneSession, StoredHasToken, Owned, OwnedIn, Granted, NoSession
  <2>3. TasksOwned'
    BY <2>1, NoSessionSound DEF TasksOwned, Owned, OwnedIn, NoSession
  <2>4. tasks' \in [Task -> TaskState] /\ session' \in Session /\ reloads' \in Nat
    BY <2>1, SessionType DEF TypeOK
  <2> QED
    BY <2>1, <2>2, <2>3, <2>4 DEF TypeOK
<1>6. CASE \E token \in 1 .. MaxLogins : Expire(token)
  <2>1. PICK token \in 1 .. MaxLogins : Expire(token)
    BY <1>6
  <2> QED
    BY <2>1 DEF Expire, page, history, TypeOK, Sound, OneSession, StoredHasToken, TasksOwned, Owned, OwnedIn, Granted
<1>7. CASE UNCHANGED vars
  BY <1>7 DEF vars, page, backend, history, TypeOK, Sound, OneSession, StoredHasToken, TasksOwned, Owned, OwnedIn, Granted
<1> QED
  BY <1>1, <1>2, <1>3, <1>4, <1>5, <1>6, <1>7

LEMMA SessionStep == SessionInv /\ [Next]_vars => SessionInv'
<1> SUFFICES ASSUME SessionInv, [Next]_vars PROVE SessionInv'
  OBVIOUS
<1>1. CASE \E t \in Task : Resolve(t)
  <2>1. PICK t \in Task : Resolve(t)
    BY <1>1
  <2> QED
    BY <2>1, BootStep, CheckedStep, SignInStep DEF Resolve
<1>2. CASE ~ \E t \in Task : Resolve(t)
  BY <1>2, OtherStep DEF Next
<1> QED
  BY <1>1, <1>2

LEMMA SessionInvariant == Spec => []SessionInv
<1>1. SessionInv /\ [Next]_vars => SessionInv'
  BY SessionStep
<1> QED
  BY <1>1, SessionInit, PTL DEF Spec

-----------------------------------------------------------------------------
(* The theorems *)

\* The variables of the session have their types, for any number of handlers,
\* tokens and reloads (AuthContext, authStorage).
THEOREM TypeCorrect == Spec => []TypeOK
<1>1. SessionInv => TypeOK
  BY DEF SessionInv
<1> QED
  BY <1>1, SessionInvariant, PTL

\* However the check of a stored session, sign-ins, log-outs and reloads overlap,
\* a session names the account that its token was issued to.
THEOREM IdentityCorrect == Spec => []IdentityMatchesToken
<1>1. SessionInv => IdentityMatchesToken
  BY DEF SessionInv, Sound, Owned, OwnedIn, IdentityMatchesToken
<1> QED
  BY <1>1, SessionInvariant, PTL

LEMMA EveryRouteIsGuarded == \A r \in NavRoute : NavPermission[r] # {}
BY DEF NavRoute, NavPermission

\* What a live session shows or offers in the menu is granted to the owner of
\* the token that is sent.
THEOREM ShownPagesCorrect == Spec => []ShownPagesAreGranted
<1>1. SessionInv => ShownPagesAreGranted
  <2> SUFFICES ASSUME SessionInv, status = "authenticated", session.source = "live",
                      NEW r \in NavRoute, RouteShown(r) \/ r \in VisibleRoutes
               PROVE  NavPermission[r] \cap Grants[issued[stored.token]] # {}
    BY DEF ShownPagesAreGranted
  <2>1. /\ session = stored /\ session.token \in 1 .. MaxLogins /\ Resolved(session)
        /\ session.keys = Grants[issued[stored.token]]
    BY DEF SessionInv, OneSession, Sound, Granted, Owned, OwnedIn
  <2>2. CanAccess(session, NavPermission[r])
    BY <2>1 DEF RouteShown, VisibleRoutes, Resolved
  <2> QED
    BY <2>1, <2>2, EveryRouteIsGuarded DEF CanAccess
<1> QED
  BY <1>1, SessionInvariant, PTL

-----------------------------------------------------------------------------
(* The last action wins *)

Mine(s) == s.user \in {intended, Nobody}

\* Without overlap there is one handler, and the status says which kind.
OneHandler == \A t, u \in Task : tasks[t].pc # "idle" /\ tasks[u].pc # "idle" => t = u
HandlerKinds ==
  \A t \in Task :
    /\ tasks[t].pc = "boot" => status = "booting" /\ mounted /\ Mine(tasks[t].base)
    /\ tasks[t].pc = "login" => status = "unauthenticated" /\ mounted /\ tasks[t].user = intended
    /\ tasks[t].pc = "me" => status = "authenticated" /\ mounted /\ Mine(tasks[t].base)
Unmounted ==
  ~ mounted => status = "booting" /\ session = NoSession /\ fallback = FALSE /\ \A t \in Task : tasks[t].pc = "idle"
BootIsHandled == status = "booting" /\ mounted => \E t \in Task : tasks[t].pc = "boot"
SignedOut == status = "unauthenticated" => session = NoSession /\ stored = NoSession

Orderly == Mine(session) /\ Mine(stored) /\ OneHandler /\ HandlerKinds /\ BootIsHandled /\ SignedOut
LastInv == SessionInv /\ Unmounted /\ (overlapped \/ Orderly)

LEMMA LastInit == Init => LastInv
<1> SUFFICES ASSUME Init PROVE LastInv
  OBVIOUS
<1>1. NoSession.user = Nobody /\ NoSession = [token |-> 0, user |-> Nobody, keys |-> {}, resolved |-> FALSE, source |-> "live"]
  BY DEF NoSession
<1> QED
  BY <1>1, SessionInit, NoSessionSound DEF Init, LastInv, Unmounted, Orderly, Mine, OneHandler, HandlerKinds, BootIsHandled, SignedOut

\* A handler that did not overlap with the user's actions.
LEMMA LastChecked ==
  ASSUME LastInv, ~ overlapped', NEW t \in Task, NEW answer \in {"ok", "denied", "silent"},
         BootAnswered(t, answer) \/ SignInCompleted(t, answer)
  PROVE  Unmounted' /\ Orderly'
<1> DEFINE base == tasks[t].base
           me == CurrentUser(tasks[t].asked, answer)
<1>1. /\ overlapped' = overlapped /\ intended' = intended /\ mounted' = mounted /\ issued' = issued
      /\ tasks[t].pc \in {"boot", "me"} /\ answer \in Answers(tasks[t].asked)
      /\ tasks' = [tasks EXCEPT ![t] = Idle]
  BY DEF BootAnswered, SignInCompleted, backend, history, Finish
<1>2. /\ Orderly /\ mounted /\ Mine(base) /\ base \in Session /\ Owned(base)
      /\ tasks[t].asked = base.token /\ issued \in [1 .. MaxLogins -> User \cup {Nobody}]
      /\ tasks \in [Task -> TaskState]
  BY <1>1 DEF LastInv, Orderly, HandlerKinds, SessionInv, TasksOwned, TypeOK, TaskState
<1>3. \A u \in Task : tasks'[u].pc = "idle"
  BY <1>1, <1>2, NoSessionSound DEF Orderly, OneHandler
<1>4. \/ \E next \in me.data : Commit(Completed(base, next))
      \/ Commit([base EXCEPT !.source = "local-dev"])
      \/ Clear
      \/ tasks[t].pc = "me" /\ UNCHANGED <<status, session, stored, waiting, fallback>>
  BY DEF BootAnswered, SignInCompleted, page, Completed
<1>5. Mine(session)' /\ Mine(stored)' /\ SignedOut' /\ status' # "booting"
  <2>1. CASE \E next \in me.data : Commit(Completed(base, next))
    <3>1. PICK next \in me.data : Commit(Completed(base, next))
      BY <2>1
    <3>2. base.token \in 1 .. MaxLogins /\ issued[base.token] \in User /\ next = Owner(issued[base.token])
      BY <1>1, <1>2, <3>1, MeIsOwner
    <3>3. Completed(base, next) = SessionOf(base.token, Owner(issued[base.token]), "live")
      BY <1>2, <3>2, CompletedType
    <3>4. Completed(base, next).user = base.user
      BY <1>2, <3>2, <3>3, OwnerSession DEF Owned, OwnedIn
    <3> QED
      BY <1>1, <1>2, <3>1, <3>4 DEF Commit, Mine, SignedOut
  <2>2. CASE Commit([base EXCEPT !.source = "local-dev"])
    <3>1. [base EXCEPT !.source = "local-dev"].user = base.user
      BY <1>2 DEF Session
    <3> QED
      BY <1>1, <1>2, <2>2, <3>1 DEF Commit, Mine, SignedOut
  <2>3. CASE Clear
    BY <2>3 DEF Clear, Mine, SignedOut, NoSession
  <2>4. CASE tasks[t].pc = "me" /\ UNCHANGED <<status, session, stored, waiting, fallback>>
    BY <1>1, <1>2, <2>4 DEF Orderly, HandlerKinds, Mine, SignedOut
  <2> QED
    BY <1>4, <2>1, <2>2, <2>3, <2>4
<1> QED
  BY <1>1, <1>2, <1>3, <1>5 DEF Unmounted, Orderly, OneHandler, HandlerKinds, BootIsHandled

\* The token and the profile that a sign-in brings are those of the user.
LEMMA LastSignIn ==
  ASSUME LastInv, ~ overlapped', NEW t \in Task, SignInAnswered(t)
  PROVE  Unmounted' /\ Orderly'
<1>1. /\ overlapped' = overlapped /\ intended' = intended /\ mounted' = mounted
      /\ tasks[t].pc = "login"
  BY DEF SignInAnswered, history
<1>2. /\ Orderly /\ mounted /\ status = "unauthenticated" /\ tasks[t].user = intended
      /\ tasks \in [Task -> TaskState] /\ tasks[t].user \in User
      /\ \A u \in Task \ {t} : tasks[u].pc = "idle"
  BY <1>1 DEF LastInv, Orderly, OneHandler, HandlerKinds, SessionInv, TasksOwned, TypeOK
<1>3. CASE LoginAccepted(t)
  <2> DEFINE s(token) == SessionOf(token, MapAuthIdentity(Payload(tasks[t].user)), "live")
  <2>1. PICK token \in 1 .. MaxLogins : Commit(s(token)) /\ AskMe(t, "me", s(token))
    BY <1>3 DEF LoginAccepted
  <2>2. s(token).user = intended
    BY <1>2, OwnerType, OwnerSession
  <2>3. /\ tasks' = [tasks EXCEPT ![t] = [pc |-> "me", user |-> s(token).user, base |-> s(token),
                                           asked |-> StoredToken(stored')]]
        /\ session' = s(token) /\ stored' = s(token) /\ status' = "authenticated"
    BY <2>1 DEF AskMe, Commit
  <2> HIDE DEF s
  <2>4. tasks'[t].pc = "me" /\ tasks'[t].base = s(token) /\ \A u \in Task \ {t} : tasks'[u].pc = "idle"
    BY <1>2, <2>3
  <2> QED
    BY <1>1, <1>2, <2>2, <2>3, <2>4 DEF Unmounted, Orderly, OneHandler, HandlerKinds, BootIsHandled, SignedOut, Mine
<1>4. CASE ~ LoginAccepted(t)
  <2>1. status' = "unauthenticated" /\ Finish(t) /\ UNCHANGED <<session, stored>>
    BY <1>4 DEF SignInAnswered
  <2>2. \A u \in Task : tasks'[u].pc = "idle"
    BY <1>2, <2>1, NoSessionSound DEF Finish
  <2> QED
    BY <1>1, <1>2, <2>1, <2>2 DEF Unmounted, Orderly, OneHandler, HandlerKinds, BootIsHandled, SignedOut, Mine
<1> QED
  BY <1>3, <1>4

LEMMA LastBoot ==
  ASSUME LastInv, NEW t \in Task, Boot(t)
  PROVE  Unmounted' /\ (overlapped' \/ Orderly')
<1>1. /\ ~ mounted /\ mounted' = TRUE /\ status = "booting"
      /\ UNCHANGED <<stored, overlapped, intended>>
      /\ \A u \in Task : tasks[u].pc = "idle"
      /\ tasks \in [Task -> TaskState]
  BY DEF Boot, history, LastInv, Unmounted, SessionInv, TypeOK
<1>2. CASE stored = NoSession
  <2>1. session = NoSession
    BY <1>1 DEF LastInv, Unmounted
  <2>2. status' = "unauthenticated" /\ UNCHANGED <<session, tasks>>
    BY <1>2 DEF Boot
  <2> QED
    BY <1>1, <1>2, <2>1, <2>2 DEF LastInv, Unmounted, Orderly, OneHandler, HandlerKinds, BootIsHandled, SignedOut, Mine
<1>3. CASE stored # NoSession
  <2>1. /\ session' = stored /\ status' = status
        /\ tasks' = [tasks EXCEPT ![t] = [pc |-> "boot", user |-> stored.user, base |-> stored, asked |-> StoredToken(stored')]]
    BY <1>1, <1>3 DEF Boot, AskMe
  <2>2. tasks'[t].pc = "boot" /\ tasks'[t].base = stored /\ \A u \in Task \ {t} : tasks'[u].pc = "idle"
    BY <1>1, <2>1
  <2> QED
    BY <1>1, <2>1, <2>2 DEF LastInv, Unmounted, Orderly, OneHandler, HandlerKinds, BootIsHandled, SignedOut, Mine
<1> QED
  BY <1>2, <1>3

\* What the user does, when no handler is running.
LEMMA LastUserAct ==
  ASSUME LastInv, ~ overlapped',
         \/ \E t \in Task, u \in User : SubmitLogin(t, u)
         \/ \E u \in User : UseLocalDevSession(u)
         \/ LogOut
  PROVE  Unmounted' /\ Orderly'
<1>1. Running = {} /\ ~ overlapped /\ mounted' = mounted
  BY DEF SubmitLogin, UseLocalDevSession, LogOut, Act
<1>2. /\ Orderly /\ tasks \in [Task -> TaskState] /\ status \in {"booting", "authenticated", "unauthenticated"}
      /\ \A t \in Task : tasks[t] = Idle
  BY <1>1 DEF LastInv, SessionInv, TypeOK, Running
<1>3. Idle.pc = "idle" /\ NoSession.user = Nobody
  BY DEF Idle, NoSession
<1>4. \A t \in Task : tasks[t].pc = "idle"
  BY <1>2, <1>3
<1>5. ASSUME NEW t \in Task, NEW u \in User, SubmitLogin(t, u)
      PROVE  Unmounted' /\ Orderly'
  <2>1. mounted /\ status = "unauthenticated" /\ session = NoSession /\ stored = NoSession
    BY <1>2, <1>4, <1>5 DEF SubmitLogin, Orderly, BootIsHandled, SignedOut
  <2>2. tasks' = [tasks EXCEPT ![t] = [Idle EXCEPT !.pc = "login", !.user = u]]
    BY <1>5 DEF SubmitLogin
  <2>3. [Idle EXCEPT !.pc = "login", !.user = u].pc = "login" /\ [Idle EXCEPT !.pc = "login", !.user = u].user = u
    BY DEF Idle
  <2>4. tasks'[t].pc = "login" /\ tasks'[t].user = u /\ \A x \in Task \ {t} : tasks'[x].pc = "idle"
    BY <1>2, <1>4, <2>2, <2>3
  <2>5. UNCHANGED <<status, session, stored>> /\ intended' = u
    BY <1>5 DEF SubmitLogin
  <2> QED
    BY <1>1, <1>3, <2>1, <2>4, <2>5 DEF Unmounted, Orderly, OneHandler, HandlerKinds, BootIsHandled, SignedOut, Mine
<1>6. ASSUME NEW u \in User, UseLocalDevSession(u)
      PROVE  Unmounted' /\ Orderly'
  <2> DEFINE local == [user |-> u, keys |-> {}, resolved |-> FALSE]
             s == SessionOf(LocalToken, local, "local-dev")
  <2>1. session' = s /\ stored' = s /\ status' = "authenticated" /\ intended' = u /\ tasks' = tasks /\ fallback
    BY <1>6 DEF UseLocalDevSession, Commit
  <2>2. s.user = u
    BY DEF SessionOf
  <2> HIDE DEF s
  <2>3. mounted
    BY <2>1 DEF LastInv, Unmounted
  <2> QED
    BY <1>1, <1>4, <2>1, <2>2, <2>3 DEF Unmounted, Orderly, OneHandler, HandlerKinds, BootIsHandled, SignedOut, Mine
<1>7. CASE LogOut
  <2>1. /\ status = "authenticated" /\ status' = "unauthenticated" /\ tasks' = tasks /\ intended' = Nobody
        /\ session' = NoSession /\ stored' = NoSession
    BY <1>7 DEF LogOut, Clear
  <2>2. mounted
    BY <2>1 DEF LastInv, Unmounted
  <2> QED
    BY <1>1, <1>3, <1>4, <2>1, <2>2 DEF Unmounted, Orderly, OneHandler, HandlerKinds, BootIsHandled, SignedOut, Mine
<1> QED
  BY <1>5, <1>6, <1>7

\* The remaining steps do not touch what a handler or the user decides.
LEMMA LastReload ==
  ASSUME LastInv, Reload
  PROVE  Unmounted' /\ (overlapped' \/ Orderly')
<1>1. /\ mounted' = FALSE /\ status' = "booting" /\ session' = NoSession /\ fallback' = FALSE
      /\ tasks' = [t \in Task |-> Idle] /\ UNCHANGED <<stored, intended, overlapped>>
  BY DEF Reload, history
<1>2. NoSession.user = Nobody /\ Idle.pc = "idle"
  BY DEF NoSession, Idle
<1>3. \A t \in Task : tasks'[t].pc = "idle"
  BY <1>1, <1>2
<1> QED
  BY <1>1, <1>2, <1>3 DEF LastInv, Unmounted, Orderly, OneHandler, HandlerKinds, BootIsHandled, SignedOut, Mine

LEMMA LastUnchanged ==
  ASSUME LastInv, UNCHANGED <<page, mounted, tasks, history>>
  PROVE  Unmounted' /\ (overlapped' \/ Orderly')
BY DEF LastInv, page, history, Unmounted, Orderly, OneHandler, HandlerKinds, BootIsHandled, SignedOut, Mine

LEMMA LastStep == LastInv /\ [Next]_vars => LastInv'
<1> SUFFICES ASSUME LastInv, [Next]_vars PROVE Unmounted' /\ (overlapped' \/ Orderly')
  BY SessionStep DEF LastInv
<1>1. ASSUME NEW t \in Task, Resolve(t) PROVE Unmounted' /\ (overlapped' \/ Orderly')
  <2>1. CASE Boot(t)
    BY <2>1, LastBoot
  <2>2. CASE SignInAnswered(t)
    <3>1. CASE ~ overlapped'
      BY <2>2, <3>1, LastSignIn
    <3>2. CASE overlapped'
      <4>1. mounted
        BY <2>2 DEF SignInAnswered, LastInv, Unmounted
      <4> QED
        BY <2>2, <3>2, <4>1 DEF SignInAnswered, Unmounted
    <3> QED
      BY <3>1, <3>2
  <2>3. ASSUME NEW answer \in {"ok", "denied", "silent"}, BootAnswered(t, answer) \/ SignInCompleted(t, answer)
        PROVE  Unmounted' /\ (overlapped' \/ Orderly')
    <3>1. CASE ~ overlapped'
      BY <2>3, <3>1, LastChecked
    <3>2. CASE overlapped'
      <4>1. mounted /\ mounted' = mounted
        BY <2>3 DEF BootAnswered, SignInCompleted, LastInv, Unmounted
      <4> QED
        BY <3>2, <4>1 DEF Unmounted
    <3> QED
      BY <3>1, <3>2
  <2> QED
    BY <1>1, <2>1, <2>2, <2>3 DEF Resolve
<1>2. CASE \/ \E t \in Task, u \in User : SubmitLogin(t, u)
           \/ \E u \in User : UseLocalDevSession(u)
           \/ LogOut
  <2>1. CASE ~ overlapped'
    BY <1>2, <2>1, LastUserAct
  <2>2. CASE overlapped'
    <3>1. mounted /\ mounted' = mounted
      BY <1>2 DEF SubmitLogin, UseLocalDevSession, LogOut, LastInv, Unmounted
    <3> QED
      BY <2>2, <3>1 DEF Unmounted
  <2> QED
    BY <2>1, <2>2
<1>3. CASE Reload
  BY <1>3, LastReload
<1>4. CASE PreloadError \/ (\E token \in 1 .. MaxLogins : Expire(token)) \/ UNCHANGED vars
  <2>1. UNCHANGED <<page, mounted, tasks, history>>
    BY <1>4 DEF PreloadError, Expire, vars
  <2> QED
    BY <2>1, LastUnchanged
<1> QED
  BY <1>1, <1>2, <1>3, <1>4 DEF Next

\* Whoever acted last decides: as long as the user does not act while a request
\* is running, the session, in React and in the storage, is that of the last
\* sign-in, or none after a log-out, whatever the answers, reloads and expiries.
THEOREM LastActionCorrect == Spec => []LastActionWins
<1>1. LastInv => LastActionWins
  BY DEF LastInv, Orderly, Mine, LastActionWins
<1> QED
  BY <1>1, LastInit, LastStep, PTL DEF Spec
==============================================================================
