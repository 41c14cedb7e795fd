---------------------------- MODULE Launcher_proofs ----------------------------
(* Theorems about Launcher, for any number of clock-in attempts, restarts,      *)
(* lost answers, failed file operations and cut rewrites.                       *)
EXTENDS Launcher, TLAPS, FiniteSetTheorems, SequenceTheorems, WellFoundedInduction

PcState == {"unused", "resolving", "activating", "starting", "undoing", "recording", "done", "past"}

\* What the two theorems need to know of the types.
Typed == pc \in [Click -> PcState] /\ session \in {"clocked_in", "clocked_out"} /\ late \in Nat

\* The clock-out button is only there once an attempt has finished, and a
\* finished clock-out can only have been undone by another attempt.
AttendanceShown == panel = "attendance" => \E c \in Click : pc[c] = "done"
OutFromPanel == out # "no" => panel = "attendance"
UndoneByAnother ==
  out = "done" /\ session # "clocked_out" => \E c, d \in Attempts : c # d

ClockInv == Typed /\ AttendanceShown /\ OutFromPanel /\ UndoneByAnother

LEMMA ClockInit == Init => ClockInv
BY DEF Init, ClockInv, Typed, PcState, AttendanceShown, OutFromPanel, UndoneByAnother

\* A step of an attempt that is under way leaves it, and every other, an attempt
\* of this run; and one that has finished stays finished.
LEMMA AttemptsStay ==
  ASSUME Typed, NEW c \in Click, NEW l \in PcState \ {"unused", "past"}, pc[c] # "done", Goto(c, l)
  PROVE  /\ pc' \in [Click -> PcState]
         /\ Attempts \subseteq Attempts'
         /\ \A d \in Click : pc[d] = "done" => pc'[d] = "done"
BY DEF Typed, Goto, Attempts, PcState

\* Every step of a clock-in attempt keeps the invariant.
LEMMA ClockInStep ==
  ASSUME ClockInv, NEW c \in Click, ClockIn(c)
  PROVE  ClockInv'
<1> USE DEF ClockInv, AttendanceShown, OutFromPanel, UndoneByAnother, clockInVars, syncVars,
            diskVars, workVars, countVars, SetSession
<1>1. CASE ClickClockIn(c)
  <2>1. Goto(c, "resolving") /\ pc[c] = "unused" /\ panel = "login"
    BY <1>1 DEF ClickClockIn
  <2>2. pc' \in [Click -> PcState] /\ Attempts \subseteq Attempts'
    BY <2>1 DEF Typed, Goto, Attempts, PcState
  <2> QED
    BY <1>1, <2>1, <2>2 DEF ClickClockIn, Typed
<1>2. CASE Resolved(c)
  <2>1. PICK l \in {"activating", "done"} : Goto(c, l) /\ pc[c] = "resolving"
    BY <1>2 DEF Resolved
  <2>2. l \in PcState \ {"unused", "past"}
    BY DEF PcState
  <2> QED
    BY <1>2, <2>1, <2>2, AttemptsStay DEF Resolved, Typed
<1>3. CASE Activate(c)
  <2>1. Goto(c, "starting") /\ pc[c] = "activating"
    BY <1>3 DEF Activate
  <2>2. /\ pc' \in [Click -> PcState]
        /\ Attempts \subseteq Attempts'
        /\ \A d \in Click : pc[d] = "done" => pc'[d] = "done"
    BY <2>1, AttemptsStay DEF PcState
  <2>3. c \in Attempts /\ \A d \in Click : pc[d] = "done" => d \in Attempts /\ d # c
    BY <2>1 DEF Attempts
  <2>4. UndoneByAnother'
    BY <1>3, <2>2, <2>3 DEF Activate
  <2> QED
    BY <1>3, <2>2, <2>4 DEF Activate, Typed
<1>4. CASE Started(c) \/ StartFails(c)
  <2>1. PICK l \in {"recording", "done", "undoing"} : Goto(c, l) /\ pc[c] = "starting"
    BY <1>4 DEF Started, StartFails
  <2>2. l \in PcState \ {"unused", "past"}
    BY DEF PcState
  <2> QED
    BY <1>4, <2>1, <2>2, AttemptsStay DEF Started, StartFails, Typed
<1>5. CASE Undo(c)
  <2>1. Goto(c, "done") /\ pc[c] = "undoing"
    BY <1>5 DEF Undo
  <2> QED
    BY <1>5, <2>1, AttemptsStay DEF Undo, Typed, PcState
<1>6. CASE RecordClockIn(c)
  <2>1. Goto(c, "done") /\ pc[c] = "recording"
    BY <1>6 DEF RecordClockIn
  <2>2. pc' \in [Click -> PcState] /\ Attempts \subseteq Attempts'
    BY <2>1, AttemptsStay DEF PcState
  <2>3. pc'[c] = "done"
    BY <2>1 DEF Goto, Typed
  <2> QED
    BY <1>6, <2>2, <2>3 DEF RecordClockIn, AppendRecord, Typed
<1>7. CASE RecordClockInFails(c)
  <2>1. Goto(c, "done") /\ pc[c] = "recording"
    BY <1>7 DEF RecordClockInFails
  <2> QED
    BY <1>7, <2>1, AttemptsStay DEF RecordClockInFails, AppendFails, Typed, PcState
<1>8. CASE SetSessionFails(c)
  <2>1. Goto(c, "done") /\ pc[c] # "done"
    BY <1>8 DEF SetSessionFails
  <2> QED
    BY <1>8, <2>1, AttemptsStay DEF SetSessionFails, Typed, PcState
<1>9. CASE RefreshRules(c)
  BY <1>9 DEF RefreshRules, Typed, Attempts
<1> QED
  BY <1>1, <1>2, <1>3, <1>4, <1>5, <1>6, <1>7, <1>8, <1>9 DEF ClockIn

LEMMA ClockStep == ClockInv /\ [Next]_vars => ClockInv'
<1> SUFFICES ASSUME ClockInv, [Next]_vars PROVE ClockInv'
  OBVIOUS
<1> USE DEF ClockInv, Typed, AttendanceShown, OutFromPanel, UndoneByAnother, Attempts,
            clockInVars, syncVars, diskVars, workVars, countVars, SetSession
<1>1. ASSUME NEW c \in Click, ClockIn(c) PROVE ClockInv'
  BY <1>1, ClockInStep
<1>2. CASE ClockOut
  <2>1. CASE ClickClockOut
    BY <2>1 DEF ClickClockOut, CanClockOut
  <2>2. CASE RecordClockOut
    BY <2>2 DEF RecordClockOut, AppendRecord
  <2>3. CASE Deactivate
    BY <2>3 DEF Deactivate
  <2>4. CASE ClockOutFails
    BY <2>4 DEF ClockOutFails, AppendFails
  <2> QED
    BY <1>2, <2>1, <2>2, <2>3, <2>4 DEF ClockOut
<1>3. CASE Synchronise
  <2>1. UNCHANGED <<pc, panel, out, session, late>>
    BY <1>3 DEF Synchronise, LoadPending, ReportAccepted, ReportRefused, ReportLost,
                ReplacePending, ReplaceFails
  <2> QED
    BY <2>1
<1>4. CASE Restart
  BY <1>4 DEF Restart, PcState
<1>5. CASE Work
  <2>1. UNCHANGED <<pc, panel, out, session>> /\ late' \in Nat
    BY <1>5 DEF Work, CheckSession, Capture
  <2> QED
    BY <2>1
<1>6. CASE UNCHANGED vars
  BY <1>6 DEF vars
<1> QED
  BY <1>1, <1>2, <1>3, <1>4, <1>5, <1>6 DEF Next

\* A completed clock-out leaves the session clocked out in every run of the
\* launcher that has seen a single clock-in attempt.
THEOREM OneAttemptCorrect == Spec => []OneAttemptPauses
<1>1. ClockInv => OneAttemptPauses
  <2> SUFFICES ASSUME ClockInv, Cardinality(Attempts) = 1, out = "done",
                      session # "clocked_out"
               PROVE  FALSE
    BY DEF OneAttemptPauses, ClockOutPauses
  <2>1. PICK c, d \in Attempts : c # d
    BY DEF ClockInv, UndoneByAnother
  <2>2. IsFiniteSet(Attempts)
    <3>1. IsFiniteSet(Click)
      <4>1. MaxClicks \in Int /\ 1 \in Int
        BY LauncherAssumption
      <4> QED
        BY <4>1, FS_Interval DEF Click
    <3> QED
      BY <3>1, FS_Subset DEF Attempts
  <2>3. PICK e : Attempts = {e}
    BY <2>2, FS_Singleton
  <2> QED
    BY <2>1, <2>3
<1> QED
  BY <1>1, ClockInit, ClockStep, PTL DEF Spec

\* While the session is clocked out, a loop that holds a permission has not yet
\* used it; while it is clocked in, no capture is late.
LateInv ==
  /\ late \in Nat
  /\ session \in {"clocked_in", "clocked_out"}
  /\ worker \in {"idle", "permitted"}
  /\ IF session = "clocked_in" THEN late = 0
     ELSE late <= 1 /\ (worker = "permitted" => late = 0)

LEMMA LateStep == LateInv /\ [Next]_vars => LateInv'
<1> SUFFICES ASSUME LateInv, [Next]_vars PROVE LateInv'
  OBVIOUS
<1> USE DEF LateInv, clockInVars, syncVars, diskVars, workVars, countVars, SetSession
<1>1. ASSUME NEW c \in Click, ClockIn(c) PROVE LateInv'
  <2>1. CASE UNCHANGED <<session, late, worker>>
    BY <2>1
  <2>2. CASE Activate(c) \/ Undo(c)
    BY <2>2 DEF Activate, Undo
  <2> QED
    BY <1>1, <2>1, <2>2 DEF ClockIn, ClickClockIn, Resolved, Started, StartFails, RecordClockIn,
       AppendRecord, RecordClockInFails, AppendFails, SetSessionFails, RefreshRules
<1>2. CASE ClockOut
  BY <1>2 DEF ClockOut, ClickClockOut, RecordClockOut, AppendRecord, Deactivate,
              ClockOutFails, AppendFails
<1>3. CASE Synchronise
  BY <1>3 DEF Synchronise, LoadPending, ReportAccepted, ReportRefused, ReportLost,
              ReplacePending, ReplaceFails
<1>4. CASE Restart
  BY <1>4 DEF Restart
<1>5. CASE Work
  BY <1>5 DEF Work, CheckSession, Capture
<1>6. CASE UNCHANGED vars
  BY <1>6 DEF vars
<1> QED
  BY <1>1, <1>2, <1>3, <1>4, <1>5, <1>6 DEF Next

\* After the session is set to clocked out the agent captures at most once more,
\* however clock events, failures and restarts interleave with its loop.
THEOREM LateCorrect == Spec => []AtMostOneLateCapture
<1>1. Init => LateInv
  BY DEF Init, LateInv
<1>2. LateInv => AtMostOneLateCapture
  BY DEF LateInv, AtMostOneLateCapture
<1> QED
  BY <1>1, <1>2, LateStep, PTL DEF Spec

------------------------------------------------------------------------------
(* Sequences of records: what they hold, and that they hold it once. *)

\* A set of numbers has a least element.
LEMMA LeastExists ==
  ASSUME NEW S \in SUBSET Nat, S # {}
  PROVE  \E m \in S : \A i \in S : m <= i
<1>1. PICK m \in S : \A i \in S : ~ (<<i, m>> \in OpToRel(<, Nat))
  BY NatLessThanWellFounded, WFMin, Zenon
<1>2. \A i \in S : i \in Nat /\ m \in Nat /\ ~ (i < m)
  BY <1>1, Zenon DEF OpToRel
<1> QED
  BY <1>2

LEMMA AppendHolds ==
  ASSUME NEW S, NEW s \in Seq(S), NEW r \in S
  PROVE  /\ Append(s, r) \in Seq(S)
         /\ ToSet(Append(s, r)) = ToSet(s) \cup {r}
         /\ IsInjective(s) /\ r \notin ToSet(s) => IsInjective(Append(s, r))
<1>1. /\ Append(s, r) \in Seq(S) /\ Len(s) \in Nat /\ DOMAIN s = 1..Len(s)
      /\ DOMAIN Append(s, r) = 1..(Len(s) + 1)
      /\ \A i \in 1..Len(s) : Append(s, r)[i] = s[i]
      /\ Append(s, r)[Len(s) + 1] = r
  BY AppendProperties, LenProperties
<1>2. 1..(Len(s) + 1) = 1..Len(s) \cup {Len(s) + 1}
  BY <1>1
<1>3. ToSet(Append(s, r)) = ToSet(s) \cup {r}
  BY <1>1, <1>2 DEF ToSet
<1>4. IsInjective(s) /\ r \notin ToSet(s) => IsInjective(Append(s, r))
  BY <1>1, <1>2 DEF ToSet, IsInjective
<1> QED
  BY <1>1, <1>3, <1>4

LEMMA HeadTailHold ==
  ASSUME NEW S, NEW s \in Seq(S), s # <<>>
  PROVE  /\ Head(s) \in S /\ Tail(s) \in Seq(S)
         /\ ToSet(s) = {Head(s)} \cup ToSet(Tail(s))
         /\ IsInjective(s) => IsInjective(Tail(s)) /\ Head(s) \notin ToSet(Tail(s))
<1>1. /\ Head(s) \in S /\ Tail(s) \in Seq(S) /\ Head(s) = s[1]
      /\ Len(s) \in Nat \ {0} /\ Len(Tail(s)) = Len(s) - 1
      /\ DOMAIN s = 1..Len(s) /\ DOMAIN Tail(s) = 1..(Len(s) - 1)
      /\ \A i \in 1..(Len(s) - 1) : Tail(s)[i] = s[i + 1]
  BY HeadTailProperties, LenProperties, EmptySeq
<1>2. \A i \in 1..Len(s) : i = 1 \/ (i - 1 \in 1..(Len(s) - 1) /\ s[i] = Tail(s)[i - 1])
  BY <1>1
<1>3. ToSet(s) = {Head(s)} \cup ToSet(Tail(s))
  <2>1. ToSet(s) \subseteq {Head(s)} \cup ToSet(Tail(s))
    <3>1. \A i \in 1..Len(s) : s[i] = Head(s) \/ s[i] \in {Tail(s)[j] : j \in 1..(Len(s) - 1)}
      BY <1>1, <1>2
    <3> QED
      BY <1>1, <3>1 DEF ToSet
  <2>2. {Head(s)} \cup ToSet(Tail(s)) \subseteq ToSet(s)
    BY <1>1 DEF ToSet
  <2> QED
    BY <2>1, <2>2
<1>4. IsInjective(s) => IsInjective(Tail(s)) /\ Head(s) \notin ToSet(Tail(s))
  BY <1>1 DEF IsInjective, ToSet
<1> QED
  BY <1>1, <1>3, <1>4

LEMMA ConcatHolds ==
  ASSUME NEW S, NEW s \in Seq(S), NEW t \in Seq(S)
  PROVE  /\ s \o t \in Seq(S)
         /\ ToSet(s \o t) = ToSet(s) \cup ToSet(t)
         /\ IsInjective(s) /\ IsInjective(t) /\ ToSet(s) \cap ToSet(t) = {} => IsInjective(s \o t)
<1>1. /\ s \o t \in Seq(S) /\ Len(s \o t) = Len(s) + Len(t)
      /\ DOMAIN s = 1..Len(s) /\ DOMAIN t = 1..Len(t) /\ DOMAIN (s \o t) = 1..(Len(s) + Len(t))
      /\ Len(s) \in Nat /\ Len(t) \in Nat
  BY ConcatProperties, LenProperties
<1>2. \A i \in 1..(Len(s) + Len(t)) :
        \/ i \in 1..Len(s) /\ (s \o t)[i] = s[i]
        \/ i - Len(s) \in 1..Len(t) /\ (s \o t)[i] = t[i - Len(s)]
  BY <1>1, ConcatProperties
<1>3. \A i \in 1..Len(t) : i + Len(s) \in 1..(Len(s) + Len(t)) /\ (s \o t)[i + Len(s)] = t[i]
  BY <1>1, ConcatProperties
<1>4. \A i \in 1..Len(s) : i \in 1..(Len(s) + Len(t)) /\ (s \o t)[i] = s[i]
  BY <1>1, ConcatProperties
<1>5. ToSet(s \o t) \subseteq ToSet(s) \cup ToSet(t)
  BY <1>1, <1>2 DEF ToSet
<1>6. ToSet(s) \cup ToSet(t) \subseteq ToSet(s \o t)
  BY <1>1, <1>3, <1>4 DEF ToSet
<1>7. ASSUME IsInjective(s), IsInjective(t), ToSet(s) \cap ToSet(t) = {} PROVE IsInjective(s \o t)
  <2>1. SUFFICES ASSUME NEW i \in 1..(Len(s) + Len(t)), NEW j \in 1..(Len(s) + Len(t)),
                        (s \o t)[i] = (s \o t)[j]
                 PROVE  i = j
    BY <1>1 DEF IsInjective
  <2>2. CASE i \in 1..Len(s) /\ (s \o t)[i] = s[i]
    <3>1. CASE j \in 1..Len(s) /\ (s \o t)[j] = s[j]
      BY <1>1, <1>7, <2>1, <2>2, <3>1 DEF IsInjective
    <3>2. CASE j - Len(s) \in 1..Len(t) /\ (s \o t)[j] = t[j - Len(s)]
      BY <1>1, <1>7, <2>1, <2>2, <3>2 DEF ToSet
    <3> QED
      BY <1>2, <3>1, <3>2
  <2>3. CASE i - Len(s) \in 1..Len(t) /\ (s \o t)[i] = t[i - Len(s)]
    <3>1. CASE j \in 1..Len(s) /\ (s \o t)[j] = s[j]
      BY <1>1, <1>7, <2>1, <2>3, <3>1 DEF ToSet
    <3>2. CASE j - Len(s) \in 1..Len(t) /\ (s \o t)[j] = t[j - Len(s)]
      <4>1. i - Len(s) = j - Len(s)
        BY <1>1, <1>7, <2>1, <2>3, <3>2 DEF IsInjective
      <4> QED
        BY <1>1, <4>1
    <3> QED
      BY <1>2, <3>1, <3>2
  <2> QED
    BY <1>2, <2>2, <2>3
<1> QED
  BY <1>1, <1>5, <1>6, <1>7

LEMMA PrefixHolds ==
  ASSUME NEW S, NEW s \in Seq(S), NEW n \in 0..Len(s)
  PROVE  /\ SubSeq(s, 1, n) \in Seq(S) /\ Len(SubSeq(s, 1, n)) = n
         /\ ToSet(SubSeq(s, 1, n)) \subseteq ToSet(s)
         /\ IsInjective(s) => IsInjective(SubSeq(s, 1, n))
<1>1. Len(s) \in Nat /\ DOMAIN s = 1..Len(s) /\ n \in Nat /\ n <= Len(s)
  BY LenProperties
<1>2. \A i \in 1..n : i \in DOMAIN s /\ s[i] \in S
  BY <1>1, ElementOfSeq
<1>3. /\ SubSeq(s, 1, n) \in Seq(S) /\ Len(SubSeq(s, 1, n)) = n
      /\ \A i \in 1..n : SubSeq(s, 1, n)[i] = s[i]
  <2>1. 1 \in Int /\ n \in Int /\ \A i \in 1..n : s[i] \in S
    BY <1>1, <1>2
  <2>2. /\ SubSeq(s, 1, n) \in Seq(S) /\ Len(SubSeq(s, 1, n)) = IF 1 <= n THEN n - 1 + 1 ELSE 0
        /\ \A i \in 1..(n - 1 + 1) : SubSeq(s, 1, n)[i] = s[1 + i - 1]
    BY <2>1, SubSeqProperties
  <2> QED
    BY <1>1, <2>2
<1>4. DOMAIN SubSeq(s, 1, n) = 1..n
  BY <1>3, LenProperties
<1> QED
  BY <1>1, <1>2, <1>3, <1>4 DEF ToSet, IsInjective

\* The recursion of Without is well founded.
LEMMA KeptExists ==
  ASSUME NEW S, NEW s \in Seq(S), NEW d
  PROVE  \E f : /\ f = [n \in 0..Len(s) |->
                          IF n = 0 THEN <<>>
                          ELSE IF s[n] \in d THEN f[n - 1] ELSE Append(f[n - 1], s[n])]
                /\ Without(s, d) = f[Len(s)]
<1> DEFINE Kept(f, m) ==
      f = [n \in 0..m |-> IF n = 0 THEN <<>>
                          ELSE IF s[n] \in d THEN f[n - 1] ELSE Append(f[n - 1], s[n])]
           Bad == {m \in Nat : m <= Len(s) /\ \A f : ~ Kept(f, m)}
<1>1. Bad = {}
  <2>1. SUFFICES ASSUME Bad # {} PROVE FALSE
    OBVIOUS
  <2>2. PICK m \in Bad : \A i \in Bad : m <= i
    <3> HIDE DEF Bad
    <3>1. Bad \in SUBSET Nat
      BY DEF Bad
    <3> QED
      BY <2>1, <3>1, LeastExists
  <2>3. m # 0
    <3>1. Kept([n \in {0} |-> <<>>], 0)
      BY 0..0 = {0}
    <3> QED
      BY <3>1
  <2>4. m - 1 \in Nat /\ m \in Nat /\ m <= Len(s) /\ Len(s) \in Nat
    BY <2>2, <2>3, LenProperties
  <2>5. m - 1 \notin Bad
    <3> HIDE DEF Bad
    <3> QED
      BY <2>2, <2>4
  <2>6. PICK f : Kept(f, m - 1)
    BY <2>4, <2>5
  <2> DEFINE g == [n \in 0..m |-> IF n = m THEN IF s[m] \in d THEN f[m - 1] ELSE Append(f[m - 1], s[m])
                                  ELSE f[n]]
  <2>7. Kept(g, m)
    <3>1. \A n \in 0..(m - 1) : f[n] = IF n = 0 THEN <<>>
                          ELSE IF s[n] \in d THEN f[n - 1] ELSE Append(f[n - 1], s[n])
      BY <2>6
    <3>2. \A n \in 0..(m - 1) : g[n] = f[n]
      BY <2>4
    <3>3. \A n \in 0..m : g[n] = IF n = 0 THEN <<>>
                          ELSE IF s[n] \in d THEN g[n - 1] ELSE Append(g[n - 1], s[n])
      BY <2>3, <2>4, <3>1, <3>2
    <3> HIDE DEF g
    <3>4. g = [n \in 0..m |-> g[n]]
      BY DEF g
    <3> QED
      BY <3>3, <3>4
  <2> QED
    BY <2>2, <2>7
<1>2. \E f : Kept(f, Len(s))
  BY <1>1, LenProperties
<1> QED
  BY <1>2 DEF Without

\* Without keeps what is not in the set, and nothing twice.
LEMMA WithoutHolds ==
  ASSUME NEW S, NEW s \in Seq(S), NEW d
  PROVE  /\ Without(s, d) \in Seq(S)
         /\ ToSet(Without(s, d)) = ToSet(s) \ d
         /\ IsInjective(s) => IsInjective(Without(s, d))
<1>1. PICK f : /\ f = [n \in 0..Len(s) |->
                         IF n = 0 THEN <<>>
                         ELSE IF s[n] \in d THEN f[n - 1] ELSE Append(f[n - 1], s[n])]
               /\ Without(s, d) = f[Len(s)]
  BY KeptExists
<1>2. f[0] = <<>> /\ Len(s) \in Nat /\ DOMAIN s = 1..Len(s)
  BY <1>1, LenProperties
<1>3. \A n \in 1..Len(s) :
        n \in 0..Len(s) /\ f[n] = IF s[n] \in d THEN f[n - 1] ELSE Append(f[n - 1], s[n])
  <2>1. \A n \in 1..Len(s) : n \in 0..Len(s) /\ n # 0
    BY <1>2
  <2> QED
    BY <1>1, <2>1
<1> DEFINE Holds(n) == /\ f[n] \in Seq(S)
                       /\ ToSet(f[n]) = {s[i] : i \in 1..n} \ d
                       /\ IsInjective(s) => IsInjective(f[n])
           Bad == {n \in Nat : n <= Len(s) /\ ~ Holds(n)}
<1>4. Bad = {}
  <2>1. SUFFICES ASSUME Bad # {} PROVE FALSE
    OBVIOUS
  <2>2. PICK m \in Bad : \A i \in Bad : m <= i
    <3> HIDE DEF Bad
    <3>1. Bad \in SUBSET Nat
      BY DEF Bad
    <3> QED
      BY <2>1, <3>1, LeastExists
  <2>3. Holds(0)
    BY <1>2 DEF ToSet, IsInjective
  <2>4. m # 0 /\ m \in 1..Len(s) /\ m - 1 \in Nat /\ m - 1 <= Len(s)
    <3>1. m # 0 /\ m \in Nat /\ m <= Len(s)
      BY <2>2, <2>3
    <3> QED
      BY <1>2, <3>1
  <2>5. m - 1 \notin Bad
    <3> HIDE DEF Bad
    <3> QED
      BY <2>2, <2>4
  <2>6. Holds(m - 1)
    BY <2>4, <2>5
  <2>7. s[m] \in S
    BY <2>4, ElementOfSeq
  <2>8. {s[i] : i \in 1..m} = {s[i] : i \in 1..(m - 1)} \cup {s[m]}
    <3>1. 1..m = 1..(m - 1) \cup {m}
      BY <2>4
    <3> QED
      BY <3>1
  <2>9. CASE s[m] \in d
    <3>1. f[m] = f[m - 1]
      BY <1>3, <2>4, <2>9
    <3> QED
      BY <2>2, <2>6, <2>8, <2>9, <3>1
  <2>10. CASE s[m] \notin d
    <3>1. f[m] = Append(f[m - 1], s[m])
      BY <1>3, <2>4, <2>10
    <3>2. IsInjective(s) => s[m] \notin ToSet(f[m - 1])
      BY <1>2, <2>4, <2>6 DEF IsInjective
    <3>3. f[m] \in Seq(S) /\ ToSet(f[m]) = ToSet(f[m - 1]) \cup {s[m]}
      BY <2>6, <2>7, <3>1, AppendHolds
    <3>4. IsInjective(s) => IsInjective(f[m])
      BY <2>6, <2>7, <3>1, <3>2, AppendHolds
    <3>5. Holds(m)
      BY <2>6, <2>8, <2>10, <3>3, <3>4
    <3> QED
      BY <2>2, <3>5
  <2> QED
    BY <2>9, <2>10
<1>5. Holds(Len(s))
  <2>1. Len(s) \in Nat /\ Len(s) <= Len(s) /\ Len(s) \notin Bad
    <3> HIDE DEF Bad
    <3> QED
      BY <1>2, <1>4
  <2> QED
    BY <2>1
<1>6. {s[i] : i \in 1..Len(s)} = ToSet(s)
  BY <1>2 DEF ToSet
<1> QED
  BY <1>1, <1>5, <1>6

------------------------------------------------------------------------------
(* Every event of the log has a number of its own: there are never more events *)
(* than finished attempts, restarts, and the clock-out of this run.            *)

Finished == {c \in Click : pc[c] \in {"done", "past"}}
OutLogged == IF out \in {"deactivating", "done", "failed"} THEN 1 ELSE 0
LogBounded == Len(log) <= Cardinality(Finished) + restarts + OutLogged

TypeInv == TypeOK /\ LogBounded

LEMMA FinishedType ==
  ASSUME LauncherAssumption
  PROVE  /\ IsFiniteSet(Finished) /\ Cardinality(Finished) \in Nat
         /\ Cardinality(Finished) <= MaxClicks
         /\ \A c \in Click \ Finished : Cardinality(Finished) < MaxClicks
<1>1. MaxClicks \in Nat /\ Click = 1..MaxClicks
  BY DEF LauncherAssumption, Click
<1>2. IsFiniteSet(Click) /\ Cardinality(Click) = MaxClicks
  <2>1. IsFiniteSet(1..MaxClicks) /\ Cardinality(1..MaxClicks) = MaxClicks - 1 + 1
    BY <1>1, FS_Interval
  <2> QED
    BY <1>1, <2>1
<1>3. Finished \subseteq Click
  BY DEF Finished
<1>4. /\ IsFiniteSet(Finished) /\ Cardinality(Finished) <= MaxClicks
      /\ Finished # Click => Cardinality(Finished) < MaxClicks
  <2>1. IsFiniteSet(Finished) /\ Cardinality(Finished) <= Cardinality(Click)
    BY <1>2, <1>3, FS_Subset
  <2>2. Cardinality(Finished) = Cardinality(Click) => Finished = Click
    BY <1>2, <1>3, FS_Subset
  <2>3. Cardinality(Finished) \in Nat
    BY <2>1, FS_CardinalityType
  <2> QED
    BY <1>1, <1>2, <2>1, <2>2, <2>3
<1> QED
  BY <1>4, FS_CardinalityType

\* An attempt that can still write to the log, or a clock-out that can, has a
\* number left for its event.
LEMMA NumberLeft ==
  ASSUME LauncherAssumption, TypeInv, out = "recording" \/ \E c \in Click : c \notin Finished
  PROVE  Len(log) + 1 \in Record
<1>1. /\ Len(log) \in Nat /\ Cardinality(Finished) \in Nat /\ restarts \in Nat /\ MaxClicks \in Nat
      /\ Cardinality(Finished) <= MaxClicks /\ restarts <= MaxRestarts /\ MaxRestarts \in Nat
      /\ OutLogged \in {0, 1}
  BY FinishedType, LenProperties DEF TypeInv, TypeOK, LauncherAssumption, OutLogged
<1>2. Len(log) <= MaxClicks + MaxRestarts
  <2>1. CASE out = "recording"
    BY <1>1, <2>1 DEF TypeInv, LogBounded, OutLogged
  <2>2. CASE \E c \in Click : c \notin Finished
    BY <1>1, <2>2, FinishedType DEF TypeInv, LogBounded
  <2> QED
    BY <2>1, <2>2
<1> QED
  BY <1>1, <1>2 DEF Record

\* The end of an attempt counts for one event, and no other step of it for any.
LEMMA GotoFinished ==
  ASSUME LauncherAssumption, TypeOK, NEW c \in Click, pc[c] \notin {"done", "past"},
         NEW l \in PcState \ {"past"}, Goto(c, l)
  PROVE  /\ pc' \in [Click -> PcState]
         /\ Cardinality(Finished') = Cardinality(Finished) + (IF l = "done" THEN 1 ELSE 0)
<1>1. pc \in [Click -> PcState]
  BY DEF TypeOK, PcState
<1>2. pc' \in [Click -> PcState] /\ \A d \in Click : pc'[d] = IF d = c THEN l ELSE pc[d]
  BY <1>1 DEF Goto
<1>3. CASE l = "done"
  <2>1. Finished' = Finished \cup {c} /\ c \notin Finished
    BY <1>2, <1>3 DEF Finished
  <2>2. Cardinality(Finished \cup {c}) = Cardinality(Finished) + 1
    BY <2>1, FinishedType, FS_AddElement
  <2> QED
    BY <1>2, <1>3, <2>1, <2>2
<1>4. CASE l # "done"
  <2>1. Finished' = Finished
    BY <1>2, <1>4 DEF Finished
  <2>2. Cardinality(Finished) \in Nat
    BY FinishedType
  <2> QED
    BY <1>2, <1>4, <2>1, <2>2
<1> QED
  BY <1>3, <1>4

\* What can be read of the pending file once a torn line is joined with the next.
LEMMA JoinedHolds ==
  ASSUME TypeOK
  PROVE  /\ Joined \in Seq(Record) /\ ToSet(Joined) \subseteq ToSet(pending)
         /\ IsInjective(pending) => IsInjective(Joined)
<1>1. CASE torn = "whole"
  <2>1. pending \in Seq(Record) /\ Len(pending) - 1 \in 0..Len(pending)
    BY <1>1, LenProperties, EmptySeq DEF TypeOK
  <2>2. Joined = SubSeq(pending, 1, Len(pending) - 1)
    BY <1>1 DEF Joined, Front
  <2> QED
    BY <2>1, <2>2, PrefixHolds
<1>2. CASE torn # "whole"
  BY <1>2 DEF Joined, TypeOK
<1> QED
  BY <1>1, <1>2

\* What a replay writes back.
LEMMA CompactedHolds ==
  ASSUME TypeOK
  PROVE  /\ Compacted \in Seq(Record)
         /\ ToSet(Compacted) = (ToSet(pending) \ loaded) \cup ToSet(remaining)
         /\ IsInjective(pending) /\ IsInjective(remaining) /\ ToSet(remaining) \subseteq loaded
              => IsInjective(Compacted)
<1>1. pending \in Seq(Record) /\ remaining \in Seq(Record)
  BY DEF TypeOK
<1>2. /\ Without(pending, loaded) \in Seq(Record)
      /\ ToSet(Without(pending, loaded)) = ToSet(pending) \ loaded
      /\ IsInjective(pending) => IsInjective(Without(pending, loaded))
  BY <1>1, WithoutHolds
<1>3. /\ Compacted \in Seq(Record)
      /\ ToSet(Compacted) = ToSet(Without(pending, loaded)) \cup ToSet(remaining)
      /\ IsInjective(Without(pending, loaded)) /\ IsInjective(remaining)
           /\ ToSet(Without(pending, loaded)) \cap ToSet(remaining) = {}
           => IsInjective(Compacted)
  BY <1>1, <1>2, ConcatHolds DEF Compacted
<1> QED
  BY <1>2, <1>3

\* The pending file after an event has been recorded.
LEMMA AppendType ==
  ASSUME TypeOK, Len(log) + 1 \in Record, NEW e \in {"in", "out"}, AppendRecord(e)
  PROVE  /\ log' \in Seq({"in", "out"}) /\ Len(log') = Len(log) + 1
         /\ pending' \in Seq(Record) /\ torn' = "no" /\ session' = session
<1>1. log \in Seq({"in", "out"}) /\ pending \in Seq(Record)
  BY DEF TypeOK
<1>2. Append(pending, Len(log) + 1) \in Seq(Record)
  BY <1>1, AppendHolds
<1> QED
  BY <1>1, <1>2, JoinedHolds, AppendProperties DEF AppendRecord

\* A counter that is below its bound can be raised.
LEMMA CountUp ==
  ASSUME LauncherAssumption, TypeOK
  PROVE  /\ restarts < MaxRestarts => restarts + 1 \in 0..MaxRestarts
         /\ mishaps < MaxMishaps => mishaps + 1 \in 0..MaxMishaps
         /\ faults < MaxFaults => faults + 1 \in 0..MaxFaults
         /\ cuts < MaxCuts => cuts + 1 \in 0..MaxCuts
BY DEF TypeOK, LauncherAssumption

\* And after an attempt that failed.
LEMMA AppendFailsType ==
  ASSUME LauncherAssumption, TypeOK, Len(log) + 1 \in Record, NEW e \in {"in", "out"}, AppendFails(e)
  PROVE  /\ log' \in Seq({"in", "out"}) /\ Len(log') \in {Len(log), Len(log) + 1}
         /\ pending' \in Seq(Record) /\ session' = session
         /\ torn' \in {"no", "partial", "whole"} /\ (torn' = "whole" => pending' # <<>>)
         /\ faults' \in 0..MaxFaults /\ cuts' \in 0..MaxCuts
<1>1. /\ log \in Seq({"in", "out"}) /\ pending \in Seq(Record)
      /\ torn \in {"no", "partial", "whole"} /\ (torn = "whole" => pending # <<>>)
      /\ faults \in 0..MaxFaults /\ cuts \in 0..MaxCuts
  BY DEF TypeOK
<1>2. /\ Append(log, e) \in Seq({"in", "out"}) /\ Len(Append(log, e)) = Len(log) + 1
      /\ Append(pending, Len(log) + 1) \in Seq(Record) /\ Append(pending, Len(log) + 1) # <<>>
  BY <1>1, AppendProperties
<1>3. CASE faults < MaxFaults /\ faults' = faults + 1 /\ log' \in {log, Append(log, e)}
           /\ UNCHANGED <<session, pending, torn, cuts>>
  BY <1>1, <1>2, <1>3, CountUp
<1>4. CASE cuts < MaxCuts /\ cuts' = cuts + 1 /\ log' = Append(log, e) /\ UNCHANGED <<session, faults>>
           /\ \/ pending' = Joined /\ torn' = "partial"
              \/ torn = "no" /\ pending' = Append(pending, Len(log) + 1) /\ torn' = "whole"
  <2>1. cuts' \in 0..MaxCuts /\ faults' \in 0..MaxFaults /\ Len(log') = Len(log) + 1
    BY <1>1, <1>2, <1>4, CountUp
  <2>2. pending' \in Seq(Record) /\ (torn' = "whole" => pending' # <<>>)
    BY <1>2, <1>4, JoinedHolds
  <2> QED
    BY <1>1, <1>2, <1>4, <2>1, <2>2
<1> QED
  BY <1>3, <1>4 DEF AppendFails

\* Every step of a clock-in attempt keeps the types.
LEMMA TypeClockIn ==
  ASSUME LauncherAssumption, TypeInv, NEW c \in Click, ClockIn(c)
  PROVE  TypeInv'
<1> USE DEF clockInVars, syncVars, diskVars, workVars, countVars, SetSession
<1>0. /\ TypeOK /\ LogBounded /\ Len(log) \in Nat /\ Cardinality(Finished) \in Nat /\ restarts \in Nat
      /\ OutLogged \in {0, 1}
  BY LenProperties, FinishedType DEF TypeInv, TypeOK, LauncherAssumption, OutLogged
<1>1. CASE RecordClockIn(c) \/ RecordClockInFails(c)
  <2>1. pc[c] = "recording" /\ Goto(c, "done") /\ UNCHANGED <<out, restarts>>
    BY <1>1 DEF RecordClockIn, RecordClockInFails
  <2>2. /\ pc' \in [Click -> PcState] /\ Cardinality(Finished') = Cardinality(Finished) + 1
    BY <1>0, <2>1, GotoFinished DEF PcState
  <2>3. Len(log) + 1 \in Record
    BY <1>0, <2>1, NumberLeft DEF Finished, TypeInv
  <2>4. CASE RecordClockIn(c)
    <3>1. Len(log') = Len(log) + 1 /\ OutLogged' = OutLogged
      BY <1>0, <2>3, <2>4, AppendType DEF RecordClockIn, OutLogged
    <3>2. LogBounded'
      BY <1>0, <2>1, <2>2, <3>1 DEF LogBounded
    <3>3. TypeOK'
      BY <1>0, <2>2, <2>3, <2>4, AppendType DEF RecordClockIn, TypeOK, PcState, Replay
    <3> QED
      BY <3>2, <3>3 DEF TypeInv
  <2>5. CASE RecordClockInFails(c)
    <3>1. /\ log' \in Seq({"in", "out"}) /\ Len(log') \in {Len(log), Len(log) + 1}
          /\ pending' \in Seq(Record) /\ session' = session
          /\ torn' \in {"no", "partial", "whole"} /\ (torn' = "whole" => pending' # <<>>)
          /\ faults' \in 0..MaxFaults /\ cuts' \in 0..MaxCuts
      BY <1>0, <2>3, <2>5, AppendFailsType DEF RecordClockInFails
    <3>2. LogBounded'
      BY <1>0, <2>1, <2>2, <3>1 DEF LogBounded, OutLogged
    <3>3. TypeOK'
      BY <1>0, <2>2, <2>5, <3>1 DEF RecordClockInFails, TypeOK, PcState
    <3> QED
      BY <3>2, <3>3 DEF TypeInv
  <2> QED
    BY <1>1, <2>4, <2>5
<1>2. ASSUME UNCHANGED <<out, log, restarts>>, NEW l \in PcState \ {"past"}, Goto(c, l),
             pc[c] \notin {"done", "past"}
      PROVE  LogBounded' /\ pc' \in [Click -> PcState]
  BY <1>0, <1>2, GotoFinished DEF LogBounded, OutLogged
<1>3. CASE ClickClockIn(c)
  BY <1>0, <1>2, <1>3 DEF ClickClockIn, TypeInv, TypeOK, PcState
<1>4. CASE Resolved(c)
  BY <1>0, <1>2, <1>4 DEF Resolved, TypeInv, TypeOK, PcState
<1>5. CASE Activate(c)
  BY <1>0, <1>2, <1>5 DEF Activate, TypeInv, TypeOK, PcState
<1>6. CASE Started(c)
  BY <1>0, <1>2, <1>6 DEF Started, TypeInv, TypeOK, PcState
<1>7. CASE StartFails(c)
  BY <1>0, <1>2, <1>7 DEF StartFails, TypeInv, TypeOK, PcState, LauncherAssumption
<1>8. CASE Undo(c)
  BY <1>0, <1>2, <1>8 DEF Undo, TypeInv, TypeOK, PcState
<1>9. CASE SetSessionFails(c)
  <2>1. faults' \in 0..MaxFaults
    BY <1>0, <1>9, CountUp DEF SetSessionFails
  <2>2. LogBounded' /\ pc' \in [Click -> PcState]
    <3>1. Goto(c, "done") /\ pc[c] \notin {"done", "past"} /\ UNCHANGED <<out, log, restarts>>
      BY <1>9 DEF SetSessionFails
    <3> QED
      BY <1>2, <3>1 DEF PcState
  <2>3. UNCHANGED <<profile, panel, refreshing, out, syncVars, diskVars, workVars, received,
                    restarts, mishaps, cuts>>
    BY <1>9 DEF SetSessionFails
  <2> QED
    BY <1>0, <2>1, <2>2, <2>3 DEF TypeInv, TypeOK, PcState
<1>10. CASE RefreshRules(c)
  BY <1>0, <1>10 DEF RefreshRules, TypeInv, TypeOK, LogBounded, Finished, OutLogged
<1> QED
  BY <1>1, <1>3, <1>4, <1>5, <1>6, <1>7, <1>8, <1>9, <1>10 DEF ClockIn

LEMMA TypeClockOut ==
  ASSUME LauncherAssumption, TypeInv, ClockOut
  PROVE  TypeInv'
<1> USE DEF clockInVars, syncVars, diskVars, workVars, countVars, SetSession
<1>0. /\ TypeOK /\ LogBounded /\ Len(log) \in Nat /\ Cardinality(Finished) \in Nat /\ restarts \in Nat
  BY LenProperties, FinishedType DEF TypeInv, TypeOK, LauncherAssumption
<1>1. UNCHANGED <<pc, restarts>> /\ Finished' = Finished
  BY DEF ClockOut, ClickClockOut, RecordClockOut, Deactivate, ClockOutFails, Finished
<1>2. CASE ClickClockOut
  BY <1>0, <1>1, <1>2 DEF ClickClockOut, CanClockOut, TypeInv, TypeOK, LogBounded, OutLogged
<1>3. CASE RecordClockOut
  <2>1. Len(log) + 1 \in Record
    BY <1>3, NumberLeft DEF RecordClockOut
  <2>2. Len(log') = Len(log) + 1 /\ OutLogged = 0 /\ OutLogged' = 1
    BY <1>0, <1>3, <2>1, AppendType DEF RecordClockOut, OutLogged
  <2>3. LogBounded'
    BY <1>0, <1>1, <2>2 DEF LogBounded
  <2>4. TypeOK'
    BY <1>0, <1>3, <2>1, AppendType DEF RecordClockOut, TypeOK
  <2> QED
    BY <2>3, <2>4 DEF TypeInv
<1>4. CASE Deactivate
  BY <1>0, <1>1, <1>4 DEF Deactivate, Replay, TypeInv, TypeOK, LogBounded, OutLogged
<1>5. CASE ClockOutFails
  <2>1. CASE out = "recording" /\ AppendFails("out")
    <3>1. Len(log) + 1 \in Record
      BY <2>1, NumberLeft
    <3>2. /\ log' \in Seq({"in", "out"}) /\ Len(log') \in {Len(log), Len(log) + 1}
          /\ pending' \in Seq(Record) /\ session' = session
          /\ torn' \in {"no", "partial", "whole"} /\ (torn' = "whole" => pending' # <<>>)
          /\ faults' \in 0..MaxFaults /\ cuts' \in 0..MaxCuts
      BY <1>0, <2>1, <3>1, AppendFailsType
    <3>3. OutLogged = 0 /\ OutLogged' = 1
      BY <1>5, <2>1 DEF ClockOutFails, OutLogged
    <3>4. LogBounded'
      BY <1>0, <1>1, <3>2, <3>3 DEF LogBounded
    <3>5. TypeOK'
      BY <1>0, <1>5, <3>2 DEF ClockOutFails, TypeOK
    <3> QED
      BY <3>4, <3>5 DEF TypeInv
  <2>2. CASE out = "deactivating" /\ faults < MaxFaults /\ faults' = faults + 1
             /\ UNCHANGED <<diskVars, cuts>>
    <3>1. faults' \in 0..MaxFaults
      BY <1>0, <2>2, CountUp
    <3> QED
      BY <1>0, <1>1, <1>5, <2>2, <3>1 DEF ClockOutFails, TypeInv, TypeOK, LogBounded, OutLogged
  <2> QED
    BY <1>5, <2>1, <2>2 DEF ClockOutFails
<1> QED
  BY <1>2, <1>3, <1>4, <1>5 DEF ClockOut

LEMMA TypeSynchronise ==
  ASSUME LauncherAssumption, TypeInv, Synchronise
  PROVE  TypeInv'
<1> USE DEF clockInVars, syncVars, diskVars, workVars, countVars
<1>0. TypeOK /\ LogBounded
  BY DEF TypeInv
<1>1. LogBounded'
  <2>1. UNCHANGED <<pc, out, log, restarts>>
    BY DEF Synchronise, LoadPending, ReportAccepted, ReportRefused, ReportLost, ReplacePending,
           ReplaceFails
  <2> QED
    BY <1>0, <2>1 DEF LogBounded, Finished, OutLogged
<1>2. CASE LoadPending
  <2>1. ToSet(pending) \subseteq Record
    BY <1>0, ElementOfSeq, LenProperties DEF TypeOK, ToSet
  <2>2. <<>> \in Seq(Record)
    BY EmptySeq
  <2> QED
    BY <1>0, <1>1, <1>2, <2>1, <2>2 DEF LoadPending, SyncEnds, TypeInv, TypeOK
<1>3. ASSUME Reporting
      PROVE  /\ Head(batch) \in Record /\ Tail(batch) \in Seq(Record)
             /\ Append(remaining, Head(batch)) \in Seq(Record)
             /\ [received EXCEPT ![Head(batch)] = @ + 1] \in [Record -> Nat]
  <2>1. batch \in Seq(Record) /\ batch # <<>> /\ remaining \in Seq(Record) /\ received \in [Record -> Nat]
    BY <1>0, <1>3 DEF TypeOK, Reporting
  <2>2. Head(batch) \in Record /\ Tail(batch) \in Seq(Record)
    BY <2>1, HeadTailHold
  <2> QED
    BY <2>1, <2>2, AppendHolds
<1>4. CASE ReportAccepted
  BY <1>0, <1>1, <1>3, <1>4 DEF ReportAccepted, TypeInv, TypeOK
<1>5. CASE ReportRefused
  BY <1>0, <1>1, <1>3, <1>5 DEF ReportRefused, TypeInv, TypeOK
<1>6. CASE ReportLost
  <2>1. mishaps' \in 0..MaxMishaps
    BY <1>0, <1>6, CountUp DEF ReportLost
  <2> QED
    BY <1>0, <1>1, <1>3, <1>6, <2>1 DEF ReportLost, TypeInv, TypeOK
<1>7. CASE ReplacePending
  <2>1. pending' \in Seq(Record) /\ <<>> \in Seq(Record)
    BY <1>0, <1>7, CompactedHolds, EmptySeq DEF ReplacePending
  <2> QED
    BY <1>0, <1>1, <1>7, <2>1 DEF ReplacePending, SyncEnds, TypeInv, TypeOK
<1>8. CASE ReplaceFails
  <2>1. faults' \in 0..MaxFaults /\ cuts' \in 0..MaxCuts
    BY <1>0, <1>8, CountUp DEF ReplaceFails, TypeOK
  <2>2. /\ pending' \in Seq(Record) /\ <<>> \in Seq(Record) /\ torn' \in {"no", "partial", "whole"}
        /\ torn' = "whole" => pending' # <<>>
    <3>1. \A n \in 0..Len(Compacted) : SubSeq(Compacted, 1, n) \in Seq(Record)
      BY <1>0, CompactedHolds, PrefixHolds
    <3> QED
      BY <1>0, <1>8, <3>1, EmptySeq DEF ReplaceFails, TypeOK
  <2> QED
    BY <1>0, <1>1, <1>8, <2>1, <2>2 DEF ReplaceFails, SyncEnds, TypeInv, TypeOK
<1> QED
  BY <1>2, <1>4, <1>5, <1>6, <1>7, <1>8 DEF Synchronise

\* A restart may count for one event: that of the clock-out of the run it ends.
LEMMA TypeRestart ==
  ASSUME LauncherAssumption, TypeInv, Restart
  PROVE  TypeInv'
<1> USE DEF clockInVars, syncVars, diskVars, workVars, countVars, SetSession
<1>0. /\ TypeOK /\ LogBounded /\ Len(log) \in Nat /\ Cardinality(Finished) \in Nat /\ restarts \in Nat
      /\ OutLogged \in {0, 1}
  BY LenProperties, FinishedType DEF TypeInv, TypeOK, LauncherAssumption, OutLogged
<1>1. restarts' \in 0..MaxRestarts /\ restarts' = restarts + 1 /\ log' = log
  BY <1>0, CountUp DEF Restart
<1>2. Finished \subseteq Finished' /\ Finished' \subseteq Click
  BY DEF Restart, Finished
<1>3. Cardinality(Finished) <= Cardinality(Finished') /\ Cardinality(Finished') \in Nat
  <2>1. IsFiniteSet(Click)
    BY FS_Interval DEF Click, LauncherAssumption
  <2>2. IsFiniteSet(Finished')
    BY <1>2, <2>1, FS_Subset
  <2> QED
    BY <1>2, <2>2, FS_Subset, FS_CardinalityType
<1>4. LogBounded'
  BY <1>0, <1>1, <1>3 DEF LogBounded, OutLogged, Restart
<1>5. TypeOK'
  <2>1. <<>> \in Seq(Record)
    BY EmptySeq
  <2>2. pc' \in [Click -> {"unused", "resolving", "activating", "starting", "undoing",
                           "recording", "done", "past"}]
    BY DEF Restart
  <2>3. session' \in {"clocked_in", "clocked_out"} /\ late' \in Nat /\ worker' = worker
    BY <1>0 DEF Restart, TypeOK
  <2> QED
    BY <1>0, <1>1, <2>1, <2>2, <2>3 DEF Restart, TypeOK
<1> QED
  BY <1>4, <1>5 DEF TypeInv

LEMMA TypeStep == LauncherAssumption /\ TypeInv /\ [Next]_vars => TypeInv'
<1> SUFFICES ASSUME LauncherAssumption, TypeInv, [Next]_vars PROVE TypeInv'
  OBVIOUS
<1> USE DEF clockInVars, syncVars, diskVars, workVars, countVars
<1>1. CASE Work
  <2>1. LogBounded'
    BY <1>1 DEF Work, CheckSession, Capture, TypeInv, LogBounded, Finished, OutLogged
  <2>2. worker' \in {"idle", "permitted"} /\ late' \in Nat
    BY <1>1 DEF Work, CheckSession, Capture, TypeInv, TypeOK
  <2>3. UNCHANGED <<clockInVars, out, syncVars, diskVars, received, countVars>>
    BY <1>1 DEF Work, CheckSession, Capture
  <2> QED
    BY <2>1, <2>2, <2>3 DEF TypeInv, TypeOK
<1>2. CASE UNCHANGED vars
  BY <1>2 DEF vars, TypeInv, TypeOK, LogBounded, Finished, OutLogged
<1> QED
  BY <1>1, <1>2, TypeClockIn, TypeClockOut, TypeSynchronise, TypeRestart DEF Next

LEMMA TypeInit == LauncherAssumption /\ Init => TypeInv
<1> SUFFICES ASSUME LauncherAssumption, Init PROVE TypeInv
  OBVIOUS
<1>1. TypeOK
  <2>1. <<>> \in Seq(Record) /\ <<>> \in Seq({"in", "out"})
    BY EmptySeq
  <2>2. 0 \in 0..MaxRestarts /\ 0 \in 0..MaxMishaps /\ 0 \in 0..MaxFaults /\ 0 \in 0..MaxCuts
    BY DEF LauncherAssumption
  <2> QED
    BY <2>1, <2>2 DEF Init, TypeOK
<1>2. LogBounded
  <2>1. Len(<<>>) = 0 /\ Cardinality(Finished) \in Nat
    BY EmptySeq, FinishedType
  <2> QED
    BY <2>1 DEF Init, LogBounded, OutLogged
<1> QED
  BY <1>1, <1>2 DEF TypeInv

LEMMA TypeInvCorrect == Spec => []TypeInv
BY TypeInit, TypeStep, LauncherAssumption, PTL DEF Spec

\* Every variable of the launcher keeps its type; in particular no event of the
\* log is numbered beyond the records that there can be.
THEOREM TypeCorrect == Spec => []TypeOK
BY TypeInvCorrect, PTL DEF TypeInv

------------------------------------------------------------------------------
(* Where a record is: in the log, in the pending file, in the replay, at the    *)
(* backend.                                                                    *)

\* The records of the running replay that the backend has.
Reported == loaded \ (ToSet(batch) \cup ToSet(remaining))

\* What a record can have been sent twice for.
Excuses == mishaps + restarts + faults

\* The pending file and the replay hold events of the log, and none twice.
InLog ==
  /\ ToSet(pending) \cup loaded \subseteq 1..Len(log)
  /\ \A r \in Record : received[r] > 0 => r <= Len(log)
Once ==
  /\ IsInjective(pending) /\ IsInjective(batch) /\ IsInjective(remaining)
  /\ ToSet(batch) \cap ToSet(remaining) = {}
Replaying ==
  /\ ToSet(batch) \cup ToSet(remaining) \subseteq loaded
  /\ sync # "reporting" => loaded = {} /\ batch = <<>> /\ remaining = <<>>

\* A record that the replay has finished with is at the backend; until a write
\* is cut short, what the replay has read is still in the file.
ReportedArrived == \A r \in Reported : received[r] > 0
CutFree == cuts = 0 => torn = "no" /\ loaded \subseteq ToSet(pending)

\* A record that the replay has still to report has been sent once for each excuse.
SentBefore == \A r \in (ToSet(pending) \cup loaded) \ Reported : received[r] <= Excuses

RecordInv ==
  /\ InLog /\ Once /\ Replaying /\ ReportedArrived /\ CutFree /\ SentBefore
  /\ ResentBounded /\ MissingBounded

PromiseStep == cuts' = 0 => [Promise!Next]_(Promise!vars)

\* The types that the proofs below need, spelt out once.
LEMMA RecordTypes ==
  ASSUME LauncherAssumption, TypeInv
  PROVE  /\ TypeOK /\ Len(log) \in Nat /\ DOMAIN log = 1..Len(log)
         /\ pending \in Seq(Record) /\ batch \in Seq(Record) /\ remaining \in Seq(Record)
         /\ ToSet(pending) \subseteq Record /\ ToSet(batch) \subseteq Record
         /\ ToSet(remaining) \subseteq Record /\ loaded \subseteq Record
         /\ received \in [Record -> Nat] /\ Excuses \in Nat
         /\ mishaps \in Nat /\ restarts \in Nat /\ faults \in Nat /\ cuts \in Nat
         /\ IsFiniteSet(Missing) /\ Missing \subseteq 1..Len(log)
<1>1. TypeOK /\ pending \in Seq(Record) /\ batch \in Seq(Record) /\ remaining \in Seq(Record)
  BY DEF TypeInv, TypeOK
<1>2. Len(log) \in Nat /\ DOMAIN log = 1..Len(log)
  BY LenProperties DEF TypeInv, TypeOK
<1>3. \A s \in Seq(Record) : ToSet(s) \subseteq Record
  BY ElementOfSeq, LenProperties DEF ToSet
<1>4. mishaps \in Nat /\ restarts \in Nat /\ faults \in Nat /\ cuts \in Nat
  BY DEF TypeInv, TypeOK, LauncherAssumption
<1>5. Missing \subseteq 1..Len(log)
  BY <1>2 DEF Missing
<1>6. IsFiniteSet(Missing)
  <2>1. IsFiniteSet(1..Len(log))
    BY <1>2, FS_Interval
  <2> QED
    BY <1>5, <2>1, FS_Subset
<1> QED
  BY <1>1, <1>2, <1>3, <1>4, <1>5, <1>6 DEF TypeOK, Excuses

\* The events that are missing do not become more.
LEMMA MissingStays ==
  ASSUME LauncherAssumption, TypeInv, MissingBounded,
         cuts = 0 => Missing' \subseteq Missing, cuts' = 0 => cuts = 0,
         faults' \in {faults, faults + 1}
  PROVE  MissingBounded'
<1>1. IsFiniteSet(Missing) /\ faults \in Nat
  BY RecordTypes
<1>2. ASSUME cuts = 0 PROVE Cardinality(Missing') <= Cardinality(Missing)
  BY <1>1, <1>2, FS_Subset
<1>3. Cardinality(Missing) \in Nat /\ (cuts = 0 => Cardinality(Missing') \in Nat)
  BY <1>1, FS_CardinalityType, FS_Subset
<1> QED
  BY <1>1, <1>2, <1>3 DEF MissingBounded

\* More may go wrong, and the bound on what is sent again grows with it.
LEMMA ExcusesGrow ==
  ASSUME LauncherAssumption, TypeInv, ResentBounded,
         mishaps' \in {mishaps, mishaps + 1}, restarts' \in {restarts, restarts + 1},
         faults' \in {faults, faults + 1}
  PROVE  /\ Excuses' \in Nat /\ Excuses <= Excuses'
         /\ mishaps' + restarts' + faults' > mishaps + restarts + faults => Excuses + 1 <= Excuses'
         /\ \A r \in Record : received[r] <= 1 + Excuses
         /\ received' = received => ResentBounded'
<1>1. /\ mishaps \in Nat /\ restarts \in Nat /\ faults \in Nat /\ received \in [Record -> Nat]
      /\ mishaps' \in Nat /\ restarts' \in Nat /\ faults' \in Nat
  BY RecordTypes
<1>2. \A r \in Record : received[r] \in Nat /\ received[r] <= 1 + mishaps + restarts + faults
  BY <1>1 DEF ResentBounded
<1>3. \A r \in Record : received[r] <= 1 + mishaps' + restarts' + faults'
  BY <1>1, <1>2
<1>4. received' = received => ResentBounded'
  BY <1>3 DEF ResentBounded
<1>5. \A r \in Record : received[r] <= 1 + Excuses
  BY <1>1, <1>2 DEF Excuses
<1>6. /\ Excuses' \in Nat /\ Excuses <= Excuses'
      /\ mishaps' + restarts' + faults' > mishaps + restarts + faults => Excuses + 1 <= Excuses'
  <2>1. Excuses = mishaps + restarts + faults /\ Excuses' = mishaps' + restarts' + faults'
    BY DEF Excuses
  <2>2. mishaps <= mishaps' /\ restarts <= restarts' /\ faults <= faults'
    BY <1>1
  <2>3. \A a, b, c, x, y, z \in Nat :
          a <= x /\ b <= y /\ c <= z
            => /\ x + y + z \in Nat /\ a + b + c <= x + y + z
               /\ x + y + z > a + b + c => a + b + c + 1 <= x + y + z
    OBVIOUS
  <2> QED
    BY <1>1, <2>1, <2>2, <2>3, Zenon
<1> QED
  BY <1>4, <1>5, <1>6

\* A step that touches neither the log, the pending file, the replay nor the
\* backend.  It may start a replay, or count something that went wrong.
LEMMA Aside ==
  ASSUME LauncherAssumption, TypeInv, RecordInv,
         UNCHANGED <<log, pending, torn, loaded, batch, remaining, received, mishaps, restarts, cuts>>,
         sync' = sync \/ (sync = "idle" /\ sync' = "loading"),
         faults' \in {faults, faults + 1}
  PROVE  RecordInv' /\ PromiseStep
<1>1. Reported' = Reported /\ Missing' = Missing
  BY DEF Reported, Missing
<1>2. /\ Excuses \in Nat /\ Excuses' \in Nat /\ Excuses <= Excuses' /\ received \in [Record -> Nat]
      /\ ResentBounded'
  BY RecordTypes, ExcusesGrow DEF RecordInv
<1>3. MissingBounded'
  BY <1>1, MissingStays DEF RecordInv
<1>4. \A r \in Record : received[r] <= Excuses => received[r] <= Excuses'
  BY <1>2
<1>5. SentBefore'
  <2>1. ToSet(pending) \cup loaded \subseteq Record
    BY RecordTypes
  <2> QED
    BY <1>1, <1>4, <2>1 DEF RecordInv, SentBefore
<1>6. InLog' /\ Once' /\ Replaying' /\ ReportedArrived' /\ CutFree'
  BY <1>1 DEF RecordInv, InLog, Once, Replaying, ReportedArrived, CutFree
<1>7. PromiseStep
  BY DEF PromiseStep, Promise!vars, Owed, Delivered
<1> QED
  BY <1>2, <1>3, <1>5, <1>6, <1>7 DEF RecordInv

\* An event is recorded: its number is a new one, owed from now on.
LEMMA Recorded ==
  ASSUME LauncherAssumption, TypeInv, RecordInv, Len(log) + 1 \in Record,
         NEW e \in {"in", "out"}, AppendRecord(e),
         sync' = sync \/ (sync = "idle" /\ sync' = "loading"),
         UNCHANGED <<loaded, batch, remaining, received, countVars>>
  PROVE  RecordInv' /\ PromiseStep
<1> DEFINE new == Len(log) + 1
<1>1. /\ Len(log) \in Nat /\ pending \in Seq(Record) /\ Len(log') = new /\ torn' = "no"
      /\ DOMAIN log = 1..Len(log) /\ received \in [Record -> Nat] /\ Excuses \in Nat
      /\ ToSet(pending) \cup loaded \subseteq Record
  BY RecordTypes, AppendType
<1>2. new \notin ToSet(pending) \cup loaded /\ received[new] = 0
  BY <1>1 DEF RecordInv, InLog
<1>3. IsInjective(pending') /\ ToSet(pending') \subseteq ToSet(pending) \cup {new}
  <2>1. CASE torn = "no"
    BY <1>1, <1>2, <2>1, AppendHolds DEF AppendRecord, RecordInv, Once
  <2>2. CASE torn # "no"
    BY <2>2, JoinedHolds, RecordTypes DEF AppendRecord, RecordInv, Once
  <2> QED
    BY <2>1, <2>2
<1>4. torn = "no" => ToSet(pending') = ToSet(pending) \cup {new}
  BY <1>1, AppendHolds DEF AppendRecord
<1>5. DOMAIN log' = 1..new /\ 1..new = 1..Len(log) \cup {new}
  <2>1. DOMAIN log' = 1..Len(log')
    BY AppendType, RecordTypes, LenProperties
  <2> QED
    BY <1>1, <2>1
<1>6. InLog'
  <2>1. \A r \in Record : received[r] > 0 => r <= Len(log')
    BY <1>1 DEF RecordInv, InLog, Record
  <2> QED
    BY <1>1, <1>3, <1>5, <2>1 DEF RecordInv, InLog
<1>7. Once' /\ Replaying' /\ Reported' = Reported /\ ReportedArrived'
  BY <1>3 DEF RecordInv, Once, Replaying, Reported, ReportedArrived
<1>8. CutFree'
  BY <1>1, <1>4 DEF RecordInv, CutFree, countVars
<1>9. SentBefore' /\ ResentBounded'
  BY <1>1, <1>2, <1>3, <1>7 DEF RecordInv, SentBefore, ResentBounded, Excuses, countVars
<1>10. MissingBounded'
  <2>1. cuts = 0 => Missing' \subseteq Missing
    BY <1>1, <1>4, <1>5 DEF RecordInv, CutFree, Missing
  <2> QED
    BY <2>1, MissingStays DEF RecordInv, countVars
<1>11. PromiseStep
  <2>1. SUFFICES ASSUME cuts = 0 PROVE Promise!Take(new)
    BY DEF PromiseStep, Promise!Next, countVars
  <2>2. Owed' = Owed \cup {new}
    BY <1>2, <1>4, <2>1 DEF Owed, RecordInv, CutFree
  <2> QED
    BY <1>2, <2>2 DEF Promise!Take, Owed, Delivered
<1> QED
  BY <1>6, <1>7, <1>8, <1>9, <1>10, <1>11 DEF RecordInv

\* Recording an event fails: it is missing then, unless a write was cut short.
LEMMA RecordFailed ==
  ASSUME LauncherAssumption, TypeInv, RecordInv, Len(log) + 1 \in Record,
         NEW e \in {"in", "out"}, AppendFails(e), UNCHANGED <<syncVars, received, mishaps, restarts>>
  PROVE  RecordInv' /\ PromiseStep
<1> DEFINE new == Len(log) + 1
<1> USE DEF syncVars
<1>1. /\ Len(log) \in Nat /\ pending \in Seq(Record) /\ Len(log') \in {Len(log), new}
      /\ received \in [Record -> Nat] /\ Excuses \in Nat
      /\ ToSet(pending) \cup loaded \subseteq Record /\ faults \in Nat /\ cuts \in Nat
  BY RecordTypes, AppendFailsType
<1>2. new \notin ToSet(pending) \cup loaded /\ received[new] = 0
  BY <1>1 DEF RecordInv, InLog
<1>3. /\ IsInjective(pending')
      /\ \/ pending' = pending
         \/ /\ ToSet(pending') \subseteq ToSet(pending) \cup {new}
            /\ Len(log') = new /\ cuts' = cuts + 1
  <2>1. CASE pending' = pending
    BY <2>1 DEF RecordInv, Once
  <2>2. CASE /\ pending' = Joined /\ log' = Append(log, e) /\ cuts' = cuts + 1
    <3>1. Len(log') = new
      BY <1>1, <2>2, AppendProperties DEF TypeInv, TypeOK
    <3> QED
      BY <2>2, <3>1, JoinedHolds, RecordTypes DEF RecordInv, Once
  <2>3. CASE pending' = Append(pending, new) /\ log' = Append(log, e) /\ cuts' = cuts + 1
    <3>1. Len(log') = new
      BY <1>1, <2>3, AppendProperties DEF TypeInv, TypeOK
    <3> QED
      BY <1>1, <1>2, <2>3, <3>1, AppendHolds DEF RecordInv, Once
  <2> QED
    BY <2>1, <2>2, <2>3 DEF AppendFails
<1>4. ToSet(pending') \subseteq ToSet(pending) \cup {new}
  BY <1>3
<1>5. cuts' = 0 => cuts = 0 /\ UNCHANGED <<pending, torn>> /\ faults' = faults + 1
  BY <1>1 DEF AppendFails
<1>6. InLog'
  <2>1. \A r \in Record : received[r] > 0 => r <= Len(log')
    BY <1>1 DEF RecordInv, InLog, Record
  <2>2. 1..Len(log) \subseteq 1..Len(log')
    BY <1>1
  <2>3. ToSet(pending') \cup loaded \subseteq 1..Len(log')
    BY <1>1, <1>3, <2>2 DEF RecordInv, InLog
  <2> QED
    BY <2>1, <2>3 DEF InLog
<1>7. Once' /\ Replaying' /\ Reported' = Reported /\ ReportedArrived'
  BY <1>3 DEF RecordInv, Once, Replaying, Reported, ReportedArrived
<1>8. CutFree'
  BY <1>5 DEF RecordInv, CutFree
<1>9. faults' \in {faults, faults + 1}
  BY DEF AppendFails
<1>10. Excuses' \in Nat /\ Excuses <= Excuses' /\ ResentBounded'
  BY <1>9, ExcusesGrow DEF RecordInv
<1>11. SentBefore'
  <2>1. \A r \in (ToSet(pending) \cup {new} \cup loaded) \ Reported : received[r] <= Excuses'
    BY <1>1, <1>2, <1>10 DEF RecordInv, SentBefore
  <2> QED
    BY <1>4, <1>7, <2>1 DEF SentBefore
<1>12. MissingBounded'
  <2>1. SUFFICES ASSUME cuts' = 0 PROVE Cardinality(Missing') <= faults'
    BY DEF MissingBounded
  <2>2. Missing' \subseteq Missing \cup {new}
    <3>1. DOMAIN log = 1..Len(log) /\ DOMAIN log' = 1..Len(log')
      BY RecordTypes, AppendFailsType, LenProperties
    <3>2. 1..new = 1..Len(log) \cup {new}
      BY <1>1
    <3>3. DOMAIN log' \subseteq DOMAIN log \cup {new}
      BY <1>1, <3>1, <3>2, Zenon
    <3> QED
      BY <1>5, <2>1, <3>3 DEF Missing
  <2>3. IsFiniteSet(Missing) /\ new \notin Missing
    <3>1. Missing \subseteq 1..Len(log) /\ IsFiniteSet(Missing)
      BY RecordTypes
    <3> QED
      BY <1>1, <3>1
  <2>4. IsFiniteSet(Missing \cup {new}) /\ Cardinality(Missing \cup {new}) = Cardinality(Missing) + 1
    BY <2>3, FS_AddElement
  <2>5. Cardinality(Missing') <= Cardinality(Missing) + 1 /\ Cardinality(Missing') \in Nat
    BY <2>2, <2>4, FS_Subset, FS_CardinalityType
  <2>6. Cardinality(Missing) <= faults /\ Cardinality(Missing) \in Nat
    BY <1>5, <2>1, <2>3, FS_CardinalityType DEF RecordInv, MissingBounded
  <2> QED
    BY <1>1, <1>5, <2>1, <2>5, <2>6
<1>13. PromiseStep
  BY <1>5 DEF PromiseStep, Promise!vars, Owed, Delivered
<1> QED
  BY <1>6, <1>7, <1>8, <1>10, <1>11, <1>12, <1>13 DEF RecordInv

\* Every event of the log has a number.
LEMMA LogInRecord ==
  ASSUME LauncherAssumption, TypeInv
  PROVE  DOMAIN log \subseteq Record
<1>1. /\ Len(log) \in Nat /\ Cardinality(Finished) \in Nat /\ restarts \in Nat /\ MaxClicks \in Nat
      /\ Cardinality(Finished) <= MaxClicks /\ restarts <= MaxRestarts /\ MaxRestarts \in Nat
      /\ OutLogged \in {0, 1}
  BY FinishedType, LenProperties DEF TypeInv, TypeOK, LauncherAssumption, OutLogged
<1>2. Len(log) <= MaxClicks + MaxRestarts + 1
  BY <1>1 DEF TypeInv, LogBounded
<1> QED
  BY <1>1, <1>2, RecordTypes DEF Record

\* A replay that ends, or begins, where there is nothing to replay.
LEMMA SyncAside ==
  ASSUME RecordInv, sync' # "reporting", loaded = {}, batch = <<>>, remaining = <<>>,
         UNCHANGED <<log, pending, torn, loaded, batch, remaining, received, countVars>>
  PROVE  RecordInv' /\ PromiseStep
BY DEF RecordInv, InLog, Once, Replaying, Reported, ReportedArrived, CutFree, SentBefore, Excuses,
       ResentBounded, MissingBounded, Missing, PromiseStep, Promise!vars, Owed, Delivered, countVars

LEMMA LoadStep ==
  ASSUME LauncherAssumption, TypeInv, RecordInv, LoadPending
  PROVE  RecordInv' /\ PromiseStep
<1> USE DEF clockInVars, diskVars, workVars, countVars
<1>1. CASE pending = <<>>
  <2>1. UNCHANGED <<log, pending, torn, loaded, batch, remaining, received, countVars>> /\ sync' # "reporting"
        /\ loaded = {} /\ batch = <<>> /\ remaining = <<>>
    BY <1>1 DEF LoadPending, SyncEnds, RecordInv, Replaying
  <2> QED
    BY <2>1, SyncAside
<1>2. CASE pending # <<>>
  <2>1. /\ UNCHANGED <<log, pending, torn, received, countVars>> /\ loaded = {}
        /\ sync' = "reporting" /\ loaded' = ToSet(pending) /\ batch' = pending /\ remaining' = <<>>
    BY <1>2 DEF LoadPending, RecordInv, Replaying
  <2>2. ToSet(<<>>) = {} /\ IsInjective(<<>>) /\ Reported' = {}
    BY <2>1 DEF ToSet, IsInjective, Reported
  <2>3. InLog' /\ Once' /\ Replaying' /\ ReportedArrived' /\ CutFree'
    BY <2>1, <2>2 DEF RecordInv, InLog, Once, Replaying, ReportedArrived, CutFree
  <2>4. SentBefore' /\ ResentBounded' /\ MissingBounded'
    BY <2>1, <2>2 DEF RecordInv, SentBefore, Excuses, ResentBounded, MissingBounded, Missing, Reported
  <2>5. PromiseStep
    BY <2>1 DEF PromiseStep, Promise!vars, Owed, Delivered
  <2> QED
    BY <2>3, <2>4, <2>5 DEF RecordInv
<1> QED
  BY <1>1, <1>2

\* One record of the replay is dealt with: the backend took it, or it is kept
\* for the next time, or both.
LEMMA ReportStep ==
  ASSUME LauncherAssumption, TypeInv, RecordInv, ReportAccepted \/ ReportRefused \/ ReportLost
  PROVE  RecordInv' /\ PromiseStep
<1> USE DEF clockInVars, diskVars, workVars, countVars
<1> DEFINE r == Head(batch)
<1>1. /\ sync = "reporting" /\ sync' = "reporting" /\ batch # <<>> /\ batch' = Tail(batch)
      /\ UNCHANGED <<log, pending, torn, loaded, restarts, faults, cuts>>
  BY DEF ReportAccepted, ReportRefused, ReportLost, Reporting
<1>2. /\ \/ remaining' = remaining /\ received' = [received EXCEPT ![r] = @ + 1] /\ mishaps' = mishaps
         \/ remaining' = Append(remaining, r) /\ received' = received /\ mishaps' = mishaps
         \/ /\ remaining' = Append(remaining, r) /\ received' = [received EXCEPT ![r] = @ + 1]
            /\ mishaps' = mishaps + 1
  BY DEF ReportAccepted, ReportRefused, ReportLost
<1>3. /\ batch \in Seq(Record) /\ remaining \in Seq(Record) /\ received \in [Record -> Nat]
      /\ Excuses \in Nat /\ mishaps \in Nat /\ restarts \in Nat /\ faults \in Nat
      /\ loaded \subseteq Record /\ ToSet(pending) \subseteq Record
  BY RecordTypes
<1>4. /\ r \in Record /\ ToSet(batch) = {r} \cup ToSet(batch') /\ r \notin ToSet(batch')
      /\ IsInjective(batch') /\ r \in loaded /\ r \notin ToSet(remaining)
  BY <1>1, <1>3, HeadTailHold DEF RecordInv, Once, Replaying
<1>5. /\ IsInjective(Append(remaining, r)) /\ ToSet(Append(remaining, r)) = ToSet(remaining) \cup {r}
  BY <1>3, <1>4, AppendHolds DEF RecordInv, Once
<1>6. \/ ToSet(remaining') = ToSet(remaining) /\ received'[r] = received[r] + 1
      \/ ToSet(remaining') = ToSet(remaining) \cup {r}
  BY <1>2, <1>3, <1>4, <1>5
<1>7. /\ received' \in [Record -> Nat]
      /\ \A q \in Record : q # r => received'[q] = received[q]
      /\ received'[r] \in {received[r], received[r] + 1}
      /\ received'[r] = received[r] \/ ToSet(remaining') = ToSet(remaining) \/ mishaps' = mishaps + 1
  BY <1>2, <1>3, <1>4
<1>8. \A q \in Record : /\ received[q] \in Nat /\ received'[q] \in Nat
                        /\ received'[q] = received[q] \/ (q = r /\ received'[q] = received[q] + 1)
  BY <1>3, <1>4, <1>7
<1>9. Reported' = IF ToSet(remaining') = ToSet(remaining) THEN Reported \cup {r} ELSE Reported
  BY <1>1, <1>4, <1>6 DEF Reported
<1>10. Once' /\ Replaying'
  <2>1. IsInjective(remaining') /\ ToSet(remaining') \subseteq ToSet(remaining) \cup {r}
    BY <1>2, <1>5 DEF RecordInv, Once
  <2>2. IsInjective(pending')
    BY <1>1 DEF RecordInv, Once
  <2>3. ToSet(batch) \cap ToSet(remaining) = {} /\ ToSet(batch) \cup ToSet(remaining) \subseteq loaded
    BY DEF RecordInv, Once, Replaying
  <2>4. ToSet(batch') \cap ToSet(remaining') = {} /\ ToSet(batch') \cup ToSet(remaining') \subseteq loaded
    BY <1>4, <2>1, <2>3
  <2> QED
    BY <1>1, <1>4, <2>1, <2>2, <2>4 DEF Once, Replaying
<1>11. InLog'
  <2>1. \A q \in Record : received'[q] > 0 => received[q] > 0 \/ q = r
    BY <1>7
  <2>2. r <= Len(log) /\ \A q \in Record : received[q] > 0 => q <= Len(log)
    BY <1>4, RecordTypes DEF RecordInv, InLog
  <2> QED
    BY <1>1, <2>1, <2>2 DEF RecordInv, InLog
<1>12. ReportedArrived'
  <2>1. ToSet(remaining') = ToSet(remaining) => received'[r] > 0
    BY <1>3, <1>4, <1>6
  <2>2. \A q \in Record : received[q] > 0 => received'[q] > 0
    <3>1. TAKE q \in Record
    <3>2. received[q] \in Nat /\ (received'[q] = received[q] \/ received'[q] = received[q] + 1)
      BY <1>8
    <3> QED
      BY <3>2
  <2>3. Reported \subseteq Record
    BY <1>3 DEF Reported
  <2> QED
    BY <1>9, <2>1, <2>2, <2>3 DEF RecordInv, ReportedArrived
<1>13. CutFree'
  BY <1>1 DEF RecordInv, CutFree
<1>14. Excuses' \in Nat /\ Excuses <= Excuses' /\ (mishaps' = mishaps + 1 => Excuses' = Excuses + 1)
  <2>1. mishaps' = mishaps \/ mishaps' = mishaps + 1
    BY <1>2
  <2>2. Excuses = mishaps + restarts + faults /\ Excuses' = mishaps' + restarts + faults
    BY <1>1 DEF Excuses
  <2> QED
    BY <1>3, <2>1, <2>2
<1>15. received[r] <= Excuses
  BY <1>4 DEF RecordInv, SentBefore, Reported
<1>16. \A q \in Record : received'[q] <= 1 + Excuses'
  <2>1. \A q \in Record : received[q] <= 1 + Excuses
    BY <1>1, <1>2, ExcusesGrow DEF RecordInv
  <2> QED
    <3>1. TAKE q \in Record
    <3>2. \/ received'[q] = received[q] /\ received[q] <= 1 + Excuses
          \/ received'[q] = received[q] + 1 /\ received[q] <= Excuses
      BY <1>8, <1>15, <2>1
    <3> QED
      BY <1>3, <1>8, <1>14, <3>2
<1>17. ResentBounded'
  <2>1. \A q \in Record : received'[q] <= 1 + mishaps' + restarts' + faults'
    <3>1. Excuses' = mishaps' + restarts' + faults' /\ mishaps' \in Nat /\ restarts' \in Nat /\ faults' \in Nat
      BY <1>1, <1>2, <1>3 DEF Excuses
    <3> QED
      BY <1>16, <1>8, <3>1
  <2> QED
    BY <2>1 DEF ResentBounded
<1>18. SentBefore'
  <2>1. SUFFICES ASSUME NEW q \in (ToSet(pending) \cup loaded) \ Reported' PROVE received'[q] <= Excuses'
    BY <1>1 DEF SentBefore
  <2>2. q \in Record /\ received[q] <= Excuses
    BY <1>3, <1>9 DEF RecordInv, SentBefore
  <2>3. CASE q = r
    <3>1. ToSet(remaining') # ToSet(remaining)
      BY <1>9, <2>3
    <3> QED
      BY <1>3, <1>7, <1>14, <2>2, <2>3, <3>1
  <2>4. CASE q # r
    BY <1>3, <1>7, <1>14, <2>2, <2>4
  <2> QED
    BY <2>3, <2>4
<1>19. MissingBounded'
  <2>1. Missing' \subseteq Missing
    <3>1. \A q \in Record : received'[q] = 0 => received[q] = 0
      BY <1>3, <1>4, <1>7
    <3>2. \A q \in DOMAIN log : q \in Record
      BY RecordTypes, LogInRecord
    <3> QED
      BY <1>1, <3>1, <3>2 DEF Missing
  <2> QED
    BY <1>1, <2>1, MissingStays DEF RecordInv
<1>20. PromiseStep
  <2>1. SUFFICES ASSUME cuts = 0 PROVE [Promise!Next]_(Promise!vars)
    BY <1>1 DEF PromiseStep
  <2>2. r \in ToSet(pending)
    BY <1>4, <2>1 DEF RecordInv, CutFree
  <2>3. CASE received[r] = 0 /\ received'[r] = received[r] + 1
    <3>1. r \in Owed /\ Owed' = Owed \ {r} /\ Delivered' = Delivered \cup {r}
      BY <1>1, <1>3, <1>4, <1>7, <2>2, <2>3 DEF Owed, Delivered
    <3> QED
      BY <1>4, <3>1 DEF Promise!Next, Promise!Deliver
  <2>4. CASE received[r] > 0 \/ received'[r] = received[r]
    <3>1. \A q \in Record : /\ received'[q] = 0 <=> received[q] = 0
                            /\ received'[q] > 0 <=> received[q] > 0
      <4>1. TAKE q \in Record
      <4>2. /\ received[q] \in Nat
            /\ received'[q] = received[q] \/ (received[q] > 0 /\ received'[q] = received[q] + 1)
        BY <1>8, <2>4
      <4> QED
        BY <4>2
    <3>2. Owed' = Owed /\ Delivered' = Delivered
      <4>1. Owed' = {q \in ToSet(pending) : received'[q] = 0} /\ Delivered' = {q \in Record : received'[q] > 0}
        BY <1>1 DEF Owed, Delivered
      <4>2. ToSet(pending) \subseteq Record
        BY <1>3
      <4> QED
        BY <3>1, <4>1, <4>2 DEF Owed, Delivered
    <3> QED
      BY <3>2 DEF Promise!vars
  <2> QED
    BY <1>3, <1>4, <1>7, <2>3, <2>4
<1> QED
  BY <1>10, <1>11, <1>12, <1>13, <1>17, <1>18, <1>19, <1>20 DEF RecordInv

\* A replay that is given up: the program is restarted, or the file is not opened.
\* What it has sent may be sent again.
LEMMA ReplayGivenUp ==
  ASSUME LauncherAssumption, TypeInv, RecordInv, sync' \in {"idle", "loading"},
         loaded' = {}, batch' = <<>>, remaining' = <<>>,
         UNCHANGED <<log, pending, torn, received, mishaps, cuts>>,
         \/ restarts' = restarts + 1 /\ faults' = faults
         \/ restarts' = restarts /\ faults' = faults + 1
  PROVE  RecordInv' /\ PromiseStep
<1>1. Reported' = {} /\ ToSet(<<>>) = {} /\ IsInjective(<<>>) /\ Missing' = Missing
  BY DEF Reported, ToSet, IsInjective, Missing
<1>2. InLog' /\ Once' /\ Replaying' /\ ReportedArrived' /\ CutFree'
  BY <1>1 DEF RecordInv, InLog, Once, Replaying, ReportedArrived, CutFree
<1>3. /\ mishaps \in Nat /\ restarts \in Nat /\ faults \in Nat /\ Excuses \in Nat
      /\ received \in [Record -> Nat] /\ ToSet(pending) \subseteq Record
  BY RecordTypes
<1>4. mishaps' + restarts' + faults' > mishaps + restarts + faults
  BY <1>3
<1>5. /\ ResentBounded' /\ Excuses' \in Nat /\ Excuses + 1 <= Excuses'
      /\ \A r \in Record : received[r] <= 1 + Excuses
  BY <1>4, ExcusesGrow DEF RecordInv
<1>6. SentBefore'
  <2>1. \A r \in ToSet(pending) : received[r] <= Excuses'
    <3>1. TAKE r \in ToSet(pending)
    <3> QED
      BY <1>3, <1>5
  <2> QED
    BY <1>1, <2>1 DEF SentBefore
<1>7. MissingBounded'
  BY <1>1, MissingStays DEF RecordInv
<1>8. PromiseStep
  BY DEF PromiseStep, Promise!vars, Owed, Delivered
<1> QED
  BY <1>2, <1>5, <1>6, <1>7, <1>8 DEF RecordInv

\* What a replay writes back leaves out only records that the backend has.
LEMMA CompactedKeepsOwed ==
  ASSUME LauncherAssumption, TypeInv, RecordInv, batch = <<>>
  PROVE  /\ Compacted \in Seq(Record) /\ IsInjective(Compacted)
         /\ ToSet(Compacted) \subseteq (ToSet(pending) \cup loaded) \ Reported
         /\ \A r \in ToSet(pending) : received[r] = 0 => r \in ToSet(Compacted)
<1>1. ToSet(batch) = {}
  BY DEF ToSet
<1>2. /\ ToSet(Compacted) = (ToSet(pending) \ loaded) \cup ToSet(remaining)
      /\ Compacted \in Seq(Record) /\ IsInjective(Compacted)
  BY CompactedHolds DEF TypeInv, RecordInv, Once, Replaying
<1>3. ToSet(remaining) \subseteq loaded /\ Reported = loaded \ ToSet(remaining)
  BY <1>1 DEF RecordInv, Replaying, Reported
<1>4. \A r \in ToSet(pending) : received[r] = 0 => r \notin Reported
  <2>1. \A r \in Reported : received[r] > 0
    BY DEF RecordInv, ReportedArrived
  <2> QED
    BY <2>1
<1> QED
  BY <1>2, <1>3, <1>4

\* The replay ends, and the file holds some of what it was to hold.
LEMMA ReplayEnds ==
  ASSUME LauncherAssumption, TypeInv, RecordInv, batch = <<>>, SyncEnds,
         IsInjective(pending'), ToSet(pending') \subseteq ToSet(Compacted),
         cuts' = 0 => cuts = 0 /\ torn' = "no" /\ pending' = Compacted,
         UNCHANGED <<log, received, mishaps, restarts, faults>>
  PROVE  RecordInv' /\ PromiseStep
<1>1. /\ loaded' = {} /\ batch' = <<>> /\ remaining' = <<>> /\ sync' = "idle"
      /\ Reported' = {} /\ ToSet(<<>>) = {} /\ IsInjective(<<>>)
  BY DEF SyncEnds, Reported, ToSet, IsInjective
<1>2. /\ ToSet(pending') \subseteq (ToSet(pending) \cup loaded) \ Reported
      /\ \A r \in ToSet(pending) : received[r] = 0 => r \in ToSet(Compacted)
  BY CompactedKeepsOwed
<1>3. InLog' /\ Once' /\ Replaying' /\ ReportedArrived' /\ CutFree'
  BY <1>1, <1>2 DEF RecordInv, InLog, Once, Replaying, ReportedArrived, CutFree
<1>4. SentBefore' /\ ResentBounded'
  BY <1>1, <1>2 DEF RecordInv, SentBefore, ResentBounded, Excuses
<1>5. MissingBounded'
  <2>1. cuts' = 0 => Missing' \subseteq Missing
    BY <1>2 DEF Missing
  <2>2. CASE cuts' = 0
    <3>1. Cardinality(Missing) <= faults /\ IsFiniteSet(Missing) /\ faults \in Nat
      BY <2>2, RecordTypes DEF RecordInv, MissingBounded
    <3>2. Cardinality(Missing') <= Cardinality(Missing) /\ Cardinality(Missing) \in Nat
          /\ Cardinality(Missing') \in Nat
      BY <2>1, <2>2, <3>1, FS_Subset, FS_CardinalityType
    <3> QED
      BY <3>1, <3>2 DEF MissingBounded
  <2>3. CASE cuts' # 0
    BY <2>3 DEF MissingBounded
  <2> QED
    BY <2>2, <2>3
<1>6. PromiseStep
  <2>1. SUFFICES ASSUME cuts' = 0 PROVE Owed' = Owed /\ Delivered' = Delivered
    BY DEF PromiseStep, Promise!vars
  <2>2. ToSet(Compacted) \subseteq ToSet(pending) \cup loaded /\ pending' = Compacted
    BY <2>1, CompactedKeepsOwed
  <2>3. loaded \subseteq ToSet(pending)
    BY <2>1 DEF RecordInv, CutFree
  <2> QED
    BY <1>2, <2>2, <2>3 DEF Owed, Delivered
<1> QED
  BY <1>3, <1>4, <1>5, <1>6 DEF RecordInv

LEMMA ReplaceStep ==
  ASSUME LauncherAssumption, TypeInv, RecordInv, ReplacePending \/ ReplaceFails
  PROVE  RecordInv' /\ PromiseStep
<1> USE DEF clockInVars, diskVars, workVars, countVars
<1>1. Compacted \in Seq(Record) /\ IsInjective(Compacted) /\ batch = <<>> /\ SyncEnds /\ cuts \in Nat
  BY CompactedKeepsOwed, RecordTypes DEF ReplacePending, ReplaceFails
<1>2. CASE ReplacePending
  BY <1>1, <1>2, ReplayEnds DEF ReplacePending
<1>3. CASE ReplaceFails /\ cuts' = cuts + 1
  <2>1. PICK n \in 0..Len(Compacted) : pending' = SubSeq(Compacted, 1, n)
    BY <1>1, <1>3 DEF ReplaceFails
  <2>2. IsInjective(pending') /\ ToSet(pending') \subseteq ToSet(Compacted)
    BY <1>1, <2>1, PrefixHolds
  <2>3. UNCHANGED <<log, received, mishaps, restarts, faults>> /\ cuts' # 0
    BY <1>1, <1>3 DEF ReplaceFails
  <2> QED
    BY <1>1, <2>2, <2>3, ReplayEnds
<1>4. CASE ReplaceFails /\ cuts' = cuts /\ faults' = faults + 1
  <2>1. UNCHANGED <<log, pending, torn, received, mishaps, restarts, cuts>>
    BY <1>1, <1>4 DEF ReplaceFails
  <2> QED
    BY <1>1, <1>4, <2>1, ReplayGivenUp DEF SyncEnds
<1> QED
  BY <1>1, <1>2, <1>3, <1>4 DEF ReplaceFails

LEMMA RestartStep ==
  ASSUME LauncherAssumption, TypeInv, RecordInv, Restart
  PROVE  RecordInv' /\ PromiseStep
BY ReplayGivenUp DEF Restart

\* Every step keeps the invariant, and keeps the promise.
LEMMA RecordStep ==
  LauncherAssumption /\ TypeInv /\ RecordInv /\ [Next]_vars => RecordInv' /\ PromiseStep
<1> SUFFICES ASSUME LauncherAssumption, TypeInv, RecordInv, [Next]_vars PROVE RecordInv' /\ PromiseStep
  OBVIOUS
<1> USE DEF clockInVars, syncVars, diskVars, workVars, countVars
<1>1. ASSUME NEW c \in Click, ClockIn(c) PROVE RecordInv' /\ PromiseStep
  <2>1. CASE RecordClockIn(c) \/ RecordClockInFails(c)
    <3>1. Len(log) + 1 \in Record
      BY <2>1, NumberLeft DEF RecordClockIn, RecordClockInFails, Finished
    <3> QED
      BY <2>1, <3>1, Recorded, RecordFailed DEF RecordClockIn, RecordClockInFails, Replay
  <2>2. CASE ClickClockIn(c) \/ Resolved(c) \/ Activate(c) \/ Started(c) \/ StartFails(c) \/ Undo(c)
             \/ SetSessionFails(c) \/ RefreshRules(c)
    <3>1. /\ UNCHANGED <<log, pending, torn, loaded, batch, remaining, received, mishaps, restarts, cuts>>
          /\ sync' = sync /\ faults' \in {faults, faults + 1}
      BY <2>2 DEF ClickClockIn, Resolved, Activate, Started, StartFails, Undo, SetSessionFails,
                  RefreshRules, SetSession
    <3> QED
      BY <3>1, Aside
  <2> QED
    BY <1>1, <2>1, <2>2 DEF ClockIn
<1>2. CASE ClockOut
  <2>1. CASE out = "recording" /\ (RecordClockOut \/ ClockOutFails)
    <3>1. Len(log) + 1 \in Record
      BY <2>1, NumberLeft
    <3>2. CASE RecordClockOut
      <4>1. UNCHANGED <<loaded, batch, remaining, received, countVars, sync>> /\ AppendRecord("out")
        BY <3>2 DEF RecordClockOut
      <4> QED
        BY <3>1, <4>1, Recorded
    <3>3. CASE ClockOutFails
      BY <2>1, <3>1, <3>3, RecordFailed DEF ClockOutFails
    <3> QED
      BY <2>1, <3>2, <3>3
  <2>2. CASE ClickClockOut \/ Deactivate \/ (ClockOutFails /\ out # "recording")
    <3>1. /\ UNCHANGED <<log, pending, torn, loaded, batch, remaining, received, mishaps, restarts, cuts>>
          /\ sync' = sync \/ (sync = "idle" /\ sync' = "loading")
          /\ faults' \in {faults, faults + 1}
      BY <2>2 DEF ClickClockOut, Deactivate, ClockOutFails, Replay, SetSession
    <3> QED
      BY <3>1, Aside
  <2> QED
    BY <1>2, <2>1, <2>2 DEF ClockOut, RecordClockOut
<1>3. CASE Synchronise
  BY <1>3, LoadStep, ReportStep, ReplaceStep DEF Synchronise
<1>4. CASE Restart
  BY <1>4, RestartStep
<1>5. CASE Work \/ UNCHANGED vars
  <2>1. UNCHANGED <<log, pending, torn, loaded, batch, remaining, received, mishaps, restarts, cuts, sync, faults>>
    BY <1>5 DEF Work, CheckSession, Capture, vars
  <2> QED
    BY <2>1, Aside
<1> QED
  BY <1>1, <1>2, <1>3, <1>4, <1>5 DEF Next

LEMMA RecordInit == LauncherAssumption /\ Init => RecordInv /\ Promise!Init
<1> SUFFICES ASSUME LauncherAssumption, Init PROVE RecordInv /\ Promise!Init
  OBVIOUS
<1>1. ToSet(<<>>) = {} /\ IsInjective(<<>>) /\ DOMAIN log = {} /\ Missing = {} /\ Reported = {}
  BY DEF Init, ToSet, IsInjective, Missing, Reported
<1>2. MissingBounded
  BY <1>1, FS_EmptySet DEF Init, MissingBounded
<1>3. InLog /\ Once /\ Replaying /\ ReportedArrived /\ CutFree /\ SentBefore /\ ResentBounded
  BY <1>1 DEF Init, InLog, Once, Replaying, ReportedArrived, CutFree, SentBefore, ResentBounded, Excuses
<1>4. Promise!Init
  BY <1>1 DEF Init, Promise!Init, Owed, Delivered
<1> QED
  BY <1>2, <1>3, <1>4 DEF RecordInv

LEMMA RecordInvCorrect == Spec => [](TypeInv /\ RecordInv)
BY TypeInit, TypeStep, RecordInit, RecordStep, LauncherAssumption, PTL DEF Spec

\* A record reaches the backend twice only through a lost answer, a restart or a
\* failed file operation: once more for each, for any number of them and of
\* attempts.
THEOREM ResentCorrect == Spec => []ResentBounded
BY RecordInvCorrect, PTL DEF RecordInv

\* Until a write is cut short, every event of the log but one for each failed
\* file operation is in the pending file or at the backend.
THEOREM MissingCorrect == Spec => []MissingBounded
BY RecordInvCorrect, PTL DEF RecordInv

\* The launcher implements AtLeastOnce until a write is cut short: a record in the
\* pending file is owed until the backend has it.
THEOREM ReplayCorrect == Spec => ImplementsAtLeastOnce
<1>1. Init => Promise!Init
  BY RecordInit, LauncherAssumption
<1>2. TypeInv /\ RecordInv /\ [Next]_vars => (cuts' = 0 => [Promise!Next]_(Promise!vars))
  BY RecordStep, LauncherAssumption DEF PromiseStep
<1>3. UNCHANGED vars => UNCHANGED cuts
  BY DEF vars, countVars
<1> QED
  BY <1>1, <1>2, RecordInvCorrect, PTL DEF Spec, ImplementsAtLeastOnce
==============================================================================
