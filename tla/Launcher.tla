------------------------------- MODULE Launcher -------------------------------
(***************************************************************************)
(* The punch clock on the employee's desk (LauncherForm, AttendanceStore,  *)
(* AttendanceReporter) and what depends on it: the work session state file *)
(* that lets the agent service monitor, and the attendance records that    *)
(* are owed to the backend.                                                *)
(*                                                                         *)
(* Handlers run on the one UI thread and interleave at their awaits.       *)
(* Nothing stops a second clock-in while one is being awaited: the login   *)
(* panel stays until the first has finished.  The store's file lock makes  *)
(* each of its operations one step.  A profile is reduced to whether there *)
(* is one; the record of a clock event is its position in the log.  The log *)
(* is only ever appended to and read by nobody, so its own line ends do not  *)
(* matter.                                                                   *)
(***************************************************************************)
EXTENDS Integers, Sequences, FiniteSets, SequencesExt

CONSTANTS
  MaxClicks,    \* bound: clock-in attempts, over all runs of the launcher
  MaxRestarts,  \* bound: restarts of the launcher
  MaxMishaps,   \* bound: lost answers
  MaxFaults,    \* bound: file operations that fail, processes that do not start
  MaxCuts       \* bound: writes of the pending file that are cut short

ASSUME LauncherAssumption ==
  /\ MaxClicks \in Nat /\ MaxRestarts \in Nat
  /\ MaxMishaps \in Nat /\ MaxFaults \in Nat /\ MaxCuts \in Nat

Click == 1..MaxClicks
Record == 1..(MaxClicks + MaxRestarts + 1)

VARIABLES
  \* LauncherForm
  pc,         \* where each clock-in attempt is
  profile,    \* _currentEmployeeProfile is not null
  panel,      \* the visible panel: "login" or "attendance"
  out,        \* the clock-out: "no" while _clockOutAt is null
  refreshing, \* attempts whose RefreshRuleSummaryAsync is running
  sync,       \* ReplayPendingAsync: "idle", "loading", "reporting"
  loaded,     \* the pending records it has read
  batch,      \* those it has not reported yet
  remaining,  \* those that could not be reported
  \* on disk
  session,    \* SessionStatus in the work session state file
  log,        \* the events in the attendance log, "in" or "out"
  pending,    \* the records in the pending file
  torn,       \* its last line has no end: "no", "partial", "whole" but for the end
  \* the agent service and the backend
  worker,     \* the capture loop: "idle", or "permitted" after its check
  received,   \* how often the backend accepted each record
  \* history
  late,       \* captures since the session was last set to clocked out
  restarts, mishaps, faults, cuts

clockInVars == <<pc, profile, panel, refreshing>>
syncVars == <<sync, loaded, batch, remaining>>
diskVars == <<session, log, pending, torn>>
workVars == <<worker, late>>
countVars == <<restarts, mishaps, faults, cuts>>
vars == <<clockInVars, out, syncVars, diskVars, workVars, received, countVars>>

Init ==
  /\ pc = [c \in Click |-> "unused"]
  /\ profile = FALSE /\ panel = "login" /\ out = "no" /\ refreshing = {}
  /\ sync = "loading" /\ loaded = {} /\ batch = <<>> /\ remaining = <<>>
  /\ session = "clocked_out" /\ log = <<>> /\ pending = <<>> /\ torn = "no"
  /\ worker = "idle" /\ late = 0
  /\ received = [r \in Record |-> 0]
  /\ restarts = 0 /\ mishaps = 0 /\ faults = 0 /\ cuts = 0

------------------------------------------------------------------------------
(* AttendanceStore. *)

\* SetWorkSessionStateAsync
SetSession(status) ==
  /\ session' = status
  /\ late' = 0
  /\ UNCHANGED worker

\* What can be read of the pending file when text is put behind its last line:
\* a line without end becomes one with that text, and neither is a record.
Joined == IF torn = "whole" THEN Front(pending) ELSE pending

\* AppendAsync: first the log, then the pending file.
AppendRecord(event) ==
  /\ log' = Append(log, event)
  /\ pending' = IF torn = "no" THEN Append(pending, Len(log) + 1) ELSE Joined
  /\ torn' = "no"
  /\ UNCHANGED session

\* AppendAsync throws, or is interrupted (a Restart follows): before or after the
\* line has reached the log, or with a part of it in the pending file.
AppendFails(event) ==
  /\ UNCHANGED session
  /\ \/ /\ faults < MaxFaults /\ faults' = faults + 1
        /\ log' \in {log, Append(log, event)}
        /\ UNCHANGED <<pending, torn, cuts>>
     \/ /\ cuts < MaxCuts /\ cuts' = cuts + 1
        /\ log' = Append(log, event)
        /\ \/ pending' = Joined /\ torn' = "partial"
           \/ torn = "no" /\ pending' = Append(pending, Len(log) + 1) /\ torn' = "whole"
        /\ UNCHANGED faults

\* Mutant of Compacted: the file is replaced by what the replay has left over.
CompactedToRemaining == remaining

\* Mutant of Compacted: the replayed records are not taken out.
CompactedWithReplayed == pending \o remaining

\* The records of s that are not replayed ones, in their order.
Without(s, replayed) ==
  LET kept[n \in 0..Len(s)] ==
        IF n = 0 THEN <<>>
        ELSE IF s[n] \in replayed THEN kept[n - 1] ELSE Append(kept[n - 1], s[n])
  IN  kept[Len(s)]

\* What ReplaceReplayedPendingAsync writes: the records queued meanwhile, and
\* behind them those that could not be reported.
Compacted == Without(pending, loaded) \o remaining

------------------------------------------------------------------------------
(* ReplayPendingAsync. *)

\* A replay that is already running is not joined: the call returns.
Replay == sync' = (IF sync = "idle" THEN "loading" ELSE sync)

SyncEnds == sync' = "idle" /\ loaded' = {} /\ batch' = <<>> /\ remaining' = <<>>

\* LoadPendingAsync
LoadPending ==
  /\ sync = "loading"
  /\ IF pending = <<>>
     THEN SyncEnds
     ELSE /\ sync' = "reporting"
          /\ loaded' = ToSet(pending) /\ batch' = pending /\ remaining' = <<>>
  /\ UNCHANGED <<clockInVars, out, diskVars, workVars, received, countVars>>

Reporting == sync = "reporting" /\ batch # <<>>

\* TryReportAsync: the backend takes the record.
ReportAccepted ==
  /\ Reporting
  /\ received' = [received EXCEPT ![Head(batch)] = @ + 1]
  /\ batch' = Tail(batch)
  /\ UNCHANGED <<clockInVars, out, sync, loaded, remaining, diskVars, workVars, countVars>>

\* Mutant of ReportRefused: a refused record is not kept.
ReportRefusedForGood ==
  /\ Reporting
  /\ batch' = Tail(batch)
  /\ UNCHANGED <<clockInVars, out, sync, loaded, remaining, diskVars, workVars, received, countVars>>

\* The backend refuses it, or cannot be reached.
ReportRefused ==
  /\ Reporting
  /\ batch' = Tail(batch)
  /\ remaining' = Append(remaining, Head(batch))
  /\ UNCHANGED <<clockInVars, out, sync, loaded, diskVars, workVars, received, countVars>>

\* The backend takes it, and the answer is lost.
ReportLost ==
  /\ Reporting
  /\ mishaps < MaxMishaps /\ mishaps' = mishaps + 1
  /\ received' = [received EXCEPT ![Head(batch)] = @ + 1]
  /\ batch' = Tail(batch)
  /\ remaining' = Append(remaining, Head(batch))
  /\ UNCHANGED <<clockInVars, out, sync, loaded, diskVars, workVars, restarts, faults, cuts>>

ReplacePending ==
  /\ sync = "reporting" /\ batch = <<>>
  /\ pending' = Compacted /\ torn' = "no"
  /\ SyncEnds
  /\ UNCHANGED <<clockInVars, out, session, log, workVars, received, countVars>>

\* The file cannot be opened, or its rewriting in place is cut short.
ReplaceFails ==
  /\ sync = "reporting" /\ batch = <<>>
  /\ SyncEnds
  /\ \/ faults < MaxFaults /\ faults' = faults + 1 /\ UNCHANGED <<pending, torn, cuts>>
     \/ /\ cuts < MaxCuts /\ cuts' = cuts + 1
        /\ \E n \in 0..Len(Compacted) : pending' = SubSeq(Compacted, 1, n)
        /\ torn' \in {"no", "partial"} \cup (IF pending' = <<>> THEN {} ELSE {"whole"})
        /\ UNCHANGED faults
  /\ UNCHANGED <<clockInVars, out, session, log, workVars, received, restarts, mishaps>>

Synchronise ==
  LoadPending \/ ReportAccepted \/ ReportRefused \/ ReportLost \/ ReplacePending \/ ReplaceFails

------------------------------------------------------------------------------
(* ClockInAsync. *)

Goto(c, label) == pc' = [pc EXCEPT ![c] = label]

\* The button, the Enter key or the automation option; ResolveAsync is awaited.
ClickClockIn(c) ==
  /\ panel = "login"
  /\ pc[c] = "unused"
  /\ \A d \in Click : d < c => pc[d] # "unused"
  /\ Goto(c, "resolving")
  /\ UNCHANGED <<profile, panel, refreshing, out, syncVars, diskVars, workVars, received, countVars>>

\* The employee is known, or the login is blocked and the profile forgotten.
Resolved(c) ==
  /\ pc[c] = "resolving"
  /\ \E allowed \in BOOLEAN :
       /\ profile' = allowed
       /\ Goto(c, IF allowed THEN "activating" ELSE "done")
  /\ UNCHANGED <<panel, refreshing, out, syncVars, diskVars, workVars, received, countVars>>

Activate(c) ==
  /\ pc[c] = "activating"
  /\ SetSession("clocked_in")
  /\ Goto(c, "starting")
  /\ UNCHANGED <<profile, panel, refreshing, out, syncVars, log, pending, torn, received, countVars>>

\* The agent processes run.  The record is made from the profile as it is now:
\* without one the handler ends in an exception.
Started(c) ==
  /\ pc[c] = "starting"
  /\ Goto(c, IF profile THEN "recording" ELSE "done")
  /\ UNCHANGED <<profile, panel, refreshing, out, syncVars, diskVars, workVars, received, countVars>>

StartFails(c) ==
  /\ pc[c] = "starting"
  /\ faults < MaxFaults /\ faults' = faults + 1
  /\ Goto(c, "undoing")
  /\ UNCHANGED <<profile, panel, refreshing, out, syncVars, diskVars, workVars, received,
                 restarts, mishaps, cuts>>

Undo(c) ==
  /\ pc[c] = "undoing"
  /\ SetSession("clocked_out")
  /\ Goto(c, "done")
  /\ UNCHANGED <<profile, panel, refreshing, out, syncVars, log, pending, torn, received, countVars>>

\* AppendAsync, ShowAttendance, and the two calls that are not awaited.
RecordClockIn(c) ==
  /\ pc[c] = "recording"
  /\ AppendRecord("in")
  /\ panel' = "attendance"
  /\ refreshing' = IF profile THEN refreshing \cup {c} ELSE refreshing
  /\ Replay
  /\ Goto(c, "done")
  /\ UNCHANGED <<profile, out, loaded, batch, remaining, workVars, received, countVars>>

RecordClockInFails(c) ==
  /\ pc[c] = "recording"
  /\ AppendFails("in")
  /\ Goto(c, "done")
  /\ UNCHANGED <<profile, panel, refreshing, out, syncVars, workVars, received,
                 restarts, mishaps>>

\* SetWorkSessionStateAsync throws: so does the handler.
SetSessionFails(c) ==
  /\ pc[c] \in {"activating", "undoing"}
  /\ faults < MaxFaults /\ faults' = faults + 1
  /\ Goto(c, "done")
  /\ UNCHANGED <<profile, panel, refreshing, out, syncVars, diskVars, workVars, received,
                 restarts, mishaps, cuts>>

\* RefreshRuleSummaryAsync puts back the profile it was called with.
RefreshRules(c) ==
  /\ c \in refreshing
  /\ refreshing' = refreshing \ {c}
  /\ profile' = TRUE
  /\ UNCHANGED <<pc, panel, out, syncVars, diskVars, workVars, received, countVars>>

ClockIn(c) ==
  \/ ClickClockIn(c) \/ Resolved(c) \/ Activate(c) \/ Started(c) \/ StartFails(c) \/ Undo(c)
  \/ RecordClockIn(c) \/ RecordClockInFails(c) \/ SetSessionFails(c) \/ RefreshRules(c)

------------------------------------------------------------------------------
(* ClockOutAsync. *)

\* Mutant of CanClockOut: the button is not tied to the attendance panel.
CanClockOutAnyTime == out = "no" /\ profile

CanClockOut == panel = "attendance" /\ out = "no" /\ profile

\* _clockOutAt is set before anything is awaited: a second click does nothing.
ClickClockOut ==
  /\ CanClockOut
  /\ out' = "recording"
  /\ UNCHANGED <<clockInVars, syncVars, diskVars, workVars, received, countVars>>

RecordClockOut ==
  /\ out = "recording"
  /\ AppendRecord("out")
  /\ out' = "deactivating"
  /\ UNCHANGED <<clockInVars, syncVars, workVars, received, countVars>>

Deactivate ==
  /\ out = "deactivating"
  /\ SetSession("clocked_out")
  /\ Replay
  /\ out' = "done"
  /\ UNCHANGED <<clockInVars, loaded, batch, remaining, log, pending, torn, received, countVars>>

\* The store throws: the rest is skipped, and the button is dead.
ClockOutFails ==
  /\ \/ out = "recording" /\ AppendFails("out")
     \/ /\ out = "deactivating"
        /\ faults < MaxFaults /\ faults' = faults + 1
        /\ UNCHANGED <<diskVars, cuts>>
  /\ out' = "failed"
  /\ UNCHANGED <<clockInVars, syncVars, workVars, received, restarts, mishaps>>

ClockOut == ClickClockOut \/ RecordClockOut \/ Deactivate \/ ClockOutFails

------------------------------------------------------------------------------
(* The launcher's life, and the agent service. *)

\* The state file was being written: what is left of it counts as clocked out.
WritingSession ==
  out = "deactivating" \/ \E c \in Click : pc[c] \in {"activating", "undoing"}

\* The window is closed, or the program dies, and it is opened again.
Restart ==
  /\ restarts < MaxRestarts /\ restarts' = restarts + 1
  /\ pc' = [c \in Click |-> IF pc[c] = "unused" THEN "unused" ELSE "past"]
  /\ profile' = FALSE /\ panel' = "login" /\ out' = "no" /\ refreshing' = {}
  /\ sync' = "loading" /\ loaded' = {} /\ batch' = <<>> /\ remaining' = <<>>
  /\ \/ UNCHANGED <<session, workVars>>
     \/ WritingSession /\ SetSession("clocked_out")
  /\ UNCHANGED <<log, pending, torn, received, mishaps, faults, cuts>>

\* RunCaptureLoopAsync reads the state file, and captures some time later.
CheckSession ==
  /\ worker = "idle"
  /\ session = "clocked_in"
  /\ worker' = "permitted"
  /\ UNCHANGED <<clockInVars, out, syncVars, diskVars, late, received, countVars>>

\* Mutant of Capture: the loop does not read the file again.
CaptureAgain ==
  /\ worker = "permitted"
  /\ late < 2
  /\ late' = IF session = "clocked_out" THEN late + 1 ELSE late
  /\ UNCHANGED <<worker, clockInVars, out, syncVars, diskVars, received, countVars>>

Capture ==
  /\ worker = "permitted"
  /\ worker' = "idle"
  /\ late' = IF session = "clocked_out" THEN late + 1 ELSE late
  /\ UNCHANGED <<clockInVars, out, syncVars, diskVars, received, countVars>>

Work == CheckSession \/ Capture

Next ==
  \/ \E c \in Click : ClockIn(c)
  \/ ClockOut
  \/ Synchronise
  \/ Restart
  \/ Work

Spec == Init /\ [][Next]_vars

------------------------------------------------------------------------------
(* Properties *)

TypeOK ==
  /\ pc \in [Click -> {"unused", "resolving", "activating", "starting", "undoing",
                       "recording", "done", "past"}]
  /\ profile \in BOOLEAN /\ panel \in {"login", "attendance"}
  /\ out \in {"no", "recording", "deactivating", "done", "failed"}
  /\ refreshing \subseteq Click
  /\ sync \in {"idle", "loading", "reporting"}
  /\ loaded \subseteq Record /\ batch \in Seq(Record) /\ remaining \in Seq(Record)
  /\ session \in {"clocked_in", "clocked_out"}
  /\ log \in Seq({"in", "out"}) /\ pending \in Seq(Record)
  /\ torn \in {"no", "partial", "whole"} /\ (torn = "whole" => pending # <<>>)
  /\ worker \in {"idle", "permitted"} /\ received \in [Record -> Nat] /\ late \in Nat
  /\ restarts \in 0..MaxRestarts /\ mishaps \in 0..MaxMishaps
  /\ faults \in 0..MaxFaults /\ cuts \in 0..MaxCuts

Owed == {r \in ToSet(pending) : received[r] = 0}
Delivered == {r \in Record : received[r] > 0}
Promise == INSTANCE AtLeastOnce WITH Item <- Record, owed <- Owed, delivered <- Delivered

\* A record in the pending file stays owed until the backend has it: no replay,
\* however it interleaves with new clock events, failures and restarts, drops
\* one, as long as no write of that file was cut short.
ImplementsAtLeastOnce ==
  Promise!Init /\ [][cuts' = 0 => [Promise!Next]_(Promise!vars)]_vars

Missing == {r \in DOMAIN log : received[r] = 0 /\ r \notin ToSet(pending)}

\* Every event in the attendance log is pending or at the backend, but for one
\* for each failed file operation, as long as no write was cut short.
MissingBounded == cuts = 0 => Cardinality(Missing) <= faults

\* A record reaches the backend twice only through a lost answer, a restart in
\* the middle of a replay, or a rewrite that could not start: once more for each.
\* A rewrite that is cut short loses records and resends none.
ResentBounded == \A r \in Record : received[r] <= 1 + mishaps + restarts + faults

\* Once the session is set to clocked out, the loop captures at most once more:
\* the snapshot it was already allowed to take.
AtMostOneLateCapture == session = "clocked_out" => late <= 1

\* The clock-in attempts of this run of the launcher.
Attempts == {c \in Click : pc[c] \notin {"unused", "past"}}

\* "The service uses it to pause monitoring ... after clock-out"
\* (AGENT_DEPLOYMENT_RUNBOOK.md:123): after a completed clock-out the session is
\* clocked out.
ClockOutPauses == out = "done" => session = "clocked_out"

\* It is so whenever the launcher has seen a single clock-in attempt: nothing
\* but a second attempt that overlaps the first can undo a clock-out.
OneAttemptPauses == Cardinality(Attempts) = 1 => ClockOutPauses
==============================================================================
