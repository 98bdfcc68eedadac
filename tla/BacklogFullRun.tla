---------------------------- MODULE BacklogFullRun ----------------------------
(***************************************************************************)
(* The full safe run over the review backlog.  A run is one row of         *)
(* admin_operations whose JSON result holds the stop flag and the progress *)
(* of its actions.  The runner and the stop requests of administrators all *)
(* load the row, change their copy and write the whole result back, with   *)
(* neither a lock nor a version: a load and its write are two actions.     *)
(***************************************************************************)
EXTENDS Naturals

CONSTANTS
    LastAction,  \* length of SAFE_QUEUE_ACTIONS
    Admins,      \* connections that start or stop runs
    MaxRuns,     \* bound: rows ever inserted
    MaxStops,    \* bound: stop requests
    MaxCrashes   \* bound: runner threads killed

ASSUME ActionsAssumption == LastAction \in Nat \ {0}
ASSUME BoundsAssumption == MaxRuns \in Nat /\ MaxStops \in Nat /\ MaxCrashes \in Nat

RunId == 1..MaxRuns
SAFE_QUEUE_ACTIONS == 1..LastAction

ACTIVE_STATUSES == {"running", "stop_requested"}
TERMINAL_STATUSES == {"completed", "partial", "stopped"}

Row ==
    [status  : {"none"} \union ACTIVE_STATUSES \union TERMINAL_STATUSES,
     stop    : BOOLEAN,   \* result.stop_requested
     actions : [SAFE_QUEUE_ACTIONS -> {"pending", "running", "applied", "failed", "stopped"}],
     stale   : BOOLEAN]   \* last_heartbeat_at is older than STALE_AFTER

NoRow == [status |-> "none", stop |-> FALSE, stale |-> FALSE,
          actions |-> [a \in SAFE_QUEUE_ACTIONS |-> "pending"]]

\* Where a runner is, and the loaded copy each of the writes is based on.
LoadsFor == [begin |-> "mark", applying |-> "record", finish |-> "completing", halt |-> "halting"]
Points == {"none", "check", "ended", "begin", "mark", "applying", "record",
           "finish", "completing", "halt", "halting"}

VARIABLES
    rows,     \* the rows of the full runs
    lastId,
    at,       \* where the runner of each run is
    next,     \* the action it is at
    copy,     \* the row as its session loaded it
    admin,    \* each connection: what it is doing, to which run, with which copy
    late,     \* history: actions begun while the row showed the stop flag
    stops, crashes  \* bounds

runnerVars == <<at, next, copy>>
bounds == <<stops, crashes>>
vars == <<rows, lastId, at, next, copy, admin, late, stops, crashes>>

Resting == [doing |-> "nothing", run |-> 0, copy |-> NoRow]

TypeOK ==
    /\ rows \in [RunId -> Row]
    /\ lastId \in 0..MaxRuns
    /\ at \in [RunId -> Points]
    /\ next \in [RunId -> 1..(LastAction + 1)]
    /\ copy \in [RunId -> Row]
    /\ admin \in [Admins -> [doing : {"nothing", "starting", "stopping"}, run : 0..MaxRuns, copy : Row]]
    /\ late \in [RunId -> Nat]
    /\ stops \in 0..MaxStops /\ crashes \in 0..MaxCrashes

Init ==
    /\ rows = [r \in RunId |-> NoRow]
    /\ lastId = 0
    /\ at = [r \in RunId |-> "none"]
    /\ next = [r \in RunId |-> 1]
    /\ copy = [r \in RunId |-> NoRow]
    /\ admin = [a \in Admins |-> Resting]
    /\ late = [r \in RunId |-> 0]
    /\ stops = 0 /\ crashes = 0

-----------------------------------------------------------------------------
(* The table. *)

(* A flush sends the result as a whole and the status only if the copy's    *)
(* differs from the loaded one.  Every write renews the heartbeat.          *)
Flushed(r, loaded, changed) ==
    [changed EXCEPT !.status = IF @ = loaded.status THEN rows[r].status ELSE @,
                    !.stale = FALSE]

(* The unique index of running rows of this type.  It does not count        *)
(* "stop_requested".                                                        *)
Taken(r) == \E k \in RunId \ {r} : rows[k].status = "running"

Refused(r, row) == row.status = "running" /\ rows[r].status # "running" /\ Taken(r)

Active(r) == rows[r].status \in ACTIVE_STATUSES
LatestActive(r) == Active(r) /\ \A k \in RunId : Active(k) => k <= r

-----------------------------------------------------------------------------
(* Requests of administrators. *)

(* create_full_run, its query: a run that is active and not stale is        *)
(* returned instead.                                                        *)
StartRead(a) ==
    /\ admin[a] = Resting /\ lastId < MaxRuns
    /\ \A r \in RunId : LatestActive(r) => rows[r].stale
    /\ admin' = [admin EXCEPT ![a].doing = "starting"]
    /\ UNCHANGED <<rows, lastId, runnerVars, late, bounds>>

(* Its insert, which hands the run to a background task, or which the       *)
(* unique index refuses.                                                    *)
StartInsert(a) ==
    /\ admin[a].doing = "starting"
    /\ IF lastId < MaxRuns /\ ~Taken(0)
       THEN /\ rows' = [rows EXCEPT ![lastId + 1] = [NoRow EXCEPT !.status = "running"]]
            /\ lastId' = lastId + 1
            /\ at' = [at EXCEPT ![lastId + 1] = "check"]
       ELSE UNCHANGED <<rows, lastId, at>>
    /\ admin' = [admin EXCEPT ![a] = Resting]
    /\ UNCHANGED <<next, copy, late, bounds>>

StopRead(a, r) ==
    /\ admin[a] = Resting /\ r <= lastId /\ stops < MaxStops
    /\ stops' = stops + 1
    /\ admin' = [admin EXCEPT ![a] = [doing |-> "stopping", run |-> r, copy |-> rows[r]]]
    /\ UNCHANGED <<rows, lastId, runnerVars, late, crashes>>

(* Faulty variant of Stopped: a finished run is asked to stop, too. *)
StoppedAnyway(row) ==
    [row EXCEPT !.stop = TRUE, !.status = IF row.stale THEN "stopped" ELSE "stop_requested"]

(* mark_stop_requested, on the loaded row. *)
Stopped(row) ==
    [row EXCEPT !.stop = TRUE,
                !.status = IF @ \in TERMINAL_STATUSES THEN @
                           ELSE IF row.stale THEN "stopped" ELSE "stop_requested"]

StopWrite(a) ==
    LET r == admin[a].run
        loaded == admin[a].copy
    IN  /\ admin[a].doing = "stopping"
        /\ rows' = [rows EXCEPT ![r] = Flushed(r, loaded, Stopped(loaded))]
        /\ admin' = [admin EXCEPT ![a] = Resting]
        /\ UNCHANGED <<lastId, runnerVars, late, bounds>>

-----------------------------------------------------------------------------
(* The runner. *)

Goto(r, point) == at' = [at EXCEPT ![r] = point]

(* Faulty variant of should_stop: only a stopped row stops its runner. *)
StoppedByStatus(r) == rows[r].status = "stopped"

should_stop(r) == rows[r].stop \/ rows[r].status = "stopped"

(* Faulty variant of AfterCheck: a runner told to stop leaves its row as it is. *)
LeaveAtOnce(r) ==
    CASE should_stop(r) -> "ended"
      [] ~should_stop(r) /\ next[r] \in SAFE_QUEUE_ACTIONS -> "begin"
      [] OTHER -> "finish"

AfterCheck(r) ==
    CASE should_stop(r) -> "halt"
      [] ~should_stop(r) /\ next[r] \in SAFE_QUEUE_ACTIONS -> "begin"
      [] OTHER -> "finish"

(* The check after an action and the one before the next action read the   *)
(* same row with no write between them: they are one.                       *)
Check(r) ==
    /\ at[r] = "check"
    /\ Goto(r, AfterCheck(r))
    /\ UNCHANGED <<rows, lastId, next, copy, admin, late, bounds>>

(* Each of the four writers first loads the row.  For "applying" this is    *)
(* where the action is over.                                                *)
Load(r) ==
    /\ at[r] \in DOMAIN LoadsFor
    /\ copy' = [copy EXCEPT ![r] = rows[r]]
    /\ Goto(r, LoadsFor[at[r]])
    /\ UNCHANGED <<rows, lastId, next, admin, late, bounds>>

Write(r, changed) == rows' = [rows EXCEPT ![r] = Flushed(r, copy[r], changed)]

Forget(r) == copy' = [copy EXCEPT ![r] = NoRow]

(* The runner is over, and with it what it knew and what is told of it. *)
End(r) ==
    /\ Goto(r, "ended")
    /\ next' = [next EXCEPT ![r] = 1]
    /\ Forget(r)
    /\ late' = [late EXCEPT ![r] = 0]

Begin(r) ==
    /\ Goto(r, "applying")
    /\ late' = [late EXCEPT ![r] = IF rows'[r].stop THEN @ + 1 ELSE @]

Marked(r) == [copy[r] EXCEPT !.status = "running", !.actions[next[r]] = "running"]

(* mark_step_running, after which the action is applied whatever it found. *)
MarkStepRunning(r) ==
    /\ at[r] = "mark"
    /\ IF copy[r].status \in TERMINAL_STATUSES
       THEN UNCHANGED rows
       ELSE ~Refused(r, Flushed(r, copy[r], Marked(r))) /\ Write(r, Marked(r))
    /\ Begin(r)
    /\ Forget(r)
    /\ UNCHANGED <<lastId, next, admin, bounds>>

(* The unique index refuses to make the row running again: the error is not *)
(* one of the action's and ends the runner.                                 *)
MarkConflict(r) ==
    /\ at[r] = "mark"
    /\ copy[r].status \notin TERMINAL_STATUSES
    /\ Refused(r, Flushed(r, copy[r], Marked(r)))
    /\ End(r)
    /\ UNCHANGED <<rows, lastId, admin, bounds>>

(* record_step_result or record_step_error. *)
RecordStepResult(r, verdict) ==
    /\ at[r] = "record"
    /\ Write(r, [copy[r] EXCEPT !.actions[next[r]] = verdict])
    /\ next' = [next EXCEPT ![r] = @ + 1]
    /\ Goto(r, "check")
    /\ Forget(r)
    /\ UNCHANGED <<lastId, admin, late, bounds>>

CompleteFullRun(r) ==
    /\ at[r] = "completing"
    /\ Write(r, [copy[r] EXCEPT !.status =
                    IF \E a \in SAFE_QUEUE_ACTIONS : copy[r].actions[a] = "failed"
                    THEN "partial" ELSE "completed"])
    /\ End(r)
    /\ UNCHANGED <<lastId, admin, bounds>>

FinalizeStopped(r) ==
    /\ at[r] = "halting"
    /\ Write(r, [copy[r] EXCEPT
                    !.status = "stopped", !.stop = TRUE,
                    !.actions = [a \in SAFE_QUEUE_ACTIONS |->
                                   IF @[a] = "running" THEN "stopped" ELSE @[a]]])
    /\ End(r)
    /\ UNCHANGED <<lastId, admin, bounds>>

(* The process dies, or the database fails outside an action. *)
Crash(r) ==
    /\ at[r] \notin {"none", "ended"} /\ crashes < MaxCrashes
    /\ crashes' = crashes + 1
    /\ End(r)
    /\ UNCHANGED <<rows, lastId, admin, stops>>

(* Ten minutes without a write: the runner is dead, paused or in a long     *)
(* action.                                                                  *)
Lapse(r) ==
    /\ Active(r) /\ ~rows[r].stale
    /\ rows' = [rows EXCEPT ![r].stale = TRUE]
    /\ UNCHANGED <<lastId, runnerVars, admin, late, bounds>>

RunnerStep(r) ==
    \/ Check(r) \/ Load(r)
    \/ MarkStepRunning(r) \/ MarkConflict(r)
    \/ \E verdict \in {"applied", "failed"} : RecordStepResult(r, verdict)
    \/ CompleteFullRun(r) \/ FinalizeStopped(r)

Next ==
    \/ \E a \in Admins :
        \/ StartRead(a) \/ StartInsert(a) \/ StopWrite(a)
        \/ \E r \in RunId : StopRead(a, r)
    \/ \E r \in RunId : RunnerStep(r) \/ Crash(r) \/ Lapse(r)

Spec == Init /\ [][Next]_vars

(* A runner goes on: every action it applies is bounded by its limit. *)
FairSpec == Spec /\ \A r \in RunId : WF_vars(RunnerStep(r))

-----------------------------------------------------------------------------
(* Properties. *)

(* Once the row shows the stop flag, at most one more action begins: the    *)
(* one whose check came before the flag.                                    *)
StandingStopIsObeyed == \A r \in RunId : late[r] <= 1

Reads(c) == c.status \in ACTIVE_STATUSES

(* A row that has ended becomes active again only through a writer that     *)
(* loaded it before its end, never on the word of one that saw the end.     *)
OnlyStaleCopiesReopen ==
    [][\A r \in RunId :
         rows[r].status \in TERMINAL_STATUSES /\ rows'[r].status \in ACTIVE_STATUSES =>
            \/ at[r] = "mark" /\ Reads(copy[r])
            \/ \E a \in Admins : admin[a].doing = "stopping" /\ admin[a].run = r /\ Reads(admin[a].copy)]_vars

(* A run whose row shows the stop flag while its runner lives ends, unless  *)
(* the runner dies or meets another running run: the index then keeps one   *)
(* of the two from going on.                                                *)
StoppedRunsEnd ==
    \A r \in RunId :
        rows[r].stop /\ at[r] \notin {"none", "ended"}
            ~> rows[r].status \in TERMINAL_STATUSES \/ Taken(r) \/ crashes > 0
=============================================================================
