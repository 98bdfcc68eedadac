------------------------------ MODULE ScopeLocks ------------------------------
(***************************************************************************)
(* The locks of a city's import scopes.  Runs of run_due_import_jobs import *)
(* the scopes of the city one after the other and take locked_at of each   *)
(* scope row: runs that import what is due, runs somebody forces, and the  *)
(* collecting step of an admin import job.  The column says since when a   *)
(* scope is taken and not by whom, so it is given back by whoever finishes *)
(* and taken away by whoever judges it abandoned.  The nightly refresh of  *)
(* all cities and the import script run by hand import the same scopes and *)
(* neither take nor look at the lock.                                      *)
(*                                                                         *)
(* Times are kept as ages, in units of which Stall make up the threshold.  *)
(* One action is one committed statement, or one read a later one rests    *)
(* on.                                                                     *)
(***************************************************************************)
EXTENDS Naturals

CONSTANTS
    Cron,        \* processes started without --force: only what is due
    Manual,      \* processes started with --force and no import job
    Jobs,        \* import jobs of the city; the process of a job has its name
    OtherJob,    \* a job of the city that imports no scope
    None,        \* no active job
    Bare,        \* importers that take no lock: the nightly refresh, hand runs
    Scopes,      \* number of the city's scopes, imported in order
    Stall,       \* STALL_THRESHOLD_MINUTES
    MaxAge,      \* bound: how old a process gets
    MaxCrashes   \* bound: processes killed

Lockers == Cron \union Manual \union Jobs
Runs == Lockers \union Bare
Scope == 1..Scopes

ASSUME NumbersAssumption ==
    Scopes \in Nat \ {0} /\ Stall \in Nat /\ MaxAge \in Nat /\ MaxCrashes \in Nat
ASSUME KindsAssumption ==
    /\ Cron \intersect (Manual \union Jobs) = {}
    /\ Manual \intersect Jobs = {}
    /\ Bare \intersect Lockers = {}
    /\ OtherJob \notin Jobs /\ None \notin Jobs /\ None # OtherJob

\* A lock this old is stale for every process: older ones are not told apart.
Oldest == MaxAge + Stall + 1
Free == Oldest + 1     \* locked_at IS NULL

Points == {"idle", "look", "judge", "reclaim", "reload", "take", "import", "leave"}
Process ==
    [at    : Points,
     scope : Scope,
     age   : 0..MaxAge,                   \* time since run() took its `now`
     copy  : {"free", "fresh", "stale"}]  \* locked_at as the session loaded it

Idle == [at |-> "idle", scope |-> 1, age |-> 0, copy |-> "free"]

VARIABLES
    lock,     \* age of locked_at of every scope, or Free
    due,      \* next_run_at of the scope has passed
    active,   \* the queued or running import job of the city
    run,      \* the processes
    evicted,  \* history: a lock was reclaimed from an import that took it and goes on
    crashes   \* bound

vars == <<lock, due, active, run, evicted, crashes>>

TypeOK ==
    /\ lock \in [Scope -> 0..Free]
    /\ due \in [Scope -> BOOLEAN]
    /\ active \in Jobs \union {OtherJob, None}
    /\ run \in [Runs -> Process]
    /\ evicted \in [Scope -> BOOLEAN]
    /\ crashes \in 0..MaxCrashes

Init ==
    /\ lock = [s \in Scope |-> Free]
    /\ due = [s \in Scope |-> TRUE]
    /\ active = None
    /\ run = [r \in Runs |-> Idle]
    /\ evicted = [s \in Scope |-> FALSE]
    /\ crashes = 0

Imports(r, s) == run[r].at \in {"import", "leave"} /\ run[r].scope = s
Others(r, s) == {q \in Lockers \ {r} : Imports(q, s)}

\* What was loaded from the row is not looked at again.
Goto(r, point) == run' = [run EXCEPT ![r].at = point, ![r].copy = "free"]

\* The scopes of a process are imported one after the other.
NextScope(r) ==
    LET here == run[r] IN
    run' = [run EXCEPT ![r] =
              IF here.scope = Scopes THEN Idle
              ELSE [here EXCEPT !.at = "look", !.scope = here.scope + 1, !.copy = "free"]]

-----------------------------------------------------------------------------
(* Processes begin and die, jobs open and close, time passes. *)

Start(r) ==
    /\ run[r].at = "idle"
    /\ run' = [run EXCEPT ![r] = [Idle EXCEPT !.at = "look"]]

StartProcess(r) ==
    /\ r \in Cron \union Manual
    /\ Start(r)
    /\ UNCHANGED <<lock, due, active, evicted, crashes>>

(* A city has at most one active job (ImportJobs), claimed by one worker. *)
StartJob(j) ==
    /\ j \in Jobs
    /\ active = None
    /\ active' = j
    /\ Start(j)
    /\ UNCHANGED <<lock, due, evicted, crashes>>

(* refresh_all_cities imports one enabled scope after the other, the script *)
(* run by hand imports one; what is between two scopes is an idle process.  *)
(* Nobody asks how old it is.                                               *)
StartBare(r, s) ==
    /\ r \in Bare
    /\ run[r].at = "idle"
    /\ run' = [run EXCEPT ![r] = [Idle EXCEPT !.at = "import", !.scope = s]]
    /\ UNCHANGED <<lock, due, active, evicted, crashes>>

(* It is done with the scope, or killed: no lock stays. *)
EndBare(r) ==
    /\ r \in Bare
    /\ run[r].at = "import"
    /\ run' = [run EXCEPT ![r] = Idle]
    /\ UNCHANGED <<lock, due, active, evicted, crashes>>

StartOtherJob ==
    /\ active = None
    /\ active' = OtherJob
    /\ UNCHANGED <<lock, due, run, evicted, crashes>>

(* A job is finished, cancelled or swept, whether its process ended or not. *)
CloseJob ==
    /\ active # None
    /\ active' = None
    /\ UNCHANGED <<lock, due, run, evicted, crashes>>

(* The process is killed; the lock it holds stays. *)
Crash(r) ==
    /\ r \in Lockers
    /\ crashes < MaxCrashes
    /\ run[r].at # "idle"
    /\ crashes' = crashes + 1
    /\ run' = [run EXCEPT ![r] = Idle]
    /\ evicted' = [s \in Scope |-> evicted[s] /\ Others(r, s) # {}]
    /\ UNCHANGED <<lock, due, active>>

Older(age, oldest) == IF age < oldest THEN age + 1 ELSE age

Tick ==
    /\ \A r \in Lockers : run[r].at # "idle" => run[r].age < MaxAge
    /\ lock' = [s \in Scope |-> IF lock[s] = Free THEN Free ELSE Older(lock[s], Oldest)]
    /\ run' = [r \in Runs |-> IF run[r].at = "idle" \/ r \in Bare THEN run[r]
                              ELSE [run[r] EXCEPT !.age = @ + 1]]
    /\ UNCHANGED <<due, active, evicted, crashes>>

ComeDue(s) ==
    /\ ~due[s]
    /\ due' = [due EXCEPT ![s] = TRUE]
    /\ UNCHANGED <<lock, active, run, evicted, crashes>>

-----------------------------------------------------------------------------
(* Taking a lock. *)

(* locked_at is compared with the `now` of the process, not with the clock. *)
Loaded(r, s) ==
    IF lock[s] = Free THEN "free"
    ELSE IF lock[s] > run[r].age + Stall THEN "stale" ELSE "fresh"

(* The scope is left out: it is not due, an admin paused or disabled it, or *)
(* it is not among the targets the process read when it started, by its     *)
(* filters or because the launch_status of the city is none of the three    *)
(* that load_db_targets asks for.                                           *)
Skip(r) ==
    /\ run[r].at = "look"
    /\ NextScope(r)
    /\ UNCHANGED <<lock, due, active, evicted, crashes>>

(* lock_target up to acquire_scope_lock: the row is loaded once. *)
Look(r) ==
    /\ run[r].at = "look"
    /\ LET s == run[r].scope IN
       /\ r \notin Cron \/ due[s]
       /\ run' = [run EXCEPT ![r] = [@ EXCEPT !.at = "judge", !.copy = Loaded(r, s)]]
    /\ UNCHANGED <<lock, due, active, evicted, crashes>>

(* Faulty variant of ShouldReclaim: age is not a reason. *)
ReclaimedByOwnersOnly(r) ==
    \/ r \in Jobs /\ active = r
    \/ r \notin Cron /\ active = None

(* _should_reclaim_lock for a row whose locked_at is set *)
ShouldReclaim(r) ==
    \/ run[r].copy = "stale"
    \/ r \in Jobs /\ active = r
    \/ r \notin Cron /\ active = None

(* Faulty variant of GiveUp: the lock is released in any case. *)
GiveUpReleasing(r) == Goto(r, "leave")

(* locked_elsewhere: the scope is left out *)
GiveUp(r) == NextScope(r)

Judge(r) ==
    /\ run[r].at = "judge"
    /\ CASE run[r].copy = "free" -> Goto(r, "take")
         [] run[r].copy # "free" /\ ShouldReclaim(r) -> Goto(r, "reclaim")
         [] OTHER -> GiveUp(r)
    /\ UNCHANGED <<lock, due, active, evicted, crashes>>

(* unlock_scope: an UPDATE by id, whatever the row holds by now *)
Reclaim(r) ==
    /\ run[r].at = "reclaim"
    /\ LET s == run[r].scope IN
       /\ lock' = [lock EXCEPT ![s] = Free]
       /\ evicted' = [evicted EXCEPT ![s] = Others(r, s) # {}]
    /\ Goto(r, "reload")
    /\ UNCHANGED <<due, active, crashes>>

Reload(r) ==
    /\ run[r].at = "reload"
    /\ IF lock[run[r].scope] = Free THEN Goto(r, "take") ELSE GiveUp(r)
    /\ UNCHANGED <<lock, due, active, evicted, crashes>>

(* lock_scope: UPDATE ... WHERE locked_at IS NULL; the loser leaves the scope out *)
Take(r) ==
    /\ run[r].at = "take"
    /\ LET s == run[r].scope IN
       IF lock[s] = Free
       THEN lock' = [lock EXCEPT ![s] = run[r].age] /\ Goto(r, "import")
       ELSE UNCHANGED lock /\ GiveUp(r)
    /\ UNCHANGED <<due, active, evicted, crashes>>

-----------------------------------------------------------------------------
(* Importing and leaving. *)

(* schedule_next *)
Succeed(r) ==
    /\ r \in Lockers
    /\ run[r].at = "import"
    /\ due' = [due EXCEPT ![run[r].scope] = FALSE]
    /\ Goto(r, "leave")
    /\ UNCHANGED <<lock, active, evicted, crashes>>

Fail(r) ==
    /\ r \in Lockers
    /\ run[r].at = "import"
    /\ Goto(r, "leave")
    /\ UNCHANGED <<lock, due, active, evicted, crashes>>

(* finally: unlock_target *)
Leave(r) ==
    /\ r \in Lockers
    /\ run[r].at = "leave"
    /\ LET s == run[r].scope IN
       /\ lock' = [lock EXCEPT ![s] = Free]
       /\ evicted' = [evicted EXCEPT ![s] = @ /\ Others(r, s) # {}]
    /\ NextScope(r)
    /\ UNCHANGED <<due, active, crashes>>

-----------------------------------------------------------------------------
Step(r) ==
    \/ Skip(r) \/ Look(r) \/ Judge(r) \/ Reclaim(r) \/ Reload(r) \/ Take(r)
    \/ Succeed(r) \/ Fail(r) \/ Leave(r)
    \/ EndBare(r)

Next ==
    \/ \E r \in Runs : StartProcess(r) \/ StartJob(r) \/ Crash(r) \/ Step(r)
    \/ \E r \in Runs, s \in Scope : StartBare(r, s)
    \/ \E s \in Scope : ComeDue(s)
    \/ StartOtherJob \/ CloseJob \/ Tick

Spec == Init /\ [][Next]_vars

(* A process that is not killed gets on, and time passes.  Nobody has to    *)
(* start a process or a job, or to close one, and no scope has to come due. *)
FairSpec ==
    /\ Spec
    /\ \A r \in Runs : WF_vars(Step(r))
    /\ WF_vars(Tick)

-----------------------------------------------------------------------------
(* Two imports share a scope only if one of them takes no lock, or after a *)
(* lock was reclaimed from an import that was still going on: retries,     *)
(* crashes, abandoned locks and races for a free one                       *)
(* (import_job_service.lock_scope) let no second process in, and once      *)
(* everybody that took the lock left, the exclusion holds again.           *)
OneImportPerScope ==
    \A s \in Scope : \A p, q \in Runs :
        Imports(p, s) /\ Imports(q, s) /\ p # q => evicted[s] \/ p \in Bare \/ q \in Bare

(* Somebody looks at the lock of the scope: a run that lists it, finds it   *)
(* enabled and due, or does not care.                                       *)
LooksAt(s) == \E r \in Runs : run[r].at = "judge" /\ run[r].scope = s

(* The lock a killed process left behind is not the end of the scope, as    *)
(* long as runs come to look at it again and again: one of them finds it    *)
(* too old (import_scope_lock._is_stale_lock) and takes it away, whatever   *)
(* job is active and however many lose the race.  That they come is not     *)
(* promised: no schedule of the repository starts a run, and a scope that   *)
(* is paused or whose city left the three statuses is not looked at.        *)
AbandonedLocksAreReclaimed ==
    \A s \in Scope :
        []<>LooksAt(s) =>
            ((lock[s] # Free /\ \A r \in Lockers : ~Imports(r, s)) ~> (lock[s] = Free))
=============================================================================
