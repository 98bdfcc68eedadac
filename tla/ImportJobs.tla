----------------------------- MODULE ImportJobs -----------------------------
(***************************************************************************)
(* City import jobs: the rows of city_admin_import_jobs, the import-worker *)
(* processes that sweep, select, claim, run and finalize them, the admin   *)
(* endpoints that enqueue, cancel, mark stalled, publish and refresh, and  *)
(* the launch_status of the cities they work on.                           *)
(*                                                                         *)
(* One action is one database transaction, or the last read a transaction  *)
(* bases a later write on when nothing locks what was read.                *)
(***************************************************************************)
EXTENDS Naturals, FiniteSets

CONSTANTS
    Cities,      \* cities known to the admin
    Workers,     \* identities of import-worker processes
    Admins,      \* concurrent admin requests
    Sources,     \* kinds of job an admin enqueues for an existing city: "full"
                 \* is the whole import, "short" an address, photo or snapshot job
    MaxJobs,     \* bound: rows ever inserted
    MaxCrashes,  \* bound: worker processes killed
    None         \* SQL NULL

ASSUME BoundsAssumption == MaxJobs \in Nat /\ MaxCrashes \in Nat
ASSUME SourcesAssumption == Sources \subseteq {"full", "short"}
ASSUME NoneAssumption == None \notin Cities /\ None \notin Workers

JobId == 1..MaxJobs

(* The statuses of a row and the transition tables of the job service. *)
ActiveStatuses == {"queued", "running"}
(* "success" stands for success, success_with_warnings and partial_success, *)
(* which no guard of this module tells apart.                               *)
TERMINAL_STATUSES == {"success", "failed", "cancelled", "stalled"}
FinalizeFrom(status) ==
    CASE status = "running" -> TERMINAL_STATUSES
      [] status = "queued"  -> {"cancelled", "failed"}
      [] OTHER              -> {}

(* current_step, with every step that is not final abstracted to "working" *)
TERMINAL_STEPS == {"ready_for_review", "error", "cancelled"}
Steps == TERMINAL_STEPS \union {"queued", "working"}

LaunchStatuses ==
    {"absent", "importing", "import_failed", "review_required", "published", "unpublished"}

Row == [city    : Cities \union {None},
        source  : {"full", "short"},
        status  : {"none"} \union ActiveStatuses \union TERMINAL_STATUSES,
        claimed : Workers \union {None},   \* claimed_by; started_at is set with it
        finished: BOOLEAN,                 \* finished_at IS NOT NULL
        step    : Steps,
        quiet   : BOOLEAN,                 \* updated_at is over STALL_THRESHOLD_MINUTES old
        old     : BOOLEAN,                 \* started_at is over MAX_RUNNING_SECONDS old
        prev    : 0..MaxJobs,              \* previous_job_id, 0 is NULL
        retry   : 0..MaxJobs,              \* retry_count
        verdict : {"unused", "open"} \union TERMINAL_STATUSES]
                  \* history: the terminal status the row was given, see Finalize

NoRow == [city |-> None, source |-> "full", status |-> "none", claimed |-> None,
          finished |-> FALSE, step |-> "queued", quiet |-> FALSE, old |-> FALSE,
          prev |-> 0, retry |-> 0, verdict |-> "unused"]

Phases == {"idle", "sweeping", "marking", "picked", "claimed", "loaded", "running",
           "reviewing", "reviewed", "closing", "emptying", "failing"}

Memory == [owner : Workers \union {None},  \* expected_claimed_by of the run
           seen  : Row,                    \* the ORM copy of the selected row
           orig  : LaunchStatuses,         \* run_enrichment_pipeline's original[0]
           copy  : LaunchStatuses,         \* launch_status as the session last loaded it
           cand  : SUBSET JobId]           \* candidates of the stall sweep

Blank == [owner |-> None, seen |-> NoRow, orig |-> "absent", copy |-> "absent", cand |-> {}]

Request == [op   : {"none", "cancel", "stall", "snapshot"},
            job  : 0..MaxJobs,
            city : Cities \union {None},
            held : LaunchStatuses]   \* launch_status as mark_stuck_import_jobs loaded it
NoRequest == [op |-> "none", job |-> 0, city |-> None, held |-> "absent"]

VARIABLES
    rows,     \* the table city_admin_import_jobs
    lastId,   \* the id sequence of the table
    launch,   \* launch_status of every city
    pc,       \* phase of each worker process
    job,      \* the job id each worker process works on
    mem,      \* local state of each worker process
    admin,    \* the request each admin connection is serving
    crashes   \* bound: worker processes killed so far

tableVars == <<rows, lastId>>
workerVars == <<pc, job, mem>>
vars == <<rows, lastId, launch, pc, job, mem, admin, crashes>>

TypeOK ==
    /\ rows \in [JobId -> Row]
    /\ lastId \in 0..MaxJobs
    /\ launch \in [Cities -> LaunchStatuses]
    /\ pc \in [Workers -> Phases]
    /\ job \in [Workers -> 0..MaxJobs]
    /\ mem \in [Workers -> Memory]
    /\ admin \in [Admins -> Request]
    /\ crashes \in 0..MaxCrashes

(* A city is created with its first job, or was published before the job   *)
(* table existed.                                                          *)
Init ==
    /\ rows = [j \in JobId |-> NoRow]
    /\ lastId = 0
    /\ launch \in [Cities -> {"absent", "published"}]
    /\ pc = [w \in Workers |-> "idle"]
    /\ job = [w \in Workers |-> 0]
    /\ mem = [w \in Workers |-> Blank]
    /\ admin = [a \in Admins |-> NoRequest]
    /\ crashes = 0

-----------------------------------------------------------------------------
(* Queries over the table. *)

ActiveJobs(c) == {j \in JobId : rows[j].city = c /\ rows[j].status \in ActiveStatuses}

(* Faulty variant of IsLatest: any earlier row of the city passes. *)
IsEarlier(c, j) ==
    \/ j = 0 /\ \A k \in JobId : rows[k].city # c
    \/ j \in JobId /\ rows[j].city = c

(* Rows are inserted with increasing created_at, so the latest has the largest id. *)
IsLatest(c, j) ==
    \/ j = 0 /\ \A k \in JobId : rows[k].city # c
    \/ j \in JobId /\ rows[j].city = c /\ \A k \in JobId : rows[k].city = c => k <= j

(* Faulty variant of IsStalled: a run that never committed a step is missed. *)
IsStalledOnceStarted(r) == r.step = "working" /\ r.quiet

IsStalled(r) == r.step \notin TERMINAL_STEPS /\ r.quiet

(* Faulty variant of GuardedWrite: the listener lets a published city go. *)
UnguardedWrite(c, held, new) ==
    IF held = new THEN launch ELSE [launch EXCEPT ![c] = new]

(* The session of a run assigns launch_status through the `set` listener of *)
(* models/city.py: the value the session holds decides, and the UPDATE is   *)
(* sent only when the assignment changes that value.                        *)
GuardedWrite(c, held, new) ==
    IF held = "published" \/ held = new
    THEN launch
    ELSE [launch EXCEPT ![c] = new]

-----------------------------------------------------------------------------
(* Faulty variant of Unlocked: finalize_import_job reads without FOR UPDATE. *)
UnlockedAlways(j) == j \in JobId

(* A sweep keeps the lock of the row it finalized until its commit, and    *)
(* every other writer of that row waits for it.                            *)
Unlocked(j) == \A w \in Workers : pc[w] = "marking" => job[w] # j

(* finalize_import_job: the locked check of status, finished_at and owner, *)
(* then status, finished_at and the caller's fields in one UPDATE.  owner  *)
(* is None for an administrative override, which checks no owner.          *)

Accepts(j, v, owner) ==
    /\ v \in FinalizeFrom(rows[j].status)
    /\ ~rows[j].finished
    /\ owner = None \/ rows[j].claimed = owner

Given(j, v, step) ==
    [rows EXCEPT ![j] = [@ EXCEPT !.status = v, !.verdict = v, !.finished = TRUE,
                                  !.step = step, !.quiet = FALSE, !.old = FALSE]]

Finalize(j, v, owner, step) ==
    /\ Unlocked(j)
    /\ rows' = IF Accepts(j, v, owner) THEN Given(j, v, step) ELSE rows

(* A commit of the run's own session: current_step and updated_at, with no *)
(* look at the status of the row.                                          *)
Progress(j, step) ==
    /\ Unlocked(j)
    /\ rows' = [rows EXCEPT ![j] = [@ EXCEPT !.step = step, !.quiet = FALSE]]

-----------------------------------------------------------------------------
(* Admin endpoints. *)

NewRow(c, src, prev) ==
    [NoRow EXCEPT !.city = c, !.source = src, !.status = "queued", !.verdict = "open",
                  !.prev = prev, !.retry = IF prev = 0 THEN 0 ELSE rows[prev].retry + 1]

(* Faulty variant of Insert: does not look for an active job first. *)
InsertUnchecked(c, src) ==
    /\ lastId < MaxJobs
    /\ \E p \in 0..MaxJobs :
          /\ IsLatest(c, p)
          /\ rows' = [rows EXCEPT ![lastId + 1] = NewRow(c, src, p)]
    /\ lastId' = lastId + 1

(* _enqueue_job under the lock of the city row; a duplicate is refused. *)
Insert(c, src) ==
    /\ lastId < MaxJobs
    /\ ActiveJobs(c) = {}
    /\ \E p \in 0..MaxJobs :
          /\ IsLatest(c, p)
          /\ rows' = [rows EXCEPT ![lastId + 1] = NewRow(c, src, p)]
    /\ lastId' = lastId + 1

CreateCity(c) ==
    /\ launch[c] = "absent"
    /\ Insert(c, "full")
    /\ launch' = [launch EXCEPT ![c] = "importing"]
    /\ UNCHANGED <<workerVars, admin, crashes>>

Enqueue(c, src) ==
    /\ launch[c] # "absent"
    /\ Insert(c, src)
    /\ UNCHANGED <<launch, workerVars, admin, crashes>>

Ask(op, j, c) == [op |-> op, job |-> j, city |-> c, held |-> IF op = "stall" THEN launch[c] ELSE "absent"]

(* The cancel endpoint reads the latest job of the city, then finalizes it. *)
CancelRequest(a, c) ==
    /\ admin[a].op = "none"
    /\ \E j \in JobId :
          /\ IsLatest(c, j)
          /\ rows[j].status \in ActiveStatuses
          /\ rows[j].step \notin TERMINAL_STEPS
          /\ admin' = [admin EXCEPT ![a] = Ask("cancel", j, c)]
    /\ UNCHANGED <<tableVars, launch, workerVars, crashes>>

CancelApply(a) ==
    /\ admin[a].op = "cancel"
    /\ Finalize(admin[a].job, "cancelled", None, "cancelled")
    /\ admin' = [admin EXCEPT ![a] = NoRequest]
    /\ UNCHANGED <<lastId, launch, workerVars, crashes>>

(* mark_stuck_import_jobs: candidates by started_at, then one finalize each. *)
StallRequest(a, j) ==
    /\ admin[a].op = "none"
    /\ rows[j].status = "running" /\ rows[j].old
    /\ admin' = [admin EXCEPT ![a] = Ask("stall", j, rows[j].city)]
    /\ UNCHANGED <<tableVars, launch, workerVars, crashes>>

(* Faulty variant of StallApply: fails the launch whether or not the row was *)
(* finalized.                                                                *)
StallApplyBlindly(a) ==
    LET j == admin[a].job
        c == admin[a].city
    IN  /\ admin[a].op = "stall"
        /\ Finalize(j, "stalled", None, "error")
        /\ launch' = GuardedWrite(c, admin[a].held, "import_failed")
        /\ admin' = [admin EXCEPT ![a] = NoRequest]
        /\ UNCHANGED <<lastId, workerVars, crashes>>

StallApply(a) ==
    LET j == admin[a].job
        c == admin[a].city
    IN  /\ admin[a].op = "stall"
        /\ Finalize(j, "stalled", None, "error")
        /\ launch' = IF Accepts(j, "stalled", None)
                     THEN GuardedWrite(c, admin[a].held, "import_failed")
                     ELSE launch
        /\ admin' = [admin EXCEPT ![a] = NoRequest]
        /\ UNCHANGED <<lastId, workerVars, crashes>>

(* refresh_import_job_snapshot writes to the latest row it read, without a *)
(* lock, and inserts a finished-looking row for a city that had none.      *)
SnapshotRequest(a, c) ==
    /\ admin[a].op = "none"
    /\ launch[c] # "absent"
    /\ \E j \in 0..MaxJobs :
          /\ IsLatest(c, j)
          /\ admin' = [admin EXCEPT ![a] = Ask("snapshot", j, c)]
    /\ UNCHANGED <<tableVars, launch, workerVars, crashes>>

SnapshotUpdate(a) ==
    /\ admin[a].op = "snapshot" /\ admin[a].job # 0
    /\ Unlocked(admin[a].job)
    /\ rows' = [rows EXCEPT ![admin[a].job].quiet = FALSE]
    /\ admin' = [admin EXCEPT ![a] = NoRequest]
    /\ UNCHANGED <<lastId, launch, workerVars, crashes>>

SnapshotInsert(a) ==
    /\ admin[a].op = "snapshot" /\ admin[a].job = 0
    /\ lastId < MaxJobs
    /\ rows' = [rows EXCEPT ![lastId + 1] =
                  [NoRow EXCEPT !.city = admin[a].city, !.status = "success",
                                !.step = "working", !.verdict = "success"]]
    /\ lastId' = lastId + 1
    /\ admin' = [admin EXCEPT ![a] = NoRequest]
    /\ UNCHANGED <<launch, workerVars, crashes>>

Publish(c) ==
    /\ launch[c] \notin {"absent", "published"}
    /\ launch' = [launch EXCEPT ![c] = "published"]
    /\ UNCHANGED <<tableVars, workerVars, admin, crashes>>

Unpublish(c) ==
    /\ launch[c] \notin {"absent", "unpublished"}
    /\ launch' = [launch EXCEPT ![c] = "unpublished"]
    /\ UNCHANGED <<tableVars, workerVars, admin, crashes>>

-----------------------------------------------------------------------------
(* One turn of an import worker: sweep, select, claim. *)

Jump(w, phase) == pc' = [pc EXCEPT ![w] = phase]

Rest(w) ==
    /\ pc' = [pc EXCEPT ![w] = "idle"]
    /\ job' = [job EXCEPT ![w] = 0]
    /\ mem' = [mem EXCEPT ![w] = Blank]

(* mark_stalled_import_jobs names its candidates without a lock... *)
SweepRead(w) ==
    /\ pc[w] = "idle"
    /\ Jump(w, "sweeping")
    /\ mem' = [mem EXCEPT ![w].cand =
                 {j \in JobId : rows[j].status = "running" /\ IsStalled(rows[j])}]
    /\ UNCHANGED <<tableVars, launch, job, admin, crashes>>

(* ... finalizes them one by one, and with the lock of the row in hand     *)
(* reads the city without one...                                           *)
SweepLock(w, j) ==
    /\ pc[w] = "sweeping" /\ j \in mem[w].cand
    /\ Unlocked(j)
    /\ \/ /\ Accepts(j, "stalled", None)
          /\ Jump(w, "marking")
          /\ job' = [job EXCEPT ![w] = j]
          /\ mem' = [mem EXCEPT ![w].cand = @ \ {j}, ![w].copy = launch[rows[j].city]]
       \/ /\ ~Accepts(j, "stalled", None)
          /\ mem' = [mem EXCEPT ![w].cand = @ \ {j}]
          /\ UNCHANGED <<pc, job>>
    /\ UNCHANGED <<tableVars, launch, admin, crashes>>

(* ... and commits the verdict together with the failed launch it decided  *)
(* on from that copy.                                                      *)
SweepMark(w) ==
    LET j == job[w] IN
    /\ pc[w] = "marking"
    /\ rows' = Given(j, "stalled", "error")
    /\ launch' = IF mem[w].copy = "importing"
                 THEN [launch EXCEPT ![rows[j].city] = "import_failed"]
                 ELSE launch
    /\ Jump(w, "sweeping")
    /\ job' = [job EXCEPT ![w] = 0]
    /\ mem' = [mem EXCEPT ![w].copy = "absent"]
    /\ UNCHANGED <<lastId, admin, crashes>>

Claimable(r) == r.status = "queued" /\ r.claimed = None /\ ~r.finished

(* The candidate query, oldest first, limit 1: the row enters the session. *)
Select(w, j) ==
    /\ pc[w] = "sweeping" /\ mem[w].cand = {}
    /\ Claimable(rows[j])
    /\ \A k \in JobId : Claimable(rows[k]) => j <= k
    /\ Jump(w, "picked")
    /\ job' = [job EXCEPT ![w] = j]
    /\ mem' = [mem EXCEPT ![w].seen = rows[j]]
    /\ UNCHANGED <<tableVars, launch, admin, crashes>>

NothingQueued(w) ==
    /\ pc[w] = "sweeping" /\ mem[w].cand = {}
    /\ \A k \in JobId : ~Claimable(rows[k])
    /\ Rest(w)
    /\ UNCHANGED <<tableVars, launch, admin, crashes>>

(* _safe_mode_block_reason: heavy sources stay queued while memory is low. *)
SafeModeSkip(w) ==
    /\ pc[w] = "picked" /\ mem[w].seen.source = "full"
    /\ Rest(w)
    /\ UNCHANGED <<tableVars, launch, admin, crashes>>

(* Faulty variant of Claim: leaves claimed_by to the runner. *)
ClaimUnsigned(w) ==
    LET j == job[w]
        c == rows[j].city
    IN  /\ pc[w] = "picked"
        /\ Claimable(mem[w].seen) /\ Unlocked(j)
        /\ ActiveJobs(c) \subseteq {j}
        /\ rows' = [rows EXCEPT ![j] = [@ EXCEPT !.status = "running", !.quiet = FALSE, !.old = FALSE]]
        /\ Jump(w, "claimed")
        /\ mem' = [mem EXCEPT ![w].seen = NoRow]
        /\ UNCHANGED <<lastId, launch, job, admin, crashes>>

(* claim_queued_job: SELECT ... FOR UPDATE without populate_existing(), so *)
(* the check reads the copy the session already holds; the UPDATE that     *)
(* follows goes to the row as it is now.                                   *)
Claim(w) ==
    LET j == job[w]
        c == rows[j].city
    IN  /\ pc[w] = "picked"
        /\ Claimable(mem[w].seen) /\ Unlocked(j)
        /\ ActiveJobs(c) \subseteq {j}
        /\ rows' = [rows EXCEPT ![j] = [@ EXCEPT !.status = "running", !.claimed = w,
                                                 !.quiet = FALSE, !.old = FALSE]]
        /\ Jump(w, "claimed")
        /\ mem' = [mem EXCEPT ![w].seen = NoRow]
        /\ UNCHANGED <<lastId, launch, job, admin, crashes>>

(* The partial unique index of active jobs per city refuses the UPDATE. *)
ClaimConflict(w) ==
    /\ pc[w] = "picked"
    /\ Claimable(mem[w].seen)
    /\ ~(ActiveJobs(rows[job[w]].city) \subseteq {job[w]})
    /\ Rest(w)
    /\ UNCHANGED <<tableVars, launch, admin, crashes>>

(* db.refresh after the claim's commit: what load_job_for_run will check   *)
(* and the identity the run will finalize with.                            *)
Load(w) ==
    LET r == rows[job[w]] IN
    /\ pc[w] = "claimed"
    /\ r.status = "running"
    /\ r.source = "full" => r.step # "cancelled"
    /\ Jump(w, "loaded")
    /\ mem' = [mem EXCEPT ![w].owner = r.claimed]
    /\ UNCHANGED <<tableVars, launch, job, admin, crashes>>

(* load_job_for_run or the cancelled-step check raised. *)
LoadRefused(w) ==
    LET r == rows[job[w]] IN
    /\ pc[w] = "claimed"
    /\ r.status # "running" \/ (r.source = "full" /\ r.step = "cancelled")
    /\ Finalize(job[w], "failed", w, "error")
    /\ Rest(w)
    /\ UNCHANGED <<lastId, launch, admin, crashes>>

-----------------------------------------------------------------------------
(* The run of a claimed job. *)

(* The runner remembers the launch_status it found and commits its first step. *)
Start(w) ==
    /\ pc[w] = "loaded"
    /\ Progress(job[w], "working")
    /\ Jump(w, "running")
    /\ mem' = [mem EXCEPT ![w].orig = IF rows[job[w]].source = "full"
                                      THEN launch[rows[job[w]].city] ELSE "absent"]
    /\ UNCHANGED <<lastId, launch, job, admin, crashes>>

(* A commit of a pipeline stage; nothing forces a stage to be short. *)
Heartbeat(w) ==
    LET r == rows[job[w]] IN
    /\ \/ pc[w] = "running" /\ r.source = "full" /\ Progress(job[w], "working")
       \/ pc[w] = "reviewed" /\ Progress(job[w], r.step)
    /\ UNCHANGED <<lastId, launch, workerVars, admin, crashes>>

(* Address, photo and snapshot jobs end here; "error" when they are blocked. *)
FinishShort(w) ==
    /\ pc[w] = "running" /\ rows[job[w]].source = "short"
    /\ \/ Finalize(job[w], "success", mem[w].owner, "working")
       \/ Finalize(job[w], "failed", mem[w].owner, "error")
    /\ Rest(w)
    /\ UNCHANGED <<lastId, launch, admin, crashes>>

(* run_enrichment_pipeline loads the city after its last stage and asks    *)
(* whether the row was cancelled or stalled meanwhile; if so it commits    *)
(* the step it set before asking and leaves the city alone.                *)
ReviewCheck(w) ==
    LET r == rows[job[w]] IN
    /\ pc[w] = "running" /\ r.source = "full"
    /\ IF r.status \in {"stalled", "cancelled"}
       THEN /\ \E s \in {"ready_for_review", r.step} : Progress(job[w], s)
            /\ Jump(w, "reviewed")
            /\ mem' = [mem EXCEPT ![w].orig = "absent"]
       ELSE /\ Jump(w, "reviewing")
            /\ mem' = [mem EXCEPT ![w].copy = launch[r.city]]
            /\ UNCHANGED rows
    /\ UNCHANGED <<lastId, launch, job, admin, crashes>>

(* The launch_status found at the start goes back, except that an import   *)
(* in progress becomes a review.                                           *)
ReviewCommit(w) ==
    LET orig == mem[w].orig IN
    /\ pc[w] = "reviewing"
    /\ Progress(job[w], "ready_for_review")
    /\ launch' = GuardedWrite(rows[job[w]].city, mem[w].copy,
                              IF orig = "importing" THEN "review_required" ELSE orig)
    /\ Jump(w, "reviewed")
    /\ mem' = [mem EXCEPT ![w].orig = "absent", ![w].copy = "absent"]
    /\ UNCHANGED <<lastId, job, admin, crashes>>

(* The pipeline failed and the city has no places: the handler asks the    *)
(* same question of the row, and works on with the city its session holds. *)
EmptyImport(w) ==
    LET r == rows[job[w]] IN
    /\ pc[w] = "running" /\ r.source = "full"
    /\ IF r.status \in {"stalled", "cancelled"}
       THEN /\ Progress(job[w], r.step)
            /\ Jump(w, "failing")
            /\ mem' = [mem EXCEPT ![w].orig = "absent"]
       ELSE /\ Jump(w, "emptying")
            /\ mem' = [mem EXCEPT ![w].copy = launch[r.city]]
            /\ UNCHANGED rows
    /\ UNCHANGED <<lastId, launch, job, admin, crashes>>

(* The launch_status found at the start goes back, an import in progress   *)
(* included, before the error is raised again.                             *)
EmptyCommit(w) ==
    /\ pc[w] = "emptying"
    /\ Progress(job[w], rows[job[w]].step)
    /\ launch' = GuardedWrite(rows[job[w]].city, mem[w].copy, mem[w].orig)
    /\ Jump(w, "failing")
    /\ mem' = [mem EXCEPT ![w].orig = "absent", ![w].copy = "absent"]
    /\ UNCHANGED <<lastId, job, admin, crashes>>

(* finalize_import_publication loads the city again before its verdict. *)
ReadCity(w) ==
    /\ pc[w] = "reviewed"
    /\ Jump(w, "closing")
    /\ mem' = [mem EXCEPT ![w].copy = launch[rows[job[w]].city]]
    /\ UNCHANGED <<tableVars, launch, job, admin, crashes>>

(* The end of run_city_import_job: the review mark on the city is          *)
(* committed with the verdict, and also when the verdict is refused.       *)
Finish(w) ==
    /\ pc[w] = "closing"
    /\ \E v \in {"success", "failed"}, marked \in BOOLEAN :
          /\ marked => v = "success"
          /\ Finalize(job[w], v, mem[w].owner, rows[job[w]].step)
          /\ launch' = IF marked
                       THEN GuardedWrite(rows[job[w]].city, mem[w].copy, "review_required")
                       ELSE launch
    /\ Rest(w)
    /\ UNCHANGED <<lastId, admin, crashes>>

(* The except clause of run_city_import_job. *)
Fail(w) ==
    /\ pc[w] \in {"failing", "reviewed", "closing"}
    /\ \E v \in {"success", "failed"} :
          Finalize(job[w], v, mem[w].owner, rows[job[w]].step)
    /\ Rest(w)
    /\ UNCHANGED <<lastId, launch, admin, crashes>>

(* _mark_worker_exception: what a runner raised past its own handlers. *)
WorkerException(w) ==
    /\ pc[w] \in {"loaded", "running"}
    /\ Finalize(job[w], "failed", w, "error")
    /\ Rest(w)
    /\ UNCHANGED <<lastId, launch, admin, crashes>>

(* A worker process dies; its open transaction rolls back, and a restarted *)
(* process remembers nothing.                                              *)
Crash(w) ==
    /\ pc[w] # "idle" /\ crashes < MaxCrashes
    /\ crashes' = crashes + 1
    /\ Rest(w)
    /\ UNCHANGED <<tableVars, launch, admin>>

-----------------------------------------------------------------------------
(* Time: a running row without commits turns quiet, a long run turns old. *)

Quiet(j) ==
    /\ rows[j].status = "running" /\ ~rows[j].quiet
    /\ rows' = [rows EXCEPT ![j].quiet = TRUE]
    /\ UNCHANGED <<lastId, launch, workerVars, admin, crashes>>

Age(j) ==
    /\ rows[j].status = "running" /\ ~rows[j].old
    /\ rows' = [rows EXCEPT ![j].old = TRUE]
    /\ UNCHANGED <<lastId, launch, workerVars, admin, crashes>>

AdminStep ==
    \/ \E c \in Cities : CreateCity(c) \/ Publish(c) \/ Unpublish(c)
    \/ \E c \in Cities, src \in Sources : Enqueue(c, src)
    \/ \E a \in Admins :
          \/ \E c \in Cities : CancelRequest(a, c) \/ SnapshotRequest(a, c)
          \/ \E j \in JobId : StallRequest(a, j)
          \/ CancelApply(a) \/ StallApply(a) \/ SnapshotUpdate(a) \/ SnapshotInsert(a)

(* What a live worker process is bound to do next. *)
WorkerStep(w) ==
    \/ SweepRead(w) \/ NothingQueued(w) \/ SafeModeSkip(w)
    \/ \E j \in JobId : SweepLock(w, j) \/ Select(w, j)
    \/ SweepMark(w)
    \/ Claim(w) \/ ClaimConflict(w) \/ Load(w) \/ LoadRefused(w)
    \/ Start(w) \/ FinishShort(w) \/ WorkerException(w)
    \/ ReviewCheck(w) \/ ReviewCommit(w) \/ EmptyImport(w) \/ EmptyCommit(w)
    \/ ReadCity(w) \/ Finish(w) \/ Fail(w)

Next ==
    \/ AdminStep
    \/ \E w \in Workers : WorkerStep(w) \/ Heartbeat(w) \/ Crash(w)
    \/ \E j \in JobId : Quiet(j) \/ Age(j)

Spec == Init /\ [][Next]_vars

(* A worker process polls for ever and every stage of a run ends, by its   *)
(* own deadline if not before; a row nobody writes to turns quiet.         *)
FairSpec ==
    /\ Spec
    /\ \A w \in Workers : WF_vars(WorkerStep(w))
    /\ \A j \in JobId : WF_vars(Quiet(j))

-----------------------------------------------------------------------------
(* Properties. *)

(* At most one active row per city: however enqueues, stale claims, stalls  *)
(* and crashes interleave, two runs never collect places for one city       *)
(* through two rows.                                                        *)
OneActivePerCity == \A c \in Cities : Cardinality(ActiveJobs(c)) <= 1

(* A row without a verdict blocks its city and nothing else does so without *)
(* a live owner: it is active, unfinished, never claimed while queued and   *)
(* always claimed while running.                                            *)
OpenRowsAreActive ==
    \A j \in JobId : LET r == rows[j] IN
        r.verdict = "open" =>
            /\ r.status \in ActiveStatuses
            /\ ~r.finished
            /\ r.status = "queued" <=> r.claimed = None

(* A retry continues the newest finished attempt of its own city, and no    *)
(* attempt is continued twice: previous_job_id links the attempts of a city *)
(* into chains that never branch, and retry_count is the position in one.   *)
RetryChainsAreLinear ==
    \A j \in JobId : LET r == rows[j] IN
        r.prev # 0 =>
            /\ r.prev < j
            /\ rows[r.prev].city = r.city
            /\ rows[r.prev].verdict \in TERMINAL_STATUSES
            /\ r.retry = rows[r.prev].retry + 1
            /\ \A k \in JobId : rows[k].prev = r.prev => k = j

(* A city shows import_failed only if one of its attempts was given the     *)
(* verdict stalled: a sweep or an admin whose finalize lost the race to the *)
(* run leaves the city alone.                                               *)
FailedLaunchHasStalledJob ==
    \A c \in Cities : launch[c] = "import_failed" =>
        \E j \in JobId : rows[j].city = c /\ rows[j].verdict = "stalled"

(* The table implements the ledger of attempts: one open attempt per city,  *)
(* one verdict per attempt, whatever row locks, lost owners and stale       *)
(* sessions do underneath.                                                  *)
Ledger == INSTANCE JobLedger WITH
    Jobs <- JobId, Verdicts <- TERMINAL_STATUSES, NoCity <- None,
    city <- [j \in JobId |-> rows[j].city],
    verdict <- [j \in JobId |-> rows[j].verdict]

ImplementsLedger == Ledger!Spec

(* Worker w, or the connection of admin a, makes this step for city c. *)
MovesFor(w, c) == pc'[w] # pc[w] /\ rows[job[w]].city = c
StallsFor(a, c) == admin'[a] # admin[a] /\ admin[a].op = "stall" /\ admin[a].city = c

(* A session that loaded the city before it was published: of a run at one *)
(* of its three writes, of the stall sweep or of an admin's stall request. *)
WritesUnawares(c) ==
    \/ \E w \in Workers :
          /\ MovesFor(w, c)
          /\ pc[w] \in {"reviewing", "emptying", "closing", "marking"}
          /\ mem[w].copy # "published"
    \/ \E a \in Admins : StallsFor(a, c) /\ admin[a].held # "published"

(* A run that started while the city was published. *)
PutsBack(c) ==
    \E w \in Workers : MovesFor(w, c) /\ pc[w] \in {"reviewing", "emptying"} /\ mem[w].orig = "published"

(* Besides the two endpoints, a city is taken out of the public only by a   *)
(* session that loaded it unpublished, and put there only by a run that     *)
(* found it published when it started: whatever else imports, sweeps,       *)
(* stalls and crashes do, they leave the public cities as they are.         *)
OnlyStaleSessionsMovePublicCities ==
    [][\A c \in Cities :
         /\ launch[c] = "published" /\ launch'[c] # "published" => Unpublish(c) \/ WritesUnawares(c)
         /\ launch[c] # "published" /\ launch'[c] = "published" => Publish(c) \/ PutsBack(c)]_vars

(* A run that dies before its review step is recovered: its row leaves      *)
(* `running` through its own verdict or the stall sweep of any live worker. *)
RunningRowsEnd ==
    \A j \in JobId :
        (rows[j].verdict = "open" /\ rows[j].status = "running" /\ rows[j].step \notin TERMINAL_STEPS)
            ~> (rows[j].verdict # "open" \/ rows[j].step \in TERMINAL_STEPS)

-----------------------------------------------------------------------------
(* What docs and tests say of the program and the code does not do: the one *)
(* property of a run that ends in a counterexample.                         *)

(* "A published city remains public until the admin unpublishes it."        *)
OnlyAdminUnpublishes ==
    [][\A c \in Cities : launch[c] = "published" /\ launch'[c] # "published" => Unpublish(c)]_vars
=============================================================================
