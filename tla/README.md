# City GO in TLA+

City GO is a FastAPI and PostgreSQL service that collects places of a city from
OpenStreetMap and other providers, lets administrators review and publish them, and
builds walking routes for users.  Its hard part is not one algorithm: it is a set of
tables that several processes write to without a coordinator.  Import workers, operation
pollers, background tasks of requests, cleanup loops and administrators meet only in
rows, row locks, partial unique indexes and timestamps.  These modules model that part
of the program, TLC checks them on small instances, and TLAPS proves the central
invariants for every size.

The reference is the code.  Every definition that models code is listed under `map` in
`PROJECT.json` with the lines it stands for.

## Contents

| module | what it is |
|---|---|
| `JobLedger` | abstract: what the table of import jobs promises its readers |
| `ImportJobs` | city import jobs: rows, workers, sweeps, admin requests, launch status |
| `MCImportJobs` | instances of it for TLC |
| `ImportJobsProofs` | inductive invariant, all five invariants of `ImportJobs`, who moves public cities, refinement of `JobLedger` |
| `FencedOperations` | abstract: numbered claims of rows, of which the last one can have its result written |
| `BackgroundOperations` | the leased and fenced queue of heavy admin operations, and the address refresh that shares its table |
| `BackgroundOperationsProofs` | inductive invariant, fencing, one active row, final verdicts, refinement of `FencedOperations` |
| `BacklogFullRun` | the full safe run over the backlog: one JSON result, a runner and stop requests |
| `BacklogFullRunProofs` | inductive invariant: a stop flag that the row shows is obeyed; who makes a finished run active again |
| `RevisionChain` | abstract: a compare-and-advance register |
| `RouteStates` | the registry of one user route: requests, clock, cleanup |
| `RouteSessions` | walks along a route, written by two services |
| `UserRoutes` | the two together: a start presents a state and creates a session |
| `MCUserRoutes` | its symmetry for TLC |
| `UserRoutesProofs` | inductive invariant, refinement of `RevisionChain`, one open session, final ends |
| `PlaceRows` | the publication part of a row of places: writer, eligibility, flush of a session |
| `Places` | most of what writes that part: administrators, imports, policy runs, reconciliation and its rollback, repair and cleanup scripts |
| `MCPlaces` | its symmetry for TLC |
| `PlacesProofs` | inductive invariant, all six properties of `Places` |
| `VersionedRoute` | abstract: a list of stops that is compared and edited in one step |
| `RouteDrafts` | one draft of a random route, its clients and a changing catalogue |
| `MCRouteDrafts` | its symmetry for TLC |
| `RouteDraftsProofs` | inductive invariants, all five properties of `RouteDrafts`, refinement of `VersionedRoute` |
| `ScopeLocks` | the locks of a city's import scopes: taking, reclaiming, giving back |
| `ScopeLocksProofs` | inductive invariant, exclusion of those that take the lock until it is taken from a living import |
| `AtomicRebuilds` | abstract: projections rebuilt in one step each |
| `Projections` | snapshots, the documents, nodes and candidate sets built from them, and the requests answered from these |
| `MCProjections` | instances of it for TLC |
| `ProjectionsProofs` | inductive invariant, the properties of `Projections` that hold, refinement of `AtomicRebuilds` |

To check: `tlc -workers 2 -config ImportFull.cfg MCImportJobs`; `PROJECT.json` lists the
module of every configuration under `runs`.  To prove: `tlapm` on each module whose name
ends in `Proofs`.

## Inventory

For each component: the state it keeps, what changes it, with whom it interacts, what is
hard about it, and what correctness means.

**City import jobs** (`services/admin_city_import_job_service.py`,
`services/admin_city_import_tasks.py`, `services/import_pipeline/`,
`services/admin_city_import_job_payload.py`, `routers/admin_import_jobs.py`,
`routers/admin_import_queue.py`).
State: rows of `city_admin_import_jobs` (status, claimed_by, started_at, finished_at,
current_step, updated_at, previous_job_id, retry_count) and `cities.launch_status`.
Operations: enqueue (create a city, launch, refresh, retry), claim, run, finalize, stall
sweep, cancel, administrative stall, snapshot refresh.  It runs in any number of worker
processes, each with a poll loop (`core/import_worker_scheduler.py`), beside the request
threads of the API.  Hard: two workers on one row, a claim based on a stale ORM copy, a
sweep that names its victims without a lock, step commits that do not look at the status,
a process killed anywhere.  Correct: one active job per city, one verdict per attempt,
retry chains that follow the attempts, no city blocked for ever, and a launch status that
only administrators move across the public boundary.

**Background admin operations** (`services/admin_background_operation_service.py`,
`core/admin_background_operation_scheduler.py` and the routers that queue them) and the
**address refresh** (`services/admin_address_job_service.py`).
State: rows of `admin_operations` (status, lease_expires_at, lease_generation,
attempt_count).  Operations: insert under a unique index, claim or reclaim with
`FOR UPDATE SKIP LOCKED`, renew from a heartbeat thread, fenced finalize, give up after
MAX_ATTEMPTS; the address refresh writes the same rows by id alone.  Hard: a worker that
is slow rather than dead, a heartbeat that fails, claims that a request's task drops, two
disciplines on one table.  Correct: one active row per type and city, no two holders of a
fencing token, no lease reported lost while it is held, one verdict of a claimer, and
every operation with a runner ends.

**City publication** (`services/admin_city_publication_service.py`, the guard in
`models/city.py`, `services/import_publication_finalize.py`).  State: `launch_status` and
`is_active` of a city.  The runner, the end of an import, the stall sweep and the
publish and unpublish endpoints all write it; a listener on the mapped class refuses to
leave `published` except through the unpublish path.  Hard: the guard compares with the
value that the session holds.

**Backlog full safe run** (`services/admin_backlog_full_run_state.py`,
`services/admin_backlog_full_run_runner.py`).  State: one `admin_operations` row whose
JSON result holds the stop flag and the progress.  A runner thread and stop requests read,
modify and write it.  Hard: lost updates in both directions.  Correct: a stop that was
accepted is honoured, and a finished run stays finished.

**Route-state registry** (`services/user_route_state_registry_service.py`, its lifecycle
and its cleanup loop).  State: one row per route with a revision, a digest and an expiry.
Clients present signed states; one advance per revision may win; expired rows are deleted
in batches.  Correct: linearizable compare-and-advance per route, no state accepted after
it was superseded, an expired row never revived.

**Route sessions** (`services/user_route_session_service.py` and
`services/route_session_service.py`).  State: sessions with status, current point,
check-ins, paused_at.  Two services write the same rows, and count what is left in
different ways, one from the points and one from two lists of indexes.  Correct: one open
session per user route, for the places of the state that was current at its start; the two
counts agree; an open session has a point left; no transition out of completed or
abandoned.

**Route drafts** (`services/route_random_service.py`, `services/route_draft_*.py`,
`routers/route_drafts.py`).  State: a row with a version, the removed places, a total and
a status, and its points with their positions.  Operations: create, read, add, remove and
replace a point.  An edit locks the draft and nothing else; places and the city change
under it, and the answer is read after the commit.  Correct: an edit is of the version its
client saw, no place is twice in a draft, the stored numbers agree with the points, and no
point stays that readers may not see.

**Place publication** (`services/publication_state_writer.py`,
`services/canonical_publication_*.py`, `services/admin_city_publication_service.py`,
`services/admin_emergency_hide_service.py`, `services/publication_policy.py`,
`services/*publication_reconciliation*.py`, `services/import_pipeline_publication.py`,
`scripts/repair_publication_states.py`, `data/scripts/cleanup_bad_places.py`, the sweep at
the end of `data/scripts/import_city_osm.py`),
**verification and change review** (`services/place_verification_mutation.py`,
`services/place_change_review_service.py`).  State: the publication columns of a place,
the history of its transitions, one open review item per place.  Administrators decide
under a row lock; imports, enrichment and sweeps decide on a copy and most of them flush
it without one; repairs and scripts lock the row in the end and write what they chose
before.  A reconciliation and its rollback are requests of an administrator that ask no
gate.  Hard: the session flushes only the columns that differ from its copy, so that two
writers compose a row neither of them meant; five kinds of writer publish, and only those
of decisions look at the row they publish.  Correct: flags, status and history agree, what
readers see passed the gates and was not changed behind their back, and a place hidden in
an emergency comes back only by an act that is known to bring it back.

**Taxonomy workflows** (`services/taxonomy_workflow_service.py`).  Idempotent operations
with retries under an entity lock.  Correct: one effect per idempotency key.

**Read projections** (`services/*projection*.py`,
`services/published_snapshot_rebuild_service.py`).  State: snapshots of the places, each
generation with a higher version; search documents and routing nodes that copy the latest
public ones; candidate sets of places with nodes; a row per build in
`projection_rebuild_jobs`.  Administrators rebuild each of the four for a city or for all,
in one transaction under a table lock; public requests assert that what they rest on is
ready, then read it.  Hard: a request is many statements, and a build may commit between
any two of them; a city is judged by its own builds or by those of all; publishing and
hiding places (`Places`) tells the projections nothing.  Correct: a slow build never
publishes over a newer one, and what is shown agrees with the latest snapshots or is
refused.

**Legacy import scopes** (`services/import_scope_lock.py`,
`services/import_job_service.py`, `data/scripts/run_due_import_jobs.py`,
`scripts/refresh_all_cities.py`).  State:
`locked_at` and `next_run_at` of the rows of `import_scopes`.  Cron, a forced run and the
collecting step of an import job take the lock by compare-and-set, take it away when it
looks stale, and give it back in a `finally`.  The nightly refresh of all cities and the
import script run by hand import the same scopes and know no lock.  Hard: the column says
since when, not by whom.  Correct: one import under the lock per scope as long as nobody's
lock is taken away, and a lock that a killed process left behind does not stay while runs
come to look at it.

**Destination pipelines**, **retry policy**, **abuse control**, **local cache**: smaller
stateful parts, the second and third worth modelling as algorithms.

**Not for this method**: itinerary and route building (floating-point heuristics over
lists, no shared state), catalogue and search reads, the Telegram bot, the web and admin
front ends, migrations, scripts and data.

`PROJECT.json` lists all of them under `components` with their status, and under
`hazards` what in this code is hard to test, at its line, with the property that covers
it, or a note that says why none does.

## Plan

Modelled first was what the whole product depends on and what its authors rewrote most
often (the comments of the two services are a history of races): import jobs, then the
operation queue and the full run that lives in its table, then the state of a user's
route.  Then the publication of places with its reviews, the drafts of random routes,
the locks of import scopes, and the read projections.  All of these are done.  Next, in
this order:

1. `TaxonomyWorkflows`: idempotency keys, retries and the entity lock.
2. The rest of `RouteSessions`: the start on an editorial route, and `paused_at`.
3. `AbuseControl` and `RetryPolicy` as algorithms: a bounded store of windows; attempts,
   capped backoff and the time budget as a recursive function, checked against a closed
   form.
4. The composition of `ImportJobs` with `ScopeLocks`, which now takes from it only that a
   city has one active job.

Runs: one instance per module large enough for two writers plus one disturbance (a crash,
an expiry, a late request), with fairness where something must happen.  Theorems: the
inductive invariant of every module that has one, and the refinements.

No module that is proved about uses a RECURSIVE operator.

## ImportJobs

### State and code

| variable | code |
|---|---|
| `rows` | table `city_admin_import_jobs` (`models/city_admin_import_job.py`); `step` is `current_step` with all intermediate steps in one value; `quiet` and `old` are `updated_at` and `started_at` compared with the two thresholds; `verdict` is a history field |
| `lastId` | the id sequence; ids order rows as `created_at` does |
| `launch` | `cities.launch_status`; a city that is not created yet is `absent` |
| `pc`, `job`, `mem` | what a worker process knows between two transactions: the row it selected as its session holds it (`seen`), the owner it will finalize with (`owner`), the launch status found at the start (`orig`), the launch status its session last loaded (`copy`), the candidates of a sweep (`cand`) |
| `admin` | a request between its unlocked read and its write |

One action is one transaction, or the last read on which a later write is based when
nothing locks what was read.  These reads are where the races are: `Select` and `Claim`,
`SweepLock` and `SweepMark`, `CancelRequest` and `CancelApply`, `EmptyImport` and
`EmptyCommit`, `ReviewCheck` and `ReviewCommit`, `ReadCity` and `Finish` are pairs for that
reason.  `Finalize` is
`finalize_import_job` with its locked and repopulated check; every terminal write goes
through it.  `Progress` is a commit of the run's session that looks at no status.

The sweep names its candidates without a lock (`SweepRead`), then takes them one by one:
`SweepLock` locks the row, gives it its verdict if it still accepts one, and loads the
city, which it does not lock; `SweepMark` commits the verdict and the mark that it decided
on from the loaded city.  In between other writers of the row wait (`Unlocked`), and a
publish of the city does not.

Three points of the mapping are easy to get wrong.  `claim_queued_job` locks the row but
does not repopulate the session's copy, so `Claim` tests `mem[w].seen` and writes to the
row as it is.  The identity a run finalizes with is what it read *after* its claim
committed, so `Load` takes `rows[j].claimed`, which may be another worker's.
`GuardedWrite` is SQLAlchemy's attribute assignment: the guard compares with the value the
session holds, and an assignment that does not change that value sends no UPDATE.

### What the runs show

* `import_attempts` (1 city, 1 worker, 1 admin, 3 rows): one active row per city
  (`OneActivePerCity`) and retry chains that never branch (`RetryChainsAreLinear`).
  Three rows are the least that let a third attempt link to
  the first instead of the second.  One worker is enough for a stale claim: it selects a
  row, an admin cancels it and enqueues the next one, the worker claims.
* `import_full_run` (1 city, 2 workers, 1 admin, 1 row, 1 crash, whole imports): a row
  without a verdict is active, unfinished and signed (`OpenRowsAreActive`), both workers
  may run the same row after a double claim and still one verdict lands
  (`ImplementsLedger`), and a city shows `import_failed` only together with a stalled
  verdict (`FailedLaunchHasStalledJob`).  Besides the publish and unpublish endpoints, a
  city leaves the public only through a session that loaded it before it was published (a
  run at its review, its empty end or its last commit, a sweep, or an admin who stalls a
  job: `WritesUnawares`), and enters it only through a run that found it published when it
  started (`OnlyStaleSessionsMovePublicCities`).
* `import_recovery` (2 workers, 1 row, 1 crash, fair, no admins): a run that dies before
  its review step is ended by its own verdict or by a sweep (`RunningRowsEnd`).
* `auto_unpublished`: see *Findings*.

Two workers suffice for the races over one row because every one of them has two
participants: a holder of a stale read and the writer that made it stale.  One crash
suffices because a crashed worker comes back idle and can only repeat what a fresh worker
does.  Symmetry is used for workers and admins in `import_full_run` alone; no run of a
liveness property uses it.

### Fairness

`WF(WorkerStep(w))`: the scheduler calls `run_queued_import_jobs` for ever, and each stage
of a run ends, by the HTTP and stage deadlines if not before.  `WF(Quiet(j))`: the clock
passes.  `Heartbeat` (a commit of a stage) and `Crash` are not fair: nothing forces a
stage to commit, nor a process to die.  Admin requests are not fair; the liveness run has
none, because an admin page that polls `refresh_import_job_snapshot` writes `updated_at`
of the latest row and can postpone the sweep of a dead run for ever.

### Left out

The contents of `step_details` and the counters; batches of more than one row
(`limit > 1` repeats the same turn); the enrichment-only command line; `is_active`.  A publish that meets `Finish` can leave
`is_active` true with `launch_status` `review_required`; public reads ask for both.
`SafeModeSkip` is a choice at any time: memory pressure of the host is not modelled.
`success` stands for the three successful statuses, and `Sources` for the kinds of job.
A worker's identity is drawn anew for each claim in the code; the model reuses one
identity per process, which only makes ownership checks weaker.

## BackgroundOperations

### State and code

| variable | code |
|---|---|
| `ops` | table `admin_operations`; `gen` is `lease_generation`, `lease` is `lease_expires_at` against the clock; `writer` is a history field |
| `lastId` | its id sequence |
| `phase`, `held`, `token` | a poller or background task: the row it works on and the generation its claim returned |
| `lost` | `heartbeat.lost` of the run |

`Claim` and `GiveUp` are `claim_next_background_operation`; `Keeps` is the comparison in
`run_background_operation` that makes a request's task forget a row it was not started
for.  `Renew` is one beat of the heartbeat thread, `Finalize` the UPDATE that asks for id
and generation, `Return` and `Finish` the two halves of `_execute_claimed_operation` around
the check of `lost`.  The `Address...` actions are `run_address_refresh_operation`.
Each transaction updates one row once, so `SKIP LOCKED` is serializable: a row that is
skipped is one that another transaction has just written.  (If that other transaction
rolls back, the claim took the second oldest row; that order is not modelled.)  A paused thread is one that takes no
step while `Lapse` happens to its row.  Threads crash one by one, which includes the death
of a process with several threads.

### What the runs show

* `operation_claims` (1 poller, 2 tasks, a scope with a runner and an address scope, 2
  rows, 2 attempts, 1 crash, fair): one active row per scope although an address refresh
  brings rows back to `running` that a poller has failed (`OneActiveOperation`), no two
  holders of one token (`TokensAreUnique`), no false report of a lost lease
  (`LostMeansOver`), a claimer's verdict that no later write changes
  (`ClaimerVerdictIsFinal`), and the end of every operation that has a runner
  (`OperationsEnd`).  All of the table that a scope with a runner shows implements
  `FencedOperations` (`ImplementsFencedOperations`): a row is claimed `MAX_ATTEMPTS` times
  at most, given up after exactly that many claims, and takes the result of its last claim,
  once, be it before or after it was given up.

Two rows are needed for a task to claim a row that is not its own, two attempts for a
reclaim and a give-up, and three threads for the old owner, the new owner and a third
that gives the row up.  Deadlock is not checked here: inserts are bounded by `MaxOps`, and
when all rows have ended nothing is left to do.

### Fairness

`WF(ThreadStep(t))`: a poller polls for ever and a runner returns or raises.
`WF(Lapse(j) /\ Orphaned(j))`: a lease that no heartbeat renews runs out.  A lease that is
renewed may also lapse (the renewing thread may be slow), but need not.  `Renew` and
`Crash` are not fair.

### Left out

What the runners compute; `renew` after `finalize` (a beat that comes after the terminal
write finds another status and changes nothing); the insert's IntegrityError path, which
returns the row that won; the ORM's habit of not sending an UPDATE that changes nothing.

## BacklogFullRun

### State and code

| variable | code |
|---|---|
| `rows` | the rows of type full run in `admin_operations`: `status`, and of the JSON `result` the stop flag and the state of each action; `stale` is `last_heartbeat_at` against the threshold |
| `at`, `next`, `copy` | the runner thread of each run: the statement it is at, the index of its loop over `SAFE_QUEUE_ACTIONS`, the row as its session loaded it |
| `admin` | a start or stop request between its query and its commit, with the row it loaded |
| `late` | history: the actions begun under a standing flag |

Every function of `services/admin_backlog_full_run_state.py` loads the row, changes a copy
of the result and writes it as a whole, without lock and without version, so that a load
and a write are two actions (`Load` and `MarkStepRunning`, `RecordStepResult`,
`CompleteFullRun` or `FinalizeStopped`; `StopRead` and `StopWrite`; `StartRead` and
`StartInsert`).  The check of the flag is a read of its own before the mark.  `Flushed` is
the ORM's UPDATE: the JSON always, the status only if the copy's differs from what was
loaded.  `Taken` is the partial unique index, which counts `running` rows and not
`stop_requested` ones.

### What the runs show

* `backlog_runs` (2 actions, 2 admins, 2 runs, 1 stop request, 1 crash, fair): once a row
  shows the flag one more action begins at most (`StandingStopIsObeyed`); a row that has
  ended becomes active again only through a writer that loaded it before its end
  (`OnlyStaleCopiesReopen`); a stopped run whose runner lives ends, unless another running
  run takes its place in the index (`StoppedRunsEnd`).

Two actions tell "the next check" from "the end of the loop".  Two runs are needed for the
index, and for a stale run that is replaced while its runner lives.

Fairness is `WF(RunnerStep(r))`: the loop goes on, and each action is bounded by its limit
of items.  `Lapse` may happen at any time, since an action may take longer than the
threshold.  Requests and crashes are not fair.

Left out: the counters and messages of the result, the limit of the status query to the
latest 50 rows, the actions themselves (they end applied or failed).

## UserRoutes

### State and code

| variable | code |
|---|---|
| `current`, `expired` | the row of `user_route_state_registry` of one route: revision, places and digest in one value, and `expires_at` against the clock |
| `issued` | history: the signed states that clients may hold |
| `locker` | the transaction that holds the row lock |
| `doing`, `shown` | a request between its statements, and the state it presented |
| `sessions` | rows of `route_sessions` with their `route_session_points` |

Routes have random ids and share nothing in the registry, so one route is modelled.
`Verify` is the locked read with the comparison of digests and the look at the clock;
`Recheck` the second look when the mutation was accepted; `Advance` the write and commit;
`Abort` every way to end without effect.  Between these the clock may pass the expiry and
the cleanup may run: it skips locked rows, which is what keeps the row under a request.
A start locks the registry row, then the record of the route (`LookUp`), and inserts
(`Create`).

`RouteSessions` has one action per endpoint of the two services.  Each locks the session
row before it reads it and commits before it answers.  `Marked` is the change both make to
a point and the two lists; `Advanced` looks for the next open point in the points,
`CheckedIn` in the lists.

### What the run shows

`user_routes` (2 requests, 2 revisions, 2 lists of 2 places, 2 sessions): the registry
implements the compare-and-advance register (`ImplementsChain`), so that a route never
forks (`OneStatePerRevision`, which is proved and needs no run of its own), no request works on a replaced or deleted state
(`RequestsSeeCurrent`), a session is created for the current places
(`SessionsAreFromCurrent`), one session is open at most (`OneOpenSession`), the two
records of progress agree (`IndexesMatchPoints`), an open walk has somewhere to go
(`OpenWalksHaveWork`) and an ended one stays ended (`EndedWalksStayEnded`).

Two requests make every race over a row lock, two revisions a replaced state, two lists a
session whose list is not the current one any more, two places the difference between the
last point and another.  Deadlock is not checked: when the row was removed and the
sessions have ended nothing is left to do.  All properties are safety properties; requests
and lists are symmetric.

Left out: `paused_at` (a check-in leaves it set on an active session; it is only shown),
ownership tokens (every actor may act on every session, which allows more), the start of a
session on an editorial route, which inserts without looking at others, and what a
mutation does to the places: any list may follow any other.  The model has one clock; the
cleanup compares with `clock_timestamp()` and the registry with the same in UTC, which is
the same if the database session runs in UTC.

## Places

### State and code

| variable | code |
|---|---|
| `rows` | table `places`: `pub` is `publication_status`, `active` `is_active`, `route` `is_route_eligible`, `life` `status`; `shown` is `is_published` and `is_visible_in_catalog`, `found` is `is_searchable`: the writer sets them together, and they differ only in rows older than it (`Legacy`); `fit` is the answer of `place_publication_eligibility` apart from `status`, `sound` the answer of the gate of imports (`import_publication_gate.py`: confidence, coordinates, category), two gates neither of which implies the other; `data` stands for the columns an import may bring |
| `last` | `to_status` of the newest row of `place_publication_transitions` |
| `launched` | `is_active` and `launch_status = published` of the city |
| `item` | the open `place_change` item of a place in `review_queue_items`, with what its payload remembers |
| `work` | the place a worker's session has loaded, as it loaded it |
| `audits` | the route flag in the `old_value` of the audit rows that a reconciliation left about the place |
| `held` | history: hidden in an emergency and not brought back since |
| `owed` | history: taken offline because its source lost or rejected it, and no decision about it since |

`PlaceRows` holds the pure part: `Transition` is `transition_place_publication`, `Eligible`
is `place_publication_eligibility`, and `Flushed` is what a session's UPDATE does to a row
that is not the one it loaded: only the columns that differ from the copy are written.
Each decision of an administrator locks the row and is one action.  A worker is two
actions, `Load` and one of the writes, because nothing holds the row in between; of these,
`mark_place_for_review`, `hide_place`, `apply_accepted_import_to_place` and
`propose_place_change` write without a lock (`Unlocked`, `FlushData`), and so does the
sweep of bad places, `hide_bad_existing_places`.  The pipeline, the policy run, the restore
of partial flags (`apply_publication_reconciliation`), the reconciliation of route flags,
the normalization of the backlog, `cleanup_bad_places` and `repair_publication_states` lock
the row at the end and bring a verdict that was formed earlier.
`rollback_publication_reconciliation` reads the audit row and writes the place in one
request and is one action; `restore_cities` writes the city only.

### What the runs show

* `places` (1 place, 1 worker, 2 values of the data, 2 decisions, 3 loads; the place is
  fresh or from before the single writer): flags, status and history come apart only where
  a writer without a lock was overtaken, and the next transition joins them again
  (`RowsTearOnlyWhenOvertaken`).  What becomes visible passes the gates at that moment,
  unless a policy run is late or a restore, a repair script or a rollback republishes it,
  which ask none (`GoesLiveOnlyWhenEligible`).  A worker takes a live place offline only
  as one that hides what its source lost, as a sweep or a cleanup of bad places, or with a
  copy that was not published or not sound (`LivePlacesStayLive`).  The first of these
  leaves an item for a human until somebody decides (`TakenOfflineIsQueued`); the sweep and
  the cleanup leave none.  No worker changes what readers see, the address jobs and copies
  from before the publication excepted (`LiveDataIsDecided`).  A place hidden in an
  emergency does not come back with its city, in a batch or by an import: it takes a
  decision about it, a policy run, a rollback, or a restore or repair that chose the place
  before the hide (`EmergencyHideHolds`).

Places share only the city, and a city's decisions are modelled as what they do to all its
places, so one place is enough for every property but the batch ones, which say of each
place what they say of one; the proofs have any number of both.  One worker is enough
since every race is between a copy and one write that made it old; the write may be a
decision, and a second worker could only do what a decision does to the row.  Two
decisions and three loads reach each exception: "hide in an emergency, roll back" after a
restore, "publish, hide" around a policy run, "propose, replace, decide".  Deadlock is not
checked: decisions and loads are bounded.

The exceptions in the properties are what the code does (`Known divergences`); each is as
narrow as the runs allow.

### Left out

Reason codes, comments and audit rows, and with them the refusal of a transition that
would change none of them; the evidence and scores behind a verdict (`fit` and `sound` are
one bit each, and the foundation step passes `evidence_allowed=False`), and that an import
of other values may change either bit: only an administrator's update does;
`import_publication_finalize`, which only records a decision; the trust rule of
`auto_publish_trusted_places` (any of the backlog may be trusted); the queue of
verification requests and its loop.  Of the writers: those that create a published place
(`destination_import_service.py`, seeds), the taxonomy, scoring, data-quality, photo and
curated imports, which write a place's columns through `propose_place_change` or beside
publication; the review items of `cleanup_imported_places_quality.py`, which are about
another field (its hiding of places that are not published is in the sweep's action); and
the destructive branch of the reconciliation, which no
endpoint asks for (`allow_destructive` is set in tests only).  So the component counts as
partly modelled.  A row in which `is_published` and `is_visible_in_catalog` differ is not
told from one in which both are off.  Sessions are opened with `autoflush=False`, so that
a copy reaches the database only where the code flushes or commits.

## RouteDrafts

### State and code

| variable | code |
|---|---|
| `draft` | the row of `route_drafts` with its `route_draft_points`; ids of points come from the version, since an edit adds one point at most |
| `eligible`, `published`, `expired` | places that meet the place-level part of the public contract, the city's part of it, and `expires_at` |
| `view` | the answer a client works from: version, ids and places |
| `call` | the requests under way and where they are; `kept` are the points after the reconciliation |
| `routable` | history: what was routable at some moment of an edit |

`Begin` is `get_public_draft_or_error` with the check of the version and
`reconcile_draft_public_points`; `RemovePoint`, `AddPoint` and `ReplacePoint` are the rest
of the three functions of `services/route_draft_mutations.py` to the commit; `Fail` is
each of their errors, which roll the reconciliation back as well.  `Refresh` and `Answer`
are the two statements in which the answer is read, after the lock is gone; `Refresh` may
find a newer version than the edit wrote.  `Recalculated` is `recalculate_draft`, which
works on the points the session has loaded: a point that was only flushed by its foreign
key is not among them.

### What the run shows

`route_drafts` (3 places, 1 client, 2 requests, 2 points at first, versions to 3, 1
change of the catalogue): a place is at most once in a draft (`EachPlaceOnce`); positions,
total and status leave out the newest point and no other (`OnlyTheNewPointIsUncounted`); a
client at the current version sees points that exist (`CurrentViewsAreTrue`); an edit is
of the version its client saw, once, and hits the place the client saw
(`EditsAreOfTheVersionSeen`); it leaves only routable points and brings a removed place
back only on demand (`EditsLeaveRoutablePoints`).  The draft implements `VersionedRoute`
(`ImplementsVersionedRoute`): what the lock, the reconciliation, the shift, the insertion
and the numbering do one after the other is one edit of the names the client saw, and
stops that stay keep their order through it.  The order is not promised to two points with
equal positions: the newest point may tie with another until the next edit numbers both.

Two requests make a repeated edit, a lost answer and the read that an edit overtakes; one
client is enough, since two clients differ only in what they saw, and one client can be
sent an answer it had not waited for.  Three places are two in the draft and one to add or
to put in their stead; version 3 is an edit on top of an edit; an addition goes before all
points, between two or to the end.  One change hides a place or brings one back, closes the
city or lets the draft expire, before, between or during the edits; that a place goes and
returns is left to the theorems, which hold for any number of changes.  A budget of two places
makes all three statuses occur.  All properties are safety properties; places, clients
and requests are symmetric.

Left out: `user_locked` of a point, which nothing in the code sets; how the places of a new
draft are chosen, walking times and warnings (each place counts for one unit of the
budget), and the search for places to add, which is a read.

## ScopeLocks

### State and code

| variable | code |
|---|---|
| `lock` | the age of `import_scopes.locked_at`, or `Free` for NULL |
| `due` | `next_run_at` has passed |
| `active` | the queued or running import job of the city |
| `run` | the processes: where each is, its scope, the age of the `now` it took at its start, and `locked_at` as its session loaded it |
| `evicted` | history: the lock was reclaimed from an import that still goes on |

`Look` loads the row, `Judge` is `acquire_scope_lock` and `_should_reclaim_lock` on that
copy, `Reclaim` is the UPDATE by id, `Reload` the second look, `Take` the
`UPDATE ... WHERE locked_at IS NULL`; `Leave` is the `finally`.  `Skip` leaves a scope out
without looking at its lock: it is not due, paused, disabled, or missing from the targets,
among which `load_db_targets` takes only the scopes of cities whose `launch_status` is one
of three.  `StartBare` and `EndBare` are the importers that take no lock.  Times are ages: what a
process compares `locked_at` with is not the clock but its own `now`, which it also writes,
so a lock may be stale when it is born.

### What the run shows

`scope_locks` (cron, a forced run, the process of a job and an importer without a lock; 1
scope, a threshold of 1, processes up to 2 units old, 1 crash; fair): two imports share the
scope only if one of them takes no lock, or after a lock was reclaimed from a living
import, and once all that took it have left this holds again (`OneImportPerScope`); a lock
nobody works under is taken away if runs look at it again and again
(`AbandonedLocksAreReclaimed`).  The three kinds of process that take the lock are those
that `_should_reclaim_lock` tells apart; the fourth shows that the lock binds nobody else.
Two units of age exceed the threshold, so that a run outlives its own lock.  Scopes meet
only in the age of the process that imports them one after the other, and a process may be
of any age when it looks at its scope; two scopes beside three processes take longer than
five minutes and show nothing else.

Fairness: each process that is not killed goes on, and time passes.  Nobody has to start a
run or a job, or to close one, and no scope has to come due: the repository schedules no
run of `run_due_import_jobs`, and a scope is not looked at while it is paused or its city
is, say, `import_failed`, which the stall of the killed job may have made it.  That looks
go on is therefore the hypothesis of `AbandonedLocksAreReclaimed` (`[]<>LooksAt(s)`) and
not a fairness; what it says is that looking suffices, whichever process looks, however the
looks race, and although each of them may find a lock too young for it.

Left out: the creation of scopes, batches of scopes, the dry run (it ends like a failure),
and what an import does to places, which is in `Places`.

## Projections

### State and code

| variable | code |
|---|---|
| `snapshot`, `generation` | the latest row per place of `published_place_snapshots`, and the highest version of the table |
| `rows` | `search_place_documents` and `routing_place_nodes`; a copy is the version of the snapshot it was made of, since a snapshot is never changed |
| `sets` | `route_candidate_sets`: version and places per city |
| `jobs` | what readers ask of `projection_rebuild_jobs`: per kind and scope the status of the newest row and the version of the newest success |
| `lock`, `build` | the table lock, and what each rebuilding session read under it |
| `request` | a public request: the statement it is at, and what earlier ones loaded |
| `since` | history: what each place was shown as since the request began |

`Begin` is `serialize_projection_rebuilds` with every read of a build, `Commit` its
transaction; `Raise`, `TimeOut`, `RecordFailure` and `Abandon` are how a build ends
otherwise (an error, `lock_timeout`, the failure row that `admin_projection_application`
writes in a second transaction, a killed process).  Writers of a table lock wait for it;
readers do not.  A request is one action per statement: `Exists`, `Latest`, `Success` and
`JudgeSource` are `projection_readiness`, `Expected` and `Compare` are
`assert_projection_rows`, `Recount` and `Rematch` the second look of a search, `Fetch`,
`Answer`, `Candidates` and `Points` what the operations read themselves.  READ COMMITTED
gives each statement what was committed before it.

### What the runs show

* `projections` (2 cities with a place each, 2 sessions, 1 request, 2 generations of
  snapshots, 4 builds): a row is replaced by a newer one or removed
  (`GenerationsOnlyGrow`); a list, a search or a route whose rows were compared is answered
  from rows that each were current at some moment of the request (`AnswersWereCurrent`);
  the sessions implement `AtomicRebuilds` (`RebuildsAreAtomic`), where a rebuild reads and
  writes in one step.
* `stale_reads`: see *Findings*.

Two cities make the difference between a scope of its own and that of all; one of them is
only rebuilt with all the others.  Two sessions make one wait, time out or overtake.  Two
generations are the least at which a row can be old; four builds are snapshots and rows
twice, or once with nodes and sets and a failure.  A city with two places would differ in
its candidate set; the proofs have any number.  Requests share nothing with each other, so
one is enough.  No build has to be begun or to end, so there is no liveness property.

All three rest on what no unit test arranges.  The second holds although nothing
keeps a build from committing between `Compare` and `Answer`: rows that replaced the
compared ones were made of snapshots that were the latest when the table lock was taken
and, since only a holder of the lock writes snapshots, still are when they are committed.

### Left out

The feature toggles (turning one on asserts what a list of all cities asserts, and a
request may find it on much later); the clock of `MAX_FRESHNESS_SECONDS` (a request may be
refused at any time); three visibilities in one bit; the counts in a job, which agree with
its verdict; the check for a running build, which finds none, as a job is committed with
its verdict; places that move to another city; the publication of the city itself;
filters, order and pages.

## Proofs

All theorems hold for every set of cities, workers, admins, scopes, pollers, tasks,
requests, lists, places and processes and every bound.  They assume the named ASSUMEs of the modules and
nothing else.

`ImportJobsProofs`.  `OneActivePerCity` is not inductive: a worker claims from a stale
copy, and nothing in the row says that this is harmless.  `IInv` adds that ids are dense,
that an open verdict is the same as an active status without `finished_at`, that an open
row is signed exactly when it runs, that a worker holds only rows that are open or
finished, that a row a sweep has locked runs (`LockedRowsRun`), and that requests name rows
that exist.  The proof reduces the twenty-odd actions
to four shapes of table step (`Touches`, `Closes`, `Inserts`, `Claims`; one lemma per
helper), proves that each shape preserves each conjunct, and treats the workers' memory
apart.  `TableImplementsLedger` maps the four shapes to a stutter, `Close`, `Open` or
`RecordClosed`, and a stutter.

Chains of retries are inductive beside `IInv`, since a new attempt links to the newest row
of its city.  `LaunchInv` follows the value `import_failed` to where it may come from: it
is written beside a stall, read by a session, or remembered by a run since its start.

* `TypeCorrect`, `OneActiveRow`, `OpenRows`, `RetriesAreChains`, `FailuresHaveStalls`:
  invariants.
* `PublicCitiesMoveKnowingly`: the action property.  Its lemma on the guard of the set
  listener (`GuardHolds`) says which writes can move a city; that a failed launch is only
  remembered from a failed launch (`LaunchInv`) keeps the other writers out, and what a
  sweep, an empty run or a run in its review has loaded is what it writes over.
* `TableImplementsLedger`: the refinement, for any number of workers.

`BackgroundOperationsProofs`.  `IInv` joins the four properties with what makes them
inductive: a held token never exceeds its row's generation, a row that is held has left
`queued`, refreshes stay in their scopes, and once a claimer's verdict stands no thread
holds the newest token of its row (`VerdictsStand`).  The last is the reason why
`ClaimerVerdictIsFinal` holds although the UPDATE does not look at the status, and why it
says nothing of a row that was given up: giving up raises no generation.

* `TypeCorrect`, `Fencing`, `LostLeases`, `OneActive`, `AttemptsAreBounded`: invariants.
* `VerdictsAreFinal`: the action property, from the invariant.
* `QueueIsFenced`: the refinement.  Every step writes the table in one of six ways
  (`TableStep`), and with them a second invariant is proved, that a generation is a number
  of claims, never above `MAX_ATTEMPTS` and zero in a queued row (`ClaimsCounted`): the code
  gives up by `attempt_count` and fences by `lease_generation`, and the abstract queue has
  one number for both.  `VerdictsStand` is why a landing write finds no earlier result.

`BacklogFullRunProofs`.  The flag is lost and found again between the row and the copies,
so the invariant follows it: an action that began under the flag is the first such, and
the flag is then in the row or in the copy that the runner is about to write
(`FlagAwaitsRunner`); the runner of a row that was never inserted is nowhere
(`RunnersArePlaced`).  For the second theorem the invariant says that what a runner or a
request is about to write was loaded from a row that exists (`RowsAreInserted`,
`CopiesAreOfRows`), so that no write brings a row to life that had never run.

* `TypeCorrect`, `FlagIsObeyed`: invariants.
* `RunsReopenByStaleCopies`: the action property.

`UserRoutesProofs`.  For the registry the invariant says who holds the lock: a request
that was let in (`LetInHoldsLock`), and that the current state is the newest one issued
(`CurrentIsNewest`); from the two follow the refinement and all that is said of requests.
For the sessions each row is `Consistent`, and one lemma (`SessionStepWrites`) shows that
every action of either service writes a consistent row and keeps an ended one ended.  That
no walk is reopened is then what makes the look for an open session hold until the insert
(`NoneOpenWhileCreating`), and so `OneOpenSession` an invariant.

* `TypeCorrect`, `RouteNeverForks`, `LetInSeesCurrent`, `ProgressAgrees`, `OpenWalksGoOn`,
  `OneSessionAtATime`: invariants.
* `EndIsFinal`, `StartsFromCurrent`: action properties.
* `RegistryIsChain`: the refinement.

`PlacesProofs`.  The exceptions of the five action properties hold only if a worker's copy
was a candidate of its run when it was loaded (`CopiesWereCandidates`), if an item without
a snapshot changes data only (`ItemsAreKnown`), and if a place hidden in an emergency is
neither shown nor active nor published (`HeldPlacesAreOff`), so that a worker with a copy
in which it is was overtaken; these and the types are `IInv`.  Every step has one of four
shapes (`DecisionEffect`, `RollbackEffect`, `CityEffect`, `WorkerEffect`), proved action by
action; the properties follow from the shapes.

* `TypeCorrect`, `OfflineIsQueued`: invariants.
* `TornByOvertaken`, `LiveMeansEligible`, `LiveStaysLive`, `DataIsDecided`, `HideHolds`:
  action properties.

`RouteDraftsProofs`.  `IInv` says that the draft is sound (`SoundDraft`), that what a
client saw is in the draft or of an older version (`ViewTrue`), that the request of an
edit names a point its client saw (`CallTrue`), and that one request edits at a time
(`OneEditor`).  The ids of points matter: because no id comes back, a point named at an old
version is the same or gone.  The one recurring argument is about finite sets: points that
are numbered 1..n keep their names (`ReindexedPoints`).  It needs finitely many places.

For the refinement an edit is under way from its request to its commit or refusal, so that
`Begin` is a stutter, though it computes the points the edit starts from; a second
invariant says that these are in the draft's order (`KeptInOrder`).  The order is carried
through the edit by one lemma for each way a list is made from another (`PartInOrder`,
`ShiftedInOrder`, `ReindexedInOrder`) and one that composes them (`InOrderThrough`), which
needs that no id is gone in between and back at the end.

* `TypeCorrect`, `PlacesOnce`, `OnePointUncounted`, `ViewsAreTrue`: invariants.
* `EditsAreSeen`, `RoutablePointsStay`: action properties.
* `DraftIsVersioned`: the refinement.

`ScopeLocksProofs`.  Without an eviction the import that goes on under the lock still has it
(`Exclusive`), so nobody else's compare-and-set succeeds; the importers without a lock
change neither the lock nor the history.

* `TypeCorrect`, `OneImporter`: invariants.

`ProjectionsProofs`.  The invariant says that a build other than one of snapshots holds
what is still the latest snapshots (`BuildsAreCurrent`), that no version exceeds the
highest generation and no row its place's snapshot (`VersionsAscend`), that the present is
part of the history of a running request (`SinceIsNow`), and that expected and compared
rows are part of it too (`SourceWasShown`, `CheckedWasShown`); a request is at statements
of its own operation (`StatementsAreOwn`).  Statements of requests write no table, so they
are treated in one lemma, and of the builds only `CommitRows` and `CommitSnapshots` need an
argument.  The maximum of a set of versions is found by well-founded induction on the
naturals, stated for a set and not for a predicate.

* `TypeCorrect`, `ComparedRowsWereCurrent`: invariants.
* `RowsAscend`: the action property.
* `LockMakesRebuildsAtomic`: the refinement.  A build of candidate sets lists nodes when it
  begins and writes them when it commits; under the lock the list is still that of the
  table (`ListedIsNow`), as no other session can have written in between.

The type invariants are proved in every module; the runs leave them out.

Every invariant and action property of a passing run is also a theorem.  Only
model-checked are the liveness properties `RunningRowsEnd`, `OperationsEnd`,
`StoppedRunsEnd` and `AbandonedLocksAreReclaimed`, which are out of the prover's reach.

## Findings

Each is a run that ends in a counterexample to something that the repository says.

* `auto_unpublished`: a run's late commit takes a city that was published meanwhile out of
  the public.
* `stale_reads`: `docs/product/public_read_projections_v2.md:37` has a stale projection
  block public reads.  A city without a build of its own is judged by the newest build of
  all cities against that build's own version, and nothing is compared when the city has
  no public snapshot: its last place, hidden in a newer snapshot, is still listed.

## Known divergences

The models show these too, and no run checks them; where a property would be false of the
code because of one, it names the exception.

City import jobs.  The claim of a queued job tests the session's copy of the row: two
workers may run one row, and a row cancelled in between goes back to `running`, although
`models/city_admin_import_job.py:57` says that a claim is never overwritten by another
worker.  A worker that dies after `ready_for_review` leaves a running row that
no sweep ends, and a launch of its city is refused until an admin cancels or stalls it.  A
run puts back the `launch_status` it found at its start, also over an unpublish
(`PutsBack` in `OnlyStaleSessionsMovePublicCities` is this exception).  A sweep marks a
city `import_failed` that was published while the sweep held the row.  Step
commits after a cancel change `current_step` of the cancelled row.  A run that has lost
its row still commits the city's `review_required` mark.  `refresh_import_job_snapshot`
writes `step_details` from an unlocked read.

Operations.  A row that was given up as failed is overwritten by its slow worker, since
giving up raises no generation.  A row fails for having used up its attempts although no
runner was called for it, when request tasks dropped their claims.  An address refresh that
dies leaves a running row without a lease, which no claim looks at and
`queue_address_refresh` returns for ever.

Full run.  A stop request that commits between the runner's load and its write is
accepted, then overwritten, and the run goes on.  A stop request that loaded an active run
and writes after its end makes the finished row active again.  A record lost to such a
write can make a run with a failed action end as completed.  A stale full run in `running`
keeps its place in the index, so that a start that would replace it fails until it is
stopped.

Places.  A change of a live place that was never applied is rejected: the rejection writes
the values from before the proposal and undoes what an administrator edited since, where
`docs/admin/publication_state_invariants.md:60` has a genuine no-op.
`docs/admin/publication_state_invariants.md:41` allows unpublishing by an import
only under an explicit policy, but `hide_place` takes a live place offline because its
source lost or rejected it.  The pipeline's verdict on a copy archives or queues a place
that an administrator published after the copy was loaded.  It also does so with a live
place and a copy that is up to date, if the place is eligible but fails the gate of imports
(confidence below 0.2, coordinates 0/0, a category that is not for tourists), because
`canonical_publication_guard.py:55` asks that gate before it asks whether the place is
public; `docs/publication_policy_v1.md:9` and the docstring in
`services/import_pipeline_publication.py:28` say that a published place stays visible.
The sweep at the end of an OSM scope and `data/scripts/cleanup_bad_places.py` hide live
places and leave no review item.  The restore of partial flags, its rollback and
`scripts/repair_publication_states.py` publish without a gate; the rollback publishes where
it should undo, can be repeated, and brings back a place hidden in an emergency, as do the
other two if they chose the place before the hide.  With `--restore-cities` the same
script publishes a city by `launch_status`, whatever took it down.  `mark_place_for_review`,
`hide_place` and `apply_accepted_import_to_place` flush into a row that has changed and
leave, say, `is_published` beside `needs_review` (`RowsTearOnlyWhenOvertaken` says when).
The address jobs write a live place's address although every automatic writer must go
through `propose_place_change` (line 55 of the same document).  A policy run publishes the
place it loaded without looking at it again; it sets `status` to active first and so
revives a place hidden in an emergency meanwhile, which
`docs/admin_operational_center.md:102` excludes.  `normalize_manual_review_backlog` moves
a place published meanwhile into the backlog.  Later imports replace the payload of an open
item, so that a rejection no longer restores what was there before the first.  The
approval of an import's change of a live place writes no value, because its item counts as
applied.  An update may set a published place to closed without a reconciliation.  One
ineligible candidate rolls back a whole batch of trusted places.

Drafts.  The warning `OVER_BUDGET` (`docs/random-route-editor.md:47`), the total, the
status and the positions miss the point just added; an empty draft with its first point is
still `no_route`.  The editor answers 409 for ever once an answer was lost, as it does not
read the draft again.  A replacement neither asks for the removed list nor clears it, and
`allow_readd` does not clear it either.  A place may stop being routable during an edit
and stay until the next one.

Import scopes.  `scripts/refresh_all_cities.py`, which a nightly workflow runs, and
`data/scripts/import_city_osm.py` run by hand import scopes without their lock, beside a
run that holds it.  A scope whose job was killed keeps its lock when the stall marks the
city `import_failed`, as `load_db_targets` no longer lists it, until the city is launched
again.  Two processes that both loaded a stale lock reclaim it one after the
other, and the second takes away the fresh lock of the first.  A displaced import releases
its successor's lock in its `finally`.  The process of an import job takes away any lock
of its city, that of a living cron run included.  One `now` serves a whole run, so that a
scope it reaches late is locked with an old time.

Projections.  `get_catalog_place` and the nearby search take the documents first and
assert readiness after, so that a document replaced in between is returned; the nearby
search asserts only the cities that have documents.  Candidate sets rebuilt before the
nodes carry the new version with the old places, are ready by version, and miss places
that became public.  A city with an older build of its own is refused after a rebuild of
all, while the check before a toggle is turned on looks at the builds of all only.

Sessions.  A check-in makes a paused session active and leaves `paused_at` set.

Not modelled, and worth a test: `core/abuse/rate_limit_store.py` evicts a key whose window
is not over when it is at its bound; a taxonomy workflow is retried by two requests at
once.

## Mutants

Modules hold, beside some definitions, a *faulty variant* of them: the bug that a dropped
guard or a swapped test would be.  Each property of a passing run is violated when the
definition is replaced by its variant (`mutants` in `PROJECT.json`), so none holds for
want of anything to go wrong.
