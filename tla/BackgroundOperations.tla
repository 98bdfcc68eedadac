------------------------- MODULE BackgroundOperations -------------------------
(***************************************************************************)
(* The queue of heavy admin operations, the table admin_operations: the    *)
(* poller threads that claim its rows under a lease with a fencing token,  *)
(* the background tasks that admin requests start beside them, and the     *)
(* address refresh, which keeps its rows in the same table but knows of    *)
(* neither lease nor token.                                                *)
(*                                                                         *)
(* One action is one database transaction.  Each of them claims, renews or *)
(* finalizes one row with one UPDATE, so what SKIP LOCKED passes over is a *)
(* row another transaction has already changed.                            *)
(***************************************************************************)
EXTENDS Naturals

CONSTANTS
    Scopes,         \* (operation_type, city_slug) of the types that have a runner
    AddressScopes,  \* the same for address_refresh, which has none
    Pollers,        \* scheduler threads
    Tasks,          \* background-task threads of admin requests
    MAX_ATTEMPTS,   \* claims of a row before it is given up
    MaxOps,         \* bound: rows ever inserted
    MaxCrashes,     \* bound: threads killed
    None            \* no scope

ASSUME AttemptsAssumption == MAX_ATTEMPTS \in Nat \ {0}
ASSUME OpsAssumption == MaxOps \in Nat /\ MaxCrashes \in Nat
ASSUME ScopesAssumption ==
    /\ Scopes \intersect AddressScopes = {}
    /\ None \notin Scopes \union AddressScopes

Threads == Pollers \union Tasks
OpId == 1..MaxOps

RUNNING_STATUSES == {"queued", "running"}
Verdicts == {"completed", "failed"}

Operation ==
    [scope    : Scopes \union AddressScopes \union {None},
     status   : {"none"} \union RUNNING_STATUSES \union Verdicts,
     gen      : Nat,                          \* lease_generation, the fencing token
     attempts : Nat,                          \* attempt_count
     lease    : {"null", "live", "expired"},  \* lease_expires_at against the clock
     writer   : Nat]                          \* history: token of the last terminal write
                                              \* of a claimer, 0 if there was none

NoOperation == [scope |-> None, status |-> "none", gen |-> 0, attempts |-> 0,
                lease |-> "null", writer |-> 0]

Phases == {"idle", "task", "claimed", "executing", "completed", "failed",
           "address", "refreshing"}

VARIABLES
    ops,      \* the table admin_operations
    lastId,   \* its id sequence
    phase,    \* what each thread is doing; "completed" and "failed" name the
              \* terminal write a thread is about to send
    held,     \* the operation id each thread works on, 0 is none
    token,    \* the lease_generation its claim returned
    lost,     \* heartbeat.lost
    crashes   \* bound: threads killed so far

tableVars == <<ops, lastId>>
threadVars == <<phase, held, token, lost>>
vars == <<ops, lastId, phase, held, token, lost, crashes>>

TypeOK ==
    /\ ops \in [OpId -> Operation]
    /\ lastId \in 0..MaxOps
    /\ phase \in [Threads -> Phases]
    /\ held \in [Threads -> 0..MaxOps]
    /\ token \in [Threads -> Nat]
    /\ lost \in [Threads -> BOOLEAN]
    /\ crashes \in 0..MaxCrashes

Init ==
    /\ ops = [j \in OpId |-> NoOperation]
    /\ lastId = 0
    /\ phase = [t \in Threads |-> "idle"]
    /\ held = [t \in Threads |-> 0]
    /\ token = [t \in Threads |-> 0]
    /\ lost = [t \in Threads |-> FALSE]
    /\ crashes = 0

-----------------------------------------------------------------------------
(* Admin requests. *)

(* Faulty variant of active_operation: queued rows do not count. *)
running_operation(s) == {j \in OpId : ops[j].scope = s /\ ops[j].status = "running"}

(* The rows the unique index counts, and the query of the same name. *)
active_operation(s) == {j \in OpId : ops[j].scope = s /\ ops[j].status \in RUNNING_STATUSES}

Goto(t, p) == phase' = [phase EXCEPT ![t] = p]

Rest(t) ==
    /\ Goto(t, "idle")
    /\ held' = [held EXCEPT ![t] = 0]
    /\ token' = [token EXCEPT ![t] = 0]
    /\ lost' = [lost EXCEPT ![t] = FALSE]

(* The unique index of active rows per scope arbitrates concurrent inserts. *)
Insert(s) ==
    /\ lastId < MaxOps
    /\ active_operation(s) = {}
    /\ ops' = [ops EXCEPT ![lastId + 1] = [@ EXCEPT !.scope = s, !.status = "queued"]]
    /\ lastId' = lastId + 1

(* The durable routes leave the row to the pollers. *)
Enqueue(s) ==
    /\ Insert(s)
    /\ UNCHANGED <<threadVars, crashes>>

(* The older routes also start a task when the row they made or found is    *)
(* still queued.                                                            *)
EnqueueWithTask(s, t) ==
    /\ phase[t] = "idle"
    /\ \/ /\ Insert(s)
          /\ held' = [held EXCEPT ![t] = lastId + 1]
       \/ \E j \in active_operation(s) :
            /\ ops[j].status = "queued"
            /\ held' = [held EXCEPT ![t] = j]
            /\ UNCHANGED tableVars
    /\ Goto(t, IF s \in AddressScopes THEN "address" ELSE "task")
    /\ UNCHANGED <<token, lost, crashes>>

-----------------------------------------------------------------------------
(* claim_next_background_operation. *)

(* Faulty variant of Candidate: a row whose worker died is never looked at. *)
QueuedOnly(j) == ops[j].status = "queued"

Candidate(j) ==
    \/ ops[j].status = "queued"
    \/ ops[j].status = "running" /\ ops[j].lease = "expired"

Next_candidate(j) == Candidate(j) /\ \A k \in OpId : Candidate(k) => j <= k

(* Faulty variant of Exhausted: one claim too many. *)
ExhaustedLater(j) == ops[j].status = "running" /\ ops[j].attempts > MAX_ATTEMPTS

Exhausted(j) == ops[j].status = "running" /\ ops[j].attempts >= MAX_ATTEMPTS

MayClaim(t) == (phase[t] = "idle" /\ t \in Pollers) \/ phase[t] = "task"

(* The row is given up: its status changes, its generation does not. *)
GiveUp(t, j) ==
    /\ MayClaim(t)
    /\ Next_candidate(j) /\ Exhausted(j)
    /\ ops' = [ops EXCEPT ![j].status = "failed"]
    /\ Rest(t)
    /\ UNCHANGED <<lastId, crashes>>

(* Faulty variant of Claimed: a reclaim keeps the generation of the claim. *)
ClaimedUnfenced(j) ==
    [ops[j] EXCEPT !.status = "running", !.lease = "live", !.attempts = @ + 1,
                   !.gen = IF ops[j].status = "queued" THEN @ + 1 ELSE @]

Claimed(j) ==
    [ops[j] EXCEPT !.status = "running", !.lease = "live", !.attempts = @ + 1, !.gen = @ + 1]

(* A poller runs what it claimed; a task does so only if that is the        *)
(* operation it was started for, and otherwise forgets the claim.           *)
Keeps(t, j) == t \in Pollers \/ held[t] = j

Claim(t, j) ==
    /\ MayClaim(t)
    /\ Next_candidate(j) /\ ~Exhausted(j)
    /\ ops' = [ops EXCEPT ![j] = Claimed(j)]
    /\ IF Keeps(t, j)
       THEN /\ Goto(t, "claimed")
            /\ held' = [held EXCEPT ![t] = j]
            /\ token' = [token EXCEPT ![t] = Claimed(j).gen]
            /\ UNCHANGED lost
       ELSE Rest(t)
    /\ UNCHANGED <<lastId, crashes>>

NothingToClaim(t) ==
    /\ phase[t] = "task"
    /\ \A k \in OpId : ~Candidate(k)
    /\ Rest(t)
    /\ UNCHANGED <<tableVars, crashes>>

-----------------------------------------------------------------------------
(* _execute_claimed_operation. *)

(* Faulty variant of Finalize: the UPDATE asks for the id alone. *)
FinalizeById(j, g, v) ==
    ops' = [ops EXCEPT ![j] = [@ EXCEPT !.status = v, !.writer = g]]

(* The terminal write: fenced by the generation, whatever the status is. *)
Finalize(j, g, v) ==
    ops' = IF ops[j].gen = g
           THEN [ops EXCEPT ![j] = [@ EXCEPT !.status = v, !.writer = g]]
           ELSE ops

(* No runner for the type: the row fails. *)
Unsupported(t) ==
    /\ phase[t] = "claimed" /\ ops[held[t]].scope \in AddressScopes
    /\ Finalize(held[t], token[t], "failed")
    /\ Rest(t)
    /\ UNCHANGED <<lastId, crashes>>

Run(t) ==
    /\ phase[t] = "claimed" /\ ops[held[t]].scope \in Scopes
    /\ Goto(t, "executing")
    /\ UNCHANGED <<tableVars, held, token, lost, crashes>>

Beating(t) == phase[t] \in {"executing", "failed"} /\ ~lost[t]

(* Faulty variant of Renewable: an expired lease is not renewed any more. *)
RenewableInTime(j, g) == ops[j].gen = g /\ ops[j].status = "running" /\ ops[j].lease = "live"

Renewable(j, g) == ops[j].gen = g /\ ops[j].status = "running"

(* One beat of the heartbeat thread. *)
Renew(t) ==
    /\ Beating(t)
    /\ IF Renewable(held[t], token[t])
       THEN ops' = [ops EXCEPT ![held[t]].lease = "live"] /\ UNCHANGED lost
       ELSE lost' = [lost EXCEPT ![t] = TRUE] /\ UNCHANGED ops
    /\ UNCHANGED <<lastId, phase, held, token, crashes>>

(* The runner returns or raises: without a lost lease a terminal write follows. *)
Return(t, v) ==
    /\ phase[t] = "executing"
    /\ IF lost[t]
       THEN Rest(t)
       ELSE Goto(t, v) /\ UNCHANGED <<held, token, lost>>
    /\ UNCHANGED <<tableVars, crashes>>

Finish(t) ==
    /\ phase[t] \in Verdicts
    /\ Finalize(held[t], token[t], phase[t])
    /\ Rest(t)
    /\ UNCHANGED <<lastId, crashes>>

-----------------------------------------------------------------------------
(* run_address_refresh_operation writes the status of its row twice, after  *)
(* looking it up by id alone.                                               *)

AddressStart(t) ==
    LET j == held[t] IN
    /\ phase[t] = "address"
    /\ active_operation(ops[j].scope) \subseteq {j}
    /\ ops' = [ops EXCEPT ![j].status = "running"]
    /\ Goto(t, "refreshing")
    /\ UNCHANGED <<lastId, held, token, lost, crashes>>

(* The unique index refuses the first write: the task ends. *)
AddressConflict(t) ==
    /\ phase[t] = "address"
    /\ ~(active_operation(ops[held[t]].scope) \subseteq {held[t]})
    /\ Rest(t)
    /\ UNCHANGED <<tableVars, crashes>>

AddressEnd(t, v) ==
    /\ phase[t] = "refreshing"
    /\ ops' = [ops EXCEPT ![held[t]].status = v]
    /\ Rest(t)
    /\ UNCHANGED <<lastId, crashes>>

-----------------------------------------------------------------------------
(* The process of a thread dies: tasks are forgotten, a poller starts anew. *)
Crash(t) ==
    /\ phase[t] # "idle" /\ crashes < MaxCrashes
    /\ crashes' = crashes + 1
    /\ Rest(t)
    /\ UNCHANGED tableVars

(* A lease nobody renewed in time, because its owner died, dropped it, or   *)
(* was paused for as long.                                                  *)
Lapse(j) ==
    /\ ops[j].status = "running" /\ ops[j].lease = "live"
    /\ ops' = [ops EXCEPT ![j].lease = "expired"]
    /\ UNCHANGED <<lastId, threadVars, crashes>>

(* What a live thread is bound to do next. *)
ThreadStep(t) ==
    \/ \E j \in OpId : GiveUp(t, j) \/ Claim(t, j)
    \/ NothingToClaim(t) \/ Unsupported(t) \/ Run(t) \/ Finish(t)
    \/ \E v \in Verdicts : Return(t, v) \/ AddressEnd(t, v)
    \/ AddressStart(t) \/ AddressConflict(t)

Next ==
    \/ \E s \in Scopes : Enqueue(s)
    \/ \E s \in Scopes \union AddressScopes, t \in Tasks : EnqueueWithTask(s, t)
    \/ \E t \in Threads : ThreadStep(t) \/ Renew(t) \/ Crash(t)
    \/ \E j \in OpId : Lapse(j)

Spec == Init /\ [][Next]_vars

Orphaned(j) == \A t \in Threads : ~(Beating(t) /\ held[t] = j /\ token[t] = ops[j].gen)

(* Every live thread goes on and every runner ends; a lease that nobody     *)
(* renews runs out.                                                         *)
FairSpec ==
    /\ Spec
    /\ \A t \in Threads : WF_vars(ThreadStep(t))
    /\ \A j \in OpId : WF_vars(Lapse(j) /\ Orphaned(j))

-----------------------------------------------------------------------------
(* Properties. *)

Holds(t) == phase[t] \in {"claimed", "executing", "completed", "failed"}

(* What the table promises of the rows that have a runner; an address       *)
(* refresh is not shown.                                                    *)
Shown(j) ==
    IF ops[j].scope \in Scopes
    THEN [scope   |-> ops[j].scope,
          gen     |-> ops[j].gen,
          verdict |-> IF ops[j].status \in Verdicts THEN ops[j].status ELSE "open",
          by      |-> ops[j].writer]
    ELSE [scope |-> None, gen |-> 0, verdict |-> "open", by |-> 0]

Fenced == INSTANCE FencedOperations WITH Rows <- OpId, row <- [j \in OpId |-> Shown(j)]

(* However many threads claim, renew, are paused and die: a row is claimed  *)
(* at most MAX_ATTEMPTS times, given up only after that many claims, and    *)
(* takes one verdict of a claimer, the one of the newest claim, be it       *)
(* before or after it was given up.                                         *)
ImplementsFencedOperations == Fenced!Spec

(* One active row per scope, although an address refresh brings rows back   *)
(* to running that the queue has failed meanwhile.                          *)
OneActiveOperation ==
    \A j, k \in OpId :
        /\ ops[j].status \in RUNNING_STATUSES /\ ops[k].status \in RUNNING_STATUSES
        /\ ops[j].scope = ops[k].scope
        => j = k

(* A claim is held by one thread: however often a row is reclaimed, no two  *)
(* threads can both pass the fence of its generation.                       *)
TokensAreUnique ==
    \A t, u \in Threads :
        Holds(t) /\ Holds(u) /\ held[t] = held[u] /\ token[t] = token[u] => t = u

(* A worker whose heartbeat reports a lost lease has really lost it: the    *)
(* row was reclaimed or is over, so the result it throws away could not     *)
(* have become the row's.                                                   *)
LostMeansOver ==
    \A t \in Threads : Holds(t) /\ lost[t] =>
        token[t] < ops[held[t]].gen \/ ops[held[t]].status \in Verdicts

(* Once the terminal write of a claimer landed, no later write of an older  *)
(* or newer one changes the row: duplicate executions leave one verdict.    *)
ClaimerVerdictIsFinal ==
    [][\A j \in OpId :
         ops[j].scope \in Scopes /\ ops[j].writer # 0 => ops'[j] = ops[j]]_vars

(* Every operation with a runner comes to an end: through a claimer, a      *)
(* reclaim after a crash, a pause or a dropped claim, or by being given up. *)
OperationsEnd ==
    \A j \in OpId : ops[j].scope \in Scopes /\ ops[j].status \in RUNNING_STATUSES
                        ~> ops[j].status \in Verdicts
=============================================================================
