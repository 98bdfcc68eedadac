---------------------- MODULE BackgroundOperationsProofs ----------------------
(***************************************************************************)
(* Theorems about BackgroundOperations for every number of pollers, tasks, *)
(* scopes, attempts, rows and crashes: no two threads can pass the fence   *)
(* of one generation, a lost lease is really lost, a claimer's verdict is  *)
(* final, a scope has one active row, and the table implements the         *)
(* abstract queue FencedOperations.                                        *)
(***************************************************************************)
EXTENDS BackgroundOperations, TLAPS

-----------------------------------------------------------------------------
(* The inductive invariant. *)

(* Ids above the sequence belong to no row. *)
FreshIds ==
    \A j \in OpId : j > lastId =>
        /\ ops[j].scope = None /\ ops[j].status = "none"
        /\ ops[j].gen = 0 /\ ops[j].writer = 0

(* A token is a generation its row has reached; only a runner's thread has  *)
(* a heartbeat that can report a loss; a refresh keeps to its own rows.     *)
ThreadsHoldRows ==
    \A t \in Threads :
        /\ Holds(t) => /\ held[t] \in OpId
                       /\ token[t] # 0 /\ token[t] <= ops[held[t]].gen
                       /\ ops[held[t]].status \notin {"none", "queued"}
        /\ phase[t] \in {"executing", "completed", "failed"} => ops[held[t]].scope \in Scopes
        /\ phase[t] \in {"address", "refreshing"} =>
              held[t] \in OpId /\ ops[held[t]].scope \in AddressScopes
        /\ lost[t] => phase[t] \in {"executing", "completed", "failed"}

(* The verdict of a claimer is that of the newest generation, and no thread *)
(* holds the token of this generation any more.                             *)
VerdictsStand ==
    \A j \in OpId : ops[j].scope \in Scopes /\ ops[j].writer # 0 =>
        /\ ops[j].status \in Verdicts
        /\ \A t \in Threads : Holds(t) /\ held[t] = j => token[t] # ops[j].gen

IInv ==
    /\ TypeOK
    /\ FreshIds
    /\ ThreadsHoldRows
    /\ TokensAreUnique
    /\ LostMeansOver
    /\ VerdictsStand
    /\ OneActiveOperation

-----------------------------------------------------------------------------
(* One row and one thread at a time. *)

LEMMA RowUpdate ==
    ASSUME TypeOK, NEW j \in OpId, NEW r \in Operation, ops' = [ops EXCEPT ![j] = r]
    PROVE  /\ ops' \in [OpId -> Operation]
           /\ ops'[j] = r
           /\ \A k \in OpId \ {j} : ops'[k] = ops[k]
BY DEF TypeOK

(* The fields of the row that is written, for each way of writing it. *)
Written(j, scope, status, gen, writer) ==
    /\ ops' \in [OpId -> Operation]
    /\ \A k \in OpId \ {j} : ops'[k] = ops[k]
    /\ ops'[j].scope = scope /\ ops'[j].status = status
    /\ ops'[j].gen = gen /\ ops'[j].writer = writer

LEMMA QueuedRow ==
    ASSUME TypeOK, NEW j \in OpId, NEW s \in Scopes \union AddressScopes,
           ops' = [ops EXCEPT ![j] = [@ EXCEPT !.scope = s, !.status = "queued"]]
    PROVE  Written(j, s, "queued", ops[j].gen, ops[j].writer)
<1> DEFINE r == [ops[j] EXCEPT !.scope = s, !.status = "queued"]
<1>1. r \in Operation /\ r.scope = s /\ r.status = "queued"
      /\ r.gen = ops[j].gen /\ r.writer = ops[j].writer
  BY DEF TypeOK, Operation, RUNNING_STATUSES
<1> HIDE DEF r
<1> QED BY <1>1, RowUpdate DEF Written, r

LEMMA StatusRow ==
    ASSUME TypeOK, NEW j \in OpId, NEW v \in {"running", "completed", "failed"},
           ops' = [ops EXCEPT ![j].status = v]
    PROVE  Written(j, ops[j].scope, v, ops[j].gen, ops[j].writer)
<1> DEFINE r == [ops[j] EXCEPT !.status = v]
<1>1. r \in Operation /\ r.scope = ops[j].scope /\ r.status = v
      /\ r.gen = ops[j].gen /\ r.writer = ops[j].writer
  BY DEF TypeOK, Operation, RUNNING_STATUSES, Verdicts
<1>2. ops' = [ops EXCEPT ![j] = r] OBVIOUS
<1> HIDE DEF r
<1> QED BY <1>1, <1>2, RowUpdate DEF Written

LEMMA VerdictRow ==
    ASSUME TypeOK, NEW j \in OpId, NEW v \in Verdicts, NEW g \in Nat,
           ops' = [ops EXCEPT ![j] = [@ EXCEPT !.status = v, !.writer = g]]
    PROVE  Written(j, ops[j].scope, v, ops[j].gen, g)
<1> DEFINE r == [ops[j] EXCEPT !.status = v, !.writer = g]
<1>1. r \in Operation /\ r.scope = ops[j].scope /\ r.status = v
      /\ r.gen = ops[j].gen /\ r.writer = g
  BY DEF TypeOK, Operation, Verdicts
<1> HIDE DEF r
<1> QED BY <1>1, RowUpdate DEF Written, r

LEMMA LeaseRow ==
    ASSUME TypeOK, NEW j \in OpId, NEW l \in {"live", "expired"},
           ops' = [ops EXCEPT ![j].lease = l]
    PROVE  Written(j, ops[j].scope, ops[j].status, ops[j].gen, ops[j].writer)
<1> DEFINE r == [ops[j] EXCEPT !.lease = l]
<1>1. r \in Operation /\ r.scope = ops[j].scope /\ r.status = ops[j].status
      /\ r.gen = ops[j].gen /\ r.writer = ops[j].writer
  BY DEF TypeOK, Operation
<1>2. ops' = [ops EXCEPT ![j] = r] OBVIOUS
<1> HIDE DEF r
<1> QED BY <1>1, <1>2, RowUpdate DEF Written

LEMMA ClaimedRow ==
    ASSUME TypeOK, NEW j \in OpId, ops' = [ops EXCEPT ![j] = Claimed(j)]
    PROVE  Written(j, ops[j].scope, "running", ops[j].gen + 1, ops[j].writer)
<1> DEFINE c == Claimed(j)
<1>1. c \in Operation /\ c.scope = ops[j].scope /\ c.status = "running"
      /\ c.gen = ops[j].gen + 1 /\ c.writer = ops[j].writer
  <2> DEFINE a == ops[j].attempts + 1
             g == ops[j].gen + 1
  <2>1. ops[j] \in Operation BY DEF TypeOK
  <2>2. a \in Nat /\ g \in Nat BY <2>1 DEF Operation
  <2>3. c = [ops[j] EXCEPT !.status = "running", !.lease = "live", !.attempts = a, !.gen = g]
    BY DEF Claimed
  <2> HIDE DEF a, g, c
  <2>4. c \in Operation /\ c.scope = ops[j].scope /\ c.status = "running"
        /\ c.gen = g /\ c.writer = ops[j].writer
    BY <2>1, <2>2, <2>3 DEF Operation, RUNNING_STATUSES
  <2> QED BY <2>4 DEF g
<1> HIDE DEF c
<1> QED BY <1>1, RowUpdate DEF Written, c

(* A thread that rests holds nothing. *)
LEMMA Resting ==
    ASSUME TypeOK, NEW t \in Threads, Rest(t)
    PROVE  /\ phase' \in [Threads -> Phases] /\ held' \in [Threads -> 0..MaxOps]
           /\ token' \in [Threads -> Nat] /\ lost' \in [Threads -> BOOLEAN]
           /\ phase'[t] = "idle" /\ lost'[t] = FALSE
           /\ \A u \in Threads \ {t} : phase'[u] = phase[u] /\ held'[u] = held[u]
                                        /\ token'[u] = token[u] /\ lost'[u] = lost[u]
BY OpsAssumption DEF TypeOK, Rest, Goto, Phases

LEMMA Going ==
    ASSUME TypeOK, NEW t \in Threads, NEW p \in Phases, Goto(t, p)
    PROVE  /\ phase' \in [Threads -> Phases] /\ phase'[t] = p
           /\ \A u \in Threads \ {t} : phase'[u] = phase[u]
BY DEF TypeOK, Goto

-----------------------------------------------------------------------------
(* Each action preserves the invariant. *)

(* Requests. *)
LEMMA InsertStep ==
    ASSUME IInv, NEW s \in Scopes \union AddressScopes, Insert(s)
    PROVE  /\ lastId' \in OpId /\ lastId' = lastId + 1 /\ active_operation(s) = {}
           /\ Written(lastId', s, "queued", 0, 0)
<1> USE OpsAssumption
<1>1. lastId + 1 \in OpId /\ lastId' = lastId + 1
  BY DEF Insert, IInv, TypeOK, OpId
<1>2. Written(lastId + 1, s, "queued", ops[lastId + 1].gen, ops[lastId + 1].writer)
  BY <1>1, QueuedRow DEF Insert, IInv
<1>3. ops[lastId + 1].gen = 0 /\ ops[lastId + 1].writer = 0
  BY <1>1 DEF IInv, FreshIds, TypeOK
<1> QED BY <1>1, <1>2, <1>3 DEF Insert

(* A fresh row disturbs no thread but the one that may be started for it. *)
LEMMA FreshRowStep ==
    ASSUME IInv, NEW s \in Scopes \union AddressScopes, Insert(s),
           phase' \in [Threads -> Phases], held' \in [Threads -> 0..MaxOps],
           UNCHANGED <<token, lost, crashes>>,
           \A u \in Threads :
              \/ phase'[u] = phase[u] /\ held'[u] = held[u]
              \/ /\ phase[u] = "idle" /\ held'[u] = lastId'
                 /\ phase'[u] = IF s \in AddressScopes THEN "address" ELSE "task"
    PROVE  IInv'
<1> USE OpsAssumption, ScopesAssumption
<1>0. /\ lastId' \in OpId /\ lastId' = lastId + 1 /\ active_operation(s) = {}
      /\ Written(lastId', s, "queued", 0, 0) /\ lastId \in Nat
  BY InsertStep DEF IInv, TypeOK
<1>1. TypeOK'
  BY <1>0 DEF IInv, TypeOK, Written, OpId
<1>2. FreshIds'
  <2>1. \A j \in OpId : j > lastId' => j > lastId /\ j # lastId'
    BY <1>0 DEF OpId
  <2>2. \A j \in OpId \ {lastId'} : ops'[j] = ops[j]
    BY <1>0 DEF Written
  <2> QED BY <2>1, <2>2 DEF IInv, FreshIds
<1>t. \A u \in Threads : Holds(u)' => Holds(u) /\ held'[u] = held[u] /\ held[u] # lastId'
                                    /\ ops'[held[u]] = ops[held[u]]
  <2> SUFFICES ASSUME NEW u \in Threads, Holds(u)'
               PROVE  Holds(u) /\ held'[u] = held[u] /\ held[u] # lastId' /\ ops'[held[u]] = ops[held[u]]
    OBVIOUS
  <2>1. Holds(u) /\ held'[u] = held[u]
    BY DEF Holds
  <2>2. held[u] \in OpId /\ ops[held[u]].gen # 0
    BY <2>1 DEF IInv, ThreadsHoldRows, TypeOK
  <2>3. held[u] # lastId'
    BY <1>0, <2>2 DEF IInv, FreshIds
  <2> QED BY <1>0, <2>1, <2>2, <2>3 DEF Written
<1>3. ThreadsHoldRows'
  BY <1>0, <1>t DEF IInv, ThreadsHoldRows, FreshIds, Holds, Written, OpId
<1>4. TokensAreUnique' /\ LostMeansOver'
  BY <1>t DEF IInv, TokensAreUnique, LostMeansOver
<1>5. VerdictsStand'
  BY <1>0, <1>t DEF IInv, VerdictsStand, Written
<1>6. OneActiveOperation'
  BY <1>0 DEF IInv, OneActiveOperation, Written, active_operation
<1> QED BY <1>1, <1>2, <1>3, <1>4, <1>5, <1>6 DEF IInv

(* Steps that leave the table alone and give no thread a token. *)
LEMMA QuietStep ==
    ASSUME IInv, UNCHANGED tableVars,
           phase' \in [Threads -> Phases], held' \in [Threads -> 0..MaxOps],
           token' \in [Threads -> Nat], lost' \in [Threads -> BOOLEAN], crashes' \in 0..MaxCrashes,
           \A u \in Threads :
              \/ phase'[u] = phase[u] /\ held'[u] = held[u] /\ token'[u] = token[u] /\ lost'[u] = lost[u]
              \/ phase'[u] = "idle" /\ ~lost'[u]
              \/ phase'[u] = "task" /\ ~lost'[u]
              \/ /\ phase'[u] = "address" /\ ~lost'[u]
                 /\ held'[u] \in OpId /\ ops[held'[u]].scope \in AddressScopes
              \/ /\ phase'[u] \in {"executing", "completed", "failed"}
                 /\ phase[u] \in {"claimed", "executing"} /\ ops[held[u]].scope \in Scopes
                 /\ held'[u] = held[u] /\ token'[u] = token[u] /\ lost'[u] = lost[u]
    PROVE  IInv'
<1> USE DEF tableVars
<1>1. TypeOK' /\ FreshIds' /\ OneActiveOperation'
  BY DEF IInv, TypeOK, FreshIds, OneActiveOperation
<1>t. \A u \in Threads : Holds(u)' => Holds(u) /\ held'[u] = held[u] /\ token'[u] = token[u] /\ lost'[u] = lost[u]
  BY DEF Holds
<1>2. ThreadsHoldRows'
  BY <1>t DEF IInv, ThreadsHoldRows, Holds
<1>3. TokensAreUnique' /\ LostMeansOver' /\ VerdictsStand'
  BY <1>t DEF IInv, TokensAreUnique, LostMeansOver, VerdictsStand
<1> QED BY <1>1, <1>2, <1>3 DEF IInv

(* Steps that write a row that exists and give no thread a token. *)
LEMMA WriteStep ==
    ASSUME IInv, UNCHANGED <<lastId, crashes>>,
           phase' \in [Threads -> Phases], held' \in [Threads -> 0..MaxOps],
           token' \in [Threads -> Nat], lost' \in [Threads -> BOOLEAN],
           NEW j \in OpId, NEW v, NEW g, NEW x, Written(j, ops[j].scope, v, g, x),
           j <= lastId,
           v \in {"none", "queued"} => v = ops[j].status,
           g = ops[j].gen \/ g = ops[j].gen + 1,
           ops[j].status \in Verdicts => v \in Verdicts \/ ops[j].scope \in AddressScopes,
           v \in RUNNING_STATUSES => active_operation(ops[j].scope) \subseteq {j},
           \A u \in Threads :
              \/ phase'[u] = phase[u] /\ held'[u] = held[u] /\ token'[u] = token[u] /\ lost'[u] = lost[u]
              \/ phase'[u] = "idle" /\ ~lost'[u]
              \/ /\ phase[u] = "address" /\ phase'[u] = "refreshing"
                 /\ held'[u] = held[u] /\ lost'[u] = lost[u],
           \/ x = ops[j].writer /\ (x # 0 /\ ops[j].scope \in Scopes => g = ops[j].gen)
           \/ /\ v \in Verdicts /\ g = ops[j].gen
              /\ \A u \in Threads : Holds(u)' /\ held'[u] = j => token'[u] # g
    PROVE  IInv'
<1> USE OpsAssumption, ScopesAssumption
<1>0. \A k \in OpId : ops[k].gen \in Nat
  BY DEF IInv, TypeOK, Operation
<1>1. TypeOK'
  BY DEF IInv, TypeOK, Written
<1>2. FreshIds'
  BY DEF IInv, FreshIds, Written, TypeOK, OpId
<1>t. \A u \in Threads : Holds(u)' => Holds(u) /\ held'[u] = held[u] /\ token'[u] = token[u] /\ lost'[u] = lost[u]
  BY DEF Holds
<1>g. \A k \in OpId : /\ ops'[k].scope = ops[k].scope
                       /\ ops[k].gen <= ops'[k].gen /\ ops'[k].gen \in Nat
  BY <1>0, <1>1 DEF Written, TypeOK, Operation
<1>h. \A u \in Threads : token[u] \in Nat
  BY DEF IInv, TypeOK
<1>3. ThreadsHoldRows'
  BY <1>0, <1>t, <1>g, <1>h DEF IInv, ThreadsHoldRows, Holds, Written
<1>4. TokensAreUnique'
  BY <1>t DEF IInv, TokensAreUnique
<1>5. LostMeansOver'
  BY <1>0, <1>t, <1>g, <1>h DEF IInv, LostMeansOver, ThreadsHoldRows, Holds, Written
<1>6. VerdictsStand'
  BY <1>t DEF IInv, VerdictsStand, Written
<1>7. OneActiveOperation'
  BY DEF IInv, OneActiveOperation, Written, active_operation, TypeOK
<1> QED BY <1>1, <1>2, <1>3, <1>4, <1>5, <1>6, <1>7 DEF IInv

(* A kept claim: the token is a generation no thread has seen. *)
LEMMA KeptClaimStep ==
    ASSUME IInv, NEW t \in Threads, NEW j \in OpId, Claim(t, j), Keeps(t, j)
    PROVE  IInv'
<1> USE OpsAssumption, ScopesAssumption
<1>0. /\ Written(j, ops[j].scope, "running", ops[j].gen + 1, ops[j].writer)
      /\ ops[j].status \in RUNNING_STATUSES /\ lastId' = lastId /\ crashes' = crashes
  BY ClaimedRow DEF Claim, IInv, Next_candidate, Candidate, RUNNING_STATUSES
<1>1. /\ phase' = [phase EXCEPT ![t] = "claimed"] /\ held' = [held EXCEPT ![t] = j]
      /\ token' = [token EXCEPT ![t] = ops[j].gen + 1] /\ lost' = lost
      /\ phase[t] \in {"idle", "task"}
  <2>1. Claimed(j).gen = ops[j].gen + 1 BY DEF Claimed, IInv, TypeOK, Operation
  <2> QED BY <2>1 DEF Claim, Goto, MayClaim
<1>n. \A k \in OpId : ops[k].gen \in Nat
  BY DEF IInv, TypeOK, Operation
<1>2. TypeOK'
  BY <1>0, <1>1, <1>n DEF IInv, TypeOK, Written, Phases, OpId
<1>3. FreshIds'
  BY <1>0 DEF IInv, FreshIds, Written, RUNNING_STATUSES
<1>t. \A u \in Threads \ {t} : /\ phase'[u] = phase[u] /\ held'[u] = held[u]
                              /\ token'[u] = token[u] /\ lost'[u] = lost[u]
  BY <1>1 DEF IInv, TypeOK
<1>c. phase'[t] = "claimed" /\ held'[t] = j /\ token'[t] = ops[j].gen + 1 /\ ~lost'[t]
  BY <1>1 DEF IInv, TypeOK, ThreadsHoldRows
<1>g. \A k \in OpId : /\ ops'[k].scope = ops[k].scope
                       /\ ops[k].gen <= ops'[k].gen /\ ops'[k].gen \in Nat
  BY <1>0, <1>n DEF Written
<1>h. \A u \in Threads : token[u] \in Nat
  BY DEF IInv, TypeOK
<1>4. ThreadsHoldRows'
  <2> SUFFICES ASSUME NEW u \in Threads
               PROVE  /\ Holds(u)' => /\ held'[u] \in OpId
                                      /\ token'[u] # 0 /\ token'[u] <= ops'[held'[u]].gen
                                      /\ ops'[held'[u]].status \notin {"none", "queued"}
                      /\ phase'[u] \in {"executing", "completed", "failed"} => ops'[held'[u]].scope \in Scopes
                      /\ phase'[u] \in {"address", "refreshing"} =>
                            held'[u] \in OpId /\ ops'[held'[u]].scope \in AddressScopes
                      /\ lost'[u] => phase'[u] \in {"executing", "completed", "failed"}
    BY DEF ThreadsHoldRows
  <2>1. CASE u = t
    BY <1>0, <1>c, <1>n, <2>1 DEF Written
  <2>2. CASE u # t
    <3>1. /\ phase'[u] = phase[u] /\ held'[u] = held[u] /\ token'[u] = token[u]
          /\ lost'[u] = lost[u] /\ token[u] \in Nat
      BY <1>t, <1>h, <2>2
    <3>2. /\ Holds(u) => /\ held[u] \in OpId /\ token[u] # 0 /\ token[u] <= ops[held[u]].gen
                         /\ ops[held[u]].status \notin {"none", "queued"}
          /\ phase[u] \in {"executing", "completed", "failed"} => ops[held[u]].scope \in Scopes
          /\ phase[u] \in {"address", "refreshing"} =>
                held[u] \in OpId /\ ops[held[u]].scope \in AddressScopes
          /\ lost[u] => phase[u] \in {"executing", "completed", "failed"}
      BY DEF IInv, ThreadsHoldRows
    <3>3. Holds(u)' => /\ held[u] \in OpId /\ token[u] # 0 /\ token[u] <= ops'[held[u]].gen
                       /\ ops'[held[u]].status \notin {"none", "queued"}
      BY <1>0, <1>g, <1>n, <3>1, <3>2 DEF Written, Holds
    <3>4. phase[u] \in {"executing", "completed", "failed"} => ops'[held[u]].scope \in Scopes
      BY <1>g, <3>2 DEF Holds
    <3> QED BY <1>g, <3>1, <3>2, <3>3, <3>4
  <2> QED BY <2>1, <2>2
<1>f. \A u \in Threads \ {t} : Holds(u) /\ held[u] = j => token[u] <= ops[j].gen /\ token[u] # ops[j].gen + 1
  BY <1>h, <1>n DEF IInv, ThreadsHoldRows
<1>5. TokensAreUnique'
  <2> SUFFICES ASSUME NEW u \in Threads, NEW v \in Threads, Holds(u)', Holds(v)',
                      held'[u] = held'[v], token'[u] = token'[v]
               PROVE  u = v
    BY DEF TokensAreUnique
  <2>1. CASE u # t /\ v # t
    BY <1>t, <2>1 DEF IInv, TokensAreUnique, Holds
  <2>2. CASE u = t /\ v # t
    BY <1>t, <1>c, <1>f, <2>2 DEF Holds
  <2>3. CASE u # t /\ v = t
    BY <1>t, <1>c, <1>f, <2>3 DEF Holds
  <2> QED BY <2>1, <2>2, <2>3
<1>6. LostMeansOver'
  <2> SUFFICES ASSUME NEW u \in Threads, Holds(u)', lost'[u]
               PROVE  token'[u] < ops'[held'[u]].gen \/ ops'[held'[u]].status \in Verdicts
    BY DEF LostMeansOver
  <2>0. u # t BY <1>c
  <2>1. Holds(u) /\ lost[u] /\ held[u] \in OpId
    BY <1>t, <2>0 DEF IInv, ThreadsHoldRows, Holds
  <2>2. CASE held[u] = j
    BY <1>0, <1>t, <1>f, <1>h, <1>n, <2>0, <2>1, <2>2 DEF Written
  <2>3. CASE held[u] # j
    BY <1>0, <1>t, <2>0, <2>1, <2>3 DEF IInv, LostMeansOver, Written
  <2> QED BY <2>2, <2>3
<1>7. VerdictsStand'
  <2> SUFFICES ASSUME NEW k \in OpId, ops'[k].scope \in Scopes, ops'[k].writer # 0
               PROVE  /\ ops'[k].status \in Verdicts
                      /\ \A u \in Threads : Holds(u)' /\ held'[u] = k => token'[u] # ops'[k].gen
    BY DEF VerdictsStand
  <2>1. k # j
    BY <1>0 DEF IInv, VerdictsStand, Written, RUNNING_STATUSES, Verdicts
  <2>2. ops'[k] = ops[k] BY <1>0, <2>1 DEF Written
  <2>3. ASSUME NEW u \in Threads, Holds(u)', held'[u] = k PROVE token'[u] # ops[k].gen
    <3>1. u # t BY <1>c, <2>1, <2>3
    <3> QED BY <1>t, <2>2, <2>3, <3>1 DEF IInv, VerdictsStand, Holds
  <2> QED BY <2>2, <2>3 DEF IInv, VerdictsStand
<1>8. OneActiveOperation'
  BY <1>0 DEF IInv, OneActiveOperation, Written, RUNNING_STATUSES
<1> QED BY <1>2, <1>3, <1>4, <1>5, <1>6, <1>7, <1>8 DEF IInv

(* A heartbeat that finds its row reclaimed or over. *)
LEMMA LostStep ==
    ASSUME IInv, NEW t \in Threads, Beating(t), ~Renewable(held[t], token[t]),
           lost' = [lost EXCEPT ![t] = TRUE],
           UNCHANGED <<ops, lastId, phase, held, token, crashes>>
    PROVE  IInv'
<1>1. TypeOK' /\ FreshIds' /\ OneActiveOperation' /\ TokensAreUnique' /\ VerdictsStand'
  BY DEF IInv, TypeOK, FreshIds, OneActiveOperation, TokensAreUnique, VerdictsStand, Holds
<1>2. ThreadsHoldRows'
  BY DEF IInv, TypeOK, ThreadsHoldRows, Holds, Beating
<1>3. LostMeansOver'
  <2>1. /\ held[t] \in OpId /\ token[t] \in Nat /\ token[t] <= ops[held[t]].gen
        /\ ops[held[t]] \in Operation
        /\ ops[held[t]].scope \in Scopes
    BY DEF IInv, TypeOK, ThreadsHoldRows, Beating, Holds
  <2>2. ops[held[t]].status \in {"running"} \union Verdicts
    BY <2>1 DEF IInv, ThreadsHoldRows, Beating, Holds, Operation, RUNNING_STATUSES
  <2>3. token[t] < ops[held[t]].gen \/ ops[held[t]].status \in Verdicts
    BY <2>1, <2>2 DEF Renewable, Operation
  <2> QED BY <2>3 DEF IInv, LostMeansOver, Holds, TypeOK
<1> QED BY <1>1, <1>2, <1>3 DEF IInv

(* A row with a scope is one that was inserted. *)
LEMMA KnownRow ==
    ASSUME IInv, NEW j \in OpId, ops[j].scope # None \/ ops[j].status # "none"
    PROVE  j <= lastId
BY DEF IInv, FreshIds, TypeOK, OpId

LEMMA EnqueueStep ==
    ASSUME IInv, NEW s \in Scopes \union AddressScopes, Enqueue(s)
    PROVE  IInv'
<1>1. Insert(s) /\ UNCHANGED <<phase, held, token, lost, crashes>>
  BY DEF Enqueue, threadVars
<1> QED BY <1>1, FreshRowStep DEF IInv, TypeOK

LEMMA EnqueueWithTaskStep ==
    ASSUME IInv, NEW s \in Scopes \union AddressScopes, NEW t \in Tasks, EnqueueWithTask(s, t)
    PROVE  IInv'
<1> USE OpsAssumption
<1> DEFINE p == IF s \in AddressScopes THEN "address" ELSE "task"
<1>0. t \in Threads /\ p \in Phases /\ phase[t] = "idle" /\ ~lost[t]
  BY DEF Threads, Phases, EnqueueWithTask, IInv, ThreadsHoldRows
<1>1. /\ phase' \in [Threads -> Phases] /\ phase'[t] = p
      /\ \A u \in Threads \ {t} : phase'[u] = phase[u]
  BY <1>0, Going DEF EnqueueWithTask, IInv
<1>2. CASE Insert(s) /\ held' = [held EXCEPT ![t] = lastId + 1]
  <2>1. lastId' = lastId + 1 /\ lastId' \in OpId
    BY <1>2, InsertStep
  <2>2. held' \in [Threads -> 0..MaxOps] /\ held'[t] = lastId'
        /\ \A u \in Threads \ {t} : held'[u] = held[u]
    BY <1>0, <1>2, <2>1 DEF IInv, TypeOK, OpId
  <2> QED BY <1>0, <1>1, <1>2, <2>2, FreshRowStep DEF EnqueueWithTask
<1>3. ASSUME NEW j \in active_operation(s), ops[j].status = "queued",
             held' = [held EXCEPT ![t] = j], UNCHANGED tableVars
      PROVE  IInv'
  <2>1. j \in OpId /\ ops[j].scope = s
    BY <1>3 DEF active_operation
  <2>2. held' \in [Threads -> 0..MaxOps] /\ held'[t] = j
        /\ \A u \in Threads \ {t} : held'[u] = held[u]
    BY <1>0, <1>3, <2>1 DEF IInv, TypeOK, OpId
  <2>3. UNCHANGED <<token, lost, crashes>>
    BY DEF EnqueueWithTask
  <2> QED BY <1>0, <1>1, <1>3, <2>1, <2>2, <2>3, QuietStep DEF IInv, TypeOK
<1> QED BY <1>2, <1>3 DEF EnqueueWithTask

(* A thread that writes a row without being its claimer and rests. *)
LEMMA RestingWriteStep ==
    ASSUME IInv, NEW t \in Threads, Rest(t), UNCHANGED <<lastId, crashes>>,
           NEW j \in OpId, NEW v \in {"running", "completed", "failed"}, NEW g,
           Written(j, ops[j].scope, v, g, ops[j].writer),
           j <= lastId,
           g = ops[j].gen \/ g = ops[j].gen + 1,
           ops[j].status \in Verdicts => v \in Verdicts \/ ops[j].scope \in AddressScopes,
           v \in RUNNING_STATUSES => active_operation(ops[j].scope) \subseteq {j},
           ops[j].writer # 0 /\ ops[j].scope \in Scopes => g = ops[j].gen
    PROVE  IInv'
<1> DEFINE x == ops[j].writer
<1>1. /\ phase' \in [Threads -> Phases] /\ held' \in [Threads -> 0..MaxOps]
      /\ token' \in [Threads -> Nat] /\ lost' \in [Threads -> BOOLEAN]
  BY Resting DEF IInv
<1>2. \A u \in Threads :
         \/ phase'[u] = phase[u] /\ held'[u] = held[u] /\ token'[u] = token[u] /\ lost'[u] = lost[u]
         \/ phase'[u] = "idle" /\ ~lost'[u]
  BY Resting DEF IInv
<1>3. v \notin {"none", "queued"}
  OBVIOUS
<1>4. x = ops[j].writer /\ Written(j, ops[j].scope, v, g, x)
  OBVIOUS
<1> HIDE DEF x
<1> QED BY <1>1, <1>2, <1>3, <1>4, WriteStep

(* Claims. *)
LEMMA CandidateRow ==
    ASSUME IInv, NEW j \in OpId, Next_candidate(j)
    PROVE  /\ j <= lastId /\ ops[j].status \in RUNNING_STATUSES
           /\ active_operation(ops[j].scope) \subseteq {j}
<1>1. ops[j].status \in RUNNING_STATUSES
  BY DEF Next_candidate, Candidate, RUNNING_STATUSES
<1> QED BY <1>1, KnownRow DEF IInv, OneActiveOperation, active_operation, RUNNING_STATUSES

LEMMA GiveUpStep ==
    ASSUME IInv, NEW t \in Threads, NEW j \in OpId, GiveUp(t, j)
    PROVE  IInv'
<1>1. Written(j, ops[j].scope, "failed", ops[j].gen, ops[j].writer)
  BY StatusRow DEF GiveUp, IInv
<1>2. j <= lastId /\ UNCHANGED <<lastId, crashes>>
  BY CandidateRow DEF GiveUp
<1>3. Rest(t) BY DEF GiveUp
<1>4. "failed" \in Verdicts /\ "failed" \notin RUNNING_STATUSES
  BY DEF RUNNING_STATUSES, Verdicts
<1> QED BY <1>1, <1>2, <1>3, <1>4, RestingWriteStep

LEMMA DroppedClaimStep ==
    ASSUME IInv, NEW t \in Threads, NEW j \in OpId, Claim(t, j), ~Keeps(t, j)
    PROVE  IInv'
<1>1. Written(j, ops[j].scope, "running", ops[j].gen + 1, ops[j].writer)
  BY ClaimedRow DEF Claim, IInv
<1>2. /\ j <= lastId /\ UNCHANGED <<lastId, crashes>> /\ ops[j].status \in RUNNING_STATUSES
      /\ active_operation(ops[j].scope) \subseteq {j}
  BY CandidateRow DEF Claim
<1>3. Rest(t) BY DEF Claim
<1>4. ops[j].writer # 0 => ops[j].scope \notin Scopes
  BY <1>2 DEF IInv, VerdictsStand, RUNNING_STATUSES, Verdicts
<1>5. ops[j].status \notin Verdicts
  BY <1>2 DEF RUNNING_STATUSES, Verdicts
<1>6. (j \in OpId => ops[j].gen + 1 = ops[j].gen + 1) /\ "running" \in {"running", "completed", "failed"}
  OBVIOUS
<1> QED BY <1>1, <1>2, <1>3, <1>4, <1>5, <1>6, RestingWriteStep

(* The terminal write of a claimer: no other thread holds the token that    *)
(* passed the fence, and the writer lets go of it.                          *)
LEMMA FinalizeStep ==
    ASSUME IInv, NEW t \in Threads, Holds(t), NEW v \in Verdicts,
           Finalize(held[t], token[t], v), Rest(t), UNCHANGED <<lastId, crashes>>
    PROVE  IInv'
<1> DEFINE j == held[t]
           g == token[t]
<1>1. j \in OpId /\ g \in Nat /\ j <= lastId
  <2>1. j \in OpId /\ g \in Nat /\ ops[j].status # "none"
    BY DEF IInv, TypeOK, ThreadsHoldRows
  <2> QED BY <2>1, KnownRow
<1>2. CASE ops[j].gen = g
  <2>1. Written(j, ops[j].scope, v, g, g)
    BY <1>1, <1>2, VerdictRow DEF Finalize, IInv
  <2>2. \A u \in Threads : Holds(u)' /\ held'[u] = j => token'[u] # g
    <3> SUFFICES ASSUME NEW u \in Threads, Holds(u)', held'[u] = j, token'[u] = g
                 PROVE  FALSE
      OBVIOUS
    <3>1. u # t BY Resting DEF IInv, Holds
    <3>2. Holds(u) /\ held[u] = j /\ token[u] = g
      BY <3>1, Resting DEF IInv, Holds
    <3> QED BY <3>1, <3>2 DEF IInv, TokensAreUnique
  <2>3. v \notin {"none", "queued"} /\ v \notin RUNNING_STATUSES
    BY DEF Verdicts, RUNNING_STATUSES
  <2> HIDE DEF j, g
  <2> QED BY <1>1, <1>2, <2>1, <2>2, <2>3, Resting, WriteStep DEF IInv
<1>3. CASE ops[j].gen # g
  <2>1. UNCHANGED tableVars
    BY <1>3 DEF Finalize, tableVars
  <2> QED BY <2>1, Resting, QuietStep DEF IInv, TypeOK
<1> QED BY <1>2, <1>3

(* Address refreshes. *)
LEMMA AddressRow ==
    ASSUME IInv, NEW t \in Threads, phase[t] \in {"address", "refreshing"}
    PROVE  /\ held[t] \in OpId /\ ops[held[t]].scope \in AddressScopes
           /\ held[t] <= lastId /\ ops[held[t]].scope \notin Scopes
<1>1. held[t] \in OpId /\ ops[held[t]].scope \in AddressScopes
  BY DEF IInv, ThreadsHoldRows
<1> QED BY <1>1, KnownRow, ScopesAssumption

LEMMA AddressStartStep ==
    ASSUME IInv, NEW t \in Threads, AddressStart(t)
    PROVE  IInv'
<1> DEFINE j == held[t]
           x == ops[j].writer
<1>1. /\ j \in OpId /\ ops[j].scope \in AddressScopes /\ j <= lastId /\ ops[j].scope \notin Scopes
      /\ phase[t] = "address"
  BY AddressRow DEF AddressStart
<1>2. Written(j, ops[j].scope, "running", ops[j].gen, x)
  BY <1>1, StatusRow DEF AddressStart, IInv
<1>3. active_operation(ops[j].scope) \subseteq {j} /\ UNCHANGED <<lastId, crashes>>
  BY DEF AddressStart
<1>4. /\ phase' \in [Threads -> Phases] /\ held' \in [Threads -> 0..MaxOps]
      /\ token' \in [Threads -> Nat] /\ lost' \in [Threads -> BOOLEAN]
      /\ \A u \in Threads :
            \/ phase'[u] = phase[u] /\ held'[u] = held[u] /\ token'[u] = token[u] /\ lost'[u] = lost[u]
            \/ /\ phase[u] = "address" /\ phase'[u] = "refreshing"
               /\ held'[u] = held[u] /\ lost'[u] = lost[u]
  BY <1>1 DEF AddressStart, Goto, IInv, TypeOK, Phases
<1>5. x = ops[j].writer
  OBVIOUS
<1> HIDE DEF j, x
<1> DEFINE v == "running"
           g == ops[j].gen
<1>6. v \notin {"none", "queued"} /\ g = ops[j].gen /\ Written(j, ops[j].scope, v, g, x)
  BY <1>2
<1> HIDE DEF v, g
<1> QED BY <1>1, <1>3, <1>4, <1>5, <1>6, WriteStep

LEMMA AddressEndStep ==
    ASSUME IInv, NEW t \in Threads, NEW v \in Verdicts, AddressEnd(t, v)
    PROVE  IInv'
<1> DEFINE j == held[t]
<1>1. j \in OpId /\ ops[j].scope \in AddressScopes /\ j <= lastId
  BY AddressRow DEF AddressEnd
<1>2. v \in {"running", "completed", "failed"} /\ v \notin RUNNING_STATUSES
  BY DEF Verdicts, RUNNING_STATUSES
<1>3. Written(j, ops[j].scope, v, ops[j].gen, ops[j].writer)
  BY <1>1, <1>2, StatusRow DEF AddressEnd, IInv
<1>4. Rest(t) /\ UNCHANGED <<lastId, crashes>>
  BY DEF AddressEnd
<1> HIDE DEF j
<1> QED BY <1>1, <1>2, <1>3, <1>4, RestingWriteStep

(* Leases. *)
LEMMA LeaseStep ==
    ASSUME IInv, NEW j \in OpId, NEW l \in {"live", "expired"},
           ops[j].status = "running", ops' = [ops EXCEPT ![j].lease = l],
           UNCHANGED <<lastId, phase, held, token, lost, crashes>>
    PROVE  IInv'
<1> DEFINE v == ops[j].status
           g == ops[j].gen
           x == ops[j].writer
<1>1. Written(j, ops[j].scope, v, g, x)
  BY LeaseRow DEF IInv
<1>2. j <= lastId
  BY KnownRow
<1>3. v \notin {"none", "queued"} /\ ops[j].status \notin Verdicts
  BY DEF Verdicts
<1>4. active_operation(ops[j].scope) \subseteq {j}
  BY DEF IInv, OneActiveOperation, active_operation, RUNNING_STATUSES
<1>5. v = ops[j].status /\ g = ops[j].gen /\ x = ops[j].writer
  OBVIOUS
<1>6. /\ phase' \in [Threads -> Phases] /\ held' \in [Threads -> 0..MaxOps]
      /\ token' \in [Threads -> Nat] /\ lost' \in [Threads -> BOOLEAN]
  BY DEF IInv, TypeOK
<1> HIDE DEF v, g, x
<1> QED BY <1>1, <1>2, <1>3, <1>4, <1>5, <1>6, WriteStep

LEMMA RenewStep ==
    ASSUME IInv, NEW t \in Threads, Renew(t)
    PROVE  IInv'
<1>1. held[t] \in OpId
  BY DEF Renew, Beating, IInv, ThreadsHoldRows, Holds
<1>2. CASE Renewable(held[t], token[t])
  BY <1>1, <1>2, LeaseStep DEF Renew, Renewable
<1>3. CASE ~Renewable(held[t], token[t])
  BY <1>3, LostStep DEF Renew
<1> QED BY <1>2, <1>3

(* Steps of a thread that leave the table alone. *)
LEMMA QuietRest ==
    ASSUME IInv, NEW t \in Threads, Rest(t), UNCHANGED tableVars, crashes' \in 0..MaxCrashes
    PROVE  IInv'
BY Resting, QuietStep DEF IInv

LEMMA QuietGo ==
    ASSUME IInv, NEW t \in Threads, NEW p \in {"executing", "completed", "failed"}, Goto(t, p),
           phase[t] \in {"claimed", "executing"}, ops[held[t]].scope \in Scopes,
           UNCHANGED <<tableVars, held, token, lost, crashes>>
    PROVE  IInv'
<1>1. p \in Phases BY DEF Phases
<1>2. phase' \in [Threads -> Phases] /\ phase'[t] = p
      /\ \A u \in Threads \ {t} : phase'[u] = phase[u]
  BY <1>1, Going DEF IInv
<1> QED BY <1>2, QuietStep DEF IInv, TypeOK

LEMMA ThreadStepStep ==
    ASSUME IInv, NEW t \in Threads, ThreadStep(t)
    PROVE  IInv'
<1>0. crashes \in 0..MaxCrashes BY DEF IInv, TypeOK
<1>1. ASSUME NEW j \in OpId, GiveUp(t, j) PROVE IInv'
  BY <1>1, GiveUpStep
<1>2. ASSUME NEW j \in OpId, Claim(t, j) PROVE IInv'
  BY <1>2, KeptClaimStep, DroppedClaimStep
<1>3. CASE NothingToClaim(t)
  BY <1>0, <1>3, QuietRest DEF NothingToClaim
<1>4. CASE Unsupported(t)
  BY <1>4, FinalizeStep DEF Unsupported, Holds, Verdicts
<1>5. CASE Run(t)
  BY <1>5, QuietGo DEF Run
<1>6. CASE Finish(t)
  BY <1>6, FinalizeStep DEF Finish, Holds, Verdicts
<1>7. ASSUME NEW v \in Verdicts, Return(t, v) PROVE IInv'
  <2>1. /\ phase[t] \in {"claimed", "executing"} /\ ops[held[t]].scope \in Scopes
        /\ v \in {"executing", "completed", "failed"}
    BY <1>7 DEF Return, IInv, ThreadsHoldRows, Verdicts
  <2> QED BY <1>0, <1>7, <2>1, QuietRest, QuietGo DEF Return
<1>8. ASSUME NEW v \in Verdicts, AddressEnd(t, v) PROVE IInv'
  BY <1>8, AddressEndStep
<1>9. CASE AddressStart(t)
  BY <1>9, AddressStartStep
<1>10. CASE AddressConflict(t)
  BY <1>0, <1>10, QuietRest DEF AddressConflict
<1> QED BY <1>1, <1>2, <1>3, <1>4, <1>5, <1>6, <1>7, <1>8, <1>9, <1>10 DEF ThreadStep

LEMMA NextIInv ==
    ASSUME IInv, Next
    PROVE  IInv'
<1>1. ASSUME NEW s \in Scopes, Enqueue(s) PROVE IInv'
  BY <1>1, EnqueueStep
<1>2. ASSUME NEW s \in Scopes \union AddressScopes, NEW t \in Tasks, EnqueueWithTask(s, t) PROVE IInv'
  BY <1>2, EnqueueWithTaskStep
<1>3. ASSUME NEW t \in Threads, ThreadStep(t) PROVE IInv'
  BY <1>3, ThreadStepStep
<1>4. ASSUME NEW t \in Threads, Renew(t) PROVE IInv'
  BY <1>4, RenewStep
<1>5. ASSUME NEW t \in Threads, Crash(t) PROVE IInv'
  <2>1. crashes' \in 0..MaxCrashes
    BY <1>5, OpsAssumption DEF Crash, IInv, TypeOK
  <2> QED BY <1>5, <2>1, QuietRest DEF Crash
<1>6. ASSUME NEW j \in OpId, Lapse(j) PROVE IInv'
  BY <1>6, LeaseStep DEF Lapse, threadVars
<1> QED BY <1>1, <1>2, <1>3, <1>4, <1>5, <1>6 DEF Next

LEMMA InitIInv == Init => IInv
<1> SUFFICES ASSUME Init PROVE IInv
  OBVIOUS
<1> USE OpsAssumption, ScopesAssumption
<1>1. TypeOK
  BY DEF Init, TypeOK, NoOperation, Operation, Phases, RUNNING_STATUSES
<1>2. FreshIds /\ OneActiveOperation /\ VerdictsStand
  BY DEF Init, FreshIds, OneActiveOperation, VerdictsStand, NoOperation, RUNNING_STATUSES
<1>3. ThreadsHoldRows /\ TokensAreUnique /\ LostMeansOver
  BY DEF Init, ThreadsHoldRows, TokensAreUnique, LostMeansOver, Holds
<1> QED BY <1>1, <1>2, <1>3 DEF IInv

LEMMA StutterIInv ==
    ASSUME IInv, UNCHANGED vars
    PROVE  IInv'
<1> USE DEF vars
<1>1. TypeOK' /\ FreshIds' /\ ThreadsHoldRows'
  BY DEF IInv, TypeOK, FreshIds, ThreadsHoldRows, Holds
<1>2. TokensAreUnique' /\ LostMeansOver' /\ VerdictsStand' /\ OneActiveOperation'
  BY DEF IInv, TokensAreUnique, LostMeansOver, VerdictsStand, OneActiveOperation, Holds
<1> QED BY <1>1, <1>2 DEF IInv

-----------------------------------------------------------------------------
(* The theorems. *)

(* The invariant behind every theorem below: of the claims, fenced writes,  *)
(* heartbeats and address refreshes that share the table.                   *)
THEOREM InductiveInvariant == Spec => []IInv
<1>1. Init => IInv
  BY InitIInv
<1>2. IInv /\ [Next]_vars => IInv'
  BY NextIInv, StutterIInv
<1> QED BY <1>1, <1>2, PTL DEF Spec

(* Rows, threads and tokens keep their types, whatever the interleaving.    *)
THEOREM TypeCorrect == Spec => []TypeOK
<1>1. IInv => TypeOK
  BY DEF IInv
<1> QED BY <1>1, InductiveInvariant, PTL

(* The fencing token of claim_next_background_operation: no two threads     *)
(* ever hold the same generation of the same row.                           *)
THEOREM Fencing == Spec => []TokensAreUnique
<1>1. IInv => TokensAreUnique
  BY DEF IInv
<1> QED BY <1>1, InductiveInvariant, PTL

(* A worker that skips its terminal write because renew_operation_lease     *)
(* failed could not have written it: no result is thrown away needlessly.   *)
THEOREM LostLeases == Spec => []LostMeansOver
<1>1. IInv => LostMeansOver
  BY DEF IInv
<1> QED BY <1>1, InductiveInvariant, PTL

(* One active operation per type and city, address refreshes included.      *)
THEOREM OneActive == Spec => []OneActiveOperation
<1>1. IInv => OneActiveOperation
  BY DEF IInv
<1> QED BY <1>1, InductiveInvariant, PTL

(* A row that ended by its claimer's own word. *)
Settled(j) == j \in OpId /\ ops[j].scope \in Scopes /\ ops[j].writer # 0

LEMMA SettledRow ==
    ASSUME IInv, NEW j, Settled(j)
    PROVE  /\ ops[j].status \notin RUNNING_STATUSES /\ ops[j].scope \notin AddressScopes
           /\ j <= lastId
           /\ \A t \in Threads : Holds(t) /\ held[t] = j => token[t] # ops[j].gen
<1>1. j \in OpId /\ ops[j].scope \in Scopes /\ ops[j].status \in Verdicts
      /\ \A t \in Threads : Holds(t) /\ held[t] = j => token[t] # ops[j].gen
  BY DEF IInv, VerdictsStand, Settled
<1> QED BY <1>1, KnownRow, ScopesAssumption DEF RUNNING_STATUSES, Verdicts

LEMMA SettledInsert ==
    ASSUME IInv, NEW j, Settled(j), NEW s \in Scopes \union AddressScopes, Insert(s)
    PROVE  ops'[j] = ops[j]
<1>1. j # lastId' BY SettledRow, InsertStep, OpsAssumption DEF Settled, OpId, IInv, TypeOK
<1> QED BY <1>1, InsertStep DEF Written, Settled

LEMMA SettledFinalize ==
    ASSUME IInv, NEW j, Settled(j), NEW t \in Threads, Holds(t), NEW v,
           Finalize(held[t], token[t], v)
    PROVE  ops'[j] = ops[j]
<1>1. CASE held[t] = j
  BY <1>1, SettledRow DEF Finalize
<1>2. CASE held[t] # j
  BY <1>2 DEF Finalize, IInv, TypeOK, Settled
<1> QED BY <1>1, <1>2

LEMMA SettledStep ==
    ASSUME IInv, NEW j, Settled(j), [Next]_vars
    PROVE  ops'[j] = ops[j]
<1>0. ops \in [OpId -> Operation] /\ j \in OpId
  BY DEF IInv, TypeOK, Settled
<1>1. ASSUME NEW s \in Scopes, Enqueue(s) PROVE ops'[j] = ops[j]
  BY <1>1, SettledInsert DEF Enqueue
<1>2. ASSUME NEW s \in Scopes \union AddressScopes, NEW t \in Tasks, EnqueueWithTask(s, t)
      PROVE  ops'[j] = ops[j]
  BY <1>2, SettledInsert DEF EnqueueWithTask, tableVars
<1>3. ASSUME NEW t \in Threads, ThreadStep(t) PROVE ops'[j] = ops[j]
  <2>1. ASSUME NEW k \in OpId, GiveUp(t, k) \/ Claim(t, k) PROVE ops'[j] = ops[j]
    <3>1. k # j
      BY <2>1, SettledRow DEF GiveUp, Claim, Next_candidate, Candidate, RUNNING_STATUSES
    <3> QED BY <1>0, <2>1, <3>1 DEF GiveUp, Claim
  <2>2. CASE NothingToClaim(t) \/ Run(t) \/ AddressConflict(t)
    BY <2>2 DEF NothingToClaim, Run, AddressConflict, tableVars
  <2>3. CASE Unsupported(t) \/ Finish(t)
    BY <2>3, SettledFinalize DEF Unsupported, Finish, Holds, Verdicts
  <2>4. ASSUME NEW v \in Verdicts, Return(t, v) PROVE ops'[j] = ops[j]
    BY <2>4 DEF Return, tableVars
  <2>5. ASSUME NEW v \in Verdicts, AddressEnd(t, v) PROVE ops'[j] = ops[j]
    <3>1. held[t] # j
      BY <2>5, AddressRow, SettledRow DEF AddressEnd
    <3> QED BY <1>0, <2>5, <3>1 DEF AddressEnd
  <2>6. CASE AddressStart(t)
    <3>1. held[t] # j
      BY <2>6, AddressRow, SettledRow DEF AddressStart
    <3> QED BY <1>0, <2>6, <3>1 DEF AddressStart
  <2> QED BY <1>3, <2>1, <2>2, <2>3, <2>4, <2>5, <2>6 DEF ThreadStep
<1>4. ASSUME NEW t \in Threads, Renew(t) PROVE ops'[j] = ops[j]
  <2>1. CASE Renewable(held[t], token[t])
    <3>1. held[t] # j
      BY <2>1, SettledRow DEF Renewable, RUNNING_STATUSES
    <3> QED BY <1>0, <1>4, <2>1, <3>1 DEF Renew
  <2> QED BY <1>4, <2>1 DEF Renew
<1>5. ASSUME NEW t \in Threads, Crash(t) PROVE ops'[j] = ops[j]
  BY <1>5 DEF Crash, tableVars
<1>6. ASSUME NEW k \in OpId, Lapse(k) PROVE ops'[j] = ops[j]
  <2>1. k # j
    BY <1>6, SettledRow DEF Lapse, RUNNING_STATUSES
  <2> QED BY <1>0, <1>6, <2>1 DEF Lapse
<1>7. CASE UNCHANGED vars
  BY <1>7 DEF vars
<1> QED BY <1>1, <1>2, <1>3, <1>4, <1>5, <1>6, <1>7 DEF Next

(* finalize_operation under its generation check: duplicate executions of   *)
(* an operation leave the verdict of one of them, and it stays.             *)
THEOREM VerdictsAreFinal == Spec => ClaimerVerdictIsFinal
<1>1. IInv /\ [Next]_vars =>
        [\A j \in OpId : ops[j].scope \in Scopes /\ ops[j].writer # 0 => ops'[j] = ops[j]]_vars
  BY SettledStep DEF Settled
<1> QED BY <1>1, InductiveInvariant, PTL DEF Spec, ClaimerVerdictIsFinal

-----------------------------------------------------------------------------
(* The refinement of FencedOperations. *)

(* A generation is a number of claims, none before the row is first         *)
(* claimed and never more than MAX_ATTEMPTS: what ties the fence to the     *)
(* count at which a row is given up.  A row that has a scope is one that    *)
(* was queued.                                                              *)
Counted(r) ==
    /\ r.attempts = r.gen /\ r.gen <= MAX_ATTEMPTS
    /\ r.status = "queued" => r.gen = 0
    /\ r.status = "none" => r.scope = None

ClaimsCounted == \A j \in OpId : Counted(ops[j])

(* The ways a step can write the table. *)
Fresh == \E s \in Scopes \union AddressScopes : Insert(s)

Claims(j) ==
    /\ ops[j].status \in RUNNING_STATUSES /\ ~Exhausted(j)
    /\ ops' = [ops EXCEPT ![j] = Claimed(j)]

GivesUp(j) ==
    /\ Exhausted(j)
    /\ ops' = [ops EXCEPT ![j].status = "failed"]

Lands(j, v) ==
    /\ \E t \in Threads : Holds(t) /\ held[t] = j /\ token[t] = ops[j].gen
    /\ ops' = [ops EXCEPT ![j] = [@ EXCEPT !.status = v, !.writer = ops[j].gen]]

Refreshes(j, v) ==
    /\ ops[j].scope \in AddressScopes
    /\ ops' = [ops EXCEPT ![j].status = v]

Leases(j, l) == ops' = [ops EXCEPT ![j].lease = l]

TableStep ==
    \/ Fresh
    \/ \E j \in OpId :
         \/ Claims(j) \/ GivesUp(j)
         \/ \E v \in Verdicts : Lands(j, v)
         \/ \E v \in {"running"} \union Verdicts : Refreshes(j, v)
         \/ \E l \in {"live", "expired"} : Leases(j, l)

(* A terminal write lands, or its fence turns it away. *)
LEMMA FinalizeLands ==
    ASSUME IInv, NEW t \in Threads, Holds(t), NEW v \in Verdicts,
           Finalize(held[t], token[t], v)
    PROVE  TableStep \/ UNCHANGED ops
<1>1. held[t] \in OpId
  BY DEF IInv, ThreadsHoldRows
<1>2. CASE ops[held[t]].gen = token[t]
  <2>1. Lands(held[t], v)
    BY <1>2 DEF Finalize, Lands
  <2> QED BY <1>1, <2>1 DEF TableStep
<1>3. CASE ops[held[t]].gen # token[t]
  BY <1>3 DEF Finalize
<1> QED BY <1>2, <1>3

LEMMA StepsOfTheTable ==
    ASSUME IInv, [Next]_vars
    PROVE  TableStep \/ UNCHANGED ops
<1>1. ASSUME NEW s \in Scopes, Enqueue(s) PROVE TableStep
  BY <1>1 DEF Enqueue, TableStep, Fresh
<1>2. ASSUME NEW s \in Scopes \union AddressScopes, NEW t \in Tasks, EnqueueWithTask(s, t)
      PROVE  TableStep \/ UNCHANGED ops
  BY <1>2 DEF EnqueueWithTask, TableStep, Fresh, tableVars
<1>3. ASSUME NEW t \in Threads, ThreadStep(t) PROVE TableStep \/ UNCHANGED ops
  <2>1. ASSUME NEW j \in OpId, GiveUp(t, j) PROVE TableStep
    BY <2>1 DEF GiveUp, TableStep, GivesUp
  <2>2. ASSUME NEW j \in OpId, Claim(t, j) PROVE TableStep
    <3>1. Claims(j)
      BY <2>2, CandidateRow DEF Claim, Claims
    <3> QED BY <3>1 DEF TableStep
  <2>3. CASE NothingToClaim(t) \/ Run(t) \/ AddressConflict(t)
    BY <2>3 DEF NothingToClaim, Run, AddressConflict, tableVars
  <2>4. CASE Unsupported(t) \/ Finish(t)
    BY <2>4, FinalizeLands DEF Unsupported, Finish, Holds, Verdicts
  <2>5. ASSUME NEW v \in Verdicts, Return(t, v) PROVE UNCHANGED ops
    BY <2>5 DEF Return, tableVars
  <2>6. ASSUME NEW v \in Verdicts, AddressEnd(t, v) PROVE TableStep
    <3>1. held[t] \in OpId /\ Refreshes(held[t], v)
      BY <2>6, AddressRow DEF AddressEnd, Refreshes
    <3> QED BY <3>1 DEF TableStep
  <2>7. CASE AddressStart(t)
    <3>1. held[t] \in OpId /\ Refreshes(held[t], "running")
      BY <2>7, AddressRow DEF AddressStart, Refreshes
    <3> QED BY <3>1 DEF TableStep
  <2> QED BY <1>3, <2>1, <2>2, <2>3, <2>4, <2>5, <2>6, <2>7 DEF ThreadStep
<1>4. ASSUME NEW t \in Threads, Renew(t) PROVE TableStep \/ UNCHANGED ops
  <2>1. held[t] \in OpId
    BY <1>4 DEF Renew, Beating, IInv, ThreadsHoldRows, Holds
  <2>2. Leases(held[t], "live") \/ UNCHANGED ops
    BY <1>4 DEF Renew, Leases
  <2> QED BY <2>1, <2>2 DEF TableStep
<1>5. ASSUME NEW t \in Threads, Crash(t) PROVE UNCHANGED ops
  BY <1>5 DEF Crash, tableVars
<1>6. ASSUME NEW j \in OpId, Lapse(j) PROVE TableStep
  BY <1>6 DEF Lapse, TableStep, Leases
<1>7. CASE UNCHANGED vars
  BY <1>7 DEF vars
<1> QED BY <1>1, <1>2, <1>3, <1>4, <1>5, <1>6, <1>7 DEF Next

(* Only a claim counts, and it counts in both columns. *)
LEMMA ClaimsStayCounted ==
    ASSUME IInv, ClaimsCounted, [Next]_vars
    PROVE  ClaimsCounted'
<1> USE AttemptsAssumption
<1>0. /\ ops \in [OpId -> Operation]
      /\ \A k \in OpId : Counted(ops[k]) /\ ops[k].gen \in Nat /\ ops[k].attempts \in Nat
  BY DEF IInv, TypeOK, Operation, ClaimsCounted
<1>s. SUFFICES \A k \in OpId : Counted(ops'[k])
  BY DEF ClaimsCounted, Counted
<1>1. CASE Fresh
  <2>1. PICK s \in Scopes \union AddressScopes : Insert(s)
    BY <1>1 DEF Fresh
  <2>2. lastId + 1 \in OpId /\ ops[lastId + 1].gen = 0
    BY <2>1, InsertStep, OpsAssumption DEF IInv, FreshIds, TypeOK
  <2> QED BY <1>0, <2>1, <2>2 DEF Insert, Counted, Operation
<1>2. ASSUME NEW j \in OpId, Claims(j) PROVE \A k \in OpId : Counted(ops'[k])
  <2> DEFINE c == Claimed(j)
  <2>1. ops' = [ops EXCEPT ![j] = c]
    BY <1>2 DEF Claims
  <2>2. c.status = "running" /\ c.gen = ops[j].gen + 1 /\ c.attempts = ops[j].attempts + 1
    <3>1. ops[j] \in Operation BY <1>0
    <3> QED BY <3>1 DEF Claimed, Operation
  <2>3. ops[j].gen < MAX_ATTEMPTS
    BY <1>0, <1>2 DEF Claims, Exhausted, Counted, RUNNING_STATUSES
  <2>4. Counted(c)
    BY <1>0, <2>2, <2>3 DEF Counted
  <2> HIDE DEF c
  <2> QED BY <1>0, <2>1, <2>4
<1>3. ASSUME NEW j \in OpId, NEW v \in {"running"} \union Verdicts,
             ops' = [ops EXCEPT ![j].status = v]
      PROVE  \A k \in OpId : Counted(ops'[k])
  BY <1>0, <1>3 DEF Counted, Operation, Verdicts
<1>4. ASSUME NEW j \in OpId, NEW v \in Verdicts, Lands(j, v) PROVE \A k \in OpId : Counted(ops'[k])
  BY <1>0, <1>4 DEF Lands, Counted, Operation, Verdicts
<1>5. ASSUME NEW j \in OpId, NEW l \in {"live", "expired"}, Leases(j, l)
      PROVE  \A k \in OpId : Counted(ops'[k])
  BY <1>0, <1>5 DEF Leases, Counted, Operation
<1>6. CASE UNCHANGED ops
  BY <1>0, <1>6
<1>7. CASE TableStep
  BY <1>1, <1>2, <1>3, <1>4, <1>5, <1>7 DEF TableStep, GivesUp, Refreshes, Verdicts
<1> QED BY <1>6, <1>7, StepsOfTheTable

LEMMA CountedInvariant == Spec => [](IInv /\ ClaimsCounted)
<1>1. Init => ClaimsCounted
  BY AttemptsAssumption DEF Init, ClaimsCounted, Counted, NoOperation
<1>2. IInv /\ ClaimsCounted /\ [Next]_vars => ClaimsCounted'
  BY ClaimsStayCounted
<1> QED BY <1>1, <1>2, InductiveInvariant, PTL DEF Spec

(* attempt_count and lease_generation never part, and neither exceeds       *)
(* MAX_ATTEMPTS: no row is reclaimed for ever, whoever dies or drops it.    *)
THEOREM AttemptsAreBounded == Spec => []ClaimsCounted
BY CountedInvariant, PTL

(* One row is shown anew. *)
AllShown == [j \in OpId |-> Shown(j)]

LEMMA ShownAnew ==
    ASSUME NEW j \in OpId, \A k \in OpId \ {j} : ops'[k] = ops[k]
    PROVE  AllShown' = [AllShown EXCEPT ![j] = Shown(j)']
<1>1. \A k \in OpId \ {j} : Shown(k)' = Shown(k)
  BY DEF Shown
<1> QED BY <1>1 DEF AllShown

LEMMA SameShown ==
    ASSUME UNCHANGED ops
    PROVE  UNCHANGED AllShown
BY DEF AllShown, Shown

LEMMA FreshOpens ==
    ASSUME IInv, ClaimsCounted, NEW s \in Scopes \union AddressScopes, Insert(s),
           NEW j \in OpId, j = lastId'
    PROVE  Fenced!OpsNext \/ UNCHANGED AllShown
<1> USE ScopesAssumption
<1>1. j = lastId + 1 /\ active_operation(s) = {} /\ Written(j, s, "queued", 0, 0)
  BY InsertStep
<1>2. ops[j].scope = None
  BY <1>1, OpsAssumption DEF IInv, FreshIds, TypeOK
<1>3. AllShown' = [AllShown EXCEPT ![j] = Shown(j)'] /\ AllShown[j] = Shown(j)
  BY <1>1, ShownAnew DEF Written, AllShown
<1>4. Shown(j) = [scope |-> None, gen |-> 0, verdict |-> "open", by |-> 0]
  BY <1>2 DEF Shown
<1>5. CASE s \in Scopes
  <2>1. Shown(j)' = [scope |-> s, gen |-> 0, verdict |-> "open", by |-> 0]
    BY <1>1, <1>5 DEF Shown, Written, Verdicts
  <2>2. Shown(j)' = [AllShown[j] EXCEPT !.scope = s]
    BY <1>3, <1>4, <2>1
  <2>3. ASSUME NEW k \in OpId, AllShown[k].scope # None, AllShown[k].verdict = "open"
        PROVE  AllShown[k].scope # s
    <3>1. Shown(k).scope # None /\ Shown(k).verdict = "open"
      BY <2>3 DEF AllShown
    <3>2. ops[k].scope \in Scopes /\ Shown(k).scope = ops[k].scope
      BY <3>1 DEF Shown
    <3>3. ops[k].status \notin Verdicts
      BY <3>1, <3>2 DEF Shown, Verdicts
    <3>4. ops[k].status \in RUNNING_STATUSES
      BY <3>2, <3>3 DEF IInv, TypeOK, Operation, ClaimsCounted, Counted
    <3> QED BY <1>1, <3>2, <3>4 DEF AllShown, active_operation
  <2>4. Fenced!Open(j, s)
    BY <1>3, <1>4, <2>2, <2>3 DEF Fenced!Open, Fenced!IsOpen, AllShown
  <2> QED BY <1>5, <2>4 DEF Fenced!OpsNext
<1>6. CASE s \notin Scopes
  <2>1. Shown(j)' = Shown(j)
    BY <1>1, <1>4, <1>6 DEF Shown, Written
  <2> QED BY <1>3, <2>1 DEF AllShown
<1> QED BY <1>5, <1>6

(* A row that is written and keeps its scope is shown with what was written. *)
Face(s, g, v, x) ==
    [scope |-> s, gen |-> g, verdict |-> IF v \in Verdicts THEN v ELSE "open", by |-> x]

ShownWith(j, face) == [AllShown EXCEPT ![j] = face]

LEMMA RowAnew ==
    ASSUME IInv, NEW j \in OpId, ops[j].scope \in Scopes,
           NEW v, NEW g, NEW x, Written(j, ops[j].scope, v, g, x)
    PROVE  /\ AllShown' = ShownWith(j, Face(ops[j].scope, g, v, x))
           /\ AllShown[j] = Face(ops[j].scope, ops[j].gen, ops[j].status, ops[j].writer)
<1>1. Shown(j)' = Face(ops[j].scope, g, v, x)
  BY DEF Shown, Written, Face
<1>2. AllShown' = [AllShown EXCEPT ![j] = Shown(j)']
  BY ShownAnew DEF Written
<1>3. AllShown[j] = Shown(j)
  BY DEF AllShown
<1>4. Shown(j) = Face(ops[j].scope, ops[j].gen, ops[j].status, ops[j].writer)
  BY DEF Shown, Face
<1> QED BY <1>1, <1>2, <1>3, <1>4 DEF ShownWith

(* Rows of address refreshes are not shown. *)
LEMMA HiddenRow ==
    ASSUME IInv, NEW j \in OpId, ops[j].scope \notin Scopes,
           NEW v, NEW g, NEW x, Written(j, ops[j].scope, v, g, x)
    PROVE  UNCHANGED AllShown
<1>1. Shown(j)' = Shown(j)
  BY DEF Shown, Written
<1>2. AllShown' = [AllShown EXCEPT ![j] = Shown(j)']
  BY ShownAnew DEF Written
<1> QED BY <1>1, <1>2 DEF AllShown

LEMMA CountedRow ==
    ASSUME IInv, ClaimsCounted, NEW j \in OpId
    PROVE  /\ ops[j].gen \in Nat /\ ops[j].attempts = ops[j].gen
           /\ ops[j].gen <= MAX_ATTEMPTS /\ MAX_ATTEMPTS \in Nat \ {0}
           /\ ops[j].status = "queued" => ops[j].gen = 0
BY AttemptsAssumption DEF IInv, TypeOK, Operation, ClaimsCounted, Counted

LEMMA ClaimsClaim ==
    ASSUME IInv, ClaimsCounted, NEW j \in OpId, Claims(j), NEW g, g = ops[j].gen + 1
    PROVE  Fenced!OpsNext \/ UNCHANGED AllShown
<1> DEFINE r == [scope |-> ops[j].scope, gen |-> g, verdict |-> "open", by |-> ops[j].writer]
<1>1. Written(j, ops[j].scope, "running", g, ops[j].writer)
  BY ClaimedRow DEF Claims, IInv
<1>2. CASE ops[j].scope \in Scopes
  <2>1. ops[j].status \notin Verdicts /\ "running" \notin Verdicts
    BY DEF Claims, RUNNING_STATUSES, Verdicts
  <2>2. /\ AllShown' = [AllShown EXCEPT ![j] = r]
        /\ AllShown[j] = [scope |-> ops[j].scope, gen |-> ops[j].gen,
                          verdict |-> "open", by |-> ops[j].writer]
    <3>1. Face(ops[j].scope, g, "running", ops[j].writer) = r
      BY <2>1 DEF Face
    <3>2. Face(ops[j].scope, ops[j].gen, ops[j].status, ops[j].writer) =
            [scope |-> ops[j].scope, gen |-> ops[j].gen, verdict |-> "open", by |-> ops[j].writer]
      BY <2>1 DEF Face
    <3> HIDE DEF r
    <3>3. /\ AllShown' = ShownWith(j, Face(ops[j].scope, g, "running", ops[j].writer))
          /\ AllShown[j] = Face(ops[j].scope, ops[j].gen, ops[j].status, ops[j].writer)
      BY <1>1, <1>2, RowAnew
    <3>4. AllShown' = ShownWith(j, r)
      BY <3>1, <3>3
    <3> QED BY <3>2, <3>3, <3>4 DEF ShownWith
  <2>3. ops[j].gen < MAX_ATTEMPTS
    BY CountedRow DEF Claims, Exhausted, RUNNING_STATUSES
  <2>4. r = [AllShown[j] EXCEPT !.gen = g]
    BY <2>2
  <2>5. AllShown[j].gen = ops[j].gen /\ AllShown[j].scope # None /\ AllShown[j].verdict = "open"
    BY <1>2, <2>2, ScopesAssumption
  <2>6. Fenced!Claim(j)
    <3>1. AllShown' = [AllShown EXCEPT ![j] = [AllShown[j] EXCEPT !.gen = AllShown[j].gen + 1]]
      BY <2>2, <2>4, <2>5
    <3> QED BY <2>3, <2>5, <3>1 DEF Fenced!Claim, Fenced!IsOpen, AllShown
  <2> QED BY <2>6 DEF Fenced!OpsNext
<1>3. CASE ops[j].scope \notin Scopes
  BY <1>1, <1>3, HiddenRow
<1> QED BY <1>2, <1>3

LEMMA GivesUpGivesUp ==
    ASSUME IInv, ClaimsCounted, NEW j \in OpId, GivesUp(j)
    PROVE  Fenced!OpsNext \/ UNCHANGED AllShown
<1>1. Written(j, ops[j].scope, "failed", ops[j].gen, ops[j].writer)
  BY StatusRow DEF GivesUp, IInv
<1>2. CASE ops[j].scope \in Scopes
  <2> DEFINE r == [scope |-> ops[j].scope, gen |-> ops[j].gen, verdict |-> "failed", by |-> ops[j].writer]
  <2>1. ops[j].status \notin Verdicts
    BY DEF GivesUp, Exhausted, Verdicts
  <2>2. /\ AllShown' = [AllShown EXCEPT ![j] = r]
        /\ AllShown[j] = [scope |-> ops[j].scope, gen |-> ops[j].gen,
                          verdict |-> "open", by |-> ops[j].writer]
    <3>1. Face(ops[j].scope, ops[j].gen, "failed", ops[j].writer) = r
      BY DEF Face, Verdicts
    <3>2. Face(ops[j].scope, ops[j].gen, ops[j].status, ops[j].writer) =
            [scope |-> ops[j].scope, gen |-> ops[j].gen, verdict |-> "open", by |-> ops[j].writer]
      BY <2>1 DEF Face
    <3> HIDE DEF r
    <3>3. /\ AllShown' = ShownWith(j, Face(ops[j].scope, ops[j].gen, "failed", ops[j].writer))
          /\ AllShown[j] = Face(ops[j].scope, ops[j].gen, ops[j].status, ops[j].writer)
      BY <1>1, <1>2, RowAnew
    <3>4. AllShown' = ShownWith(j, r)
      BY <3>1, <3>3
    <3> QED BY <3>2, <3>3, <3>4 DEF ShownWith
  <2>3. ops[j].gen = MAX_ATTEMPTS
    BY CountedRow DEF GivesUp, Exhausted
  <2>4. r = [AllShown[j] EXCEPT !.verdict = "failed"]
    BY <2>2
  <2>5. AllShown[j].gen = ops[j].gen /\ AllShown[j].scope # None /\ AllShown[j].verdict = "open"
    BY <1>2, <2>2, ScopesAssumption
  <2>6. Fenced!GiveUp(j)
    <3>1. AllShown' = [AllShown EXCEPT ![j] = [AllShown[j] EXCEPT !.verdict = "failed"]]
      BY <2>2, <2>4
    <3> QED BY <2>3, <2>5, <3>1 DEF Fenced!GiveUp, Fenced!IsOpen, AllShown
  <2> QED BY <2>6 DEF Fenced!OpsNext
<1>3. CASE ops[j].scope \notin Scopes
  BY <1>1, <1>3, HiddenRow
<1> QED BY <1>2, <1>3

(* The thread that passes the fence holds the newest claim, so that no      *)
(* result was written for it: VerdictsStand.                                *)
LEMMA LandsLand ==
    ASSUME IInv, NEW j \in OpId, NEW v \in Verdicts, Lands(j, v)
    PROVE  Fenced!OpsNext \/ UNCHANGED AllShown
<1>0. ops[j].gen \in Nat
  BY DEF IInv, TypeOK, Operation
<1>1. Written(j, ops[j].scope, v, ops[j].gen, ops[j].gen)
  BY <1>0, VerdictRow DEF Lands, IInv
<1>2. CASE ops[j].scope \in Scopes
  <2> DEFINE old == Face(ops[j].scope, ops[j].gen, ops[j].status, ops[j].writer)
             new == Face(ops[j].scope, ops[j].gen, v, ops[j].gen)
  <2>a. /\ old.scope = ops[j].scope /\ old.gen = ops[j].gen /\ old.by = ops[j].writer
        /\ new = [scope |-> ops[j].scope, gen |-> ops[j].gen, verdict |-> v, by |-> ops[j].gen]
    BY DEF Face
  <2>b. /\ old = Face(ops[j].scope, ops[j].gen, ops[j].status, ops[j].writer)
        /\ new = Face(ops[j].scope, ops[j].gen, v, ops[j].gen)
    OBVIOUS
  <2> HIDE DEF old, new
  <2>1. AllShown' = [AllShown EXCEPT ![j] = new] /\ AllShown[j] = old
    <3>1. AllShown' = ShownWith(j, new) /\ AllShown[j] = old
      BY <1>1, <1>2, <2>b, RowAnew
    <3> QED BY <3>1 DEF ShownWith
  <2>2. PICK t \in Threads : Holds(t) /\ held[t] = j /\ token[t] = ops[j].gen
    BY DEF Lands
  <2>3. ops[j].writer = 0
    BY <1>2, <2>2 DEF IInv, VerdictsStand
  <2>4. ops[j].gen > 0
    BY <1>0, <2>2 DEF IInv, ThreadsHoldRows
  <2>5. /\ AllShown[j].scope = ops[j].scope /\ AllShown[j].gen = ops[j].gen
        /\ AllShown[j].by = 0
    BY <2>1, <2>3, <2>a
  <2>6. Fenced!Land(j, v)
    <3>1. new = [scope |-> AllShown[j].scope, gen |-> AllShown[j].gen,
                 verdict |-> v, by |-> AllShown[j].gen]
      BY <2>5, <2>a
    <3>2. AllShown[j].gen > 0 /\ AllShown[j].by = 0 BY <2>4, <2>5
    <3> QED BY <2>1, <3>1, <3>2 DEF Fenced!Land, AllShown
  <2> QED BY <2>6 DEF Fenced!OpsNext
<1>3. CASE ops[j].scope \notin Scopes
  BY <1>1, <1>3, HiddenRow
<1> QED BY <1>2, <1>3

LEMMA StepIsFenced ==
    ASSUME IInv, ClaimsCounted, [Next]_vars
    PROVE  [Fenced!OpsNext]_AllShown
<1>1. CASE Fresh
  <2>1. PICK s \in Scopes \union AddressScopes : Insert(s)
    BY <1>1 DEF Fresh
  <2> DEFINE j == lastId + 1
  <2>2. j \in OpId /\ j = lastId'
    BY <2>1, InsertStep
  <2> HIDE DEF j
  <2> QED BY <2>1, <2>2, FreshOpens
<1>2. ASSUME NEW j \in OpId, Claims(j) \/ GivesUp(j) PROVE Fenced!OpsNext \/ UNCHANGED AllShown
  BY <1>2, ClaimsClaim, GivesUpGivesUp
<1>3. ASSUME NEW j \in OpId, NEW v \in Verdicts, Lands(j, v)
      PROVE  Fenced!OpsNext \/ UNCHANGED AllShown
  BY <1>3, LandsLand
<1>4. ASSUME NEW j \in OpId, NEW v \in {"running"} \union Verdicts, Refreshes(j, v)
      PROVE  UNCHANGED AllShown
  <2>1. ops[j].scope \notin Scopes /\ v \in {"running", "completed", "failed"}
    BY <1>4, ScopesAssumption DEF Refreshes, Verdicts
  <2>2. Written(j, ops[j].scope, v, ops[j].gen, ops[j].writer)
    BY <1>4, <2>1, StatusRow DEF Refreshes, IInv
  <2> QED BY <2>1, <2>2, HiddenRow
<1>5. ASSUME NEW j \in OpId, NEW l \in {"live", "expired"}, Leases(j, l)
      PROVE  UNCHANGED AllShown
  <2>1. Written(j, ops[j].scope, ops[j].status, ops[j].gen, ops[j].writer)
    BY <1>5, LeaseRow DEF Leases, IInv
  <2>2. Shown(j)' = Shown(j)
    BY <2>1 DEF Shown, Written
  <2>3. AllShown' = [AllShown EXCEPT ![j] = Shown(j)']
    BY <2>1, ShownAnew DEF Written
  <2> QED BY <2>2, <2>3 DEF AllShown
<1>6. CASE UNCHANGED ops
  BY <1>6, SameShown
<1>7. CASE TableStep
  BY <1>1, <1>2, <1>3, <1>4, <1>5, <1>7 DEF TableStep
<1> QED BY <1>6, <1>7, StepsOfTheTable

(* claim_next_background_operation, renew_operation_lease and               *)
(* finalize_operation, used by any number of processes that pause and die,  *)
(* keep what the abstract queue promises.                                   *)
THEOREM QueueIsFenced == Spec => ImplementsFencedOperations
<1>1. Init => Fenced!OpsInit
  BY ScopesAssumption DEF Init, Fenced!OpsInit, Fenced!Unused, NoOperation, Shown
<1>2. IInv /\ ClaimsCounted /\ [Next]_vars => [Fenced!OpsNext]_AllShown
  BY StepIsFenced
<1> QED BY <1>1, <1>2, CountedInvariant, PTL
        DEF Spec, ImplementsFencedOperations, Fenced!Spec, AllShown
=============================================================================
