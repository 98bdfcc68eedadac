-------------------------- MODULE ImportJobsProofs --------------------------
(***************************************************************************)
(* Theorems about ImportJobs for every set of cities, workers and admins   *)
(* and every bound: type correctness, the invariant that ties a row's      *)
(* status to its verdict, one active row per city, retry chains, the cause *)
(* of every import_failed, who moves a city across the public line, and    *)
(* the refinement of JobLedger.                                            *)
(***************************************************************************)
EXTENDS ImportJobs, FiniteSetTheorems, TLAPS

-----------------------------------------------------------------------------
(* The inductive invariant. *)

(* Ids above the sequence belong to no row, the others to a row of a city. *)
IdsAreDense ==
    \A j \in JobId : LET r == rows[j] IN
        IF j <= lastId
        THEN r.city \in Cities /\ r.verdict # "unused" /\ r.status # "none" /\ r.retry < j
        ELSE r.city = None /\ r.verdict = "unused" /\ r.status = "none" /\ r.claimed = None

(* An active status and no finished_at: exactly the rows without a verdict. *)
OpenMeansActive ==
    \A j \in JobId : LET r == rows[j] IN
        r.verdict = "open" <=> r.status \in ActiveStatuses /\ ~r.finished

OpenMeansSigned ==
    \A j \in JobId : LET r == rows[j] IN
        r.verdict = "open" => (r.status = "queued" <=> r.claimed = None)

(* A worker past the candidate query holds a row that was open then. *)
HeldRowsExist ==
    \A w \in Workers : pc[w] \notin {"idle", "sweeping"} =>
        /\ job[w] \in 1..lastId
        /\ rows[job[w]].verdict = "open" \/ rows[job[w]].finished

(* A sweep commits over a row that is still running, and alone: nobody      *)
(* finalizes or claims the row while its lock is held.                      *)
LockedRowsRun ==
    \A w \in Workers : pc[w] = "marking" =>
        /\ rows[job[w]].status = "running" /\ ~rows[job[w]].finished
        /\ \A v \in Workers : pc[v] = "marking" /\ job[v] = job[w] => v = w

RequestsNameRows ==
    \A a \in Admins :
        /\ admin[a].op \in {"cancel", "stall"} => admin[a].job \in 1..lastId
        /\ admin[a].op = "snapshot" => admin[a].city \in Cities

ActiveRowIsUnique ==
    \A c \in Cities : \A j, k \in ActiveJobs(c) : j = k

IInv ==
    /\ TypeOK
    /\ IdsAreDense
    /\ OpenMeansActive
    /\ OpenMeansSigned
    /\ HeldRowsExist
    /\ LockedRowsRun
    /\ RequestsNameRows
    /\ ActiveRowIsUnique

-----------------------------------------------------------------------------
(* What a step may do to the table: each action does one of five things.   *)

(* Nothing but current_step and the two clocks of rows. *)
Touches ==
    /\ rows' \in [JobId -> Row] /\ lastId' = lastId
    /\ \A k \in JobId : LET r == rows[k]  s == rows'[k] IN
          /\ s.city = r.city /\ s.status = r.status /\ s.claimed = r.claimed
          /\ s.finished = r.finished /\ s.verdict = r.verdict
          /\ s.retry = r.retry /\ s.prev = r.prev

(* No worker keeps the lock of row j through the step. *)
Released(j) == \A v \in Workers : pc[v] = "marking" /\ pc'[v] = "marking" => job[v] # j

(* One row without a verdict receives it. *)
Closes ==
    /\ rows' \in [JobId -> Row] /\ lastId' = lastId
    /\ \E j \in JobId : LET r == rows[j]  s == rows'[j] IN
          /\ r.status \in ActiveStatuses /\ ~r.finished /\ Released(j)
          /\ s.status \in TERMINAL_STATUSES /\ s.verdict = s.status /\ s.finished
          /\ s.city = r.city /\ s.claimed = r.claimed
          /\ s.retry = r.retry /\ s.prev = r.prev
          /\ \A k \in JobId \ {j} : rows'[k] = rows[k]

(* One row is inserted for a city. *)
Inserts ==
    /\ rows' \in [JobId -> Row] /\ lastId' = lastId + 1 /\ lastId' \in JobId
    /\ \A k \in JobId \ {lastId'} : rows'[k] = rows[k]
    /\ LET s == rows'[lastId'] IN
          /\ s.city \in Cities /\ s.retry < lastId' /\ s.claimed = None /\ ~s.finished
          /\ \/ s.status = "queued" /\ s.verdict = "open" /\ ActiveJobs(s.city) = {}
             \/ s.status = "success" /\ s.verdict = "success" /\ s.prev = 0
          /\ s.prev # 0 => IsLatest(s.city, s.prev) /\ s.retry = rows[s.prev].retry + 1

(* One held row becomes running in the name of a worker. *)
Claims ==
    /\ rows' \in [JobId -> Row] /\ lastId' = lastId
    /\ \E j \in 1..lastId, w \in Workers : LET r == rows[j]  s == rows'[j] IN
          /\ r.verdict = "open" \/ r.finished
          /\ Released(j)
          /\ ActiveJobs(r.city) \subseteq {j}
          /\ s.status = "running" /\ s.claimed = w
          /\ s.city = r.city /\ s.finished = r.finished /\ s.verdict = r.verdict
          /\ s.retry = r.retry /\ s.prev = r.prev
          /\ \A k \in JobId \ {j} : rows'[k] = rows[k]

TableStep == Touches \/ Closes \/ Inserts \/ Claims

(* The verdict of an accepted finalize. *)
LEMMA GivenStep ==
    ASSUME TypeOK, NEW j \in JobId, NEW v \in TERMINAL_STATUSES, NEW s \in Steps,
           rows[j].status \in ActiveStatuses, ~rows[j].finished, Released(j),
           rows' = Given(j, v, s), lastId' = lastId
    PROVE  /\ Closes
           /\ rows'[j].verdict = v /\ rows'[j].city = rows[j].city
<1> DEFINE t == [rows[j] EXCEPT !.status = v, !.verdict = v, !.finished = TRUE,
                                !.step = s, !.quiet = FALSE, !.old = FALSE]
<1>1. rows[j] \in Row
  BY DEF TypeOK
<1>2. t \in Row
  BY <1>1 DEF Row
<1>3. t.status = v /\ t.verdict = v /\ t.finished = TRUE
      /\ t.city = rows[j].city /\ t.claimed = rows[j].claimed
      /\ t.retry = rows[j].retry /\ t.prev = rows[j].prev
  BY <1>1 DEF Row
<1>4. rows' = [rows EXCEPT ![j] = t]
  BY DEF Given
<1> HIDE DEF t
<1>5. rows' \in [JobId -> Row] /\ rows'[j] = t /\ \A k \in JobId \ {j} : rows'[k] = rows[k]
  BY <1>2, <1>4 DEF TypeOK
<1>6. /\ rows'[j].status \in TERMINAL_STATUSES /\ rows'[j].verdict = rows'[j].status
      /\ rows'[j].finished
      /\ rows'[j].city = rows[j].city /\ rows'[j].claimed = rows[j].claimed
      /\ rows'[j].retry = rows[j].retry /\ rows'[j].prev = rows[j].prev
  BY <1>3, <1>5
<1>7. Closes
  BY <1>5, <1>6, ZenonT(30) DEF Closes
<1> QED BY <1>3, <1>5, <1>7

(* A finalize either gives one verdict or leaves the table alone. *)
LEMMA FinalizeStep ==
    ASSUME TypeOK, NEW j \in JobId, NEW v \in TERMINAL_STATUSES, NEW o,
           NEW s \in Steps, Finalize(j, v, o, s), lastId' = lastId
    PROVE  Touches \/ Closes
<1>1. CASE ~Accepts(j, v, o)
  BY <1>1 DEF Finalize, TypeOK, Touches
<1>2. CASE Accepts(j, v, o)
  <2>1. rows' = Given(j, v, s) /\ Released(j)
    BY <1>2 DEF Finalize, Released, Unlocked
  <2>2. rows[j].status \in ActiveStatuses /\ ~rows[j].finished
    BY <1>2 DEF Accepts, FinalizeFrom, ActiveStatuses
  <2> QED BY <2>1, <2>2, GivenStep
<1> QED BY <1>1, <1>2

(* A sweep gives the verdict to the row it has locked, and unlocks it. *)
LEMMA MarkStep ==
    ASSUME IInv, NEW w \in Workers, SweepMark(w)
    PROVE  /\ Closes /\ job[w] \in JobId /\ rows[job[w]].city \in Cities
           /\ rows'[job[w]].verdict = "stalled" /\ rows'[job[w]].city = rows[job[w]].city
<1> USE BoundsAssumption
<1>1. pc[w] = "marking" /\ job[w] \in JobId /\ job[w] <= lastId
  <2>1. pc[w] = "marking" BY DEF SweepMark
  <2>2. job[w] \in 1..lastId BY <2>1 DEF IInv, HeldRowsExist
  <2>3. lastId \in 0..MaxJobs BY DEF IInv, TypeOK
  <2> QED BY <2>1, <2>2, <2>3 DEF JobId
<1>2. rows[job[w]].status \in ActiveStatuses /\ ~rows[job[w]].finished
  BY <1>1 DEF IInv, LockedRowsRun, ActiveStatuses
<1>3. Released(job[w])
  <2>1. pc'[w] = "sweeping"
    BY DEF SweepMark, Jump, IInv, TypeOK
  <2> QED BY <1>1, <2>1 DEF Released, IInv, LockedRowsRun
<1>4. rows' = Given(job[w], "stalled", "error") /\ lastId' = lastId
  BY DEF SweepMark
<1>5. "stalled" \in TERMINAL_STATUSES /\ "error" \in Steps
  BY DEF TERMINAL_STATUSES, Steps, TERMINAL_STEPS
<1>6. rows[job[w]].city \in Cities
  BY <1>1 DEF IInv, IdsAreDense
<1> QED BY <1>1, <1>2, <1>3, <1>4, <1>5, <1>6, GivenStep DEF IInv

(* A commit of a run touches its row. *)
LEMMA ProgressStep ==
    ASSUME TypeOK, NEW j \in JobId, NEW s \in Steps, Progress(j, s), lastId' = lastId
    PROVE  Touches
<1> DEFINE t == [rows[j] EXCEPT !.step = s, !.quiet = FALSE]
<1>0. rows[j] \in Row
  BY DEF TypeOK
<1>1. t \in Row /\ t.status = rows[j].status /\ t.verdict = rows[j].verdict
      /\ t.finished = rows[j].finished /\ t.city = rows[j].city
      /\ t.claimed = rows[j].claimed /\ t.retry = rows[j].retry /\ t.prev = rows[j].prev
  BY <1>0 DEF Row
<1>2. rows' = [rows EXCEPT ![j] = t]
  BY DEF Progress
<1> HIDE DEF t
<1>3. rows' \in [JobId -> Row] /\ rows'[j] = t /\ \A k \in JobId \ {j} : rows'[k] = rows[k]
  BY <1>1, <1>2 DEF TypeOK
<1> QED BY <1>1, <1>3 DEF Touches

(* An enqueue inserts a row that continues the newest row of its city. *)
LEMMA InsertStep ==
    ASSUME IInv, NEW c \in Cities, NEW src \in {"full", "short"}, Insert(c, src)
    PROVE  Inserts
<1> USE BoundsAssumption, NoneAssumption
<1>1. PICK p \in 0..MaxJobs :
         IsLatest(c, p) /\ rows' = [rows EXCEPT ![lastId + 1] = NewRow(c, src, p)]
  BY DEF Insert
<1>2. lastId \in 0..MaxJobs /\ lastId + 1 \in JobId /\ lastId' = lastId + 1
  BY DEF Insert, IInv, TypeOK, JobId
<1>3. p # 0 => p \in JobId /\ p <= lastId
  BY <1>1, <1>2 DEF IsLatest, IInv, IdsAreDense, JobId
<1>4. p # 0 => rows[p].retry \in 0..MaxJobs /\ rows[p].retry < p
  BY <1>3 DEF IInv, IdsAreDense, TypeOK, Row
<1> DEFINE n == IF p = 0 THEN 0 ELSE rows[p].retry + 1
           t == NewRow(c, src, p)
<1>5. n \in 0..MaxJobs /\ n < lastId + 1
  BY <1>2, <1>3, <1>4 DEF JobId
<1>6. NoRow \in Row /\ NoRow.claimed = None /\ NoRow.finished = FALSE
  BY DEF NoRow, Row, Steps, TERMINAL_STEPS
<1>7. t \in Row /\ t.city = c /\ t.retry = n /\ t.prev = p /\ t.claimed = None /\ ~t.finished
      /\ t.status = "queued" /\ t.verdict = "open"
  <2> HIDE DEF n
  <2>1. t = [NoRow EXCEPT !.city = c, !.source = src, !.status = "queued", !.verdict = "open",
                          !.prev = p, !.retry = n]
    BY DEF NewRow, n
  <2> HIDE DEF t
  <2> QED BY <1>1, <1>5, <1>6, <2>1 DEF Row, ActiveStatuses
<1>8. rows' \in [JobId -> Row] /\ rows'[lastId + 1] = t
      /\ \A k \in JobId \ {lastId + 1} : rows'[k] = rows[k]
  BY <1>1, <1>2, <1>7 DEF IInv, TypeOK, t
<1>9. ActiveJobs(c) = {}
  BY DEF Insert
<1>10. p # 0 => n = rows[p].retry + 1
  OBVIOUS
<1> HIDE DEF n, t
<1> QED BY <1>1, <1>2, <1>5, <1>7, <1>8, <1>9, <1>10 DEF Inserts

(* A snapshot refresh of a city without jobs inserts a finished-looking row. *)
LEMMA SnapshotInsertStep ==
    ASSUME IInv, NEW a \in Admins, SnapshotInsert(a)
    PROVE  Inserts
<1> USE BoundsAssumption, NoneAssumption
<1> DEFINE t == [NoRow EXCEPT !.city = admin[a].city, !.status = "success",
                              !.step = "working", !.verdict = "success"]
<1>1. lastId \in 0..MaxJobs /\ lastId + 1 \in JobId /\ lastId' = lastId + 1
  BY DEF SnapshotInsert, IInv, TypeOK, JobId
<1>2. rows' = [rows EXCEPT ![lastId + 1] = t] /\ admin[a].city \in Cities
  BY DEF SnapshotInsert, IInv, RequestsNameRows
<1>3. NoRow \in Row /\ NoRow.claimed = None /\ NoRow.finished = FALSE
      /\ NoRow.retry = 0 /\ NoRow.prev = 0
  BY DEF NoRow, Row, Steps, TERMINAL_STEPS
<1>4. t \in Row /\ t.city \in Cities /\ t.retry = 0 /\ t.prev = 0 /\ t.claimed = None /\ ~t.finished
      /\ t.status = "success" /\ t.verdict = "success"
  BY <1>2, <1>3 DEF Row, Steps, TERMINAL_STATUSES
<1> HIDE DEF t
<1>5. rows' \in [JobId -> Row] /\ rows'[lastId + 1] = t
      /\ \A k \in JobId \ {lastId + 1} : rows'[k] = rows[k]
  BY <1>1, <1>2, <1>4 DEF IInv, TypeOK
<1> QED BY <1>1, <1>4, <1>5 DEF Inserts, JobId

(* A claim signs the row it holds, whatever became of it. *)
LEMMA ClaimStep ==
    ASSUME IInv, NEW w \in Workers, Claim(w)
    PROVE  Claims
<1> USE BoundsAssumption
<1> DEFINE j == job[w]
           t == [rows[j] EXCEPT !.status = "running", !.claimed = w, !.quiet = FALSE, !.old = FALSE]
<1>1. j \in 1..lastId /\ j \in JobId /\ (rows[j].verdict = "open" \/ rows[j].finished)
  <2>1. pc[w] \notin {"idle", "sweeping"} BY DEF Claim
  <2>2. j \in 1..lastId /\ (rows[j].verdict = "open" \/ rows[j].finished)
    BY <2>1 DEF IInv, HeldRowsExist
  <2>3. 1..lastId \subseteq JobId BY DEF IInv, TypeOK, JobId
  <2> QED BY <2>2, <2>3
<1>2. /\ ActiveJobs(rows[j].city) \subseteq {j} /\ rows' = [rows EXCEPT ![j] = t] /\ lastId' = lastId
      /\ Unlocked(j)
  BY SMTT(30) DEF Claim
<1>5. Released(j)
  BY <1>2 DEF Released, Unlocked
<1>3. t \in Row /\ t.status = "running" /\ t.claimed = w /\ t.city = rows[j].city
      /\ t.finished = rows[j].finished /\ t.verdict = rows[j].verdict
      /\ t.retry = rows[j].retry /\ t.prev = rows[j].prev
  <2>1. rows[j] \in Row
    BY <1>1 DEF IInv, TypeOK
  <2> HIDE DEF j
  <2>2. t \in Row
    BY <2>1 DEF Row, ActiveStatuses
  <2>3. t.status = "running" /\ t.claimed = w
    BY <2>1 DEF Row
  <2>4. t.city = rows[j].city /\ t.finished = rows[j].finished /\ t.verdict = rows[j].verdict
        /\ t.retry = rows[j].retry /\ t.prev = rows[j].prev
    BY <2>1 DEF Row
  <2> QED BY <2>2, <2>3, <2>4
<1> HIDE DEF t
<1>4. rows' \in [JobId -> Row] /\ rows'[j] = t /\ \A k \in JobId \ {j} : rows'[k] = rows[k]
  BY <1>1, <1>2, <1>3 DEF IInv, TypeOK
<1> QED BY <1>1, <1>2, <1>3, <1>4, <1>5 DEF Claims

(* Time and snapshot refreshes touch a row. *)
LEMMA ClockStep ==
    ASSUME TypeOK, NEW j \in JobId, lastId' = lastId,
           \/ rows' = [rows EXCEPT ![j].quiet = TRUE]
           \/ rows' = [rows EXCEPT ![j].quiet = FALSE]
           \/ rows' = [rows EXCEPT ![j].old = TRUE]
    PROVE  Touches
<1>0. rows[j] \in Row
  BY DEF TypeOK
<1>1. ASSUME NEW t \in Row, rows' = [rows EXCEPT ![j] = t],
             t.status = rows[j].status, t.verdict = rows[j].verdict,
             t.finished = rows[j].finished, t.city = rows[j].city,
             t.claimed = rows[j].claimed, t.retry = rows[j].retry,
             t.prev = rows[j].prev
      PROVE  Touches
  BY <1>1 DEF Touches, TypeOK
<1>2. ASSUME NEW b \in BOOLEAN, rows' = [rows EXCEPT ![j].quiet = b] PROVE Touches
  BY <1>0, <1>1, <1>2 DEF Row
<1>3. CASE rows' = [rows EXCEPT ![j].old = TRUE]
  BY <1>0, <1>1, <1>3 DEF Row
<1> QED BY <1>2, <1>3

-----------------------------------------------------------------------------
(* Every action is one of the four kinds of step. *)

LEMMA HeldJob ==
    ASSUME IInv, NEW w \in Workers, pc[w] \notin {"idle", "sweeping"}
    PROVE  job[w] \in JobId
BY BoundsAssumption DEF IInv, HeldRowsExist, TypeOK, JobId

LEMMA AdminTableStep ==
    ASSUME IInv, AdminStep
    PROVE  TableStep
<1> USE DEF TableStep
<1>0. TypeOK BY DEF IInv
<1>a. "cancelled" \in TERMINAL_STATUSES /\ "stalled" \in TERMINAL_STATUSES
      /\ "cancelled" \in Steps /\ "error" \in Steps
  BY DEF TERMINAL_STATUSES, Steps, TERMINAL_STEPS
<1>u. ASSUME UNCHANGED tableVars PROVE Touches
  BY <1>0, <1>u DEF tableVars, Touches, TypeOK
<1>1. ASSUME NEW c \in Cities, CreateCity(c) \/ Publish(c) \/ Unpublish(c) PROVE TableStep
  <2>1. CASE CreateCity(c) BY <2>1, InsertStep DEF CreateCity
  <2>2. CASE Publish(c) \/ Unpublish(c) BY <2>2, <1>u DEF Publish, Unpublish
  <2> QED BY <1>1, <2>1, <2>2
<1>2. ASSUME NEW c \in Cities, NEW src \in Sources, Enqueue(c, src) PROVE TableStep
  BY <1>2, InsertStep, SourcesAssumption DEF Enqueue
<1>3. ASSUME NEW a \in Admins, NEW c \in Cities, CancelRequest(a, c) \/ SnapshotRequest(a, c)
      PROVE TableStep
  BY <1>3, <1>u DEF CancelRequest, SnapshotRequest
<1>4. ASSUME NEW a \in Admins, NEW j \in JobId, StallRequest(a, j) PROVE TableStep
  BY <1>4, <1>u DEF StallRequest
<1>5. ASSUME NEW a \in Admins, CancelApply(a) \/ StallApply(a) PROVE TableStep
  <2>1. admin[a].job \in JobId
    BY <1>5, BoundsAssumption DEF CancelApply, StallApply, IInv, RequestsNameRows, TypeOK, JobId
  <2> QED BY <1>0, <1>5, <1>a, <2>1, FinalizeStep DEF CancelApply, StallApply
<1>6. ASSUME NEW a \in Admins, SnapshotUpdate(a) PROVE TableStep
  <2>1. admin[a].job \in JobId
    BY <1>6, <1>0, BoundsAssumption DEF SnapshotUpdate, TypeOK, Request, JobId
  <2> QED BY <1>0, <1>6, <2>1, ClockStep DEF SnapshotUpdate
<1>7. ASSUME NEW a \in Admins, SnapshotInsert(a) PROVE TableStep
  BY <1>7, SnapshotInsertStep
<1> QED BY <1>1, <1>2, <1>3, <1>4, <1>5, <1>6, <1>7 DEF AdminStep

LEMMA WorkerTableStep ==
    ASSUME IInv, NEW w \in Workers, WorkerStep(w) \/ Heartbeat(w) \/ Crash(w)
    PROVE  TableStep
<1> USE DEF TableStep
<1>0. TypeOK BY DEF IInv
<1>a. {"success", "failed", "stalled"} \subseteq TERMINAL_STATUSES
      /\ {"working", "error", "ready_for_review"} \subseteq Steps
  BY DEF TERMINAL_STATUSES, Steps, TERMINAL_STEPS
<1>b. pc[w] \notin {"idle", "sweeping"} => job[w] \in JobId /\ rows[job[w]].step \in Steps
  BY <1>0, HeldJob DEF TypeOK, Row
<1>u. ASSUME UNCHANGED tableVars PROVE Touches
  BY <1>0, <1>u DEF tableVars, Touches, TypeOK
<1>1. CASE SweepRead(w) \/ NothingQueued(w) \/ SafeModeSkip(w) \/ ClaimConflict(w) \/ Load(w)
           \/ ReadCity(w) \/ Crash(w)
  BY <1>1, <1>u DEF SweepRead, NothingQueued, SafeModeSkip, ClaimConflict, Load, ReadCity, Crash
<1>2. ASSUME NEW j \in JobId, Select(w, j) PROVE TableStep
  BY <1>2, <1>u DEF Select
<1>3. ASSUME NEW j \in JobId, SweepLock(w, j) PROVE TableStep
  BY <1>3, <1>u DEF SweepLock
<1>9. CASE SweepMark(w)
  BY <1>9, MarkStep
<1>4. CASE Claim(w)
  BY <1>4, ClaimStep
<1>5. CASE LoadRefused(w) \/ FinishShort(w) \/ WorkerException(w)
  <2>1. job[w] \in JobId BY <1>5, <1>b DEF LoadRefused, FinishShort, WorkerException
  <2> QED BY <1>0, <1>5, <1>a, <2>1, FinalizeStep DEF LoadRefused, FinishShort, WorkerException
<1>6. CASE Finish(w) \/ Fail(w)
  <2>1. job[w] \in JobId /\ rows[job[w]].step \in Steps BY <1>6, <1>b DEF Finish, Fail
  <2> QED BY <1>0, <1>6, <1>a, <2>1, FinalizeStep DEF Finish, Fail
<1>7. CASE Start(w) \/ Heartbeat(w) \/ ReviewCommit(w) \/ EmptyCommit(w)
  <2>1. job[w] \in JobId /\ rows[job[w]].step \in Steps
    BY <1>7, <1>b DEF Start, Heartbeat, ReviewCommit, EmptyCommit
  <2> QED BY <1>0, <1>7, <1>a, <2>1, ProgressStep DEF Start, Heartbeat, ReviewCommit, EmptyCommit
<1>8. CASE ReviewCheck(w) \/ EmptyImport(w)
  <2>1. job[w] \in JobId /\ rows[job[w]].step \in Steps BY <1>8, <1>b DEF ReviewCheck, EmptyImport
  <2>2. CASE rows[job[w]].status \in {"stalled", "cancelled"}
    BY <1>0, <1>8, <1>a, <2>1, <2>2, ProgressStep DEF ReviewCheck, EmptyImport
  <2>3. CASE rows[job[w]].status \notin {"stalled", "cancelled"}
    BY <1>8, <1>u, <2>3 DEF ReviewCheck, EmptyImport, tableVars
  <2> QED BY <2>2, <2>3
<1> QED BY <1>1, <1>2, <1>3, <1>4, <1>5, <1>6, <1>7, <1>8, <1>9 DEF WorkerStep

LEMMA NextTableStep ==
    ASSUME IInv, [Next]_vars
    PROVE  TableStep
<1>0. TypeOK BY DEF IInv
<1>1. CASE AdminStep BY <1>1, AdminTableStep
<1>2. ASSUME NEW w \in Workers, WorkerStep(w) \/ Heartbeat(w) \/ Crash(w) PROVE TableStep
  BY <1>2, WorkerTableStep
<1>3. ASSUME NEW j \in JobId, Quiet(j) \/ Age(j) PROVE TableStep
  BY <1>0, <1>3, ClockStep DEF Quiet, Age, TableStep
<1>4. CASE UNCHANGED vars
  BY <1>0, <1>4 DEF vars, TableStep, Touches, TypeOK
<1> QED BY <1>1, <1>2, <1>3, <1>4 DEF Next

-----------------------------------------------------------------------------
(* What those kinds of step preserve. *)

LEMMA IdsAreDenseStep ==
    ASSUME IInv, TableStep
    PROVE  IdsAreDense' /\ lastId' \in 0..MaxJobs /\ lastId <= lastId'
<1> USE BoundsAssumption, NoneAssumption
<1>0. lastId \in 0..MaxJobs /\ IdsAreDense /\ rows \in [JobId -> Row]
  BY DEF IInv, TypeOK
<1>1. CASE Touches
  BY <1>0, <1>1 DEF Touches, IdsAreDense, JobId
<1>2. CASE Closes
  <2>1. PICK j \in JobId :
          /\ rows[j].status \in ActiveStatuses
          /\ rows'[j].status \in TERMINAL_STATUSES /\ rows'[j].verdict = rows'[j].status
          /\ rows'[j].city = rows[j].city /\ rows'[j].claimed = rows[j].claimed
          /\ rows'[j].retry = rows[j].retry
          /\ \A k \in JobId \ {j} : rows'[k] = rows[k]
    BY <1>2 DEF Closes
  <2>2. j <= lastId /\ rows'[j].verdict # "unused" /\ rows'[j].status # "none"
    BY <1>0, <2>1 DEF IdsAreDense, ActiveStatuses, TERMINAL_STATUSES
  <2> QED BY <1>0, <1>2, <2>1, <2>2 DEF Closes, IdsAreDense
<1>3. CASE Inserts
  BY <1>0, <1>3 DEF Inserts, IdsAreDense, JobId
<1>4. CASE Claims
  <2>1. PICK j \in 1..lastId, w \in Workers :
          /\ rows'[j].status = "running"
          /\ rows'[j].city = rows[j].city /\ rows'[j].verdict = rows[j].verdict
          /\ rows'[j].retry = rows[j].retry
          /\ \A k \in JobId \ {j} : rows'[k] = rows[k]
    BY <1>4 DEF Claims
  <2> QED BY <1>0, <1>4, <2>1 DEF Claims, IdsAreDense, JobId
<1> QED BY <1>1, <1>2, <1>3, <1>4 DEF TableStep

LEMMA OpenMeansActiveStep ==
    ASSUME IInv, TableStep
    PROVE  OpenMeansActive' /\ OpenMeansSigned'
<1> USE NoneAssumption DEF ActiveStatuses
<1>0. OpenMeansActive /\ OpenMeansSigned /\ rows \in [JobId -> Row]
  BY DEF IInv, TypeOK
<1>1. CASE Touches
  BY <1>0, <1>1 DEF Touches, OpenMeansActive, OpenMeansSigned
<1>2. CASE Closes
  <2>1. PICK j \in JobId :
          /\ rows'[j].status \in TERMINAL_STATUSES /\ rows'[j].verdict = rows'[j].status
          /\ rows'[j].finished
          /\ \A k \in JobId \ {j} : rows'[k] = rows[k]
    BY <1>2 DEF Closes
  <2>2. rows'[j].verdict # "open"
    BY <2>1 DEF TERMINAL_STATUSES
  <2> QED BY <1>0, <2>1, <2>2 DEF OpenMeansActive, OpenMeansSigned
<1>3. CASE Inserts
  BY <1>0, <1>3 DEF Inserts, OpenMeansActive, OpenMeansSigned
<1>4. CASE Claims
  <2>1. PICK j \in 1..lastId, w \in Workers :
          /\ rows[j].verdict = "open" \/ rows[j].finished
          /\ rows'[j].status = "running" /\ rows'[j].claimed = w
          /\ rows'[j].finished = rows[j].finished /\ rows'[j].verdict = rows[j].verdict
          /\ \A k \in JobId \ {j} : rows'[k] = rows[k]
    BY <1>4 DEF Claims
  <2>2. j \in JobId
    BY <2>1, BoundsAssumption DEF IInv, TypeOK, JobId
  <2> QED BY <1>0, <2>1, <2>2 DEF OpenMeansActive, OpenMeansSigned
<1> QED BY <1>1, <1>2, <1>3, <1>4 DEF TableStep

LEMMA ActiveRowIsUniqueStep ==
    ASSUME IInv, TableStep
    PROVE  ActiveRowIsUnique'
<1> USE DEF ActiveStatuses
<1>0. ActiveRowIsUnique /\ rows \in [JobId -> Row]
  BY DEF IInv, TypeOK
<1>1. CASE Touches
  BY <1>0, <1>1 DEF Touches, ActiveRowIsUnique, ActiveJobs
<1>2. CASE Closes
  <2>1. PICK j \in JobId :
          /\ rows'[j].status \in TERMINAL_STATUSES
          /\ \A k \in JobId \ {j} : rows'[k] = rows[k]
    BY <1>2 DEF Closes
  <2>2. rows'[j].status \notin ActiveStatuses
    BY <2>1 DEF TERMINAL_STATUSES
  <2> QED BY <1>0, <2>1, <2>2 DEF ActiveRowIsUnique, ActiveJobs
<1>3. CASE Inserts
  <2>1. /\ \A k \in JobId \ {lastId'} : rows'[k] = rows[k]
        /\ \/ ActiveJobs(rows'[lastId'].city) = {}
           \/ rows'[lastId'].status = "success"
    BY <1>3 DEF Inserts
  <2> QED BY <1>0, <2>1 DEF ActiveRowIsUnique, ActiveJobs
<1>4. CASE Claims
  <2>1. PICK j \in 1..lastId, w \in Workers :
          /\ ActiveJobs(rows[j].city) \subseteq {j}
          /\ rows'[j].city = rows[j].city
          /\ \A k \in JobId \ {j} : rows'[k] = rows[k]
    BY <1>4 DEF Claims
  <2> QED BY <1>0, <2>1 DEF ActiveRowIsUnique, ActiveJobs
<1> QED BY <1>1, <1>2, <1>3, <1>4 DEF TableStep

(* Once open, a row stays open or finished: claims rest on this. *)
Settled(j) == rows[j].verdict = "open" \/ rows[j].finished

LEMMA SettledStep ==
    ASSUME IInv, TableStep, NEW j \in 1..lastId, Settled(j)
    PROVE  j \in 1..lastId' /\ Settled(j)'
<1> USE DEF Settled
<1>0. lastId \in 0..MaxJobs /\ j \in JobId /\ rows \in [JobId -> Row] /\ MaxJobs \in Nat
  BY BoundsAssumption DEF IInv, TypeOK, JobId
<1>1. CASE Touches
  BY <1>0, <1>1 DEF Touches
<1>2. CASE Closes
  BY <1>0, <1>2 DEF Closes
<1>3. CASE Inserts
  BY <1>0, <1>3 DEF Inserts
<1>4. CASE Claims
  BY <1>0, <1>4 DEF Claims
<1> QED BY <1>1, <1>2, <1>3, <1>4 DEF TableStep

-----------------------------------------------------------------------------
(* The memory of workers and admin connections. *)

LEMMA BlankIsMemory == Blank \in Memory
<1>1. NoRow \in Row
  BY BoundsAssumption DEF NoRow, Row, Steps, TERMINAL_STEPS
<1> QED BY <1>1 DEF Blank, Memory, LaunchStatuses

(* A row a worker holds after a step is the one it held, or one it has just *)
(* taken: selected, or locked for the verdict of its sweep.                 *)
Keeps(v) ==
    /\ pc[v] \notin {"idle", "sweeping"} /\ job'[v] = job[v]
    /\ pc'[v] = "marking" => pc[v] = "marking"

Takes(v) ==
    /\ job'[v] \in JobId
    /\ rows[job'[v]].status \in ActiveStatuses /\ ~rows[job'[v]].finished
    /\ pc'[v] = "marking" =>
          /\ rows[job'[v]].status = "running" /\ Unlocked(job'[v]) /\ rows' = rows
          /\ \A u \in Workers \ {v} : pc'[u] = pc[u] /\ job'[u] = job[u]

HoldsRightly ==
    \A v \in Workers : pc'[v] \notin {"idle", "sweeping"} => Keeps(v) \/ Takes(v)

(* A rest forgets everything; what else a worker does keeps its types and,  *)
(* once it holds a job, the job.                                            *)
LEMMA WorkerMemoryStep ==
    ASSUME IInv, NEW w \in Workers, WorkerStep(w) \/ Heartbeat(w) \/ Crash(w)
    PROVE  /\ pc' \in [Workers -> Phases]
           /\ job' \in [Workers -> 0..MaxJobs]
           /\ mem' \in [Workers -> Memory]
           /\ HoldsRightly
           /\ UNCHANGED admin
<1> USE BoundsAssumption, BlankIsMemory
<1>0. TypeOK BY DEF IInv
<1>b. pc[w] \notin {"idle", "sweeping"} => job[w] \in JobId
  BY HeldJob
<1>r. ASSUME Rest(w), UNCHANGED admin
      PROVE  /\ pc' \in [Workers -> Phases]
             /\ job' \in [Workers -> 0..MaxJobs]
             /\ mem' \in [Workers -> Memory]
             /\ HoldsRightly
             /\ UNCHANGED admin
  BY <1>0, <1>r DEF Rest, TypeOK, Phases, HoldsRightly, Keeps
<1>m. ASSUME NEW t \in Memory, mem' = [mem EXCEPT ![w] = t]
      PROVE  mem' \in [Workers -> Memory]
  BY <1>0, <1>m DEF TypeOK
<1>j. ASSUME NEW p \in Phases, Jump(w, p), UNCHANGED job, UNCHANGED admin,
             pc[w] \notin {"idle", "sweeping"} \/ p = "sweeping", p # "marking"
      PROVE  /\ pc' \in [Workers -> Phases]
             /\ job' \in [Workers -> 0..MaxJobs]
             /\ HoldsRightly
             /\ UNCHANGED admin
  BY <1>0, <1>j DEF Jump, TypeOK, Phases, HoldsRightly, Keeps
<1>l. /\ \A c \in Cities : launch[c] \in LaunchStatuses
      /\ mem[w] \in Memory
      /\ {"absent", "review_required"} \subseteq LaunchStatuses
  BY <1>0 DEF TypeOK, LaunchStatuses
<1>1. CASE NothingQueued(w) \/ SafeModeSkip(w) \/ ClaimConflict(w) \/ LoadRefused(w)
           \/ FinishShort(w) \/ WorkerException(w) \/ Finish(w) \/ Fail(w) \/ Crash(w)
  BY <1>1, <1>r DEF NothingQueued, SafeModeSkip, ClaimConflict, LoadRefused,
                    FinishShort, WorkerException, Finish, Fail, Crash
<1>c. pc[w] \notin {"idle", "sweeping"} =>
        rows[job[w]].city \in Cities /\ launch[rows[job[w]].city] \in LaunchStatuses
  BY <1>0, <1>b DEF IInv, HeldRowsExist, IdsAreDense, TypeOK
<1>2. CASE SweepRead(w)
  <2> DEFINE t == [mem[w] EXCEPT !.cand = {j \in JobId : rows[j].status = "running" /\ IsStalled(rows[j])}]
  <2>1. t \in Memory BY <1>l DEF Memory
  <2>2. mem' = [mem EXCEPT ![w] = t] BY <1>2 DEF SweepRead
  <2> QED BY <1>2, <1>m, <1>j, <2>1, <2>2 DEF SweepRead, Phases
<1>3. ASSUME NEW j \in JobId, SweepLock(w, j)
      PROVE  /\ mem' \in [Workers -> Memory] /\ UNCHANGED <<rows, admin>>
             /\ \/ UNCHANGED <<pc, job>>
                \/ /\ pc' = [pc EXCEPT ![w] = "marking"] /\ job' = [job EXCEPT ![w] = j]
                   /\ Accepts(j, "stalled", None) /\ Unlocked(j)
  <2> DEFINE t == [mem[w] EXCEPT !.cand = @ \ {j}]
             x == launch[rows[j].city]
             u == [mem[w] EXCEPT !.cand = @ \ {j}, !.copy = x]
  <2>1. t \in Memory BY <1>l DEF Memory
  <2>2. CASE ~Accepts(j, "stalled", None)
    <3>1. mem' = [mem EXCEPT ![w] = t] BY <1>3, <2>2 DEF SweepLock
    <3> QED BY <1>3, <1>m, <2>1, <2>2, <3>1 DEF SweepLock, tableVars
  <2>3. CASE Accepts(j, "stalled", None)
    <3>1. rows[j].status # "none" BY <2>3 DEF Accepts, FinalizeFrom
    <3>2. rows[j].city \in Cities BY <3>1 DEF IInv, IdsAreDense
    <3>3. x \in LaunchStatuses BY <1>l, <3>2
    <3>4. mem' = [mem EXCEPT ![w] = u] BY <1>3, <2>3 DEF SweepLock
    <3>5. /\ pc' = [pc EXCEPT ![w] = "marking"] /\ job' = [job EXCEPT ![w] = j]
          /\ Unlocked(j) /\ UNCHANGED <<rows, admin>>
      BY <1>3, <2>3 DEF SweepLock, Jump, tableVars
    <3> HIDE DEF x
    <3>6. u \in Memory BY <1>l, <3>3 DEF Memory
    <3> HIDE DEF u
    <3>7. mem' \in [Workers -> Memory] BY <1>m, <3>4, <3>6
    <3> QED BY <2>3, <3>5, <3>7
  <2> QED BY <2>2, <2>3
<1>14. CASE SweepMark(w)
  <2> DEFINE t == [mem[w] EXCEPT !.copy = "absent"]
  <2>1. t \in Memory BY <1>l DEF Memory
  <2>2. mem' = [mem EXCEPT ![w] = t] BY <1>14 DEF SweepMark
  <2>3. mem' \in [Workers -> Memory] BY <1>m, <2>1, <2>2
  <2>4. pc' = [pc EXCEPT ![w] = "sweeping"] /\ job' = [job EXCEPT ![w] = 0] /\ UNCHANGED admin
    BY <1>14 DEF SweepMark, Jump
  <2> QED BY <1>0, <2>3, <2>4 DEF TypeOK, Phases, HoldsRightly, Keeps
<1>4. ASSUME NEW j \in JobId, Select(w, j)
      PROVE  /\ pc' = [pc EXCEPT ![w] = "picked"] /\ job' = [job EXCEPT ![w] = j]
             /\ mem' \in [Workers -> Memory] /\ Claimable(rows[j]) /\ UNCHANGED admin
  <2> DEFINE t == [mem[w] EXCEPT !.seen = rows[j]]
  <2>1. t \in Memory BY <1>0, <1>l DEF Memory, TypeOK
  <2>2. mem' = [mem EXCEPT ![w] = t] BY <1>4 DEF Select
  <2> QED BY <1>4, <1>m, <2>1, <2>2 DEF Select, Jump
<1>5. CASE Claim(w)
  <2> DEFINE t == [mem[w] EXCEPT !.seen = NoRow]
  <2>0. NoRow \in Row BY DEF NoRow, Row, Steps, TERMINAL_STEPS
  <2>1. t \in Memory BY <1>l, <2>0 DEF Memory
  <2>2. mem' = [mem EXCEPT ![w] = t] BY <1>5 DEF Claim
  <2> QED BY <1>5, <1>m, <1>j, <2>1, <2>2 DEF Claim, Phases
<1>6. CASE Load(w)
  <2> DEFINE t == [mem[w] EXCEPT !.owner = rows[job[w]].claimed]
  <2>1. t \in Memory BY <1>0, <1>6, <1>b, <1>l DEF Memory, TypeOK, Row, Load
  <2>2. mem' = [mem EXCEPT ![w] = t] BY <1>6 DEF Load
  <2> QED BY <1>6, <1>m, <1>j, <2>1, <2>2 DEF Load, Phases
<1>7. CASE Start(w)
  <2> DEFINE x == IF rows[job[w]].source = "full" THEN launch[rows[job[w]].city] ELSE "absent"
             t == [mem[w] EXCEPT !.orig = x]
  <2>1. x \in LaunchStatuses BY <1>7, <1>c, <1>l DEF Start
  <2> HIDE DEF x
  <2>2. t \in Memory BY <1>l, <2>1 DEF Memory
  <2>3. mem' = [mem EXCEPT ![w] = t] BY <1>7 DEF Start, x
  <2> QED BY <1>7, <1>m, <1>j, <2>2, <2>3 DEF Start, Phases
<1>8. CASE ReviewCheck(w) \/ EmptyImport(w)
  <2> DEFINE t == [mem[w] EXCEPT !.orig = "absent"]
             u == [mem[w] EXCEPT !.copy = launch[rows[job[w]].city]]
  <2>1. t \in Memory /\ u \in Memory BY <1>8, <1>c, <1>l DEF Memory, ReviewCheck, EmptyImport
  <2>2. mem' = [mem EXCEPT ![w] = t] \/ mem' = [mem EXCEPT ![w] = u]
    BY <1>8 DEF ReviewCheck, EmptyImport
  <2>3. \E p \in {"reviewed", "reviewing", "failing", "emptying"} : Jump(w, p)
    BY <1>8 DEF ReviewCheck, EmptyImport
  <2> QED BY <1>8, <1>m, <1>j, <2>1, <2>2, <2>3 DEF ReviewCheck, EmptyImport, Phases
<1>9. CASE ReviewCommit(w) \/ EmptyCommit(w)
  <2> DEFINE t == [mem[w] EXCEPT !.orig = "absent", !.copy = "absent"]
  <2>1. t \in Memory BY <1>l DEF Memory
  <2>2. mem' = [mem EXCEPT ![w] = t] BY <1>9 DEF ReviewCommit, EmptyCommit
  <2>3. Jump(w, "reviewed") \/ Jump(w, "failing") BY <1>9 DEF ReviewCommit, EmptyCommit
  <2> QED BY <1>9, <1>m, <1>j, <2>1, <2>2, <2>3 DEF ReviewCommit, EmptyCommit, Phases
<1>10. CASE ReadCity(w)
  <2> DEFINE t == [mem[w] EXCEPT !.copy = launch[rows[job[w]].city]]
  <2>1. t \in Memory BY <1>10, <1>c, <1>l DEF Memory, ReadCity
  <2>2. mem' = [mem EXCEPT ![w] = t] BY <1>10 DEF ReadCity
  <2> QED BY <1>10, <1>m, <1>j, <2>1, <2>2 DEF ReadCity, Phases
<1>11. CASE Heartbeat(w)
  BY <1>0, <1>11 DEF Heartbeat, workerVars, TypeOK, HoldsRightly, Keeps
<1>12. CASE \E j \in JobId : SweepLock(w, j)
  <2>1. PICK j \in JobId : SweepLock(w, j) BY <1>12
  <2>2. mem' \in [Workers -> Memory] /\ UNCHANGED <<rows, admin>> BY <1>3, <2>1
  <2>3. CASE UNCHANGED <<pc, job>>
    BY <1>0, <2>2, <2>3 DEF TypeOK, HoldsRightly, Keeps
  <2>4. CASE /\ pc' = [pc EXCEPT ![w] = "marking"] /\ job' = [job EXCEPT ![w] = j]
             /\ Accepts(j, "stalled", None) /\ Unlocked(j)
    <3>1. /\ pc' \in [Workers -> Phases] /\ job' \in [Workers -> 0..MaxJobs] /\ job'[w] = j
          /\ \A v \in Workers \ {w} : pc'[v] = pc[v] /\ job'[v] = job[v]
      BY <1>0, <2>4 DEF TypeOK, Phases, JobId
    <3>2. rows[j].status = "running" /\ ~rows[j].finished
      BY <2>4 DEF Accepts, FinalizeFrom
    <3>3. Takes(w)
      BY <2>2, <2>4, <3>1, <3>2 DEF Takes, ActiveStatuses
    <3>4. \A v \in Workers \ {w} : pc'[v] \notin {"idle", "sweeping"} => Keeps(v)
      BY <3>1 DEF Keeps
    <3> QED BY <2>2, <3>1, <3>3, <3>4 DEF HoldsRightly
  <2> QED BY <1>3, <2>1, <2>3, <2>4
<1>13. CASE \E j \in JobId : Select(w, j)
  <2>1. PICK j \in JobId : Select(w, j) BY <1>13
  <2>2. pc' = [pc EXCEPT ![w] = "picked"] /\ job' = [job EXCEPT ![w] = j]
        /\ mem' \in [Workers -> Memory] /\ Claimable(rows[j]) /\ UNCHANGED admin
    BY <1>4, <2>1
  <2>3. pc' \in [Workers -> Phases] /\ job' \in [Workers -> 0..MaxJobs] /\ job'[w] = j
        /\ \A v \in Workers \ {w} : pc'[v] = pc[v] /\ job'[v] = job[v]
    BY <1>0, <2>2 DEF TypeOK, Phases, JobId
  <2>4. pc'[w] = "picked" BY <1>0, <2>2 DEF TypeOK
  <2>5. Takes(w) BY <2>2, <2>3, <2>4 DEF Takes, Claimable, ActiveStatuses
  <2>6. \A v \in Workers \ {w} : pc'[v] \notin {"idle", "sweeping"} => Keeps(v)
    BY <2>3 DEF Keeps
  <2> QED BY <2>2, <2>3, <2>5, <2>6 DEF HoldsRightly
<1> QED BY <1>1, <1>2, <1>5, <1>6, <1>7, <1>8, <1>9, <1>10, <1>11, <1>12, <1>13, <1>14 DEF WorkerStep

LEMMA LaunchType ==
    ASSUME TypeOK, [Next]_vars
    PROVE  launch' \in [Cities -> LaunchStatuses] /\ crashes' \in 0..MaxCrashes
<1> USE BoundsAssumption DEF TypeOK
<1>l. {"importing", "import_failed", "review_required", "published", "unpublished", "absent"} = LaunchStatuses
  BY DEF LaunchStatuses
<1>g. ASSUME NEW c, NEW h, NEW n \in LaunchStatuses
      PROVE  GuardedWrite(c, h, n) \in [Cities -> LaunchStatuses]
  BY DEF GuardedWrite
<1>1. ASSUME UNCHANGED <<launch, crashes>> PROVE launch' \in [Cities -> LaunchStatuses] /\ crashes' \in 0..MaxCrashes
  BY <1>1
<1>2. CASE AdminStep
  <2>1. ASSUME NEW c \in Cities, CreateCity(c) \/ Publish(c) \/ Unpublish(c)
        PROVE  launch' \in [Cities -> LaunchStatuses] /\ crashes' \in 0..MaxCrashes
    BY <2>1, <1>l DEF CreateCity, Publish, Unpublish
  <2>2. ASSUME NEW a \in Admins, StallApply(a)
        PROVE  launch' \in [Cities -> LaunchStatuses] /\ crashes' \in 0..MaxCrashes
    BY <2>2, <1>g, <1>l DEF StallApply
  <2>3. CASE UNCHANGED <<launch, crashes>> BY <2>3, <1>1
  <2> QED BY <1>2, <2>1, <2>2, <2>3 DEF AdminStep, Enqueue, CancelRequest, SnapshotRequest,
             StallRequest, CancelApply, SnapshotUpdate, SnapshotInsert
<1>3. ASSUME NEW w \in Workers, WorkerStep(w) \/ Heartbeat(w) \/ Crash(w)
      PROVE  launch' \in [Cities -> LaunchStatuses] /\ crashes' \in 0..MaxCrashes
  <2>o. mem[w].orig \in LaunchStatuses BY DEF Memory
  <2>1. CASE SweepMark(w)
    BY <2>1, <1>l DEF SweepMark
  <2>2. CASE ReviewCommit(w) \/ EmptyCommit(w) \/ Finish(w)
    BY <2>2, <2>o, <1>g, <1>l DEF ReviewCommit, EmptyCommit, Finish
  <2>3. CASE Crash(w) BY <2>3 DEF Crash
  <2>4. CASE UNCHANGED <<launch, crashes>> BY <2>4, <1>1
  <2> QED BY <1>3, <2>1, <2>2, <2>3, <2>4 DEF WorkerStep, SweepRead, SweepLock, NothingQueued, SafeModeSkip,
             Select, EmptyImport, Claim, ClaimConflict, Load, LoadRefused, Start, FinishShort, WorkerException,
             ReviewCheck, ReadCity, Fail, Heartbeat
<1>4. ASSUME NEW j \in JobId, Quiet(j) \/ Age(j)
      PROVE  launch' \in [Cities -> LaunchStatuses] /\ crashes' \in 0..MaxCrashes
  BY <1>1, <1>4 DEF Quiet, Age
<1>5. CASE UNCHANGED vars BY <1>1, <1>5 DEF vars
<1> QED BY <1>2, <1>3, <1>4, <1>5 DEF Next

(* Requests keep naming rows that exist. *)
LEMMA RequestStep ==
    ASSUME IInv, AdminStep, lastId' \in 0..MaxJobs, lastId <= lastId'
    PROVE  admin' \in [Admins -> Request] /\ RequestsNameRows' /\ UNCHANGED workerVars
<1> USE BoundsAssumption
<1>0. TypeOK /\ RequestsNameRows /\ IdsAreDense BY DEF IInv
<1>1. ASSUME UNCHANGED <<workerVars, admin>> PROVE admin' \in [Admins -> Request] /\ RequestsNameRows' /\ UNCHANGED workerVars
  BY <1>0, <1>1 DEF TypeOK, RequestsNameRows
<1>2. ASSUME NEW a \in Admins, NEW q \in Request, admin' = [admin EXCEPT ![a] = q], UNCHANGED workerVars,
             q.op \in {"cancel", "stall"} => q.job \in 1..lastId,
             q.op = "snapshot" => q.city \in Cities
      PROVE  admin' \in [Admins -> Request] /\ RequestsNameRows' /\ UNCHANGED workerVars
  BY <1>0, <1>2 DEF TypeOK, RequestsNameRows
<1>n. NoRequest \in Request /\ NoRequest.op = "none"
  BY DEF NoRequest, Request, LaunchStatuses
<1>a. ASSUME NEW op \in {"cancel", "stall", "snapshot"}, NEW j \in 0..MaxJobs, NEW c \in Cities
      PROVE  Ask(op, j, c) \in Request /\ Ask(op, j, c).op = op
             /\ Ask(op, j, c).job = j /\ Ask(op, j, c).city = c
  <2>1. launch[c] \in LaunchStatuses
    BY <1>0 DEF TypeOK
  <2> DEFINE h == IF op = "stall" THEN launch[c] ELSE "absent"
  <2>2. h \in LaunchStatuses
    BY <2>1 DEF LaunchStatuses
  <2>3. Ask(op, j, c) = [op |-> op, job |-> j, city |-> c, held |-> h]
    BY DEF Ask
  <2> HIDE DEF h
  <2> QED BY <2>2, <2>3 DEF Request
<1>i. ASSUME NEW j \in JobId, rows[j].status # "none" PROVE j \in 1..lastId /\ rows[j].city \in Cities
  BY <1>0, <1>i DEF IdsAreDense, JobId, TypeOK
<1>3. ASSUME NEW a \in Admins, NEW c \in Cities, CancelRequest(a, c)
      PROVE  admin' \in [Admins -> Request] /\ RequestsNameRows' /\ UNCHANGED workerVars
  <2>1. PICK j \in JobId : rows[j].status \in ActiveStatuses
                           /\ admin' = [admin EXCEPT ![a] = Ask("cancel", j, c)]
    BY <1>3 DEF CancelRequest
  <2>2. j \in 1..lastId /\ j \in 0..MaxJobs BY <1>i, <2>1 DEF ActiveStatuses, JobId
  <2>3. PICK q \in Request : q = Ask("cancel", j, c) /\ q.op = "cancel" /\ q.job = j
    BY <1>a, <2>2
  <2>4. UNCHANGED workerVars BY <1>3 DEF CancelRequest
  <2>5. admin' = [admin EXCEPT ![a] = q] BY <2>1, <2>3
  <2> QED BY <1>2, <2>2, <2>3, <2>4, <2>5
<1>4. ASSUME NEW a \in Admins, NEW j \in JobId, StallRequest(a, j)
      PROVE  admin' \in [Admins -> Request] /\ RequestsNameRows' /\ UNCHANGED workerVars
  <2>1. j \in 1..lastId /\ rows[j].city \in Cities /\ j \in 0..MaxJobs
    BY <1>4, <1>i DEF StallRequest, JobId
  <2>2. PICK q \in Request : q = Ask("stall", j, rows[j].city) /\ q.op = "stall" /\ q.job = j
    BY <1>a, <2>1
  <2>3. UNCHANGED workerVars /\ admin' = [admin EXCEPT ![a] = q]
    BY <1>4, <2>2 DEF StallRequest
  <2> QED BY <1>2, <2>1, <2>2, <2>3
<1>5. ASSUME NEW a \in Admins, NEW c \in Cities, SnapshotRequest(a, c)
      PROVE  admin' \in [Admins -> Request] /\ RequestsNameRows' /\ UNCHANGED workerVars
  <2>1. PICK j \in 0..MaxJobs : admin' = [admin EXCEPT ![a] = Ask("snapshot", j, c)]
    BY <1>5 DEF SnapshotRequest
  <2>2. PICK q \in Request : q = Ask("snapshot", j, c) /\ q.op = "snapshot" /\ q.city = c
    BY <1>a
  <2>3. UNCHANGED workerVars BY <1>5 DEF SnapshotRequest
  <2>4. admin' = [admin EXCEPT ![a] = q] BY <2>1, <2>2
  <2> QED BY <1>2, <2>2, <2>3, <2>4
<1>6. ASSUME NEW a \in Admins, CancelApply(a) \/ StallApply(a) \/ SnapshotUpdate(a) \/ SnapshotInsert(a)
      PROVE  admin' \in [Admins -> Request] /\ RequestsNameRows' /\ UNCHANGED workerVars
  BY <1>2, <1>6, <1>n DEF CancelApply, StallApply, SnapshotUpdate, SnapshotInsert
<1>7. CASE UNCHANGED <<workerVars, admin>> BY <1>1, <1>7
<1> QED BY <1>3, <1>4, <1>5, <1>6, <1>7 DEF AdminStep, CreateCity, Publish, Unpublish, Enqueue

-----------------------------------------------------------------------------
(* The invariant is inductive. *)

LEMMA InitIInv == Init => IInv
<1> SUFFICES ASSUME Init PROVE IInv
  OBVIOUS
<1> USE BoundsAssumption
<1>1. NoRow \in Row /\ NoRow.city = None /\ NoRow.verdict = "unused" /\ NoRow.status = "none"
      /\ NoRow.claimed = None
  BY DEF NoRow, Row, Steps, TERMINAL_STEPS
<1>2. NoRequest \in Request /\ NoRequest.op = "none"
  BY DEF NoRequest, Request, LaunchStatuses
<1>3. \A j \in JobId : rows[j] = NoRow /\ ~(j <= lastId)
  BY DEF Init, JobId
<1>4. TypeOK
  BY <1>1, <1>2, BlankIsMemory DEF Init, TypeOK, LaunchStatuses, Phases
<1>5. IdsAreDense /\ OpenMeansActive /\ OpenMeansSigned
  BY <1>1, <1>3 DEF IdsAreDense, OpenMeansActive, OpenMeansSigned, ActiveStatuses
<1>6. HeldRowsExist /\ LockedRowsRun /\ RequestsNameRows
  BY <1>2 DEF Init, HeldRowsExist, LockedRowsRun, RequestsNameRows
<1>7. ActiveRowIsUnique
  BY <1>1, <1>3 DEF ActiveRowIsUnique, ActiveJobs, ActiveStatuses
<1> QED BY <1>4, <1>5, <1>6, <1>7 DEF IInv

(* The lock keeps other verdicts and claims off the row, and is taken only  *)
(* of a running row that nobody has locked.                                 *)
LEMMA LockedRowsStep ==
    ASSUME IInv, TableStep, HoldsRightly
    PROVE  LockedRowsRun'
<1> USE BoundsAssumption
<1>0. LockedRowsRun /\ HeldRowsExist /\ lastId \in 0..MaxJobs /\ 1..lastId \subseteq JobId
  BY DEF IInv, TypeOK, JobId
<1>1. ASSUME NEW v \in Workers, pc'[v] = "marking", pc[v] = "marking", job'[v] = job[v]
      PROVE  rows'[job'[v]].status = "running" /\ ~rows'[job'[v]].finished
  <2> DEFINE j == job[v]
  <2>1. j \in 1..lastId /\ j \in JobId /\ rows[j].status = "running" /\ ~rows[j].finished
    BY <1>0, <1>1 DEF HeldRowsExist, LockedRowsRun
  <2>2. ~Released(j)
    BY <1>1 DEF Released
  <2> HIDE DEF j
  <2>3. rows'[j].status = rows[j].status /\ rows'[j].finished = rows[j].finished
    <3>1. CASE Touches BY <2>1, <3>1 DEF Touches
    <3>2. CASE Closes
      <4>1. PICK i \in JobId : Released(i) /\ \A k \in JobId \ {i} : rows'[k] = rows[k]
        BY <3>2 DEF Closes
      <4> QED BY <2>1, <2>2, <4>1
    <3>3. CASE Inserts
      <4>1. \A k \in JobId \ {lastId + 1} : rows'[k] = rows[k]
        BY <3>3 DEF Inserts
      <4> QED BY <1>0, <2>1, <4>1
    <3>4. CASE Claims
      <4>1. PICK i \in 1..lastId : Released(i) /\ \A k \in JobId \ {i} : rows'[k] = rows[k]
        BY <3>4 DEF Claims
      <4> QED BY <2>1, <2>2, <4>1
    <3> QED BY <3>1, <3>2, <3>3, <3>4 DEF TableStep
  <2> QED BY <1>1, <2>1, <2>3 DEF j
<1>2. ASSUME NEW v \in Workers, pc'[v] = "marking"
      PROVE  \/ pc[v] = "marking" /\ job'[v] = job[v]
             \/ /\ rows[job'[v]].status = "running" /\ ~rows[job'[v]].finished /\ rows' = rows
                /\ Unlocked(job'[v]) /\ \A u \in Workers \ {v} : pc'[u] = pc[u] /\ job'[u] = job[u]
  BY <1>2 DEF HoldsRightly, Keeps, Takes
<1>3. ASSUME NEW v \in Workers, pc'[v] = "marking"
      PROVE  rows'[job'[v]].status = "running" /\ ~rows'[job'[v]].finished
  BY <1>1, <1>2, <1>3
<1>4. ASSUME NEW v \in Workers, NEW u \in Workers, pc'[v] = "marking", pc'[u] = "marking",
             job'[u] = job'[v]
      PROVE  u = v
  <2>1. CASE pc[v] = "marking" /\ job'[v] = job[v] /\ pc[u] = "marking" /\ job'[u] = job[u]
    BY <1>0, <1>4, <2>1 DEF LockedRowsRun
  <2>2. ASSUME NEW x \in Workers, NEW y \in Workers, x # y, Unlocked(job'[x]),
               \A z \in Workers \ {x} : pc'[z] = pc[z] /\ job'[z] = job[z],
               pc'[y] = "marking", job'[y] = job'[x]
        PROVE  FALSE
    BY <2>2 DEF Unlocked
  <2> QED BY <1>2, <1>4, <2>1, <2>2
<1> QED BY <1>3, <1>4 DEF LockedRowsRun

LEMMA NextIInv == IInv /\ [Next]_vars => IInv'
<1> SUFFICES ASSUME IInv, [Next]_vars PROVE IInv'
  OBVIOUS
<1> USE BoundsAssumption
<1>1. TableStep
  BY NextTableStep
<1>2. IdsAreDense' /\ lastId' \in 0..MaxJobs /\ lastId <= lastId'
      /\ OpenMeansActive' /\ OpenMeansSigned' /\ ActiveRowIsUnique'
  BY <1>1, IdsAreDenseStep, OpenMeansActiveStep, ActiveRowIsUniqueStep
<1>3. rows' \in [JobId -> Row]
  BY <1>1 DEF TableStep, Touches, Closes, Inserts, Claims
<1>4. launch' \in [Cities -> LaunchStatuses] /\ crashes' \in 0..MaxCrashes
  BY LaunchType DEF IInv
<1>5. /\ pc' \in [Workers -> Phases] /\ job' \in [Workers -> 0..MaxJobs]
      /\ mem' \in [Workers -> Memory]
      /\ HoldsRightly
      /\ admin' \in [Admins -> Request] /\ RequestsNameRows'
  <2>0. TypeOK /\ RequestsNameRows BY DEF IInv
  <2>1. ASSUME UNCHANGED admin PROVE admin' \in [Admins -> Request] /\ RequestsNameRows'
    BY <1>2, <2>0, <2>1 DEF TypeOK, RequestsNameRows
  <2>2. CASE AdminStep
    BY <1>2, <2>0, <2>2, RequestStep DEF workerVars, TypeOK, HoldsRightly, Keeps
  <2>3. CASE \E w \in Workers : WorkerStep(w) \/ Heartbeat(w) \/ Crash(w)
    BY <2>1, <2>3, WorkerMemoryStep
  <2>4. CASE UNCHANGED <<workerVars, admin>>
    BY <2>0, <2>1, <2>4 DEF workerVars, TypeOK, HoldsRightly, Keeps
  <2> QED BY <2>2, <2>3, <2>4 DEF Next, Quiet, Age, vars, workerVars
<1>6. HeldRowsExist'
  <2> SUFFICES ASSUME NEW v \in Workers, pc'[v] \notin {"idle", "sweeping"}, NEW j, j = job'[v]
               PROVE  j \in 1..lastId' /\ (rows'[j].verdict = "open" \/ rows'[j].finished)
    BY DEF HeldRowsExist
  <2>1. j \in 1..lastId /\ Settled(j)
    <3>1. CASE Keeps(v)
      BY <3>1 DEF Keeps, IInv, HeldRowsExist, Settled
    <3>2. CASE Takes(v)
      BY <3>2 DEF Takes, IInv, TypeOK, IdsAreDense, OpenMeansActive, Settled, JobId, ActiveStatuses
    <3> QED BY <1>5, <3>1, <3>2 DEF HoldsRightly
  <2>2. j \in 1..lastId' /\ Settled(j)'
    BY <1>1, <2>1, SettledStep
  <2> QED BY <2>2 DEF Settled
<1>7. LockedRowsRun'
  BY <1>1, <1>5, LockedRowsStep
<1> QED BY <1>2, <1>3, <1>4, <1>5, <1>6, <1>7 DEF IInv, TypeOK

THEOREM InductiveInvariant == Spec => []IInv
BY InitIInv, NextIInv, PTL DEF Spec

(* Every variable keeps its type, for every number of cities, workers,     *)
(* admins, rows and crashes.                                               *)
THEOREM TypeCorrect == Spec => []TypeOK
<1>1. IInv => TypeOK BY DEF IInv
<1> QED BY <1>1, InductiveInvariant, PTL

(* However many workers and admins race, at most one row of a city is      *)
(* queued or running.                                                      *)
THEOREM OneActiveRow == Spec => []OneActivePerCity
<1>1. IInv => OneActivePerCity
  <2> SUFFICES ASSUME IInv, NEW c \in Cities PROVE Cardinality(ActiveJobs(c)) <= 1
    BY DEF OneActivePerCity
  <2>1. CASE ActiveJobs(c) = {}
    BY <2>1, FS_EmptySet
  <2>2. ASSUME NEW j \in ActiveJobs(c) PROVE Cardinality(ActiveJobs(c)) <= 1
    <3>1. ActiveJobs(c) = {j} BY <2>2 DEF IInv, ActiveRowIsUnique
    <3> QED BY <3>1, FS_Singleton
  <2> QED BY <2>1, <2>2
<1> QED BY <1>1, InductiveInvariant, PTL

(* A row without a verdict is active, unfinished, and signed exactly when  *)
(* a worker has claimed it.                                                *)
THEOREM OpenRows == Spec => []OpenRowsAreActive
<1>1. IInv => OpenRowsAreActive
  BY DEF IInv, OpenMeansActive, OpenMeansSigned, OpenRowsAreActive
<1> QED BY <1>1, InductiveInvariant, PTL

-----------------------------------------------------------------------------
(* Retry chains. *)

(* A retry is linked to the newest row of its city, so nothing continues    *)
(* that row yet; later steps change neither the links nor a verdict.        *)
LEMMA RetryChainsStep ==
    ASSUME IInv, RetryChainsAreLinear, TableStep
    PROVE  RetryChainsAreLinear'
<1> USE BoundsAssumption
<1>0. /\ IdsAreDense /\ OpenMeansActive /\ lastId \in 0..MaxJobs
      /\ rows \in [JobId -> Row]
      /\ \A k \in JobId : rows[k].prev \in 0..MaxJobs
  BY DEF IInv, TypeOK, Row
<1> SUFFICES ASSUME NEW j \in JobId, rows'[j].prev # 0
             PROVE  LET r == rows'[j] IN
                    /\ r.prev < j
                    /\ rows'[r.prev].city = r.city
                    /\ rows'[r.prev].verdict \in TERMINAL_STATUSES
                    /\ r.retry = rows'[r.prev].retry + 1
                    /\ \A k \in JobId : rows'[k].prev = r.prev => k = j
  BY DEF RetryChainsAreLinear
<1> DEFINE p == rows'[j].prev
<1>1. ASSUME \A k \in JobId : /\ rows'[k].prev = rows[k].prev /\ rows'[k].city = rows[k].city
                              /\ rows'[k].retry = rows[k].retry
                              /\ rows[k].verdict \in TERMINAL_STATUSES => rows'[k].verdict = rows[k].verdict
      PROVE  /\ p < j
             /\ rows'[p].city = rows'[j].city
             /\ rows'[p].verdict \in TERMINAL_STATUSES
             /\ rows'[j].retry = rows'[p].retry + 1
             /\ \A k \in JobId : rows'[k].prev = p => k = j
  <2>1. p = rows[j].prev /\ p \in JobId
    BY <1>0, <1>1 DEF JobId
  <2>2. /\ p < j /\ rows[p].city = rows[j].city /\ rows[p].verdict \in TERMINAL_STATUSES
        /\ rows[j].retry = rows[p].retry + 1 /\ \A k \in JobId : rows[k].prev = p => k = j
    BY <2>1 DEF RetryChainsAreLinear
  <2> HIDE DEF p
  <2> QED BY <1>1, <2>1, <2>2
<1>2. CASE Touches
  <2>1. \A k \in JobId : /\ rows'[k].prev = rows[k].prev /\ rows'[k].city = rows[k].city
                         /\ rows'[k].retry = rows[k].retry /\ rows'[k].verdict = rows[k].verdict
    BY <1>2 DEF Touches
  <2> QED BY <1>1, <2>1
<1>3. CASE Closes
  <2>1. PICK i \in JobId :
          /\ rows[i].status \in ActiveStatuses /\ ~rows[i].finished
          /\ rows'[i].city = rows[i].city /\ rows'[i].retry = rows[i].retry
          /\ rows'[i].prev = rows[i].prev
          /\ \A k \in JobId \ {i} : rows'[k] = rows[k]
    BY <1>3 DEF Closes
  <2>2. rows[i].verdict \notin TERMINAL_STATUSES
    BY <1>0, <2>1 DEF OpenMeansActive, TERMINAL_STATUSES
  <2> QED BY <1>1, <2>1, <2>2
<1>4. CASE Claims
  <2>1. PICK i \in 1..lastId :
          /\ rows'[i].city = rows[i].city /\ rows'[i].retry = rows[i].retry
          /\ rows'[i].prev = rows[i].prev /\ rows'[i].verdict = rows[i].verdict
          /\ \A k \in JobId \ {i} : rows'[k] = rows[k]
    BY <1>4 DEF Claims
  <2> QED BY <1>1, <2>1
<1>5. CASE Inserts
  <2> DEFINE n == lastId + 1
  <2>1. /\ n \in JobId /\ n = lastId' /\ ~(n <= lastId)
        /\ \A k \in JobId \ {n} : rows'[k] = rows[k]
    BY <1>0, <1>5 DEF Inserts
  <2>2. \A k \in JobId : rows[k].prev # 0 => rows[k].prev \in JobId /\ rows[k].prev < n /\ k # n
    <3> SUFFICES ASSUME NEW k \in JobId, rows[k].prev # 0
                 PROVE  rows[k].prev \in JobId /\ rows[k].prev < n /\ k # n
      OBVIOUS
    <3>1. rows[k].prev \in JobId BY <1>0 DEF JobId
    <3>2. rows[rows[k].prev].verdict \in TERMINAL_STATUSES /\ rows[rows[k].prev].city = rows[k].city
          /\ rows[k].prev < k
      BY DEF RetryChainsAreLinear
    <3>3. rows[k].prev <= lastId
      BY <1>0, <3>1, <3>2 DEF IdsAreDense, TERMINAL_STATUSES
    <3>4. rows[k].city \in Cities
      BY <1>0, <3>1, <3>2, <3>3 DEF IdsAreDense
    <3>5. k <= lastId
      BY <1>0, <3>4, NoneAssumption DEF IdsAreDense
    <3> QED BY <1>0, <3>1, <3>3, <3>5 DEF JobId
  <2>3. CASE j # n
    <3>1. p = rows[j].prev /\ p \in JobId /\ p # n /\ rows'[j] = rows[j] /\ rows'[p] = rows[p]
      BY <1>0, <2>1, <2>2, <2>3 DEF JobId
    <3>2. /\ p < j /\ rows[p].city = rows[j].city /\ rows[p].verdict \in TERMINAL_STATUSES
          /\ rows[j].retry = rows[p].retry + 1 /\ \A k \in JobId : rows[k].prev = p => k = j
      BY <3>1 DEF RetryChainsAreLinear
    <3>3. rows'[n].prev # p
      <4> SUFFICES ASSUME rows'[n].prev = p PROVE FALSE
        OBVIOUS
      <4>1. IsLatest(rows'[n].city, p)
        BY <1>0, <1>5, <2>1, <3>1 DEF Inserts, JobId
      <4>2. rows[p].city = rows'[n].city /\ \A k \in JobId : rows[k].city = rows'[n].city => k <= p
        BY <3>1, <4>1 DEF IsLatest, JobId
      <4>3. j <= p
        BY <3>2, <4>2
      <4> HIDE DEF p, n
      <4> QED BY <3>1, <3>2, <4>3 DEF JobId
    <3> HIDE DEF p
    <3> QED BY <2>1, <3>1, <3>2, <3>3
  <2>4. CASE j = n
    <3>1. /\ rows'[n].status = "queued" /\ ActiveJobs(rows'[n].city) = {}
          /\ IsLatest(rows'[n].city, p) /\ rows'[n].retry = rows[p].retry + 1
          /\ rows'[n].city \in Cities
      BY <1>5, <2>1, <2>4 DEF Inserts
    <3>2. p \in JobId /\ rows[p].city = rows'[n].city
          /\ \A k \in JobId : rows[k].city = rows'[n].city => k <= p
      BY <2>4, <3>1 DEF IsLatest
    <3>3. p <= lastId /\ rows[p].verdict # "unused"
      BY <1>0, <3>1, <3>2, NoneAssumption DEF IdsAreDense
    <3>4. rows[p].verdict # "open"
      BY <1>0, <3>1, <3>2 DEF OpenMeansActive, ActiveJobs
    <3>5. rows[p].verdict \in TERMINAL_STATUSES
      BY <1>0, <3>2, <3>3, <3>4 DEF Row
    <3>6. p # n /\ rows'[p] = rows[p] /\ p < n
      BY <1>0, <2>1, <3>2, <3>3 DEF JobId
    <3>7. ASSUME NEW k \in JobId \ {n} PROVE rows'[k].prev # p
      <4> SUFFICES ASSUME rows[k].prev = p PROVE FALSE
        BY <2>1
      <4>1. p < k /\ rows[p].city = rows[k].city
        BY <3>2 DEF RetryChainsAreLinear, JobId
      <4> QED BY <3>2, <4>1 DEF JobId
    <3> HIDE DEF p, n
    <3>8. /\ p < j /\ rows'[p].city = rows'[j].city /\ rows'[p].verdict \in TERMINAL_STATUSES
          /\ rows'[j].retry = rows'[p].retry + 1 /\ \A k \in JobId : rows'[k].prev = p => k = j
      BY <2>4, <3>1, <3>2, <3>5, <3>6, <3>7
    <3> QED BY <3>8 DEF p
  <2> QED BY <2>3, <2>4
<1> HIDE DEF p
<1> QED BY <1>2, <1>3, <1>4, <1>5 DEF TableStep, p

(* No attempt is continued twice, whatever is cancelled, stalled or         *)
(* inserted between two retries.                                            *)
THEOREM RetriesAreChains == Spec => []RetryChainsAreLinear
<1>1. Init => RetryChainsAreLinear
  BY DEF Init, RetryChainsAreLinear, NoRow
<1>2. IInv /\ RetryChainsAreLinear /\ [Next]_vars => RetryChainsAreLinear'
  BY NextTableStep, RetryChainsStep
<1> QED BY <1>1, <1>2, InductiveInvariant, PTL DEF Spec

-----------------------------------------------------------------------------
(* The failed launch of a city. *)

HasStalled(c) == \E j \in JobId : rows[j].city = c /\ rows[j].verdict = "stalled"

(* A launch status that a run remembers was once shown. *)
FailuresAreRemembered ==
    \A w \in Workers : mem[w].orig = "import_failed" =>
        /\ pc[w] \in {"running", "reviewing", "emptying"}
        /\ HasStalled(rows[job[w]].city)

(* An administrative stall names the city of its row. *)
StallsNameTheirCity ==
    \A a \in Admins : admin[a].op = "stall" => admin[a].city = rows[admin[a].job].city

LaunchInv == FailedLaunchHasStalledJob /\ FailuresAreRemembered /\ StallsNameTheirCity

(* What the steps of the table mean for cities and stalled verdicts.        *)
LEMMA StalledStays ==
    ASSUME IInv, TableStep
    PROVE  /\ \A j \in 1..lastId : rows'[j].city = rows[j].city
           /\ \A c \in Cities : HasStalled(c) => HasStalled(c)'
<1> USE BoundsAssumption, NoneAssumption
<1>0. /\ IdsAreDense /\ OpenMeansActive /\ lastId \in 0..MaxJobs
      /\ 1..lastId \subseteq JobId
  BY DEF IInv, TypeOK, JobId
<1>1. \A j \in 1..lastId : /\ rows'[j].city = rows[j].city
                           /\ rows[j].verdict = "stalled" => rows'[j].verdict = "stalled"
  <2>1. CASE Touches
    BY <1>0, <2>1 DEF Touches
  <2>2. CASE Closes
    <3>1. PICK i \in JobId :
            /\ rows[i].status \in ActiveStatuses /\ ~rows[i].finished
            /\ rows'[i].city = rows[i].city
            /\ \A k \in JobId \ {i} : rows'[k] = rows[k]
      BY <2>2 DEF Closes
    <3>2. rows[i].verdict = "open"
      BY <1>0, <3>1 DEF OpenMeansActive
    <3> QED BY <1>0, <3>1, <3>2
  <2>3. CASE Inserts
    <3>1. \A k \in JobId \ {lastId + 1} : rows'[k] = rows[k]
      BY <2>3 DEF Inserts
    <3> QED BY <1>0, <3>1
  <2>4. CASE Claims
    BY <1>0, <2>4 DEF Claims
  <2> QED BY <2>1, <2>2, <2>3, <2>4 DEF TableStep
<1>2. ASSUME NEW c \in Cities, HasStalled(c) PROVE HasStalled(c)'
  <2>1. PICK j \in JobId : rows[j].city = c /\ rows[j].verdict = "stalled"
    BY <1>2 DEF HasStalled
  <2>2. j \in 1..lastId
    BY <1>0, <2>1 DEF IdsAreDense, JobId
  <2> QED BY <1>1, <2>1, <2>2 DEF HasStalled
<1> QED BY <1>1, <1>2

(* A stalled verdict that lands makes its city one with a stalled attempt.  *)
LEMMA StalledLands ==
    ASSUME TypeOK, NEW j \in JobId, Finalize(j, "stalled", None, "error"),
           Accepts(j, "stalled", None), lastId' = lastId
    PROVE  rows'[j].city = rows[j].city /\ HasStalled(rows[j].city)'
<1>1. /\ rows' = Given(j, "stalled", "error") /\ Released(j)
      /\ rows[j].status \in ActiveStatuses /\ ~rows[j].finished
      /\ "stalled" \in TERMINAL_STATUSES /\ "error" \in Steps
  BY DEF Finalize, Released, Unlocked, Accepts, FinalizeFrom, ActiveStatuses, TERMINAL_STATUSES,
         Steps, TERMINAL_STEPS
<1> QED BY <1>1, GivenStep DEF HasStalled

(* The eight actions that may write a launch_status. *)
LEMMA LaunchWriters ==
    ASSUME [Next]_vars
    PROVE  \/ UNCHANGED launch
           \/ \E c \in Cities : CreateCity(c) \/ Publish(c) \/ Unpublish(c)
           \/ \E a \in Admins : StallApply(a)
           \/ \E w \in Workers : SweepMark(w)
           \/ \E w \in Workers : ReviewCommit(w) \/ EmptyCommit(w) \/ Finish(w)
<1> DEFINE Goal ==
        \/ UNCHANGED launch
        \/ \E c \in Cities : CreateCity(c) \/ Publish(c) \/ Unpublish(c)
        \/ \E a \in Admins : StallApply(a)
        \/ \E w \in Workers : SweepMark(w)
        \/ \E w \in Workers : ReviewCommit(w) \/ EmptyCommit(w) \/ Finish(w)
<1>1. CASE AdminStep
  BY <1>1 DEF AdminStep, Enqueue, CancelRequest, CancelApply, StallRequest, SnapshotRequest,
              SnapshotUpdate, SnapshotInsert
<1>2. ASSUME NEW w \in Workers, WorkerStep(w) PROVE Goal
  <2>1. CASE \/ SweepRead(w) \/ NothingQueued(w) \/ SafeModeSkip(w)
             \/ \E j \in JobId : SweepLock(w, j) \/ Select(w, j)
             \/ Claim(w) \/ ClaimConflict(w) \/ Load(w) \/ LoadRefused(w)
    BY <2>1 DEF SweepRead, NothingQueued, SafeModeSkip, SweepLock, Select, Claim, ClaimConflict,
                Load, LoadRefused
  <2>2. CASE \/ Start(w) \/ FinishShort(w) \/ WorkerException(w) \/ ReviewCheck(w)
             \/ EmptyImport(w) \/ ReadCity(w) \/ Fail(w)
    BY <2>2 DEF Start, FinishShort, WorkerException, ReviewCheck, EmptyImport, ReadCity, Fail
  <2>3. CASE SweepMark(w) \/ ReviewCommit(w) \/ EmptyCommit(w) \/ Finish(w)
    BY <2>3
  <2> HIDE DEF Goal
  <2> QED BY <1>2, <2>1, <2>2, <2>3 DEF WorkerStep
<1>3. ASSUME NEW w \in Workers, Heartbeat(w) \/ Crash(w) PROVE Goal
  BY <1>3 DEF Heartbeat, Crash
<1>4. CASE (\E j \in JobId : Quiet(j) \/ Age(j)) \/ UNCHANGED vars
  BY <1>4 DEF Quiet, Age, vars
<1> HIDE DEF Goal
<1>5. Goal BY <1>1, <1>2, <1>3, <1>4 DEF Next, Goal
<1> QED BY <1>5 DEF Goal

(* Whoever writes import_failed has just given a stalled verdict, or puts   *)
(* back what it found.                                                      *)
FailsRightly ==
    \/ launch' = launch
    \/ \E c \in Cities, x \in LaunchStatuses :
          /\ launch' = [launch EXCEPT ![c] = x]
          /\ x = "import_failed" => HasStalled(c) \/ HasStalled(c)'

LEMMA LaunchWrites ==
    ASSUME IInv, LaunchInv, [Next]_vars
    PROVE  FailsRightly
<1>0. /\ TypeOK
      /\ {"importing", "import_failed", "review_required", "published", "unpublished"} \subseteq LaunchStatuses
  BY DEF IInv, LaunchStatuses
<1>g. ASSUME NEW c \in Cities, NEW h, NEW x \in LaunchStatuses,
             launch' = GuardedWrite(c, h, x), x = "import_failed" => HasStalled(c) \/ HasStalled(c)'
      PROVE  FailsRightly
  BY <1>g DEF GuardedWrite, FailsRightly
<1>1. CASE UNCHANGED launch
  BY <1>1 DEF FailsRightly
<1>2. ASSUME NEW c \in Cities, CreateCity(c) \/ Publish(c) \/ Unpublish(c)
      PROVE  FailsRightly
  BY <1>0, <1>2 DEF CreateCity, Publish, Unpublish, FailsRightly
<1>3. ASSUME NEW a \in Admins, StallApply(a)
      PROVE  FailsRightly
  <2> DEFINE j == admin[a].job
  <2>1. j \in 1..lastId /\ j \in JobId /\ admin[a].city = rows[j].city /\ rows[j].city \in Cities
    BY <1>3, BoundsAssumption
       DEF StallApply, IInv, LaunchInv, StallsNameTheirCity, RequestsNameRows, IdsAreDense, TypeOK, JobId
  <2>2. CASE Accepts(j, "stalled", None)
    BY <1>0, <1>3, <1>g, <2>1, <2>2, StalledLands DEF StallApply
  <2>3. CASE ~Accepts(j, "stalled", None)
    BY <1>1, <1>3, <2>3 DEF StallApply
  <2> QED BY <2>2, <2>3
<1>4. ASSUME NEW w \in Workers, SweepMark(w)
      PROVE  FailsRightly
  <2>1. PICK c \in Cities : c = rows[job[w]].city
    BY <1>4, MarkStep
  <2>2. job[w] \in JobId /\ rows'[job[w]].city = c /\ rows'[job[w]].verdict = "stalled"
    BY <1>4, <2>1, MarkStep
  <2>3. HasStalled(c)'
    BY <2>2 DEF HasStalled
  <2>4. launch' = launch \/ launch' = [launch EXCEPT ![c] = "import_failed"]
    BY <1>4, <2>1 DEF SweepMark
  <2> QED BY <1>0, <2>3, <2>4 DEF FailsRightly
<1>5. ASSUME NEW w \in Workers, ReviewCommit(w) \/ EmptyCommit(w) \/ Finish(w)
      PROVE  FailsRightly
  <2>0. pc[w] \notin {"idle", "sweeping"}
    BY <1>5 DEF ReviewCommit, EmptyCommit, Finish
  <2>1. job[w] \in 1..lastId /\ job[w] \in JobId
    BY <2>0, HeldJob DEF IInv, HeldRowsExist
  <2>2. rows[job[w]].city \in Cities
    BY <2>1 DEF IInv, IdsAreDense
  <2>3. mem[w].orig \in LaunchStatuses
        /\ (mem[w].orig = "import_failed" => HasStalled(rows[job[w]].city))
    BY <1>0 DEF TypeOK, Memory, LaunchInv, FailuresAreRemembered
  <2>4. CASE ReviewCommit(w)
    BY <1>0, <1>g, <2>2, <2>3, <2>4 DEF ReviewCommit
  <2>5. CASE EmptyCommit(w)
    BY <1>0, <1>g, <2>2, <2>3, <2>5 DEF EmptyCommit
  <2>6. CASE Finish(w)
    BY <1>0, <1>1, <1>g, <2>2, <2>6 DEF Finish
  <2> QED BY <1>5, <2>4, <2>5, <2>6
<1> QED BY <1>1, <1>2, <1>3, <1>4, <1>5, LaunchWriters

(* A worker remembers a failed launch only of the city of the row it runs.  *)
LEMMA WorkerRemembers ==
    ASSUME IInv, LaunchInv, NEW w \in Workers, WorkerStep(w) \/ Heartbeat(w) \/ Crash(w)
    PROVE  /\ mem'[w].orig = "import_failed" =>
                 /\ pc'[w] \in {"running", "reviewing", "emptying"} /\ job'[w] = job[w]
                 /\ job[w] \in 1..lastId /\ HasStalled(rows[job[w]].city)
           /\ \A v \in Workers \ {w} : pc'[v] = pc[v] /\ job'[v] = job[v] /\ mem'[v] = mem[v]
<1> DEFINE Goal ==
        /\ mem'[w].orig = "import_failed" =>
              /\ pc'[w] \in {"running", "reviewing", "emptying"} /\ job'[w] = job[w]
              /\ job[w] \in 1..lastId /\ HasStalled(rows[job[w]].city)
        /\ \A v \in Workers \ {w} : pc'[v] = pc[v] /\ job'[v] = job[v] /\ mem'[v] = mem[v]
<1> SUFFICES Goal
  OBVIOUS
<1>0. /\ pc \in [Workers -> Phases] /\ job \in [Workers -> 0..MaxJobs]
      /\ mem \in [Workers -> Memory] /\ mem[w] \in Memory
      /\ pc[w] \notin {"idle", "sweeping"} => job[w] \in 1..lastId /\ rows[job[w]].city \in Cities
  BY BoundsAssumption DEF IInv, TypeOK, HeldRowsExist, IdsAreDense, JobId
<1>f. mem[w].orig = "import_failed" =>
        pc[w] \in {"running", "reviewing", "emptying"} /\ HasStalled(rows[job[w]].city)
  BY DEF LaunchInv, FailuresAreRemembered
<1>r. ASSUME Rest(w) PROVE Goal
  BY <1>0, <1>r DEF Rest, Blank
<1>m. ASSUME NEW t \in Memory, mem' = [mem EXCEPT ![w] = t], UNCHANGED job,
             NEW p, pc' = [pc EXCEPT ![w] = p],
             t.orig = "import_failed" => /\ p \in {"running", "reviewing", "emptying"}
                                         /\ pc[w] \notin {"idle", "sweeping"}
                                         /\ HasStalled(rows[job[w]].city)
      PROVE  Goal
  BY <1>0, <1>m
<1>1. CASE NothingQueued(w) \/ SafeModeSkip(w) \/ ClaimConflict(w) \/ LoadRefused(w)
           \/ FinishShort(w) \/ WorkerException(w) \/ Finish(w) \/ Fail(w) \/ Crash(w)
  BY <1>1, <1>r DEF NothingQueued, SafeModeSkip, ClaimConflict, LoadRefused,
                    FinishShort, WorkerException, Finish, Fail, Crash
<1>2. CASE Heartbeat(w)
  BY <1>0, <1>f, <1>2 DEF Heartbeat, workerVars
<1>3. CASE SweepMark(w) \/ \E j \in JobId : SweepLock(w, j)
  <2>1. mem[w].orig # "import_failed"
    BY <1>3, <1>f DEF SweepMark, SweepLock
  <2>2. mem'[w].orig = mem[w].orig
    <3>1. CASE SweepMark(w) BY <1>0, <3>1 DEF SweepMark, Memory
    <3>2. ASSUME NEW j \in JobId, SweepLock(w, j) PROVE mem'[w].orig = mem[w].orig
      BY <1>0, <3>2 DEF SweepLock, Memory
    <3> QED BY <1>3, <3>1, <3>2
  <2>3. \A v \in Workers \ {w} : pc'[v] = pc[v] /\ job'[v] = job[v] /\ mem'[v] = mem[v]
    BY <1>0, <1>3 DEF SweepMark, SweepLock, Jump
  <2> QED BY <2>1, <2>2, <2>3
<1>4. CASE SweepRead(w) \/ (\E j \in JobId : Select(w, j)) \/ Claim(w) \/ Load(w) \/ ReadCity(w)
  <2>1. mem[w].orig # "import_failed"
    BY <1>4, <1>f DEF SweepRead, Select, Claim, Load, ReadCity
  <2>2. mem'[w].orig = mem[w].orig
    BY <1>0, <1>4 DEF SweepRead, Select, Claim, Load, ReadCity, Memory
  <2> QED BY <1>0, <1>4, <2>1, <2>2 DEF SweepRead, Select, Claim, Load, ReadCity, Jump
<1>5. CASE Start(w)
  <2> DEFINE x == IF rows[job[w]].source = "full" THEN launch[rows[job[w]].city] ELSE "absent"
  <2>1. pc[w] = "loaded" /\ mem'[w].orig = x
    BY <1>0, <1>5 DEF Start, Memory
  <2>2. x = "import_failed" => HasStalled(rows[job[w]].city)
    BY <1>0, <2>1 DEF LaunchInv, FailedLaunchHasStalledJob, HasStalled
  <2> QED BY <1>0, <1>5, <2>1, <2>2 DEF Start, Jump
<1>6. CASE ReviewCommit(w) \/ EmptyCommit(w)
  <2>1. mem'[w].orig = "absent"
    BY <1>0, <1>6 DEF ReviewCommit, EmptyCommit, Memory
  <2> QED BY <1>0, <1>6, <2>1 DEF ReviewCommit, EmptyCommit, Jump
<1>7. CASE ReviewCheck(w) \/ EmptyImport(w)
  <2>1. \/ mem'[w].orig = "absent"
        \/ mem'[w].orig = mem[w].orig /\ pc'[w] \in {"reviewing", "emptying"} /\ job'[w] = job[w]
    BY <1>0, <1>7 DEF ReviewCheck, EmptyImport, Memory, Jump
  <2> QED BY <1>0, <1>f, <1>7, <2>1 DEF ReviewCheck, EmptyImport, Jump
<1> HIDE DEF Goal
<1>8. CASE \E j \in JobId : SweepLock(w, j) \/ Select(w, j)
  BY <1>3, <1>4, <1>8
<1> QED BY <1>1, <1>2, <1>3, <1>4, <1>5, <1>6, <1>7, <1>8 DEF WorkerStep

LEMMA RememberedStep ==
    ASSUME IInv, LaunchInv, [Next]_vars
    PROVE  FailuresAreRemembered'
<1> USE BoundsAssumption
<1>0. \A v \in Workers : pc[v] \notin {"idle", "sweeping"} => job[v] \in 1..lastId
  BY DEF IInv, HeldRowsExist
<1>1. /\ \A j \in 1..lastId : rows'[j].city = rows[j].city /\ rows[j].city \in Cities
      /\ \A c \in Cities : HasStalled(c) => HasStalled(c)'
  <2>1. lastId \in 0..MaxJobs /\ IdsAreDense BY DEF IInv, TypeOK
  <2> QED BY <2>1, NextTableStep, StalledStays DEF IdsAreDense, JobId
<1>2. ASSUME NEW v \in Workers, mem'[v] = mem[v], pc'[v] = pc[v], job'[v] = job[v],
             mem'[v].orig = "import_failed"
      PROVE  pc'[v] \in {"running", "reviewing", "emptying"} /\ HasStalled(rows[job[v]].city)'
  <2>1. pc[v] \in {"running", "reviewing", "emptying"} /\ HasStalled(rows[job[v]].city) /\ job[v] \in 1..lastId
    BY <1>0, <1>2 DEF LaunchInv, FailuresAreRemembered
  <2> QED BY <1>1, <1>2, <2>1
<1>3. ASSUME NEW w \in Workers, WorkerStep(w) \/ Heartbeat(w) \/ Crash(w)
      PROVE  FailuresAreRemembered'
  <2>1. mem'[w].orig = "import_failed" =>
           pc'[w] \in {"running", "reviewing", "emptying"} /\ HasStalled(rows[job[w]].city)'
    BY <1>1, <1>3, WorkerRemembers
  <2>2. \A v \in Workers \ {w} : pc'[v] = pc[v] /\ job'[v] = job[v] /\ mem'[v] = mem[v]
    BY <1>3, WorkerRemembers
  <2> QED BY <1>2, <2>1, <2>2 DEF FailuresAreRemembered
<1>4. CASE UNCHANGED workerVars
  BY <1>2, <1>4 DEF workerVars, FailuresAreRemembered
<1> QED BY <1>3, <1>4
    DEF Next, AdminStep, vars, workerVars, CreateCity, Publish, Unpublish, Enqueue, CancelRequest,
        SnapshotRequest, StallRequest, CancelApply, StallApply, SnapshotUpdate, SnapshotInsert,
        Quiet, Age

LEMMA StallsStep ==
    ASSUME IInv, LaunchInv, [Next]_vars
    PROVE  StallsNameTheirCity'
<1> USE BoundsAssumption
<1>0. /\ admin \in [Admins -> Request] /\ rows \in [JobId -> Row] /\ lastId \in 0..MaxJobs
      /\ IdsAreDense /\ RequestsNameRows /\ StallsNameTheirCity
  BY DEF IInv, TypeOK, LaunchInv
<1>1. \A j \in 1..lastId : rows'[j].city = rows[j].city
  BY NextTableStep, StalledStays
<1>2. ASSUME NEW a \in Admins, admin[a].op = "stall", admin'[a] = admin[a]
      PROVE  admin'[a].city = rows'[admin'[a].job].city
  BY <1>0, <1>1, <1>2 DEF RequestsNameRows, StallsNameTheirCity
<1>3. CASE UNCHANGED admin
  BY <1>2, <1>3 DEF StallsNameTheirCity
<1>4. ASSUME NEW a \in Admins, NEW q, admin' = [admin EXCEPT ![a] = q],
             q.op = "stall" => q.city = rows'[q.job].city
      PROVE  StallsNameTheirCity'
  BY <1>0, <1>2, <1>4 DEF StallsNameTheirCity
<1>5. ASSUME NEW a \in Admins, NEW j \in JobId, StallRequest(a, j)
      PROVE  StallsNameTheirCity'
  <2>1. j \in 1..lastId
    BY <1>0, <1>5 DEF StallRequest, IdsAreDense, JobId
  <2>2. rows[j].city = rows'[j].city
    BY <1>1, <2>1
  <2> QED BY <1>4, <1>5, <2>2 DEF StallRequest, Ask
<1>6. ASSUME NEW a \in Admins, NEW c \in Cities, CancelRequest(a, c) \/ SnapshotRequest(a, c)
      PROVE  StallsNameTheirCity'
  BY <1>4, <1>6 DEF CancelRequest, SnapshotRequest, Ask
<1>7. ASSUME NEW a \in Admins,
             CancelApply(a) \/ StallApply(a) \/ SnapshotUpdate(a) \/ SnapshotInsert(a)
      PROVE  StallsNameTheirCity'
  BY <1>4, <1>7 DEF CancelApply, StallApply, SnapshotUpdate, SnapshotInsert, NoRequest
<1>8. CASE \E w \in Workers : WorkerStep(w) \/ Heartbeat(w) \/ Crash(w)
  BY <1>3, <1>8, WorkerMemoryStep
<1> QED BY <1>3, <1>5, <1>6, <1>7, <1>8
    DEF Next, AdminStep, vars, CreateCity, Publish, Unpublish, Enqueue, Quiet, Age

LEMMA LaunchInvStep ==
    ASSUME IInv, LaunchInv, [Next]_vars
    PROVE  LaunchInv'
<1>0. launch \in [Cities -> LaunchStatuses]
  BY DEF IInv, TypeOK
<1>1. \A c \in Cities : HasStalled(c) => HasStalled(c)'
  BY NextTableStep, StalledStays
<1>2. \A c \in Cities : launch[c] = "import_failed" => HasStalled(c)
  BY DEF LaunchInv, FailedLaunchHasStalledJob, HasStalled
<1>3. \A c \in Cities : launch'[c] = "import_failed" => HasStalled(c)'
  BY <1>0, <1>1, <1>2, LaunchWrites DEF FailsRightly
<1>4. FailedLaunchHasStalledJob'
  BY <1>3 DEF FailedLaunchHasStalledJob, HasStalled
<1> QED BY <1>4, RememberedStep, StallsStep DEF LaunchInv

LEMMA LaunchInvariant == Spec => []LaunchInv
<1>1. Init => LaunchInv
  BY DEF Init, LaunchInv, FailedLaunchHasStalledJob, FailuresAreRemembered, StallsNameTheirCity,
         Blank, NoRequest
<1>2. IInv /\ LaunchInv /\ [Next]_vars => LaunchInv'
  BY LaunchInvStep
<1> QED BY <1>1, <1>2, InductiveInvariant, PTL DEF Spec

(* A city shows a failed import only beside an attempt that was stalled,    *)
(* whoever sweeps, finalizes or puts a launch status back.                  *)
THEOREM FailuresHaveStalls == Spec => []FailedLaunchHasStalledJob
<1>1. LaunchInv => FailedLaunchHasStalledJob
  BY DEF LaunchInv
<1> QED BY <1>1, LaunchInvariant, PTL

-----------------------------------------------------------------------------
(* Who moves a city out of the public, and who puts it there. *)

(* The guard of the set listener: a write through it takes a city out of    *)
(* the public only in a session that holds it unpublished.                  *)
LEMMA GuardHolds ==
    ASSUME TypeOK, NEW c \in Cities, NEW d \in Cities, NEW h, NEW x,
           launch' = GuardedWrite(d, h, x)
    PROVE  /\ launch[c] = "published" /\ launch'[c] # "published" => d = c /\ h # "published"
           /\ launch[c] # "published" /\ launch'[c] = "published" => d = c /\ x = "published"
BY DEF TypeOK, GuardedWrite

LEMMA PublicMoves ==
    ASSUME IInv, LaunchInv, [Next]_vars, NEW c \in Cities
    PROVE  /\ launch[c] = "published" /\ launch'[c] # "published" => Unpublish(c) \/ WritesUnawares(c)
           /\ launch[c] # "published" /\ launch'[c] = "published" => Publish(c) \/ PutsBack(c)
<1> DEFINE Goal ==
        /\ launch[c] = "published" /\ launch'[c] # "published" => Unpublish(c) \/ WritesUnawares(c)
        /\ launch[c] # "published" /\ launch'[c] = "published" => Publish(c) \/ PutsBack(c)
<1> SUFFICES Goal OBVIOUS
<1>0. TypeOK BY DEF IInv
<1>1. CASE UNCHANGED launch
    BY <1>1
<1>2. ASSUME NEW d \in Cities, CreateCity(d) \/ Publish(d) \/ Unpublish(d) PROVE Goal
    <2>1. CASE d = c BY <1>0, <1>2, <2>1 DEF CreateCity, Publish, Unpublish, TypeOK
    <2>2. CASE d # c BY <1>0, <1>2, <2>2 DEF CreateCity, Publish, Unpublish, TypeOK
    <2> QED BY <2>1, <2>2
<1>3. ASSUME NEW a \in Admins, StallApply(a) PROVE Goal
    <2>1. CASE Accepts(admin[a].job, "stalled", None)
        <3>1. /\ launch' = GuardedWrite(admin[a].city, admin[a].held, "import_failed")
              /\ admin[a].op = "stall" /\ admin'[a] # admin[a]
            BY <1>0, <1>3, <2>1 DEF StallApply, NoRequest, TypeOK
        <3>2. /\ admin[a].job \in 1..lastId /\ admin[a].job \in JobId
              /\ admin[a].city = rows[admin[a].job].city /\ rows[admin[a].job].city \in Cities
            BY <1>3, BoundsAssumption
               DEF StallApply, IInv, LaunchInv, StallsNameTheirCity, RequestsNameRows, IdsAreDense,
                   TypeOK, JobId
        <3>3. /\ launch[c] = "published" /\ launch'[c] # "published" =>
                    admin[a].city = c /\ admin[a].held # "published"
              /\ launch[c] # "published" /\ launch'[c] = "published" => FALSE
            <4> DEFINE d == admin[a].city
                       h == admin[a].held
            <4>1. d \in Cities /\ launch' = GuardedWrite(d, h, "import_failed")
                BY <3>1, <3>2
            <4> HIDE DEF d, h
            <4> QED BY <1>0, <4>1, GuardHolds DEF d, h
        <3> QED BY <3>1, <3>3 DEF WritesUnawares, StallsFor
    <2>2. CASE ~Accepts(admin[a].job, "stalled", None)
        BY <1>1, <1>3, <2>2 DEF StallApply
    <2> QED BY <2>1, <2>2
<1>4. ASSUME NEW w \in Workers, SweepMark(w) PROVE Goal
    <2> DEFINE d == rows[job[w]].city
    <2>1. d \in Cities /\ pc[w] = "marking" /\ pc'[w] = "sweeping"
        BY <1>0, <1>4, MarkStep DEF SweepMark, Jump, TypeOK
    <2>2. CASE mem[w].copy = "importing"
        <3>1. launch' = [launch EXCEPT ![d] = "import_failed"]
            BY <1>4, <2>2 DEF SweepMark
        <3>2. d = c => WritesUnawares(c)
            BY <2>1, <2>2 DEF WritesUnawares, MovesFor
        <3> HIDE DEF d
        <3> QED BY <1>0, <2>1, <3>1, <3>2 DEF TypeOK
    <2>3. CASE mem[w].copy # "importing"
        BY <1>1, <1>4, <2>3 DEF SweepMark
    <2> QED BY <2>2, <2>3
<1>5. ASSUME NEW w \in Workers, ReviewCommit(w) \/ EmptyCommit(w) \/ Finish(w) PROVE Goal
    <2> DEFINE d == rows[job[w]].city
    <2>1. d \in Cities
        <3>1. pc[w] \notin {"idle", "sweeping"} BY <1>5 DEF ReviewCommit, EmptyCommit, Finish
        <3>2. job[w] \in 1..lastId BY <3>1 DEF IInv, HeldRowsExist
        <3>3. job[w] \in JobId /\ job[w] <= lastId BY <3>2, BoundsAssumption DEF IInv, TypeOK, JobId
        <3> QED BY <3>3 DEF IInv, IdsAreDense
    <2>2. pc'[w] # pc[w]
        BY <1>0, <1>5 DEF ReviewCommit, EmptyCommit, Finish, Jump, Rest, TypeOK
    <2>3. CASE ReviewCommit(w)
        <3> DEFINE x == IF mem[w].orig = "importing" THEN "review_required" ELSE mem[w].orig
        <3>1. launch' = GuardedWrite(d, mem[w].copy, x) /\ pc[w] = "reviewing"
            BY <2>3 DEF ReviewCommit
        <3>2. x = "published" => mem[w].orig = "published" OBVIOUS
        <3> QED BY <1>0, <2>1, <2>2, <3>1, <3>2, GuardHolds DEF WritesUnawares, PutsBack, MovesFor
    <2>4. CASE EmptyCommit(w)
        <3> DEFINE x == mem[w].orig
        <3>1. launch' = GuardedWrite(d, mem[w].copy, x) /\ pc[w] = "emptying"
            BY <2>4 DEF EmptyCommit
        <3> QED BY <1>0, <2>1, <2>2, <3>1, GuardHolds DEF WritesUnawares, PutsBack, MovesFor
    <2>5. CASE Finish(w)
        <3>1. CASE launch' = launch BY <1>1, <3>1
        <3>2. CASE launch' = GuardedWrite(d, mem[w].copy, "review_required")
            <4>1. pc[w] = "closing" BY <2>5 DEF Finish
            <4> QED BY <1>0, <2>1, <2>2, <3>2, <4>1, GuardHolds DEF WritesUnawares, MovesFor
        <3> QED BY <2>5, <3>1, <3>2 DEF Finish
    <2> QED BY <1>5, <2>3, <2>4, <2>5
<1> HIDE DEF Goal
<1> QED BY <1>1, <1>2, <1>3, <1>4, <1>5, LaunchWriters

(* Besides the publish and unpublish endpoints, only a session that loaded  *)
(* a city before its publication takes it out of the public, and only a run *)
(* that found it published puts it there.                                   *)
THEOREM PublicCitiesMoveKnowingly == Spec => OnlyStaleSessionsMovePublicCities
<1>1. IInv /\ LaunchInv /\ [Next]_vars =>
        [\A c \in Cities :
           /\ launch[c] = "published" /\ launch'[c] # "published" => Unpublish(c) \/ WritesUnawares(c)
           /\ launch[c] # "published" /\ launch'[c] = "published" => Publish(c) \/ PutsBack(c)]_vars
    BY PublicMoves
<1> QED BY <1>1, LaunchInvariant, InductiveInvariant, PTL DEF Spec, OnlyStaleSessionsMovePublicCities

-----------------------------------------------------------------------------
(* The refinement of JobLedger. *)

LEMMA LedgerInitMaps == Init => Ledger!LedgerInit
BY DEF Init, Ledger!LedgerInit, NoRow

LEMMA LedgerStepMaps ==
    ASSUME IInv, TableStep
    PROVE  [Ledger!LedgerNext]_(Ledger!ledgerVars)
<1> USE BoundsAssumption
<1> DEFINE city == [j \in JobId |-> rows[j].city]
           verdict == [j \in JobId |-> rows[j].verdict]
<1>0. /\ IdsAreDense /\ OpenMeansActive /\ lastId \in 0..MaxJobs
      /\ rows \in [JobId -> Row]
  BY DEF IInv, TypeOK
<1>1. CASE Touches
  BY <1>1 DEF Touches, Ledger!ledgerVars
<1>2. CASE Closes
  <2>1. PICK j \in JobId :
          /\ rows[j].status \in ActiveStatuses /\ ~rows[j].finished
          /\ rows'[j].status \in TERMINAL_STATUSES /\ rows'[j].verdict = rows'[j].status
          /\ rows'[j].city = rows[j].city
          /\ \A k \in JobId \ {j} : rows'[k] = rows[k]
    BY <1>2 DEF Closes
  <2>2. verdict[j] = "open"
    BY <1>0, <2>1 DEF OpenMeansActive
  <2>v. PICK v \in TERMINAL_STATUSES : v = rows'[j].verdict
    BY <2>1
  <2>3. verdict' = [verdict EXCEPT ![j] = v] /\ city' = city
    BY <2>1, <2>v
  <2>4. Ledger!Close(j, v)
    BY <2>2, <2>3 DEF Ledger!Close
  <2> QED BY <2>1, <2>4 DEF Ledger!LedgerNext
<1>3. CASE Inserts
  <2>1. PICK n \in JobId, c \in Cities, v \in {"open", "success"} :
          /\ c = rows'[n].city /\ v = rows'[n].verdict /\ ~(n <= lastId)
          /\ \A k \in JobId \ {n} : rows'[k] = rows[k]
          /\ v = "open" => ActiveJobs(c) = {}
    BY <1>0, <1>3 DEF Inserts
  <2>2. verdict[n] = "unused"
    BY <1>0, <2>1 DEF IdsAreDense
  <2>3. city' = [city EXCEPT ![n] = c] /\ verdict' = [verdict EXCEPT ![n] = v]
    BY <2>1
  <2>4. CASE v = "open"
    <3>1. \A k \in JobId : rows[k].city = c => rows[k].verdict # "open"
      BY <1>0, <2>1, <2>4 DEF ActiveJobs, OpenMeansActive
    <3>2. Ledger!Open(n, c)
      BY <2>2, <2>3, <2>4, <3>1 DEF Ledger!Open
    <3> QED BY <3>2 DEF Ledger!LedgerNext
  <2>5. CASE v = "success"
    <3>1. Ledger!RecordClosed(n, c)
      BY <2>2, <2>3, <2>5 DEF Ledger!RecordClosed
    <3> QED BY <3>1 DEF Ledger!LedgerNext
  <2> QED BY <2>1, <2>4, <2>5
<1>4. CASE Claims
  <2>1. PICK j \in 1..lastId :
          /\ rows'[j].city = rows[j].city /\ rows'[j].verdict = rows[j].verdict
          /\ \A k \in JobId \ {j} : rows'[k] = rows[k]
    BY <1>4 DEF Claims
  <2> QED BY <2>1 DEF Ledger!ledgerVars
<1> QED BY <1>1, <1>2, <1>3, <1>4 DEF TableStep

(* The table, its workers and its administrators implement the ledger of   *)
(* attempts: an attempt is opened only for a city without an open one and  *)
(* closed once.                                                            *)
THEOREM TableImplementsLedger == Spec => ImplementsLedger
<1>1. IInv /\ [Next]_vars => [Ledger!LedgerNext]_(Ledger!ledgerVars)
  BY NextTableStep, LedgerStepMaps
<1> QED BY <1>1, LedgerInitMaps, InductiveInvariant, PTL DEF Spec, ImplementsLedger, Ledger!Spec
=============================================================================
