------------------------- MODULE BacklogFullRunProofs -------------------------
(***************************************************************************)
(* Theorems about BacklogFullRun for any number of actions, runs, admin    *)
(* connections, stop requests and crashes: the row keeps its type, a stop  *)
(* flag that the row shows is obeyed after at most one more action, and a  *)
(* finished run is reopened only by a writer that loaded it unfinished.    *)
(***************************************************************************)
EXTENDS BacklogFullRun, TLAPS

-----------------------------------------------------------------------------
(* The inductive invariant. *)

(* Runners exist for inserted rows, and are at an action while they mark,   *)
(* apply or record one.                                                     *)
RunnersArePlaced ==
    \A r \in RunId :
        /\ r > lastId => at[r] = "none"
        /\ at[r] \in {"begin", "mark", "applying", "record"} => next[r] \in SAFE_QUEUE_ACTIONS

(* An action that began under the flag is the first such action, and the    *)
(* flag is where the runner will read it next: in the row, or in the copy   *)
(* it is about to write into the row.                                       *)
FlagAwaitsRunner ==
    \A r \in RunId : late[r] # 0 =>
        /\ late[r] = 1
        /\ \/ at[r] \in {"applying", "check"} /\ rows[r].stop
           \/ at[r] = "record" /\ copy[r].stop
           \/ at[r] \in {"halt", "halting"}

IInv == TypeOK /\ RunnersArePlaced /\ FlagAwaitsRunner

-----------------------------------------------------------------------------
(* What is written into a row. *)

LEMMA NoRowType == NoRow \in Row
BY DEF NoRow, Row

(* A copy with one action marked is a row, and keeps what else it shows. *)
LEMMA ActionMarked ==
    ASSUME NEW c \in Row, NEW a \in SAFE_QUEUE_ACTIONS,
           NEW m \in {"pending", "running", "applied", "failed", "stopped"},
           NEW changed, changed = [c EXCEPT !.actions[a] = m]
    PROVE  changed \in Row /\ changed.stop = c.stop /\ changed.status = c.status
<1> DEFINE marked == [c.actions EXCEPT ![a] = m]
<1>1. marked \in [SAFE_QUEUE_ACTIONS -> {"pending", "running", "applied", "failed", "stopped"}]
    BY DEF Row
<1>2. changed = [c EXCEPT !.actions = marked]
    BY DEF Row
<1> HIDE DEF marked
<1> QED BY <1>1, <1>2 DEF Row

(* What mark_step_running writes is a row that runs. *)
LEMMA MarkedType ==
    ASSUME NEW r \in RunId, copy[r] \in Row, next[r] \in SAFE_QUEUE_ACTIONS
    PROVE  Marked(r) \in Row /\ Marked(r).status = "running" /\ Marked(r).stop = copy[r].stop
<1> DEFINE marked == [copy[r].actions EXCEPT ![next[r]] = "running"]
<1>1. marked \in [SAFE_QUEUE_ACTIONS -> {"pending", "running", "applied", "failed", "stopped"}]
    BY DEF Row
<1>2. Marked(r) = [copy[r] EXCEPT !.status = "running", !.actions = marked]
    BY DEF Marked, Row
<1> HIDE DEF marked
<1> QED BY <1>1, <1>2 DEF Row, ACTIVE_STATUSES

(* A flush writes a row, and the flag of the changed copy. *)
LEMMA FlushedType ==
    ASSUME TypeOK, NEW r \in RunId, NEW loaded \in Row, NEW changed \in Row
    PROVE  Flushed(r, loaded, changed) \in Row /\ Flushed(r, loaded, changed).stop = changed.stop
<1>1. rows[r].status \in {"none"} \union ACTIVE_STATUSES \union TERMINAL_STATUSES
    BY DEF TypeOK, Row
<1> QED BY <1>1 DEF Flushed, Row

LEMMA StoppedType ==
    ASSUME NEW row \in Row
    PROVE  Stopped(row) \in Row /\ Stopped(row).stop = TRUE
BY DEF Stopped, Row, ACTIVE_STATUSES, TERMINAL_STATUSES

-----------------------------------------------------------------------------
(* The shapes of a step, as far as the invariant is concerned. *)

(* Rows other than r keep what they are, and so does all about them. *)
RunUpdate(r) ==
    /\ \A k \in RunId \ {r} : /\ rows'[k] = rows[k] /\ at'[k] = at[k] /\ next'[k] = next[k]
                              /\ copy'[k] = copy[k] /\ late'[k] = late[k]
    /\ UNCHANGED lastId

(* It is enough to look at the run that a step is about. *)
LEMMA OneRunAtATime ==
    ASSUME IInv, NEW r \in RunId, RunUpdate(r), lastId >= r,
           at'[r] \in {"begin", "mark", "applying", "record"} => next'[r] \in SAFE_QUEUE_ACTIONS,
           late'[r] # 0 =>
             /\ late'[r] = 1
             /\ \/ at'[r] \in {"applying", "check"} /\ rows'[r].stop
                \/ at'[r] = "record" /\ copy'[r].stop
                \/ at'[r] \in {"halt", "halting"}
    PROVE  RunnersArePlaced' /\ FlagAwaitsRunner'
<1>1. RunnersArePlaced'
    <2> SUFFICES ASSUME NEW k \in RunId
                 PROVE  /\ k > lastId' => at'[k] = "none"
                        /\ at'[k] \in {"begin", "mark", "applying", "record"}
                              => next'[k] \in SAFE_QUEUE_ACTIONS
        BY DEF RunnersArePlaced
    <2>1. CASE k = r BY <2>1 DEF RunUpdate, IInv, TypeOK, RunId
    <2>2. CASE k # r BY <2>2 DEF RunUpdate, IInv, RunnersArePlaced
    <2> QED BY <2>1, <2>2
<1>2. FlagAwaitsRunner'
    <2> SUFFICES ASSUME NEW k \in RunId, late'[k] # 0
                 PROVE  /\ late'[k] = 1
                        /\ \/ at'[k] \in {"applying", "check"} /\ rows'[k].stop
                           \/ at'[k] = "record" /\ copy'[k].stop
                           \/ at'[k] \in {"halt", "halting"}
        BY DEF FlagAwaitsRunner
    <2>1. CASE k = r BY <2>1
    <2>2. CASE k # r BY <2>2 DEF RunUpdate, IInv, FlagAwaitsRunner
    <2> QED BY <2>1, <2>2
<1> QED BY <1>1, <1>2

(* A runner that is somewhere belongs to an inserted row. *)
LEMMA Inserted ==
    ASSUME IInv, NEW r \in RunId, at[r] # "none"
    PROVE  lastId >= r
BY DEF IInv, TypeOK, RunnersArePlaced, RunId

LEMMA EndType ==
    ASSUME IInv, NEW r \in RunId, at[r] # "none", End(r), UNCHANGED lastId,
           rows' \in [RunId -> Row], \A k \in RunId \ {r} : rows'[k] = rows[k],
           UNCHANGED <<admin, stops>>, crashes' \in 0..MaxCrashes
    PROVE  IInv'
<1>1. NoRow \in Row BY NoRowType
<1>2. TypeOK'
    <2>1. /\ at' \in [RunId -> Points] /\ copy' \in [RunId -> Row]
          /\ next' \in [RunId -> 1..(LastAction + 1)]
        BY <1>1, ActionsAssumption DEF IInv, TypeOK, End, Goto, Forget, Points
    <2>2. late' \in [RunId -> Nat]
        BY DEF IInv, TypeOK, End
    <2> QED BY <2>1, <2>2 DEF IInv, TypeOK
<1>3. RunUpdate(r) BY DEF RunUpdate, End, Goto, Forget, IInv, TypeOK
<1>4. at'[r] = "ended" /\ late'[r] = 0 BY DEF End, Goto, IInv, TypeOK
<1>5. lastId >= r BY Inserted
<1> QED BY <1>2, <1>3, <1>4, <1>5, OneRunAtATime DEF IInv

-----------------------------------------------------------------------------
LEMMA InitIInv == Init => IInv
<1> SUFFICES ASSUME Init PROVE IInv OBVIOUS
<1>1. NoRow \in Row BY NoRowType
<1>2. TypeOK BY <1>1, ActionsAssumption, BoundsAssumption DEF Init, TypeOK, Points, Resting
<1>3. RunnersArePlaced /\ FlagAwaitsRunner BY DEF Init, RunnersArePlaced, FlagAwaitsRunner
<1> QED BY <1>2, <1>3 DEF IInv

(* The requests of administrators. *)
LEMMA AdminSteps ==
    ASSUME IInv, NEW a \in Admins,
           \/ StartRead(a) \/ StartInsert(a) \/ StopWrite(a)
           \/ \E r \in RunId : StopRead(a, r)
    PROVE  IInv'
<1>1. CASE StartRead(a)
    <2>1. TypeOK' BY <1>1 DEF StartRead, IInv, TypeOK, runnerVars, bounds, Resting
    <2> QED BY <1>1, <2>1 DEF StartRead, IInv, RunnersArePlaced, FlagAwaitsRunner, runnerVars, bounds
<1>2. CASE StartInsert(a)
    <2>1. NoRow \in Row /\ [NoRow EXCEPT !.status = "running"] \in Row
        BY NoRowType DEF NoRow, Row, ACTIVE_STATUSES
    <2>2. TypeOK'
        <3>1. /\ lastId' \in 0..MaxRuns
              /\ rows' \in [RunId -> Row] /\ at' \in [RunId -> Points]
            BY <1>2, <2>1, BoundsAssumption DEF StartInsert, IInv, TypeOK, Points
        <3>2. admin' \in [Admins -> [doing : {"nothing", "starting", "stopping"}, run : 0..MaxRuns, copy : Row]]
            BY <1>2, <2>1, BoundsAssumption DEF StartInsert, IInv, TypeOK, Resting
        <3> QED BY <1>2, <3>1, <3>2 DEF StartInsert, IInv, TypeOK, bounds
    <2>3. CASE lastId < MaxRuns /\ ~Taken(0)
        <3>1. lastId + 1 \in RunId /\ at[lastId + 1] = "none"
            BY <2>3, BoundsAssumption DEF IInv, TypeOK, RunnersArePlaced, RunId
        <3>2. late[lastId + 1] = 0 BY <3>1 DEF IInv, FlagAwaitsRunner
        <3>3. /\ lastId' = lastId + 1 /\ UNCHANGED <<next, copy, late>>
              /\ at' = [at EXCEPT ![lastId + 1] = "check"]
              /\ \A k \in RunId \ {lastId + 1} : rows'[k] = rows[k]
            BY <1>2, <2>3 DEF StartInsert, IInv, TypeOK
        <3>4. RunnersArePlaced'
            BY <3>1, <3>3 DEF IInv, TypeOK, RunnersArePlaced, RunId
        <3>5. FlagAwaitsRunner'
            BY <3>1, <3>2, <3>3 DEF IInv, TypeOK, FlagAwaitsRunner, RunId
        <3> QED BY <2>2, <3>4, <3>5 DEF IInv
    <2>4. CASE ~(lastId < MaxRuns /\ ~Taken(0))
        BY <1>2, <2>2, <2>4 DEF StartInsert, IInv, RunnersArePlaced, FlagAwaitsRunner, bounds
    <2> QED BY <2>3, <2>4
<1>3. CASE StopWrite(a)
    <2> DEFINE r == admin[a].run
               loaded == admin[a].copy
               row == Flushed(r, loaded, Stopped(loaded))
    <2>1. loaded \in Row /\ Stopped(loaded) \in Row /\ Stopped(loaded).stop = TRUE
        BY StoppedType DEF IInv, TypeOK
    <2>2. rows' = [rows EXCEPT ![r] = row] BY <1>3 DEF StopWrite
    <2>3. r \in RunId => row \in Row /\ row.stop = TRUE BY <2>1, FlushedType DEF IInv
    <2>4. /\ rows' \in [RunId -> Row]
          /\ \A k \in RunId : rows'[k].stop = rows[k].stop \/ rows'[k].stop = TRUE
        BY <2>2, <2>3 DEF IInv, TypeOK
    <2>5. TypeOK'
        <3>1. admin' \in [Admins -> [doing : {"nothing", "starting", "stopping"}, run : 0..MaxRuns, copy : Row]]
            BY <1>3, NoRowType, BoundsAssumption DEF StopWrite, IInv, TypeOK, Resting
        <3> QED BY <1>3, <2>4, <3>1 DEF StopWrite, IInv, TypeOK, runnerVars, bounds
    <2> QED BY <1>3, <2>4, <2>5 DEF StopWrite, IInv, RunnersArePlaced, FlagAwaitsRunner, runnerVars, bounds
<1>4. ASSUME NEW r \in RunId, StopRead(a, r) PROVE IInv'
    <2>1. r \in 0..MaxRuns /\ rows[r] \in Row BY BoundsAssumption DEF RunId, IInv, TypeOK
    <2>2. stops' \in 0..MaxStops
        BY <1>4, BoundsAssumption DEF StopRead, IInv, TypeOK
    <2>3. admin' \in [Admins -> [doing : {"nothing", "starting", "stopping"}, run : 0..MaxRuns, copy : Row]]
        BY <1>4, <2>1 DEF StopRead, IInv, TypeOK
    <2>4. TypeOK'
        BY <1>4, <2>2, <2>3 DEF StopRead, IInv, TypeOK, runnerVars
    <2> QED BY <1>4, <2>4 DEF StopRead, IInv, RunnersArePlaced, FlagAwaitsRunner, runnerVars
<1> QED BY <1>1, <1>2, <1>3, <1>4

(* The steps of a runner. *)
LEMMA RunnerSteps ==
    ASSUME IInv, NEW r \in RunId, RunnerStep(r)
    PROVE  IInv'
<1> USE DEF IInv
<1>0. at[r] # "none" => lastId >= r BY Inserted
<1>1. CASE Check(r)
    <2>1. AfterCheck(r) \in {"halt", "begin", "finish"}
          /\ (AfterCheck(r) = "begin" => next[r] \in SAFE_QUEUE_ACTIONS)
          /\ (late[r] # 0 => AfterCheck(r) = "halt")
        BY <1>1 DEF Check, AfterCheck, should_stop, FlagAwaitsRunner
    <2>2. TypeOK' BY <1>1, <2>1 DEF Check, TypeOK, Goto, Points, bounds
    <2>3. RunUpdate(r) /\ at'[r] = AfterCheck(r) /\ late'[r] = late[r] /\ next'[r] = next[r]
        BY <1>1 DEF Check, RunUpdate, Goto, TypeOK
    <2> QED BY <1>0, <1>1, <2>1, <2>2, <2>3, OneRunAtATime DEF Check, FlagAwaitsRunner
<1>2. CASE Load(r)
    <2>1. LoadsFor[at[r]] \in {"mark", "record", "completing", "halting"}
        BY <1>2 DEF Load, LoadsFor
    <2>2. TypeOK' BY <1>2, <2>1 DEF Load, TypeOK, Goto, Points, bounds
    <2>3. /\ RunUpdate(r) /\ at'[r] = LoadsFor[at[r]] /\ late'[r] = late[r] /\ next'[r] = next[r]
          /\ copy'[r] = rows[r]
        BY <1>2 DEF Load, RunUpdate, Goto, TypeOK
    <2>4. at[r] \in {"begin", "applying", "finish", "halt"}
          /\ (at[r] = "begin" => LoadsFor[at[r]] = "mark")
          /\ (at[r] = "applying" => LoadsFor[at[r]] = "record")
          /\ (at[r] = "finish" => LoadsFor[at[r]] = "completing")
          /\ (at[r] = "halt" => LoadsFor[at[r]] = "halting")
        BY <1>2 DEF Load, LoadsFor
    <2>5. late'[r] # 0 => late'[r] = 1 /\ \/ at'[r] = "record" /\ copy'[r].stop
                                          \/ at'[r] = "halting"
        BY <2>3, <2>4 DEF FlagAwaitsRunner
    <2>6. at'[r] \in {"begin", "mark", "applying", "record"} => next'[r] \in SAFE_QUEUE_ACTIONS
        BY <2>3, <2>4 DEF RunnersArePlaced
    <2> QED BY <1>0, <2>2, <2>3, <2>4, <2>5, <2>6, OneRunAtATime
<1>3. CASE MarkStepRunning(r)
    <2>0. copy[r] \in Row /\ next[r] \in SAFE_QUEUE_ACTIONS
        BY <1>3 DEF MarkStepRunning, RunnersArePlaced, TypeOK
    <2>1. Marked(r) \in Row BY <2>0, MarkedType
    <2>2. rows' \in [RunId -> Row] /\ \A k \in RunId \ {r} : rows'[k] = rows[k]
        BY <1>3, <2>1, FlushedType DEF MarkStepRunning, Write, TypeOK
    <2>3. late[r] = 0 BY <1>3 DEF MarkStepRunning, FlagAwaitsRunner
    <2>4. TypeOK'
        <3>1. late' \in [RunId -> Nat]
            BY <1>3 DEF MarkStepRunning, Begin, TypeOK
        <3>2. at' \in [RunId -> Points] /\ copy' \in [RunId -> Row]
            BY <1>3, NoRowType DEF MarkStepRunning, Begin, Goto, Forget, TypeOK, Points
        <3> QED BY <1>3, <2>2, <3>1, <3>2 DEF MarkStepRunning, TypeOK, bounds
    <2>5. RunUpdate(r) /\ at'[r] = "applying" /\ next'[r] = next[r]
        BY <1>3, <2>2 DEF MarkStepRunning, Begin, Goto, Forget, RunUpdate, TypeOK
    <2>6. late'[r] = IF rows'[r].stop THEN 1 ELSE 0
        BY <1>3, <2>3 DEF MarkStepRunning, Begin, TypeOK
    <2>7. next[r] \in SAFE_QUEUE_ACTIONS BY <1>3 DEF MarkStepRunning, RunnersArePlaced
    <2> QED BY <1>0, <1>3, <2>4, <2>5, <2>6, <2>7, OneRunAtATime DEF MarkStepRunning
<1>4. CASE MarkConflict(r)
    BY <1>4, EndType DEF MarkConflict, TypeOK, bounds
<1>5. ASSUME NEW verdict \in {"applied", "failed"}, RecordStepResult(r, verdict) PROVE IInv'
    <2> DEFINE changed == [copy[r] EXCEPT !.actions[next[r]] = verdict]
    <2>0. copy[r] \in Row /\ next[r] \in SAFE_QUEUE_ACTIONS
        BY <1>5 DEF RecordStepResult, RunnersArePlaced, TypeOK
    <2>a. changed = [copy[r] EXCEPT !.actions[next[r]] = verdict] OBVIOUS
    <2>2. rows' = [rows EXCEPT ![r] = Flushed(r, copy[r], changed)]
        BY <1>5 DEF RecordStepResult, Write
    <2> HIDE DEF changed
    <2>1. changed \in Row /\ changed.stop = copy[r].stop
        BY <2>0, <2>a, ActionMarked
    <2>3. rows' \in [RunId -> Row] /\ rows'[r].stop = copy[r].stop
          /\ \A k \in RunId \ {r} : rows'[k] = rows[k]
        BY <2>1, <2>2, FlushedType DEF TypeOK
    <2>4. next[r] + 1 \in 1..(LastAction + 1)
        BY <1>5, ActionsAssumption DEF RecordStepResult, RunnersArePlaced, SAFE_QUEUE_ACTIONS
    <2>5. TypeOK'
        BY <1>5, <2>3, <2>4, NoRowType DEF RecordStepResult, Goto, Forget, TypeOK, Points, bounds
    <2>6. RunUpdate(r) /\ at'[r] = "check" /\ late'[r] = late[r]
        BY <1>5, <2>3 DEF RecordStepResult, Goto, Forget, RunUpdate, TypeOK
    <2>7. late'[r] # 0 => late'[r] = 1 /\ rows'[r].stop
        BY <1>5, <2>3, <2>6 DEF RecordStepResult, FlagAwaitsRunner
    <2> QED BY <1>0, <1>5, <2>5, <2>6, <2>7, OneRunAtATime DEF RecordStepResult
<1>6. CASE CompleteFullRun(r)
    <2> DEFINE status == IF \E a \in SAFE_QUEUE_ACTIONS : copy[r].actions[a] = "failed"
                         THEN "partial" ELSE "completed"
               changed == [copy[r] EXCEPT !.status = status]
    <2>1. status \in TERMINAL_STATUSES BY DEF TERMINAL_STATUSES
    <2> HIDE DEF status
    <2>0. copy[r] \in Row BY DEF TypeOK
    <2>2. changed \in Row BY <2>0, <2>1 DEF Row
    <2>3. rows' = [rows EXCEPT ![r] = Flushed(r, copy[r], changed)]
        BY <1>6 DEF CompleteFullRun, Write, status
    <2>4. rows' \in [RunId -> Row] /\ \A k \in RunId \ {r} : rows'[k] = rows[k]
        BY <2>2, <2>3, FlushedType DEF TypeOK
    <2> QED BY <1>6, <2>4, EndType DEF CompleteFullRun, TypeOK, bounds
<1>7. CASE FinalizeStopped(r)
    <2> DEFINE actions == [a \in SAFE_QUEUE_ACTIONS |->
                              IF copy[r].actions[a] = "running" THEN "stopped" ELSE copy[r].actions[a]]
               changed == [copy[r] EXCEPT !.status = "stopped", !.stop = TRUE, !.actions = actions]
    <2>0. /\ copy[r] \in Row
          /\ actions \in [SAFE_QUEUE_ACTIONS -> {"pending", "running", "applied", "failed", "stopped"}]
        BY DEF Row, TypeOK
    <2> HIDE DEF actions
    <2>1. changed \in Row BY <2>0 DEF Row, TERMINAL_STATUSES
    <2>2. rows' = [rows EXCEPT ![r] = Flushed(r, copy[r], changed)]
        BY <1>7 DEF FinalizeStopped, Write, actions
    <2>3. rows' \in [RunId -> Row] /\ \A k \in RunId \ {r} : rows'[k] = rows[k]
        BY <2>1, <2>2, FlushedType DEF TypeOK
    <2> QED BY <1>7, <2>3, EndType DEF FinalizeStopped, TypeOK, bounds
<1> QED BY <1>1, <1>2, <1>3, <1>4, <1>5, <1>6, <1>7 DEF RunnerStep

LEMMA NextIInv == IInv /\ [Next]_vars => IInv'
<1> SUFFICES ASSUME IInv, [Next]_vars PROVE IInv' OBVIOUS
<1>1. ASSUME NEW a \in Admins,
             \/ StartRead(a) \/ StartInsert(a) \/ StopWrite(a)
             \/ \E r \in RunId : StopRead(a, r)
      PROVE  IInv'
    BY <1>1, AdminSteps
<1>2. ASSUME NEW r \in RunId, RunnerStep(r) PROVE IInv'
    BY <1>2, RunnerSteps
<1>3. ASSUME NEW r \in RunId, Crash(r) PROVE IInv'
    <2>1. crashes' \in 0..MaxCrashes BY <1>3, BoundsAssumption DEF Crash, IInv, TypeOK
    <2> QED BY <1>3, <2>1, EndType DEF Crash, IInv, TypeOK
<1>4. ASSUME NEW r \in RunId, Lapse(r) PROVE IInv'
    <2> DEFINE row == [rows[r] EXCEPT !.stale = TRUE]
    <2>a. rows[r] \in Row BY DEF IInv, TypeOK
    <2>0. row \in Row /\ row.stop = rows[r].stop BY <2>a DEF Row
    <2> HIDE DEF row
    <2>1. rows' \in [RunId -> Row] /\ \A k \in RunId : rows'[k].stop = rows[k].stop
        BY <1>4, <2>0 DEF Lapse, IInv, TypeOK, row
    <2>2. TypeOK' BY <1>4, <2>1 DEF Lapse, IInv, TypeOK, runnerVars, bounds
    <2> QED BY <1>4, <2>1, <2>2 DEF Lapse, IInv, RunnersArePlaced, FlagAwaitsRunner, runnerVars, bounds
<1>5. CASE UNCHANGED vars
    BY <1>5 DEF IInv, TypeOK, RunnersArePlaced, FlagAwaitsRunner, vars
<1> QED BY <1>1, <1>2, <1>3, <1>4, <1>5 DEF Next

LEMMA Invariance == Spec => []IInv
BY InitIInv, NextIInv, PTL DEF Spec

-----------------------------------------------------------------------------
(* Rows, runners and requests keep their types. *)
THEOREM TypeCorrect == Spec => []TypeOK
<1>1. IInv => TypeOK BY DEF IInv
<1> QED BY <1>1, Invariance, PTL

(* A stop flag that the row shows is obeyed after at most one more action,  *)
(* whatever the requests, crashes and lost updates around it.               *)
THEOREM FlagIsObeyed == Spec => []StandingStopIsObeyed
<1>1. IInv => StandingStopIsObeyed
    BY DEF IInv, TypeOK, FlagAwaitsRunner, StandingStopIsObeyed
<1> QED BY <1>1, Invariance, PTL

-----------------------------------------------------------------------------
(* Who may make a row active.  A copy always shows a row that was inserted, *)
(* so a write based on it never finds a status to be new that no row has.   *)

RowsAreInserted ==
    \A r \in RunId : rows[r].status = "none" <=> r > lastId

CopiesAreOfRows ==
    /\ \A r \in RunId :
         at[r] \in {"mark", "record", "completing", "halting"} => copy[r].status # "none"
    /\ \A a \in Admins : admin[a].doing = "stopping" =>
         admin[a].run \in RunId /\ admin[a].run <= lastId /\ admin[a].copy.status # "none"

(* A flush of a copy that shows a status leaves the row with a status: the  *)
(* row's own, or a new one.                                                 *)
LEMMA FlushedStatus ==
    ASSUME IInv, NEW r \in RunId, NEW loaded \in Row, NEW changed \in Row,
           rows[r].status # "none", changed.status # "none"
    PROVE  /\ Flushed(r, loaded, changed).status # "none"
           /\ changed.status = loaded.status => Flushed(r, loaded, changed).status = rows[r].status
           /\ Flushed(r, loaded, changed).status \in {rows[r].status, changed.status}
BY DEF Flushed, Row

(* A step of run r that writes a status leaves every row inserted.          *)
LEMMA RowsStayInserted ==
    ASSUME IInv, RowsAreInserted, NEW r \in RunId, UNCHANGED lastId,
           \A k \in RunId \ {r} : rows'[k] = rows[k],
           rows'[r].status = "none" <=> rows[r].status = "none"
    PROVE  RowsAreInserted'
<1> SUFFICES ASSUME NEW k \in RunId PROVE rows'[k].status = "none" <=> k > lastId'
    BY DEF RowsAreInserted
<1>1. CASE k = r BY <1>1 DEF RowsAreInserted
<1>2. CASE k # r BY <1>2 DEF RowsAreInserted
<1> QED BY <1>1, <1>2

(* A row that is not active becomes active only as the property allows.     *)
Reopens(r) == rows[r].status \in TERMINAL_STATUSES /\ rows'[r].status \in ACTIVE_STATUSES

ReopenedBy(r) ==
    \/ at[r] = "mark" /\ Reads(copy[r])
    \/ \E a \in Admins : admin[a].doing = "stopping" /\ admin[a].run = r /\ Reads(admin[a].copy)

StatusInv == IInv /\ RowsAreInserted /\ CopiesAreOfRows

(* What a step of run r must do to its row and its copy.                    *)
LEMMA OneRowAtATime ==
    ASSUME StatusInv, NEW r \in RunId, RunUpdate(r), UNCHANGED admin,
           rows'[r].status = "none" <=> rows[r].status = "none",
           at'[r] \in {"mark", "record", "completing", "halting"} => copy'[r].status # "none",
           Reopens(r) => ReopenedBy(r)
    PROVE  RowsAreInserted' /\ CopiesAreOfRows' /\ \A k \in RunId : Reopens(k) => ReopenedBy(k)
<1> USE DEF StatusInv
<1>1. RowsAreInserted' BY RowsStayInserted DEF RunUpdate
<1>2. CopiesAreOfRows'
    <2>1. ASSUME NEW k \in RunId, at'[k] \in {"mark", "record", "completing", "halting"}
          PROVE  copy'[k].status # "none"
        <3>1. CASE k = r BY <2>1, <3>1
        <3>2. CASE k # r BY <2>1, <3>2 DEF RunUpdate, CopiesAreOfRows
        <3> QED BY <3>1, <3>2
    <2> QED BY <2>1 DEF RunUpdate, CopiesAreOfRows
<1>3. ASSUME NEW k \in RunId, Reopens(k) PROVE ReopenedBy(k)
    <2>1. CASE k = r BY <1>3, <2>1
    <2>2. CASE k # r
        <3>1. rows'[k] = rows[k] BY <2>2 DEF RunUpdate
        <3>2. FALSE BY <1>3, <3>1 DEF Reopens, TERMINAL_STATUSES, ACTIVE_STATUSES
        <3> QED BY <3>2
    <2> QED BY <2>1, <2>2
<1> QED BY <1>1, <1>2, <1>3

LEMMA InitStatus == Init => RowsAreInserted /\ CopiesAreOfRows
<1> SUFFICES ASSUME Init PROVE RowsAreInserted /\ CopiesAreOfRows OBVIOUS
<1>1. RowsAreInserted BY DEF Init, RowsAreInserted, NoRow, RunId
<1>2. CopiesAreOfRows BY DEF Init, CopiesAreOfRows, Resting
<1> QED BY <1>1, <1>2

StatusStep == RowsAreInserted' /\ CopiesAreOfRows' /\ \A r \in RunId : Reopens(r) => ReopenedBy(r)

LEMMA AdminStatus ==
    ASSUME StatusInv, NEW a \in Admins,
           \/ StartRead(a) \/ StartInsert(a) \/ StopWrite(a)
           \/ \E r \in RunId : StopRead(a, r)
    PROVE  StatusStep
<1> USE DEF StatusInv
<1>1. CASE StartRead(a)
    BY <1>1 DEF StartRead, StatusStep, IInv, TypeOK, RowsAreInserted, CopiesAreOfRows, Reopens,
                runnerVars, TERMINAL_STATUSES, ACTIVE_STATUSES
<1>2. CASE StartInsert(a)
    <2>0. \A b \in Admins : admin'[b].doing = "stopping" => admin'[b] = admin[b]
        BY <1>2 DEF StartInsert, Resting, IInv, TypeOK
    <2>1. CASE lastId < MaxRuns /\ ~Taken(0)
        <3>1. /\ lastId' = lastId + 1 /\ lastId + 1 \in RunId
              /\ at[lastId + 1] = "none" /\ rows[lastId + 1].status = "none"
            BY <1>2, <2>1, BoundsAssumption
            DEF StartInsert, IInv, TypeOK, RunnersArePlaced, RowsAreInserted, RunId
        <3>2. /\ \A k \in RunId \ {lastId + 1} : rows'[k] = rows[k] /\ at'[k] = at[k]
              /\ rows'[lastId + 1].status = "running" /\ at'[lastId + 1] = "check"
              /\ UNCHANGED copy
            BY <1>2, <2>1, <3>1 DEF StartInsert, IInv, TypeOK, NoRow
        <3>3. RowsAreInserted' BY <3>1, <3>2 DEF RowsAreInserted, RunId, IInv, TypeOK
        <3>4. CopiesAreOfRows'
            <4>1. \A k \in RunId :
                    at'[k] \in {"mark", "record", "completing", "halting"} => copy'[k].status # "none"
                BY <3>2 DEF CopiesAreOfRows
            <4>2. \A b \in Admins : admin'[b].doing = "stopping" =>
                    admin'[b].run \in RunId /\ admin'[b].run <= lastId' /\ admin'[b].copy.status # "none"
                <5>1. lastId \in Nat /\ RunId \subseteq Nat
                    BY BoundsAssumption DEF IInv, TypeOK, RunId
                <5>2. \A b \in Admins : admin[b].doing = "stopping" =>
                        admin[b].run \in RunId /\ admin[b].run <= lastId /\ admin[b].copy.status # "none"
                    BY DEF CopiesAreOfRows
                <5> SUFFICES ASSUME NEW b \in Admins, admin'[b].doing = "stopping"
                             PROVE  /\ admin'[b].run \in RunId /\ admin'[b].run <= lastId'
                                    /\ admin'[b].copy.status # "none"
                    OBVIOUS
                <5>3. admin'[b] = admin[b] BY <2>0
                <5>4. /\ admin[b].run \in RunId /\ admin[b].run <= lastId
                      /\ admin[b].copy.status # "none"
                    BY <5>2, <5>3
                <5>5. admin[b].run <= lastId'
                    <6>1. admin[b].run \in Nat BY <5>1, <5>4
                    <6> QED BY <3>1, <5>1, <5>4, <6>1
                <5> QED BY <5>3, <5>4, <5>5
            <4> QED BY <4>1, <4>2 DEF CopiesAreOfRows
        <3>5. \A k \in RunId : ~Reopens(k)
            BY <3>1, <3>2 DEF Reopens, TERMINAL_STATUSES, ACTIVE_STATUSES
        <3> QED BY <3>3, <3>4, <3>5 DEF StatusStep
    <2>2. CASE ~(lastId < MaxRuns /\ ~Taken(0))
        BY <1>2, <2>0, <2>2 DEF StartInsert, StatusStep, RowsAreInserted, CopiesAreOfRows, Reopens,
                                TERMINAL_STATUSES, ACTIVE_STATUSES
    <2> QED BY <2>1, <2>2
<1>3. CASE StopWrite(a)
    <2> DEFINE r == admin[a].run
               loaded == admin[a].copy
               row == Flushed(r, loaded, Stopped(loaded))
    <2>1. /\ r \in RunId /\ r <= lastId /\ loaded \in Row /\ Stopped(loaded) \in Row
          /\ loaded.status # "none" /\ rows[r].status # "none"
        <3>1. r \in RunId /\ r <= lastId /\ loaded.status # "none"
            BY <1>3 DEF StopWrite, CopiesAreOfRows
        <3>2. loaded \in Row BY DEF IInv, TypeOK
        <3>3. Stopped(loaded) \in Row BY <3>2, StoppedType
        <3>4. rows[r].status # "none"
            BY <3>1, BoundsAssumption DEF RowsAreInserted, IInv, TypeOK, RunId
        <3> QED BY <3>1, <3>2, <3>3, <3>4
    <2>2. /\ Stopped(loaded).status # "none"
          /\ ~Reads(loaded) => Stopped(loaded).status = loaded.status
        BY <2>1 DEF Stopped, Reads, Row, ACTIVE_STATUSES, TERMINAL_STATUSES
    <2>3. row.status # "none" /\ (~Reads(loaded) => row.status = rows[r].status)
        BY <2>1, <2>2, FlushedStatus
    <2>4. rows' = [rows EXCEPT ![r] = row] BY <1>3 DEF StopWrite
    <2> HIDE DEF row
    <2>5. rows'[r] = row /\ \A k \in RunId \ {r} : rows'[k] = rows[k]
        BY <2>1, <2>4 DEF IInv, TypeOK
    <2>6. UNCHANGED lastId BY <1>3 DEF StopWrite
    <2>7. RowsAreInserted' BY <2>1, <2>3, <2>5, <2>6, RowsStayInserted
    <2>8. CopiesAreOfRows'
        BY <1>3, <2>6 DEF StopWrite, CopiesAreOfRows, runnerVars, Resting, IInv, TypeOK
    <2>9. ASSUME NEW k \in RunId, Reopens(k) PROVE ReopenedBy(k)
        <3>1. CASE k # r
            BY <2>5, <2>9, <3>1 DEF Reopens, TERMINAL_STATUSES, ACTIVE_STATUSES
        <3>2. CASE k = r
            <4>1. Reads(loaded)
                BY <2>3, <2>5, <2>9, <3>2 DEF Reopens, TERMINAL_STATUSES, ACTIVE_STATUSES
            <4> QED BY <1>3, <3>2, <4>1 DEF StopWrite, ReopenedBy
        <3> QED BY <3>1, <3>2
    <2> QED BY <2>7, <2>8, <2>9 DEF StatusStep
<1>4. ASSUME NEW r \in RunId, StopRead(a, r) PROVE StatusStep
    <2>1. rows[r].status # "none" /\ UNCHANGED <<rows, lastId, at, copy>>
        BY <1>4 DEF StopRead, RowsAreInserted, IInv, TypeOK, RunId, runnerVars
    <2>2. CopiesAreOfRows' BY <1>4, <2>1 DEF StopRead, CopiesAreOfRows, IInv, TypeOK
    <2> QED BY <2>1, <2>2 DEF StatusStep, RowsAreInserted, Reopens, TERMINAL_STATUSES, ACTIVE_STATUSES
<1> QED BY <1>1, <1>2, <1>3, <1>4

(* A runner that ends forgets its copy. *)
LEMMA EndStatus ==
    ASSUME StatusInv, NEW r \in RunId, at[r] # "none", End(r), UNCHANGED <<lastId, admin>>,
           rows' \in [RunId -> Row], \A k \in RunId \ {r} : rows'[k] = rows[k],
           rows'[r].status = "none" <=> rows[r].status = "none",
           Reopens(r) => ReopenedBy(r)
    PROVE  StatusStep
<1>1. RunUpdate(r) BY DEF RunUpdate, End, Goto, Forget, StatusInv, IInv, TypeOK
<1>2. at'[r] = "ended" BY DEF End, Goto, StatusInv, IInv, TypeOK
<1> QED BY <1>1, <1>2, OneRowAtATime DEF StatusStep

LEMMA RunnerStatus ==
    ASSUME StatusInv, NEW r \in RunId, RunnerStep(r)
    PROVE  StatusStep
<1> USE DEF StatusInv, StatusStep
<1>0. at[r] # "none" => rows[r].status # "none"
    BY Inserted, BoundsAssumption DEF RowsAreInserted, IInv, TypeOK, RunId
<1>t. rows \in [RunId -> Row] /\ copy[r] \in Row BY DEF IInv, TypeOK
<1>u. UNCHANGED rows => ~Reopens(r) BY DEF Reopens, TERMINAL_STATUSES, ACTIVE_STATUSES
<1>1. CASE Check(r)
    <2>1. RunUpdate(r) /\ at'[r] = AfterCheck(r)
        BY <1>1 DEF Check, RunUpdate, Goto, IInv, TypeOK
    <2>2. AfterCheck(r) \in {"halt", "begin", "finish"}
        BY DEF AfterCheck
    <2> QED BY <1>1, <1>u, <2>1, <2>2, OneRowAtATime DEF Check
<1>2. CASE Load(r)
    <2>1. RunUpdate(r) /\ copy'[r] = rows[r]
        BY <1>2 DEF Load, RunUpdate, Goto, IInv, TypeOK
    <2>2. at[r] # "none" BY <1>2 DEF Load, LoadsFor
    <2> QED BY <1>0, <1>2, <1>u, <2>1, <2>2, OneRowAtATime DEF Load
<1>3. CASE MarkStepRunning(r)
    <2>1. /\ at[r] = "mark" /\ at'[r] = "applying"
          /\ copy[r].status # "none" /\ rows[r].status # "none"
        BY <1>0, <1>3 DEF MarkStepRunning, Begin, Goto, CopiesAreOfRows, IInv, TypeOK
    <2>2. CASE copy[r].status \in TERMINAL_STATUSES
        <3>1. RunUpdate(r) /\ UNCHANGED <<rows, admin>>
            BY <1>3, <2>2 DEF MarkStepRunning, Begin, Goto, Forget, RunUpdate, IInv, TypeOK
        <3> QED BY <1>u, <2>1, <3>1, OneRowAtATime
    <2>3. CASE copy[r].status \notin TERMINAL_STATUSES
        <3>1. Reads(copy[r]) BY <1>t, <2>1, <2>3 DEF Reads, Row
        <3>2. Marked(r) \in Row /\ Marked(r).status # "none"
            <4>1. copy[r] \in Row /\ next[r] \in SAFE_QUEUE_ACTIONS
                BY <1>3 DEF MarkStepRunning, IInv, RunnersArePlaced, TypeOK
            <4> QED BY <4>1, MarkedType
        <3>3. /\ rows' = [rows EXCEPT ![r] = Flushed(r, copy[r], Marked(r))]
              /\ UNCHANGED admin
            BY <1>3, <2>3 DEF MarkStepRunning, Write
        <3>4. rows'[r].status # "none" /\ \A k \in RunId \ {r} : rows'[k] = rows[k]
            BY <1>t, <2>1, <3>2, <3>3, FlushedStatus
        <3>5. RunUpdate(r)
            BY <1>3, <3>4 DEF MarkStepRunning, Begin, Goto, Forget, RunUpdate, IInv, TypeOK
        <3> QED BY <2>1, <3>1, <3>3, <3>4, <3>5, OneRowAtATime DEF ReopenedBy
    <2> QED BY <2>2, <2>3
<1>4. CASE MarkConflict(r)
    BY <1>4, <1>t, <1>u, EndStatus DEF MarkConflict
<1>5. ASSUME NEW verdict \in {"applied", "failed"}, RecordStepResult(r, verdict) PROVE StatusStep
    <2> DEFINE changed == [copy[r] EXCEPT !.actions[next[r]] = verdict]
    <2>0. next[r] \in SAFE_QUEUE_ACTIONS
        BY <1>5 DEF RecordStepResult, IInv, RunnersArePlaced
    <2>a. changed = [copy[r] EXCEPT !.actions[next[r]] = verdict] OBVIOUS
    <2>2. /\ rows' = [rows EXCEPT ![r] = Flushed(r, copy[r], changed)]
          /\ UNCHANGED admin
        BY <1>5 DEF RecordStepResult, Write
    <2> HIDE DEF changed
    <2>1. /\ changed \in Row /\ changed.status = copy[r].status
          /\ copy[r].status # "none" /\ rows[r].status # "none" /\ at'[r] = "check"
        <3>1. changed \in Row /\ changed.status = copy[r].status
            BY <1>t, <2>0, <2>a, ActionMarked
        <3>2. copy[r].status # "none" /\ rows[r].status # "none" /\ at'[r] = "check"
            BY <1>0, <1>5 DEF RecordStepResult, Goto, CopiesAreOfRows, IInv, TypeOK
        <3> QED BY <3>1, <3>2
    <2>3. rows'[r].status = rows[r].status /\ \A k \in RunId \ {r} : rows'[k] = rows[k]
        BY <1>t, <2>1, <2>2, FlushedStatus
    <2>4. RunUpdate(r)
        BY <1>5, <2>3 DEF RecordStepResult, Goto, Forget, RunUpdate, IInv, TypeOK
    <2>5. ~Reopens(r) BY <2>3 DEF Reopens, TERMINAL_STATUSES, ACTIVE_STATUSES
    <2> QED BY <2>1, <2>2, <2>3, <2>4, <2>5, OneRowAtATime
<1>6. ASSUME NEW changed \in Row, changed.status \in TERMINAL_STATUSES, Write(r, changed), End(r),
             at[r] # "none", UNCHANGED <<lastId, admin>>
      PROVE  StatusStep
    <2>1. changed.status # "none" /\ rows[r].status # "none"
        BY <1>0, <1>6 DEF TERMINAL_STATUSES
    <2>2. rows' = [rows EXCEPT ![r] = Flushed(r, copy[r], changed)] BY <1>6 DEF Write
    <2>3. /\ rows'[r].status \in {rows[r].status, changed.status} /\ rows'[r].status # "none"
          /\ rows' \in [RunId -> Row] /\ \A k \in RunId \ {r} : rows'[k] = rows[k]
        <3>1. Flushed(r, copy[r], changed) \in Row BY <1>t, FlushedType DEF IInv
        <3>2. /\ Flushed(r, copy[r], changed).status \in {rows[r].status, changed.status}
              /\ Flushed(r, copy[r], changed).status # "none"
            BY <1>t, <2>1, FlushedStatus
        <3> QED BY <1>t, <2>2, <3>1, <3>2
    <2>4. ~Reopens(r) BY <1>6, <2>3 DEF Reopens, TERMINAL_STATUSES, ACTIVE_STATUSES
    <2> QED BY <1>6, <2>1, <2>3, <2>4, EndStatus
<1>7. CASE CompleteFullRun(r)
    <2> DEFINE status == IF \E a \in SAFE_QUEUE_ACTIONS : copy[r].actions[a] = "failed"
                         THEN "partial" ELSE "completed"
               changed == [copy[r] EXCEPT !.status = status]
    <2>1. status \in TERMINAL_STATUSES BY DEF TERMINAL_STATUSES
    <2>2. Write(r, changed) BY <1>7 DEF CompleteFullRun
    <2> HIDE DEF status
    <2>3. changed \in Row /\ changed.status \in TERMINAL_STATUSES BY <1>t, <2>1 DEF Row
    <2> QED BY <1>6, <1>7, <2>2, <2>3 DEF CompleteFullRun
<1>8. CASE FinalizeStopped(r)
    <2> DEFINE actions == [a \in SAFE_QUEUE_ACTIONS |->
                              IF copy[r].actions[a] = "running" THEN "stopped" ELSE copy[r].actions[a]]
               changed == [copy[r] EXCEPT !.status = "stopped", !.stop = TRUE, !.actions = actions]
    <2>1. actions \in [SAFE_QUEUE_ACTIONS -> {"pending", "running", "applied", "failed", "stopped"}]
        BY <1>t DEF Row
    <2>2. Write(r, changed) BY <1>8 DEF FinalizeStopped
    <2> HIDE DEF actions
    <2>3. changed \in Row /\ changed.status \in TERMINAL_STATUSES
        BY <1>t, <2>1 DEF Row, TERMINAL_STATUSES
    <2> QED BY <1>6, <1>8, <2>2, <2>3 DEF FinalizeStopped
<1> QED BY <1>1, <1>2, <1>3, <1>4, <1>5, <1>7, <1>8 DEF RunnerStep

LEMMA NextStatus == StatusInv /\ [Next]_vars => StatusStep
<1> SUFFICES ASSUME StatusInv, [Next]_vars PROVE StatusStep OBVIOUS
<1> USE DEF StatusInv
<1>1. ASSUME NEW a \in Admins,
             \/ StartRead(a) \/ StartInsert(a) \/ StopWrite(a)
             \/ \E r \in RunId : StopRead(a, r)
      PROVE  StatusStep
    BY <1>1, AdminStatus
<1>2. ASSUME NEW r \in RunId, RunnerStep(r) PROVE StatusStep
    BY <1>2, RunnerStatus
<1>3. ASSUME NEW r \in RunId, Crash(r) PROVE StatusStep
    BY <1>3, EndStatus DEF Crash, IInv, TypeOK, Reopens, TERMINAL_STATUSES, ACTIVE_STATUSES
<1>4. ASSUME NEW r \in RunId, Lapse(r) PROVE StatusStep
    <2>1. \A k \in RunId : rows'[k].status = rows[k].status
        BY <1>4 DEF Lapse, IInv, TypeOK, Row
    <2> QED BY <1>4, <2>1 DEF Lapse, StatusStep, RowsAreInserted, CopiesAreOfRows, Reopens, runnerVars,
                              TERMINAL_STATUSES, ACTIVE_STATUSES
<1>5. CASE UNCHANGED vars
    BY <1>5 DEF StatusStep, RowsAreInserted, CopiesAreOfRows, Reopens, vars,
                TERMINAL_STATUSES, ACTIVE_STATUSES
<1> QED BY <1>1, <1>2, <1>3, <1>4, <1>5 DEF Next

(* A finished run is made active again only by a runner or a stop request   *)
(* that loaded the row before it had finished: no write invents an active   *)
(* status, whatever the requests, crashes and lost updates around it.       *)
THEOREM RunsReopenByStaleCopies == Spec => OnlyStaleCopiesReopen
<1>1. Init => StatusInv BY InitIInv, InitStatus DEF StatusInv
<1>2. StatusInv /\ [Next]_vars => StatusInv' BY NextIInv, NextStatus DEF StatusInv, StatusStep
<1>3. StatusInv /\ [Next]_vars =>
        [\A r \in RunId :
           rows[r].status \in TERMINAL_STATUSES /\ rows'[r].status \in ACTIVE_STATUSES =>
              \/ at[r] = "mark" /\ Reads(copy[r])
              \/ \E a \in Admins : admin[a].doing = "stopping" /\ admin[a].run = r /\ Reads(admin[a].copy)]_vars
    BY NextStatus DEF StatusStep, Reopens, ReopenedBy
<1> QED BY <1>1, <1>2, <1>3, PTL DEF Spec, OnlyStaleCopiesReopen
=============================================================================
