--------------------------- MODULE ScopeLocksProofs ---------------------------
(***************************************************************************)
(* What is proved of the scope locks: the types, and that two processes    *)
(* that take the lock share a scope only after it was reclaimed from a     *)
(* living import, whatever the importers without a lock do meanwhile.      *)
(* Both hold for any number of processes, scopes and crashes and for every *)
(* threshold.                                                              *)
(***************************************************************************)
EXTENDS ScopeLocks, TLAPS

LEMMA NumbersFact ==
    /\ Scope \subseteq Nat /\ 1 \in Scope
    /\ Stall \in Nat /\ MaxAge \in Nat /\ MaxCrashes \in Nat
    /\ Oldest \in Nat /\ Free \in Nat /\ MaxAge < Free /\ Oldest < Free
    /\ 0..MaxAge \subseteq 0..Free /\ Free \in 0..Free
BY NumbersAssumption DEF Scope, Oldest, Free

LEMMA RunsFact == Runs = Lockers \union Bare /\ Lockers \intersect Bare = {}
BY KindsAssumption DEF Runs

LEMMA IdleFact == Idle \in Process
BY NumbersFact DEF Idle, Process, Points

(* Moving a process keeps the processes well formed. *)
LEMMA GotoTyped ==
    ASSUME TypeOK, NEW r \in Runs, NEW point \in Points, Goto(r, point)
    PROVE  run' \in [Runs -> Process]
<1>1. run[r] \in Process BY DEF TypeOK
<1>2. [run[r] EXCEPT !.at = point, !.copy = "free"] \in Process BY <1>1 DEF Process
<1> QED BY <1>2 DEF TypeOK, Goto

LEMMA NextScopeTyped ==
    ASSUME TypeOK, NEW r \in Runs, NextScope(r)
    PROVE  run' \in [Runs -> Process]
<1>1. CASE run[r].scope = Scopes
  BY <1>1, IdleFact DEF TypeOK, NextScope
<1>2. CASE run[r].scope # Scopes
  <2>1. run[r].scope + 1 \in Scope
    BY <1>2, NumbersAssumption DEF TypeOK, Process, Scope
  <2>2. [run[r] EXCEPT !.at = "look", !.scope = run[r].scope + 1, !.copy = "free"] \in Process
    BY <2>1 DEF TypeOK, Process, Points
  <2> QED BY <1>2, <2>2 DEF TypeOK, NextScope
<1> QED BY <1>1, <1>2

LEMMA TypeInit == Init => TypeOK
BY NumbersFact, IdleFact DEF Init, TypeOK

LEMMA TypeStep == TypeOK /\ [Next]_vars => TypeOK'
<1> SUFFICES ASSUME TypeOK, [Next]_vars PROVE TypeOK'
  OBVIOUS
<1> USE DEF TypeOK
<1>1. CASE UNCHANGED vars
  BY <1>1 DEF vars
<1>2. ASSUME NEW r \in Runs, StartProcess(r) \/ StartJob(r) PROVE TypeOK'
  <2>1. [Idle EXCEPT !.at = "look"] \in Process
    BY NumbersFact DEF Idle, Process, Points
  <2> QED BY <1>2, <2>1 DEF StartProcess, StartJob, Start
<1>14. ASSUME NEW r \in Runs, NEW s \in Scope, StartBare(r, s) PROVE TypeOK'
  <2>1. [Idle EXCEPT !.at = "import", !.scope = s] \in Process
    BY IdleFact DEF Process, Points
  <2> QED BY <1>14, <2>1 DEF StartBare
<1>15. ASSUME NEW r \in Runs, EndBare(r) PROVE TypeOK'
  BY <1>15, IdleFact DEF EndBare
<1>16. ASSUME NEW r \in Runs, Skip(r) PROVE TypeOK'
  BY <1>16, NextScopeTyped DEF Skip
<1>3. ASSUME NEW r \in Runs, Crash(r) PROVE TypeOK'
  BY <1>3, IdleFact, NumbersFact DEF Crash
<1>4. ASSUME NEW r \in Runs, Look(r) PROVE TypeOK'
  <2> DEFINE s == run[r].scope
  <2>1. run' = [run EXCEPT ![r] = [@ EXCEPT !.at = "judge", !.copy = Loaded(r, s)]]
    BY <1>4 DEF Look
  <2>2. [run[r] EXCEPT !.at = "judge", !.copy = Loaded(r, s)] \in Process
    BY DEF Process, Points, Loaded
  <2> QED BY <1>4, <2>1, <2>2 DEF Look
<1>5. ASSUME NEW r \in Runs, Judge(r) PROVE TypeOK'
  <2>1. Goto(r, "take") \/ Goto(r, "reclaim") \/ NextScope(r)
    BY <1>5 DEF Judge, GiveUp
  <2>2. run' \in [Runs -> Process]
    BY <2>1, GotoTyped, NextScopeTyped DEF Points
  <2> QED BY <1>5, <2>2 DEF Judge
<1>6. ASSUME NEW r \in Runs, Reclaim(r) PROVE TypeOK'
  <2>1. run' \in [Runs -> Process]
    BY <1>6, GotoTyped DEF Reclaim, Points
  <2>2. /\ lock' = [lock EXCEPT ![run[r].scope] = Free]
        /\ due' = due /\ active' = active /\ crashes' = crashes
    BY <1>6 DEF Reclaim
  <2>3. (Others(r, run[r].scope) # {}) \in BOOLEAN
    OBVIOUS
  <2>4. evicted' = [evicted EXCEPT ![run[r].scope] = (Others(r, run[r].scope) # {})]
    BY <1>6 DEF Reclaim
  <2>5. evicted' \in [Scope -> BOOLEAN]
    BY <2>3, <2>4
  <2>6. lock' \in [Scope -> 0..Free]
    <3>1. Free \in 0..Free
      BY NumbersFact
    <3> QED BY <2>2, <3>1
  <2> QED BY <2>1, <2>2, <2>5, <2>6
<1>7. ASSUME NEW r \in Runs, Reload(r) PROVE TypeOK'
  <2>1. run' \in [Runs -> Process]
    BY <1>7, GotoTyped, NextScopeTyped DEF Reload, GiveUp, Points
  <2> QED BY <1>7, <2>1 DEF Reload
<1>8. ASSUME NEW r \in Runs, Take(r) PROVE TypeOK'
  <2>1. run' \in [Runs -> Process]
    BY <1>8, GotoTyped, NextScopeTyped DEF Take, GiveUp, Points
  <2>2. run[r].age \in 0..Free
    BY NumbersFact DEF Process
  <2>3. lock' \in [Scope -> 0..Free]
    BY <1>8, <2>2 DEF Take
  <2> QED BY <1>8, <2>1, <2>3 DEF Take
<1>9. ASSUME NEW r \in Runs, Succeed(r) \/ Fail(r) PROVE TypeOK'
  <2>1. run' \in [Runs -> Process]
    BY <1>9, GotoTyped DEF Succeed, Fail, Points
  <2> QED BY <1>9, <2>1 DEF Succeed, Fail
<1>10. ASSUME NEW r \in Runs, Leave(r) PROVE TypeOK'
  <2>1. run' \in [Runs -> Process]
    BY <1>10, NextScopeTyped DEF Leave
  <2>2. /\ lock' = [lock EXCEPT ![run[r].scope] = Free]
        /\ due' = due /\ active' = active /\ crashes' = crashes
    BY <1>10 DEF Leave
  <2>3. (evicted[run[r].scope] /\ Others(r, run[r].scope) # {}) \in BOOLEAN
    OBVIOUS
  <2>4. evicted' = [evicted EXCEPT ![run[r].scope] = (evicted[run[r].scope] /\ Others(r, run[r].scope) # {})]
    BY <1>10 DEF Leave
  <2>5. evicted' \in [Scope -> BOOLEAN]
    BY <2>3, <2>4
  <2>6. lock' \in [Scope -> 0..Free]
    <3>1. Free \in 0..Free
      BY NumbersFact
    <3> QED BY <2>2, <3>1
  <2> QED BY <2>1, <2>2, <2>5, <2>6
<1>11. ASSUME NEW s \in Scope, ComeDue(s) PROVE TypeOK'
  BY <1>11 DEF ComeDue
<1>12. CASE StartOtherJob \/ CloseJob
  BY <1>12 DEF StartOtherJob, CloseJob
<1>13. CASE Tick
  <2>1. lock' \in [Scope -> 0..Free]
    BY <1>13, NumbersFact DEF Tick, Older, Oldest, Free
  <2>2. run' \in [Runs -> Process]
    <3> SUFFICES ASSUME NEW r \in Runs, run[r].at # "idle", r \notin Bare
                 PROVE  [run[r] EXCEPT !.age = @ + 1] \in Process
      BY <1>13 DEF Tick
    <3>1. run[r].age + 1 \in 0..MaxAge
      BY <1>13, NumbersFact, RunsFact DEF Tick, Process
    <3> QED BY <3>1 DEF Process
  <2> QED BY <1>13, <2>1, <2>2 DEF Tick
<1> QED BY <1>1, <1>2, <1>3, <1>4, <1>5, <1>6, <1>7, <1>8, <1>9, <1>10, <1>11, <1>12, <1>13,
           <1>14, <1>15, <1>16
        DEF Next, Step

(* The rows, the processes and the history keep their types. *)
THEOREM TypeCorrect == Spec => []TypeOK
BY TypeInit, TypeStep, PTL DEF Spec

-----------------------------------------------------------------------------
(* The strengthening: as long as nobody was evicted from a scope, the      *)
(* import that goes on in it under the lock, if any, still has it.         *)
Exclusive(s) ==
    ~evicted[s] => /\ \A p, q \in Lockers : Imports(p, s) /\ Imports(q, s) => p = q
                   /\ \A p \in Lockers : Imports(p, s) => lock[s] # Free

IInv == TypeOK /\ \A s \in Scope : Exclusive(s)

LEMMA ExclusiveInit == Init => \A s \in Scope : Exclusive(s)
BY RunsFact DEF Init, Exclusive, Imports, Idle

(* A process that did not move imports what it imported. *)
LEMMA OtherProcess ==
    ASSUME TypeOK, NEW r \in Runs, NEW v, run' = [run EXCEPT ![r] = v]
    PROVE  \A p \in Runs \ {r}, s \in Scope : Imports(p, s)' <=> Imports(p, s)
BY DEF TypeOK, Imports

(* Where the process goes, it imports nothing. *)
LEMMA NextScopeIdle ==
    ASSUME TypeOK, NEW r \in Runs, NextScope(r)
    PROVE  /\ \A s \in Scope : ~Imports(r, s)'
           /\ \A p \in Runs \ {r}, s \in Scope : Imports(p, s)' <=> Imports(p, s)
BY DEF TypeOK, NextScope, Imports, Idle, Process

LEMMA GotoFact ==
    ASSUME TypeOK, NEW r \in Runs, NEW point \in Points, Goto(r, point)
    PROVE  /\ \A s \in Scope : Imports(r, s)' <=> point \in {"import", "leave"} /\ run[r].scope = s
           /\ \A p \in Runs \ {r}, s \in Scope : Imports(p, s)' <=> Imports(p, s)
BY DEF TypeOK, Goto, Imports, Process

(* Fewer imports under the same locks and histories are no harm. *)
LEMMA FewerImports ==
    ASSUME NEW s \in Scope, Exclusive(s), UNCHANGED <<lock, evicted>>,
           \A p \in Lockers : Imports(p, s)' => Imports(p, s)
    PROVE  Exclusive(s)'
BY DEF Exclusive

LEMMA NobodyLeft ==
    ASSUME NEW s \in Scope, \A p \in Lockers : ~Imports(p, s)'
    PROVE  Exclusive(s)'
BY DEF Exclusive

LEMMA ExclusiveStep ==
    TypeOK /\ (\A s \in Scope : Exclusive(s)) /\ [Next]_vars => \A s \in Scope : Exclusive(s)'
<1> SUFFICES ASSUME TypeOK, \A s \in Scope : Exclusive(s), [Next]_vars, NEW s \in Scope
             PROVE  Exclusive(s)'
  OBVIOUS
<1>0. Points = Points \union {"look", "judge", "reclaim", "reload", "take", "import", "leave"}
  BY DEF Points
<1> USE RunsFact
<1>1. CASE UNCHANGED vars
  BY <1>1, FewerImports DEF vars, Imports
<1>2. ASSUME NEW r \in Runs, StartProcess(r) \/ StartJob(r) PROVE Exclusive(s)'
  <2>1. run' = [run EXCEPT ![r] = [Idle EXCEPT !.at = "look"]] /\ UNCHANGED <<lock, evicted>>
    BY <1>2 DEF StartProcess, StartJob, Start
  <2>2. \A p \in Lockers : Imports(p, s)' => Imports(p, s)
    BY <2>1 DEF TypeOK, Imports, Idle
  <2> QED BY <2>1, <2>2, FewerImports
<1>3. ASSUME NEW r \in Runs, Crash(r) PROVE Exclusive(s)'
  <2>1. run' = [run EXCEPT ![r] = Idle] /\ UNCHANGED lock
        /\ evicted'[s] = (evicted[s] /\ Others(r, s) # {})
    BY <1>3 DEF Crash
  <2>2. ~Imports(r, s)' /\ \A p \in Lockers \ {r} : Imports(p, s)' <=> Imports(p, s)
    BY <2>1 DEF TypeOK, Imports, Idle
  <2>3. CASE evicted[s] /\ Others(r, s) = {}
    BY <2>2, <2>3, NobodyLeft DEF Others
  <2>4. CASE evicted[s] /\ Others(r, s) # {}
    BY <2>1, <2>4 DEF Exclusive
  <2>5. CASE ~evicted[s]
    BY <2>1, <2>2, <2>5 DEF Exclusive
  <2> QED BY <2>3, <2>4, <2>5
<1>4. ASSUME NEW r \in Runs, Look(r) PROVE Exclusive(s)'
  <2>1. UNCHANGED <<lock, evicted>>
    BY <1>4 DEF Look
  <2>2. run' = [run EXCEPT ![r] = [@ EXCEPT !.at = "judge", !.copy = Loaded(r, run[r].scope)]]
    BY <1>4 DEF Look
  <2>3. \A p \in Lockers : Imports(p, s)' => Imports(p, s)
    BY <2>2 DEF TypeOK, Imports, Process
  <2> QED BY <2>1, <2>3, FewerImports
<1>12. ASSUME NEW r \in Runs, Skip(r) PROVE Exclusive(s)'
  <2>1. NextScope(r) /\ UNCHANGED <<lock, evicted>>
    BY <1>12 DEF Skip
  <2>2. \A p \in Lockers : Imports(p, s)' => Imports(p, s)
    BY <2>1, NextScopeIdle
  <2> QED BY <2>1, <2>2, FewerImports
<1>13. ASSUME NEW r \in Bare, \/ \E t \in Scope : StartBare(r, t)
                              \/ EndBare(r)
       PROVE Exclusive(s)'
  <2>1. PICK v : run' = [run EXCEPT ![r] = v]
    BY <1>13 DEF StartBare, EndBare
  <2>2. UNCHANGED <<lock, evicted>>
    BY <1>13 DEF StartBare, EndBare
  <2>3. \A p \in Lockers : Imports(p, s)' <=> Imports(p, s)
    BY <2>1, OtherProcess
  <2> QED BY <2>2, <2>3, FewerImports
<1>5. ASSUME NEW r \in Runs, Judge(r) \/ Reload(r) PROVE Exclusive(s)'
  <2>1. UNCHANGED <<lock, evicted>>
    BY <1>5 DEF Judge, Reload
  <2>2. Goto(r, "take") \/ Goto(r, "reclaim") \/ NextScope(r)
    BY <1>5 DEF Judge, Reload, GiveUp
  <2>3. \A p \in Lockers : Imports(p, s)' => Imports(p, s)
    BY <1>0, <2>2, GotoFact, NextScopeIdle
  <2> QED BY <2>1, <2>3, FewerImports
<1>6. ASSUME NEW r \in Runs, Reclaim(r) PROVE Exclusive(s)'
  <2>1. Goto(r, "reload") /\ run[r].at = "reclaim"
    BY <1>6 DEF Reclaim
  <2>2. ~Imports(r, s)' /\ \A p \in Lockers \ {r} : Imports(p, s)' <=> Imports(p, s)
    BY <1>0, <2>1, GotoFact
  <2>3. CASE run[r].scope = s
    <3>1. evicted'[s] = (Others(r, s) # {})
      BY <1>6, <2>3 DEF Reclaim, TypeOK
    <3>2. CASE Others(r, s) = {}
      BY <2>2, <3>2, NobodyLeft DEF Others
    <3>3. CASE Others(r, s) # {}
      BY <3>1, <3>3 DEF Exclusive
    <3> QED BY <3>2, <3>3
  <2>4. CASE run[r].scope # s
    <3>1. lock'[s] = lock[s] /\ evicted'[s] = evicted[s]
      BY <1>6, <2>4 DEF Reclaim, TypeOK
    <3> QED BY <2>2, <3>1 DEF Exclusive
  <2> QED BY <2>3, <2>4
<1>7. ASSUME NEW r \in Runs, Take(r) PROVE Exclusive(s)'
  <2> DEFINE t == run[r].scope
  <2>1. CASE lock[t] = Free
    <3>1. lock' = [lock EXCEPT ![t] = run[r].age] /\ Goto(r, "import") /\ UNCHANGED evicted
      BY <1>7, <2>1 DEF Take
    <3>2. /\ Imports(r, s)' <=> t = s
          /\ \A p \in Lockers \ {r} : Imports(p, s)' <=> Imports(p, s)
      BY <1>0, <3>1, GotoFact
    <3>3. CASE t = s
      <4>1. lock'[s] # Free
        BY <3>1, <3>3, NumbersFact DEF TypeOK, Process
      <4>2. ~evicted[s] => \A p \in Lockers : ~Imports(p, s)
        BY <2>1, <3>3 DEF Exclusive
      <4> QED BY <3>1, <3>2, <4>1, <4>2 DEF Exclusive
    <3>4. CASE t # s
      <4>1. lock'[s] = lock[s]
        BY <3>1, <3>4 DEF TypeOK
      <4>2. ~Imports(r, s)
        BY <3>4 DEF Imports
      <4> QED BY <3>1, <3>2, <3>4, <4>1, <4>2 DEF Exclusive
    <3> QED BY <3>3, <3>4
  <2>2. CASE lock[t] # Free
    <3>1. NextScope(r) /\ UNCHANGED <<lock, evicted>>
      BY <1>7, <2>2 DEF Take, GiveUp
    <3>2. \A p \in Lockers : Imports(p, s)' => Imports(p, s)
      BY <3>1, NextScopeIdle
    <3> QED BY <3>1, <3>2, FewerImports
  <2> QED BY <2>1, <2>2
<1>8. ASSUME NEW r \in Runs, Succeed(r) \/ Fail(r) PROVE Exclusive(s)'
  <2>1. run[r].at = "import" /\ Goto(r, "leave") /\ UNCHANGED <<lock, evicted>>
    BY <1>8 DEF Succeed, Fail
  <2>2. \A p \in Lockers : Imports(p, s)' => Imports(p, s)
    BY <1>0, <2>1, GotoFact DEF Imports
  <2> QED BY <2>1, <2>2, FewerImports
<1>9. ASSUME NEW r \in Runs, Leave(r) PROVE Exclusive(s)'
  <2>1. NextScope(r) /\ run[r].at = "leave" /\ r \in Lockers
    BY <1>9 DEF Leave
  <2>2. ~Imports(r, s)' /\ \A p \in Lockers \ {r} : Imports(p, s)' <=> Imports(p, s)
    BY <2>1, NextScopeIdle
  <2>3. CASE run[r].scope = s
    <3>1. evicted'[s] = (evicted[s] /\ Others(r, s) # {})
      BY <1>9, <2>3 DEF Leave, TypeOK
    <3>2. CASE Others(r, s) = {}
      BY <2>2, <3>2, NobodyLeft DEF Others
    <3>3. CASE Others(r, s) # {} /\ evicted[s]
      BY <3>1, <3>3 DEF Exclusive
    <3>4. CASE ~evicted[s]
      <4>1. Imports(r, s)
        BY <2>1, <2>3 DEF Imports
      <4>2. \A p \in Lockers \ {r} : ~Imports(p, s)
        BY <2>1, <3>4, <4>1 DEF Exclusive
      <4> QED BY <2>2, <4>2, NobodyLeft
    <3> QED BY <3>2, <3>3, <3>4
  <2>4. CASE run[r].scope # s
    <3>1. lock'[s] = lock[s] /\ evicted'[s] = evicted[s]
      BY <1>9, <2>4 DEF Leave, TypeOK
    <3> QED BY <2>2, <3>1 DEF Exclusive
  <2> QED BY <2>3, <2>4
<1>10. CASE (\E t \in Scope : ComeDue(t)) \/ StartOtherJob \/ CloseJob
  BY <1>10, FewerImports DEF ComeDue, StartOtherJob, CloseJob, Imports
<1>11. CASE Tick
  <2>1. \A p \in Lockers : Imports(p, s)' <=> Imports(p, s)
    BY <1>11 DEF Tick, TypeOK, Imports, Process
  <2>2. lock[s] # Free => lock'[s] # Free
    BY <1>11, NumbersFact DEF Tick, TypeOK, Older, Oldest, Free
  <2> QED BY <1>11, <2>1, <2>2 DEF Tick, Exclusive
<1> QED BY <1>1, <1>2, <1>3, <1>4, <1>5, <1>6, <1>7, <1>8, <1>9, <1>10, <1>11, <1>12, <1>13
        DEF Next, Step, StartBare, EndBare

(* Two imports share a scope only if one of them takes no lock, or after a *)
(* lock was reclaimed from an import that was still going on.              *)
THEOREM OneImporter == Spec => []OneImportPerScope
<1>1. Init => IInv
  BY TypeInit, ExclusiveInit DEF IInv
<1>2. IInv /\ [Next]_vars => IInv'
  BY TypeStep, ExclusiveStep DEF IInv
<1>3. IInv => OneImportPerScope
  BY RunsFact DEF IInv, Exclusive, OneImportPerScope
<1> QED BY <1>1, <1>2, <1>3, PTL DEF Spec
=============================================================================
