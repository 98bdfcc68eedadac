-------------------------- MODULE ProjectionsProofs --------------------------
(***************************************************************************)
(* What is proved of the read projections: the types, that rows are only   *)
(* replaced by newer ones, that what was compared with the snapshots is    *)
(* answered from rows that were current during the request, and that the   *)
(* sessions that rebuild them implement AtomicRebuilds.  All hold for any  *)
(* places, cities, sessions, requests and bounds.                          *)
(***************************************************************************)
EXTENDS Projections, WellFoundedInduction, TLAPS

-----------------------------------------------------------------------------
(* The newest of the versions of a scope. *)

LEMMA LeastNat ==
    ASSUME NEW T \in SUBSET Nat, T # {}
    PROVE  \E x \in T : \A y \in T : x <= y
<1>1. PICK x \in T : \A y \in T : ~(<<y, x>> \in OpToRel(<, Nat))
  BY NatLessThanWellFounded, WFMin
<1>2. \A y \in T : <<y, x>> \in OpToRel(<, Nat) <=> y < x
  BY DEF OpToRel
<1>3. \A y \in T : ~(y < x)
  BY <1>1, <1>2, Zenon
<1> QED BY <1>3

LEMMA MaxIsMember ==
    ASSUME NEW N \in Nat, NEW S \in SUBSET (0..N), S # {}
    PROVE  Max(S) \in S
<1> DEFINE U == {n \in Nat : \A y \in S : y <= n}
<1>1. PICK x \in U : \A y \in U : x <= y
  <2>1. U \in SUBSET Nat /\ N \in U
    OBVIOUS
  <2>2. U # {}
    BY <2>1
  <2> HIDE DEF U
  <2> QED BY <2>1, <2>2, LeastNat
<1>2. x \in S
  <2>1. SUFFICES ASSUME x \notin S PROVE FALSE
    OBVIOUS
  <2>2. PICK s \in S : TRUE
    OBVIOUS
  <2>3. s < x
    BY <1>1, <2>1, <2>2
  <2>4. x - 1 \in U
    BY <1>1, <2>1, <2>2, <2>3
  <2> QED BY <2>4, <1>1
<1>3. \A y \in S : x >= y
  BY <1>1
<1> QED BY <1>2, <1>3 DEF Max

LEMMA SourceVersionTyped ==
    ASSUME NEW shown \in [Places -> Version], NEW scope
    PROVE  SourceVersion(shown, scope) \in Version
<1> DEFINE S == {0} \union {shown[p] : p \in In(scope)}
<1>1. S \in SUBSET (0..MaxVersion) /\ S # {} /\ MaxVersion \in Nat
  BY BoundsAssumption DEF Version, In
<1>2. Max(S) \in S
  <2> HIDE DEF S
  <2> QED BY <1>1, MaxIsMember
<1> QED BY <1>1, <1>2 DEF SourceVersion, Version

-----------------------------------------------------------------------------
(* Types. *)

LEMMA Zero == 0 \in Version
BY BoundsAssumption DEF Version

LEMMA NothingTyped == Nothing \in [Places -> Version]
BY Zero DEF Nothing

LEMMA AwayTyped == Away \in Build
BY Zero DEF Away, Build, Builds, Kinds, Scopes, Snapshot

LEMMA IdleTyped == Idle \in Request
BY Zero, NothingTyped DEF Idle, Request, Operations, Kinds, RowKinds, Scopes

LEMMA FailingTyped ==
    ASSUME NEW kind \in Builds, NEW scope \in Scopes
    PROVE  Failing(kind, scope) \in Build
BY Zero DEF Failing, Away, Build, Snapshot

LEMMA ShownNowTyped ==
    ASSUME TypeOK, NEW scope
    PROVE  ShownNow(scope) \in [Places -> Version]
BY Zero DEF ShownNow, Shown, TypeOK, Snapshot

LEMMA InitTyped == Init => TypeOK
BY Zero, NothingTyped, AwayTyped, IdleTyped, BoundsAssumption
DEF Init, TypeOK, Snapshot, Job, NoSet, NoJob

LEMMA CopiesTyped ==
    ASSUME NEW b \in Build
    PROVE  Copies(b) \in [Places -> Version]
BY Zero DEF Copies, Shown, Build, Snapshot

LEMMA RecordTyped ==
    ASSUME TypeOK, NEW kind \in Kinds, NEW scope \in Scopes,
           NEW job \in Job,
           Record(kind, scope, job)
    PROVE  jobs' \in [Kinds -> [Scopes -> Job]]
BY DEF TypeOK, Record

LEMMA LeaveTyped ==
    ASSUME TypeOK, NEW a \in Admins, Leave(a)
    PROVE  build' \in [Admins -> Build] /\ lock' \in Admins \union {None}
BY AwayTyped DEF TypeOK, Leave

(* The sources of a build are snapshots. *)
LEMMA SourcesTyped ==
    ASSUME TypeOK, NEW kind, NEW scope, kind = "snapshots" => generation < MaxVersion,
           NEW source \in Sources(kind, scope)
    PROVE  source \in [Places -> Snapshot]
<1>1. CASE kind = "snapshots"
  <2>1. generation + 1 \in Version
    BY <1>1, BoundsAssumption DEF TypeOK, Version
  <2>2. PICK found \in [In(scope) -> BOOLEAN] :
          source = [p \in Places |-> IF p \in In(scope)
                      THEN [version |-> generation + 1, public |-> found[p]] ELSE snapshot[p]]
    BY <1>1 DEF Sources
  <2>3. ASSUME NEW p \in Places PROVE source[p] \in Snapshot
    BY <2>1, <2>2 DEF TypeOK, Snapshot
  <2> QED BY <2>2, <2>3
<1>2. CASE kind # "snapshots"
  BY <1>2 DEF Sources, TypeOK
<1> QED BY <1>1, <1>2

LEMMA CommitTyped ==
    ASSUME TypeOK, NEW a \in Admins, Commit(a),
           build[a].kind = "snapshots" => generation < MaxVersion
    PROVE  TypeOK'
<1> DEFINE b == build[a]
<1>1. /\ b \in Build /\ Copies(b) \in [Places -> Version]
      /\ b.source \in [Places -> Snapshot] /\ b.kind \in Builds /\ b.scope \in Scopes
      /\ b.listed \subseteq Places
  BY CopiesTyped DEF TypeOK, Build
<1>2. Succeeded(b) \in Job
  BY <1>1, SourceVersionTyped DEF Succeeded, Job
<1>3. build' \in [Admins -> Build] /\ lock' \in Admins \union {None}
  BY LeaveTyped DEF Commit
<1>4. CASE CommitSnapshots(b)
  <2>1. snapshot' \in [Places -> Snapshot]
    BY <1>1, <1>4 DEF CommitSnapshots, TypeOK
  <2>2. generation' \in Version
    BY <1>4, BoundsAssumption DEF CommitSnapshots, TypeOK, Version
  <2>3. \A p \in Places : Shown(snapshot'[p]) \in Version
    BY <2>1, Zero DEF Shown, Snapshot
  <2>4. since' \in [Requests -> [Places -> SUBSET Version]]
    BY <1>4, <2>3 DEF CommitSnapshots, TypeOK
  <2> QED BY <1>3, <1>4, <2>1, <2>2, <2>4 DEF CommitSnapshots, TypeOK, Commit
<1>5. CASE CommitRows(b)
  <2>1. b.kind \in Kinds
    BY <1>5 DEF CommitRows, Kinds
  <2>2. [jobs[b.kind][b.scope] EXCEPT !.latest = "failed"] \in Job
    <3>1. jobs[b.kind][b.scope] \in Job
      BY <1>1, <2>1 DEF TypeOK
    <3> QED BY <3>1 DEF Job
  <2>3. jobs' \in [Kinds -> [Scopes -> Job]]
    BY <1>1, <1>2, <1>5, <2>1, <2>2, RecordTyped DEF CommitRows
  <2>4. rows' \in [RowKinds -> [Places -> Version]]
    <3> DEFINE copied == [p \in Places |-> IF p \in In(b.scope) THEN Copies(b)[p]
                                           ELSE rows[b.kind][p]]
    <3>1. b.kind \in RowKinds /\ rows \in [RowKinds -> [Places -> Version]]
      BY <1>5 DEF CommitRows, TypeOK
    <3>2. copied \in [Places -> Version]
      BY <1>1, <3>1
    <3>3. rows' = rows \/ rows' = [rows EXCEPT ![b.kind] = copied]
      BY <1>5 DEF CommitRows
    <3> HIDE DEF copied
    <3> QED BY <3>1, <3>2, <3>3
  <2> QED BY <1>3, <1>5, <2>3, <2>4 DEF CommitRows, TypeOK, Commit
<1>6. CASE CommitSets(b)
  <2>1. jobs' \in [Kinds -> [Scopes -> Job]]
    BY <1>1, <1>2, <1>6, RecordTyped DEF CommitSets, Kinds
  <2>2. ASSUME NEW c \in Cities
        PROVE  [version |-> Succeeded(b).version, ids |-> b.listed \intersect In(c)]
                 \in [version : Version, ids : SUBSET Places]
    BY <1>1, <1>2 DEF Job
  <2>3. NoSet \in [version : Version, ids : SUBSET Places]
    BY Zero DEF NoSet
  <2>4. sets' \in [Cities -> [version : Version, ids : SUBSET Places]]
    <3> DEFINE New(c) == IF b.scope \notin {All, c} THEN sets[c]
                         ELSE IF \A p \in In(c) : Copies(b)[p] = 0 THEN NoSet
                         ELSE [version |-> Succeeded(b).version, ids |-> b.listed \intersect In(c)]
    <3>1. sets' = [c \in Cities |-> New(c)]
      BY <1>6 DEF CommitSets
    <3>2. ASSUME NEW c \in Cities PROVE New(c) \in [version : Version, ids : SUBSET Places]
      <4>1. sets[c] \in [version : Version, ids : SUBSET Places]
        BY DEF TypeOK
      <4> QED BY <2>2, <2>3, <4>1
    <3> HIDE DEF New
    <3> QED BY <3>1, <3>2
  <2> QED BY <1>3, <1>6, <2>1, <2>4 DEF CommitSets, TypeOK, Commit
<1> QED BY <1>4, <1>5, <1>6 DEF Commit

(* Beginning and giving up touch nothing that is read. *)
TouchesNoRow(a) ==
    \/ \E b \in Rebuilt : Begin(a, b[1], b[2]) \/ TimeOut(a, b[1], b[2])
    \/ Raise(a) \/ RecordFailure(a) \/ Abandon(a)

LEMMA BuildTyped ==
    ASSUME TypeOK, NEW a \in Admins, TouchesNoRow(a)
    PROVE  TypeOK'
<1>0. \A n \in 0..MaxJobs : n < MaxJobs => n + 1 \in 0..MaxJobs
  BY BoundsAssumption
<1>1. ASSUME NEW b \in Rebuilt, Begin(a, b[1], b[2]) PROVE TypeOK'
  <2>1. b[1] \in Builds /\ b[2] \in Scopes
    BY RebuiltAssumption
  <2>2. PICK source \in Sources(b[1], b[2]) :
          build' = [build EXCEPT ![a] =
                      [at |-> "building", kind |-> b[1], scope |-> b[2], source |-> source,
                       listed |-> IF b[1] = "sets"
                                  THEN {p \in In(b[2]) : rows["nodes"][p] > 0} ELSE {}]]
    BY <1>1 DEF Begin
  <2>3. source \in [Places -> Snapshot]
    BY <1>1, SourcesTyped DEF Begin
  <2>4. {p \in In(b[2]) : rows["nodes"][p] > 0} \subseteq Places
    BY DEF In
  <2>5. build' \in [Admins -> Build]
    BY <2>1, <2>2, <2>3, <2>4 DEF TypeOK, Build
  <2> QED BY <1>0, <1>1, <2>5 DEF Begin, TypeOK, tables
<1>2. ASSUME NEW b \in Rebuilt, TimeOut(a, b[1], b[2]) PROVE TypeOK'
  <2>1. Failing(b[1], b[2]) \in Build
    BY RebuiltAssumption, FailingTyped
  <2> QED BY <1>0, <1>2, <2>1 DEF TimeOut, TypeOK, tables
<1>3. CASE Raise(a)
  <2>1. Failing(build[a].kind, build[a].scope) \in Build
    BY FailingTyped DEF TypeOK, Build
  <2> QED BY <1>3, <2>1 DEF Raise, TypeOK, tables
<1>4. CASE RecordFailure(a)
  <2>1. jobs' \in [Kinds -> [Scopes -> Job]]
    <3>1. CASE build[a].kind \in Kinds
      <4>1. build[a].scope \in Scopes
        BY DEF TypeOK, Build
      <4>2. [jobs[build[a].kind][build[a].scope] EXCEPT !.latest = "failed"] \in Job
        <5>1. jobs[build[a].kind][build[a].scope] \in Job
          BY <3>1, <4>1 DEF TypeOK
        <5> QED BY <5>1 DEF Job
      <4> QED BY <1>4, <3>1, <4>1, <4>2, RecordTyped DEF RecordFailure
    <3>2. CASE build[a].kind \notin Kinds
      BY <1>4, <3>2 DEF RecordFailure, TypeOK
    <3> QED BY <3>1, <3>2
  <2> QED BY <1>4, <2>1, LeaveTyped DEF RecordFailure, TypeOK
<1>5. CASE Abandon(a)
  BY <1>5, LeaveTyped DEF Abandon, TypeOK, tables
<1> QED BY <1>1, <1>2, <1>3, <1>4, <1>5 DEF TouchesNoRow

-----------------------------------------------------------------------------
(* What a statement of a request does to what the request knows. *)

(* Requests that assert the readiness of the scope they ask for. *)
Direct == {"list", "search", "route"}

(* Every operation makes its own statements only. *)
StatementsAreOwn ==
    \A r \in Requests : LET q == request[r] IN
        /\ q.at = "fetch" => q.op \notin Direct
        /\ q.at \in {"candidates", "points"} => q.op = "route"
        /\ q.op \in Direct => q.left = {}
        /\ q.op = "route" => q.scope \in Cities

Moves(r, q) ==
    /\ q \in Request
    /\ q.at \notin {"idle", "fetch"} /\ request[r].at # "idle"
    /\ q.op = request[r].op
    /\ q.op \in Direct => q.scope = request[r].scope /\ q.left = {}
    /\ q.at \in {"candidates", "points"} => q.op = "route"
    /\ q.at = "compare" => q.source = ShownNow(q.scope)
    /\ q.checked =>
         \/ request[r].checked
         \/ /\ request[r].at = "compare"
            /\ \A p \in In(request[r].scope) : rows[Basis(q.op)][p] = request[r].source[p]

Statement(r) ==
    \/ Exists(r) \/ Latest(r) \/ Success(r) \/ JudgeSource(r)
    \/ Expected(r) \/ Compare(r) \/ Recount(r) \/ Rematch(r)
    \/ Fetch(r) \/ Answer(r) \/ Candidates(r) \/ Points(r)

LEMMA ReadyMoves ==
    ASSUME TypeOK, StatementsAreOwn, NEW r \in Requests, NEW q \in Request,
           request[r].at # "idle",
           q.op = request[r].op, q.scope = request[r].scope, q.left = request[r].left,
           q.checked =>
             \/ request[r].checked
             \/ /\ request[r].at = "compare"
                /\ \A p \in In(request[r].scope) : rows[Basis(q.op)][p] = request[r].source[p],
           Ready(r, q)
    PROVE  \E t \in Request : GoOn(r, t) /\ Moves(r, t)
<1> DEFINE u == [q EXCEPT !.version = 0, !.source = Nothing]
           after == CASE u.op = "search" -> "recount"
                      [] u.op = "route" -> "candidates"
                      [] OTHER -> "answer"
<1>1. /\ u \in Request /\ u.op = q.op /\ u.scope = q.scope /\ u.left = q.left
      /\ u.checked = q.checked
  BY Zero, NothingTyped DEF Request
<1>2. CASE u.left # {}
  <2>1. PICK s \in u.left : GoOn(r, [u EXCEPT !.at = "exists", !.scope = s, !.left = @ \ {s}])
    BY <1>2 DEF Ready
  <2> DEFINE t == [u EXCEPT !.at = "exists", !.scope = s, !.left = @ \ {s}]
  <2>2. t \in Request /\ t.at = "exists" /\ t.op = q.op /\ t.checked = q.checked
    BY <1>1 DEF Request, AssertionStatements
  <2>3. q.op \notin Direct
    BY <1>1, <1>2 DEF StatementsAreOwn
  <2>4. GoOn(r, t)
    BY <2>1
  <2> HIDE DEF t
  <2> QED BY <2>2, <2>3, <2>4 DEF Moves
<1>3. CASE u.left = {} /\ u.kind = "nodes"
  <2> DEFINE t == [u EXCEPT !.at = "exists", !.kind = "sets"]
  <2>1. /\ t \in Request /\ t.at = "exists" /\ t.op = q.op /\ t.checked = q.checked
        /\ t.scope = q.scope /\ t.left = {}
    BY <1>1, <1>3 DEF Request, AssertionStatements, Kinds
  <2>2. GoOn(r, t)
    BY <1>3 DEF Ready
  <2> HIDE DEF t
  <2> QED BY <2>1, <2>2 DEF Moves
<1>4. CASE u.left = {} /\ u.kind # "nodes"
  <2> DEFINE t == [u EXCEPT !.at = after]
  <2>1. /\ after \in {"recount", "candidates", "answer"}
        /\ after = "candidates" => u.op = "route"
    OBVIOUS
  <2>2. GoOn(r, t)
    BY <1>4 DEF Ready
  <2> HIDE DEF after
  <2>3. /\ t \in Request /\ t.at = after /\ t.op = q.op /\ t.checked = q.checked
        /\ t.scope = q.scope /\ t.left = {}
    BY <1>1, <1>4, <2>1 DEF Request, SearchStatements, OwnStatements
  <2> HIDE DEF t, u
  <2> QED BY <1>1, <2>1, <2>2, <2>3 DEF Moves
<1> QED BY <1>2, <1>3, <1>4

LEMMA StatementMoves ==
    ASSUME TypeOK, StatementsAreOwn, NEW r \in Requests, Statement(r)
    PROVE  /\ Reads
           /\ End(r) \/ \E t \in Request : GoOn(r, t) /\ Moves(r, t)
<1> DEFINE q == request[r]
           Stays(t) == /\ t.op = q.op /\ t.scope = q.scope /\ t.left = q.left
                       /\ t.checked = q.checked
<1>0. /\ q \in Request
      /\ q.kind \in Kinds /\ q.scope \in Scopes /\ q.job \in Scopes
      /\ jobs \in [Kinds -> [Scopes -> Job]]
  BY DEF TypeOK, Request
<1>s. ASSUME NEW t \in Request, Stays(t), q.at # "idle", t.at \notin {"idle", "fetch", "compare"},
             t.at \in {"candidates", "points"} => t.op = "route"
      PROVE  Moves(r, t)
  BY <1>s DEF Moves, StatementsAreOwn
<1>1. CASE Exists(r)
  <2> DEFINE t == [q EXCEPT !.at = "latest",
                            !.job = IF jobs[q.kind][q.scope].latest = "none" THEN All ELSE q.scope]
  <2>1. t \in Request /\ t.at = "latest" /\ Stays(t)
    BY <1>0 DEF Request, AssertionStatements, Scopes
  <2>2. GoOn(r, t) /\ Reads /\ q.at = "exists"
    BY <1>1 DEF Exists
  <2> HIDE DEF t, Stays
  <2> QED BY <1>s, <2>1, <2>2
<1>2. CASE Latest(r)
  <2> DEFINE t == [q EXCEPT !.at = "success"]
  <2>1. t \in Request /\ t.at = "success" /\ Stays(t)
    BY <1>0 DEF Request, AssertionStatements
  <2>2. (GoOn(r, t) \/ End(r)) /\ Reads /\ q.at = "latest"
    BY <1>2 DEF Latest, Require
  <2> HIDE DEF t, Stays
  <2> QED BY <1>s, <2>1, <2>2
<1>3. CASE Success(r)
  <2> DEFINE t == [q EXCEPT !.at = "source", !.version = jobs[q.kind][q.job].version]
  <2>1. t \in Request /\ t.at = "source" /\ Stays(t)
    <3>1. jobs[q.kind][q.job].version \in Version
      BY <1>0 DEF Job
    <3> QED BY <1>0, <3>1 DEF Request, AssertionStatements
  <2>2. GoOn(r, t) /\ Reads /\ q.at = "success"
    BY <1>3 DEF Success
  <2> HIDE DEF t, Stays
  <2> QED BY <1>s, <2>1, <2>2
<1>4. CASE JudgeSource(r)
  <2> DEFINE v == SourceVersion(ShownNow(q.scope), q.scope)
             t == [q EXCEPT !.at = "expected", !.job = All,
                            !.version = IF q.kind = "sets" THEN @ ELSE 0,
                            !.nodes = IF q.kind = "nodes" THEN v ELSE 0]
  <2>0. v \in Version
    BY ShownNowTyped, SourceVersionTyped
  <2>2. (GoOn(r, t) \/ End(r)) /\ Reads /\ q.at = "source"
    BY <1>4 DEF JudgeSource, Require
  <2> HIDE DEF v
  <2>1. t \in Request /\ t.at = "expected" /\ Stays(t)
    BY <1>0, <2>0, Zero DEF Request, AssertionStatements, Scopes
  <2> HIDE DEF t, Stays
  <2> QED BY <1>s, <2>1, <2>2
<1>5. CASE Expected(r)
  <2> DEFINE t == [q EXCEPT !.at = "compare", !.source = ShownNow(q.scope)]
  <2>1. t \in Request /\ t.at = "compare" /\ Stays(t) /\ t.source = ShownNow(q.scope)
    BY <1>0, ShownNowTyped DEF Request, AssertionStatements
  <2>2. Reads /\ q.at = "expected" /\ (Ready(r, t) \/ GoOn(r, t))
    BY <1>5 DEF Expected
  <2> HIDE DEF t
  <2>3. CASE Ready(r, t)
    BY <2>1, <2>2, <2>3, ReadyMoves
  <2>4. CASE GoOn(r, t)
    BY <2>1, <2>2, <2>4 DEF Moves, StatementsAreOwn
  <2> QED BY <2>2, <2>3, <2>4
<1>6. CASE Compare(r)
  <2> DEFINE t == [q EXCEPT !.checked = @ \/ q.kind = Basis(q.op)]
  <2>1. /\ t \in Request /\ t.op = q.op /\ t.scope = q.scope /\ t.left = q.left
        /\ t.checked = (q.checked \/ q.kind = Basis(q.op))
    BY <1>0 DEF Request
  <2>2. /\ Reads /\ q.at = "compare"
        /\ \/ End(r)
           \/ Ready(r, t) /\ (q.kind # "sets" => RowsMatch(q))
    BY <1>6 DEF Compare
  <2>3. Basis(q.op) # "sets"
    BY DEF Basis
  <2> HIDE DEF t
  <2>4. CASE Ready(r, t) /\ (q.kind # "sets" => RowsMatch(q))
    <3>1. t.checked => \/ q.checked
                       \/ \A p \in In(q.scope) : rows[Basis(t.op)][p] = q.source[p]
      BY <2>1, <2>3, <2>4 DEF RowsMatch
    <3> QED BY <2>1, <2>2, <2>4, <3>1, ReadyMoves
  <2> QED BY <2>2, <2>4
<1>7. CASE Recount(r)
  <2> DEFINE t == [q EXCEPT !.at = "answer"]
             u == [q EXCEPT !.at = "rematch", !.source = ShownNow(q.scope)]
  <2>1. /\ t \in Request /\ t.at = "answer" /\ Stays(t)
        /\ u \in Request /\ u.at = "rematch" /\ Stays(u)
    BY <1>0, ShownNowTyped DEF Request, OwnStatements, SearchStatements
  <2>2. Reads /\ q.at = "recount" /\ (GoOn(r, t) \/ GoOn(r, u))
    BY <1>7 DEF Recount
  <2> HIDE DEF t, u, Stays
  <2> QED BY <1>s, <2>1, <2>2
<1>8. CASE Rematch(r)
  <2> DEFINE t == [q EXCEPT !.at = "answer"]
  <2>1. t \in Request /\ t.at = "answer" /\ Stays(t)
    BY <1>0 DEF Request, OwnStatements
  <2>2. Reads /\ q.at = "rematch" /\ (GoOn(r, t) \/ End(r))
    BY <1>8 DEF Rematch, Require
  <2> HIDE DEF t, Stays
  <2> QED BY <1>s, <2>1, <2>2
<1>9. CASE Fetch(r)
  <2> DEFINE documents == rows["documents"]
             cities == {CityOf[p] : p \in {p \in Places : documents[p] > 0}}
             scopes == IF cities = {} THEN {All} ELSE cities
             go == [q EXCEPT !.at = "exists"]
  <2>1. documents \in [Places -> Version] /\ scopes \subseteq Scopes
    BY ScopesAssumption DEF TypeOK, RowKinds, Scopes
  <2>2. q.at = "fetch" /\ q.op \notin Direct /\ Reads
    BY <1>9 DEF Fetch, StatementsAreOwn
  <2>3. /\ go \in Request /\ go.at = "exists" /\ go.op = q.op /\ go.checked = q.checked
    BY <1>0 DEF Request, AssertionStatements
  <2>4. ASSUME NEW t \in Request, t.at = "exists", t.op = q.op, t.checked = q.checked
        PROVE  Moves(r, t)
    BY <2>2, <2>4 DEF Moves
  <2>5. CASE \E s \in scopes :
               GoOn(r, [go EXCEPT !.scope = s, !.left = scopes \ {s},
                                  !.got = IF go.op = "nearby" THEN documents ELSE Nothing])
    <3>1. PICK s \in scopes :
               GoOn(r, [go EXCEPT !.scope = s, !.left = scopes \ {s},
                                  !.got = IF go.op = "nearby" THEN documents ELSE Nothing])
      BY <2>5
    <3> DEFINE t == [go EXCEPT !.scope = s, !.left = scopes \ {s},
                               !.got = IF go.op = "nearby" THEN documents ELSE Nothing]
    <3> HIDE DEF documents, scopes, go
    <3>2. t \in Request /\ t.at = "exists" /\ t.op = q.op /\ t.checked = q.checked
      BY <2>1, <2>3, NothingTyped DEF Request
    <3> QED BY <2>2, <2>4, <3>1, <3>2
  <2>6. CASE \E p \in Places :
               /\ go.op = "card" /\ documents[p] > 0
               /\ GoOn(r, [go EXCEPT !.scope = CityOf[p],
                                     !.got = [Nothing EXCEPT ![p] = documents[p]]])
    <3>1. PICK p \in Places :
               GoOn(r, [go EXCEPT !.scope = CityOf[p],
                                  !.got = [Nothing EXCEPT ![p] = documents[p]]])
      BY <2>6
    <3> DEFINE t == [go EXCEPT !.scope = CityOf[p], !.got = [Nothing EXCEPT ![p] = documents[p]]]
    <3> HIDE DEF documents, go
    <3>2. CityOf[p] \in Scopes /\ [Nothing EXCEPT ![p] = documents[p]] \in [Places -> Version]
      BY <2>1, NothingTyped, ScopesAssumption DEF Scopes
    <3>3. t \in Request /\ t.at = "exists" /\ t.op = q.op /\ t.checked = q.checked
      BY <2>3, <3>2 DEF Request
    <3> QED BY <2>2, <2>4, <3>1, <3>3
  <2> QED BY <1>9, <2>5, <2>6 DEF Fetch
<1>10. CASE Answer(r) \/ Points(r)
  BY <1>10 DEF Answer, Points
<1>11. CASE Candidates(r)
  <2> DEFINE set == sets[q.scope]
             got == [p \in Places |-> IF p \in set.ids THEN set.version ELSE 0]
             t == [q EXCEPT !.at = "points", !.got = got]
  <2>1. Reads /\ q.at = "candidates" /\ q.op = "route" /\ (GoOn(r, t) \/ End(r))
    BY <1>11 DEF Candidates, Require, StatementsAreOwn
  <2>2. set.version \in Version
    <3>1. q.scope \in Cities
      BY <2>1 DEF StatementsAreOwn
    <3> QED BY <3>1 DEF TypeOK
  <2>3. got \in [Places -> Version]
    <3> HIDE DEF set
    <3> QED BY <2>2, Zero
  <2> HIDE DEF got
  <2>4. t \in Request /\ t.at = "points" /\ Stays(t)
    BY <1>0, <2>3 DEF Request, OwnStatements
  <2> HIDE DEF t
  <2>5. t.op = "route"
    BY <2>1, <2>4
  <2> HIDE DEF Stays
  <2> QED BY <1>s, <2>1, <2>4, <2>5
<1> QED BY <1>1, <1>2, <1>3, <1>4, <1>5, <1>6, <1>7, <1>8, <1>9, <1>10, <1>11 DEF Statement

-----------------------------------------------------------------------------
(* The inductive invariant. *)

(* Whoever builds has the lock, and what it read under it has not changed. *)
BuildsAreCurrent ==
    \A a \in Admins : LET b == build[a] IN
        b.at = "building" =>
            /\ lock = a
            /\ b.kind # "snapshots" => b.source = snapshot
            /\ b.kind = "snapshots" =>
                 /\ generation < MaxVersion
                 /\ \A p \in In(b.scope) : b.source[p].version = generation + 1

(* Rows copy snapshots, and snapshots are numbered by generations. *)
VersionsAscend ==
    \A p \in Places :
        /\ snapshot[p].version <= generation
        /\ \A k \in RowKinds : rows[k][p] <= snapshot[p].version

(* What is shown now was shown since each request began. *)
SinceIsNow ==
    \A r \in Running : \A p \in Places : Shown(snapshot[p]) \in since[r][p]

(* So were the snapshots that rows are about to be compared with. *)
SourceWasShown ==
    \A r \in Requests : request[r].at = "compare" =>
        \A p \in In(request[r].scope) : request[r].source[p] \in since[r][p]

(* So were the rows, once they were compared, whatever replaces them.      *)
CheckedWasShown ==
    \A r \in Running : LET q == request[r] IN
        q.checked /\ q.op \in Direct =>
            \A p \in In(q.scope) : rows[Basis(q.op)][p] \in since[r][p]

IInv ==
    /\ TypeOK
    /\ StatementsAreOwn
    /\ BuildsAreCurrent
    /\ VersionsAscend
    /\ SinceIsNow
    /\ SourceWasShown
    /\ CheckedWasShown

LEMMA InitIInv == Init => IInv
<1> SUFFICES ASSUME Init PROVE IInv
  OBVIOUS
<1>1. TypeOK
  BY InitTyped
<1>2. \A r \in Requests : request[r] = Idle
  BY DEF Init
<1>3. StatementsAreOwn /\ Running = {}
  BY <1>2 DEF StatementsAreOwn, Idle, Direct, Running
<1>4. BuildsAreCurrent
  BY DEF Init, BuildsAreCurrent, Away
<1>5. VersionsAscend
  BY DEF Init, VersionsAscend, Nothing
<1>6. SinceIsNow /\ SourceWasShown /\ CheckedWasShown
  BY <1>2, <1>3 DEF SinceIsNow, SourceWasShown, CheckedWasShown, Idle
<1> QED BY <1>1, <1>3, <1>4, <1>5, <1>6 DEF IInv

LEMMA TouchesNoRowStep ==
    ASSUME IInv, NEW a \in Admins, TouchesNoRow(a)
    PROVE  IInv'
<1>0. /\ build \in [Admins -> Build] /\ BuildsAreCurrent /\ None \notin Admins
      /\ \A x \in Admins : build[x] \in Build
  BY NobodyAssumption DEF IInv, TypeOK
<1>1. TypeOK'
  BY BuildTyped DEF IInv, TouchesNoRow
<1>2. UNCHANGED <<snapshot, generation, rows, request, since>>
  BY DEF TouchesNoRow, Begin, TimeOut, Raise, RecordFailure, Abandon, tables
<1>3. BuildsAreCurrent'
  <2>1. ASSUME NEW b \in Rebuilt, Begin(a, b[1], b[2]) PROVE BuildsAreCurrent'
    <3>1. PICK source \in Sources(b[1], b[2]) :
            build' = [build EXCEPT ![a] =
                        [at |-> "building", kind |-> b[1], scope |-> b[2], source |-> source,
                         listed |-> IF b[1] = "sets"
                                    THEN {p \in In(b[2]) : rows["nodes"][p] > 0} ELSE {}]]
      BY <2>1 DEF Begin
    <3>2. \A x \in Admins \ {a} : build[x].at # "building" /\ build'[x] = build[x]
      BY <1>0, <2>1, <3>1 DEF Begin, LockIsFree, BuildsAreCurrent
    <3>3. /\ build'[a].kind = b[1] /\ build'[a].scope = b[2] /\ build'[a].source = source
          /\ lock' = a
      BY <1>0, <2>1, <3>1 DEF Begin
    <3>4. b[1] # "snapshots" => source = snapshot
      BY DEF Sources
    <3>5. b[1] = "snapshots" =>
            /\ generation < MaxVersion
            /\ \A p \in In(b[2]) : source[p].version = generation + 1
      <4>1. SUFFICES ASSUME b[1] = "snapshots"
                     PROVE  /\ generation < MaxVersion
                            /\ \A p \in In(b[2]) : source[p].version = generation + 1
        OBVIOUS
      <4>2. PICK found \in [In(b[2]) -> BOOLEAN] :
              source = [p \in Places |-> IF p \in In(b[2])
                          THEN [version |-> generation + 1, public |-> found[p]] ELSE snapshot[p]]
        BY <4>1 DEF Sources
      <4>3. In(b[2]) \subseteq Places
        BY DEF In
      <4> QED BY <2>1, <4>1, <4>2, <4>3 DEF Begin
    <3> QED BY <1>2, <3>2, <3>3, <3>4, <3>5 DEF BuildsAreCurrent
  <2>2. ASSUME NEW b \in Rebuilt, TimeOut(a, b[1], b[2]) PROVE BuildsAreCurrent'
    BY <1>0, <1>2, <2>2 DEF TimeOut, BuildsAreCurrent, Failing, Away
  <2>3. CASE Raise(a)
    BY <1>0, <1>2, <2>3 DEF Raise, BuildsAreCurrent, Failing, Away
  <2>4. CASE RecordFailure(a)
    BY <1>0, <1>2, <2>4 DEF RecordFailure, Leave, BuildsAreCurrent, Away
  <2>5. CASE Abandon(a)
    BY <1>0, <1>2, <2>5 DEF Abandon, Leave, BuildsAreCurrent, Away
  <2> QED BY <2>1, <2>2, <2>3, <2>4, <2>5 DEF TouchesNoRow
<1>4. (StatementsAreOwn /\ VersionsAscend /\ SinceIsNow /\ SourceWasShown /\ CheckedWasShown)'
  BY <1>2 DEF IInv, StatementsAreOwn, VersionsAscend, SinceIsNow, SourceWasShown,
              CheckedWasShown, Running, Shown
<1> QED BY <1>1, <1>3, <1>4 DEF IInv

(* A build replaces rows by what is shown now. *)
LEMMA CommitRowsWrites ==
    ASSUME IInv, NEW a \in Admins, Commit(a),
           NEW k \in RowKinds, NEW p \in Places, rows'[k][p] # rows[k][p]
    PROVE  rows'[k][p] = Shown(snapshot[p]) /\ UNCHANGED <<snapshot, generation, since>>
<1> DEFINE b == build[a]
<1>1. CommitRows(b)
  BY DEF Commit, CommitSnapshots, CommitSets
<1>2. b.source = snapshot
  BY <1>1 DEF IInv, BuildsAreCurrent, Commit, CommitRows, RowKinds
<1> DEFINE copied == [x \in Places |-> IF x \in In(b.scope) THEN Copies(b)[x] ELSE rows[b.kind][x]]
<1>3. rows' = [rows EXCEPT ![b.kind] = copied]
  BY <1>1 DEF CommitRows
<1>4. copied[p] \in {Shown(snapshot[p]), rows[b.kind][p]}
  BY <1>2 DEF Copies
<1>5. rows \in [RowKinds -> [Places -> Version]]
  BY DEF IInv, TypeOK
<1>6. b.kind = k /\ rows'[k][p] = copied[p]
  <2> HIDE DEF copied
  <2> QED BY <1>3, <1>5
<1> QED BY <1>1, <1>4, <1>6 DEF CommitRows

LEMMA CommitStep ==
    ASSUME IInv, NEW a \in Admins, Commit(a)
    PROVE  IInv'
<1> DEFINE b == build[a]
<1>0. TypeOK /\ b \in Build /\ UNCHANGED request /\ b.at = "building"
  BY DEF IInv, TypeOK, Commit
<1>1. TypeOK'
  BY CommitTyped DEF IInv, BuildsAreCurrent, Commit
<1>2. StatementsAreOwn' /\ Running' = Running
  BY <1>0 DEF IInv, StatementsAreOwn, Running
<1>3. BuildsAreCurrent'
  <2>1. \A x \in Admins : build'[x].at # "building"
    <3>1. build' = [build EXCEPT ![a] = Away] /\ Away.at # "building" /\ build \in [Admins -> Build]
      BY <1>0 DEF Commit, Leave, Away, TypeOK
    <3>2. \A x \in Admins \ {a} : build[x].at # "building"
      BY <1>0 DEF IInv, BuildsAreCurrent
    <3> QED BY <3>1, <3>2
  <2> QED BY <2>1 DEF BuildsAreCurrent
<1>4. CASE CommitSnapshots(b)
  <2>1. /\ UNCHANGED rows
        /\ snapshot' = [p \in Places |-> IF p \in In(b.scope) THEN b.source[p] ELSE snapshot[p]]
        /\ generation' = IF In(b.scope) = {} THEN generation ELSE generation + 1
        /\ \A r \in Running, p \in Places : since'[r][p] = since[r][p] \union {Shown(snapshot'[p])}
    BY <1>4 DEF CommitSnapshots, Running
  <2>2. /\ \A p \in In(b.scope) : b.source[p].version = generation + 1
        /\ generation \in Nat
        /\ \A p \in Places : snapshot[p].version \in Nat /\ snapshot[p].version <= generation
        /\ \A k \in RowKinds, p \in Places : rows[k][p] \in Nat /\ rows[k][p] <= snapshot[p].version
    BY <1>0, <1>4 DEF IInv, BuildsAreCurrent, CommitSnapshots, VersionsAscend, TypeOK,
                       Version, Snapshot
  <2>3. VersionsAscend'
    <3>1. ASSUME NEW p \in Places
          PROVE  /\ snapshot'[p].version <= generation'
                 /\ snapshot[p].version <= snapshot'[p].version
                 /\ snapshot'[p].version \in Nat
      <4>1. CASE p \in In(b.scope)
        BY <2>1, <2>2, <4>1
      <4>2. CASE p \notin In(b.scope)
        BY <2>1, <2>2, <4>2
      <4> QED BY <4>1, <4>2
    <3>2. ASSUME NEW k \in RowKinds, NEW p \in Places PROVE rows'[k][p] <= snapshot'[p].version
      BY <2>1, <2>2, <3>1
    <3> QED BY <3>1, <3>2 DEF VersionsAscend
  <2>4. SinceIsNow'
    BY <1>2, <2>1 DEF SinceIsNow, Shown
  <2>5. SourceWasShown' /\ CheckedWasShown'
    <3>1. \A r \in Requests : request[r].at = "compare" => r \in Running
      BY DEF Running
    <3>2. \A s : In(s) \subseteq Places
      BY DEF In
    <3> QED BY <1>0, <1>2, <2>1, <3>1, <3>2 DEF IInv, SourceWasShown, CheckedWasShown
  <2> QED BY <1>1, <1>2, <1>3, <2>3, <2>4, <2>5 DEF IInv
<1>5. CASE CommitRows(b) \/ CommitSets(b)
  <2>1. UNCHANGED <<snapshot, generation, since>>
    BY <1>5 DEF CommitRows, CommitSets
  <2>2. ASSUME NEW k \in RowKinds, NEW p \in Places
        PROVE  rows'[k][p] = rows[k][p] \/ rows'[k][p] = Shown(snapshot[p])
    BY CommitRowsWrites
  <2>3. VersionsAscend'
    BY <1>0, <2>1, <2>2 DEF IInv, VersionsAscend, Shown, TypeOK, Snapshot, Version
  <2>4. SinceIsNow' /\ SourceWasShown'
    BY <1>0, <1>2, <2>1 DEF IInv, SinceIsNow, SourceWasShown, Shown
  <2>5. CheckedWasShown'
    <3>1. ASSUME NEW r \in Running', request'[r].checked, request'[r].op \in Direct,
                 NEW p \in In(request'[r].scope)
          PROVE  rows'[Basis(request'[r].op)][p] \in since'[r][p]
      <4>1. Basis(request[r].op) \in RowKinds /\ p \in Places
        BY DEF Basis, RowKinds, In
      <4>2. rows[Basis(request[r].op)][p] \in since[r][p] /\ Shown(snapshot[p]) \in since[r][p]
        BY <1>0, <1>2, <3>1, <4>1 DEF IInv, SinceIsNow, CheckedWasShown
      <4> QED BY <1>0, <2>1, <2>2, <4>1, <4>2
    <3> QED BY <3>1 DEF CheckedWasShown
  <2> QED BY <1>1, <1>2, <1>3, <2>3, <2>4, <2>5 DEF IInv
<1> QED BY <1>4, <1>5 DEF Commit

LEMMA SendStep ==
    ASSUME IInv, NEW r \in Requests, NEW op \in Operations, NEW s \in Scopes, Send(r, op, s)
    PROVE  IInv'
<1> DEFINE q == [Idle EXCEPT !.op = op, !.kind = Basis(op), !.scope = s,
                             !.at = IF op \in {"card", "nearby"} THEN "fetch" ELSE "exists"]
<1>0. TypeOK /\ UNCHANGED <<snapshot, generation, rows, sets, jobs, lock, build, begun>>
  BY DEF IInv, Send, tables
<1>1. /\ q \in Request /\ q.op = op /\ q.scope = s /\ q.left = {} /\ ~q.checked
      /\ q.at = IF op \in {"card", "nearby"} THEN "fetch" ELSE "exists"
  BY IdleTyped DEF Request, Idle, Basis, Kinds, RowKinds, AssertionStatements, OwnStatements
<1>2. op = "route" => s \in Cities
  BY DEF Send
<1>3. request' = [request EXCEPT ![r] = q]
  BY DEF Send
<1> HIDE DEF q
<1>4. \A p \in Places : Shown(snapshot[p]) \in Version
  BY <1>0, Zero DEF TypeOK, Shown, Snapshot
<1>5. /\ since' = [since EXCEPT ![r] = [p \in Places |-> {Shown(snapshot[p])}]]
      /\ since \in [Requests -> [Places -> SUBSET Version]]
      /\ request \in [Requests -> Request]
  BY <1>0 DEF Send, TypeOK
<1>6. since' \in [Requests -> [Places -> SUBSET Version]] /\ request' \in [Requests -> Request]
  BY <1>1, <1>3, <1>4, <1>5
<1>7. TypeOK'
  BY <1>0, <1>6 DEF TypeOK
<1>8. /\ request'[r] = q
      /\ \A x \in Requests \ {r} : request'[x] = request[x] /\ since'[x] = since[x]
      /\ \A p \in Places : since'[r][p] = {Shown(snapshot[p])}
  BY <1>3, <1>5
<1>9. StatementsAreOwn'
  BY <1>1, <1>2, <1>8 DEF IInv, StatementsAreOwn, Direct
<1>10. BuildsAreCurrent' /\ VersionsAscend'
  BY <1>0 DEF IInv, BuildsAreCurrent, VersionsAscend
<1>11. SinceIsNow'
  BY <1>0, <1>8 DEF IInv, SinceIsNow, Running, Shown
<1>12. SourceWasShown' /\ CheckedWasShown'
  BY <1>0, <1>1, <1>8 DEF IInv, SourceWasShown, CheckedWasShown, Running
<1> QED BY <1>7, <1>9, <1>10, <1>11, <1>12 DEF IInv

LEMMA StatementStep ==
    ASSUME IInv, NEW r \in Requests, Statement(r)
    PROVE  IInv'
<1>0. TypeOK /\ StatementsAreOwn
  BY DEF IInv
<1>1. /\ Reads
      /\ End(r) \/ \E t \in Request : GoOn(r, t) /\ Moves(r, t)
  BY <1>0, StatementMoves
<1>2. UNCHANGED <<snapshot, generation, rows, sets, jobs, lock, build, begun>>
  BY <1>1 DEF Reads, tables
<1>3. BuildsAreCurrent' /\ VersionsAscend'
  BY <1>2 DEF IInv, BuildsAreCurrent, VersionsAscend
<1>4. CASE End(r)
  <2>1. /\ request'[r] = Idle
        /\ \A x \in Requests \ {r} : request'[x] = request[x] /\ since'[x] = since[x]
        /\ request' \in [Requests -> Request]
        /\ since' \in [Requests -> [Places -> SUBSET Version]]
    BY <1>0, <1>4, IdleTyped DEF End, TypeOK
  <2>2. Idle.at = "idle" /\ Idle.op = "list" /\ Idle.left = {}
    BY DEF Idle
  <2>3. TypeOK'
    BY <1>0, <1>2, <2>1 DEF TypeOK
  <2>4. StatementsAreOwn'
    BY <2>1, <2>2 DEF IInv, StatementsAreOwn
  <2>5. SinceIsNow'
    BY <1>2, <2>1, <2>2 DEF IInv, SinceIsNow, Running, Shown
  <2>6. SourceWasShown' /\ CheckedWasShown'
    BY <1>2, <2>1, <2>2 DEF IInv, SourceWasShown, CheckedWasShown, Running
  <2> QED BY <1>3, <2>3, <2>4, <2>5, <2>6 DEF IInv
<1>5. CASE \E t \in Request : GoOn(r, t) /\ Moves(r, t)
  <2>1. PICK t \in Request : GoOn(r, t) /\ Moves(r, t)
    BY <1>5
  <2>2. /\ request'[r] = t /\ \A x \in Requests \ {r} : request'[x] = request[x]
        /\ request' \in [Requests -> Request] /\ UNCHANGED since
    BY <1>0, <2>1 DEF GoOn, TypeOK
  <2>3. TypeOK'
    BY <1>0, <1>2, <2>2 DEF TypeOK
  <2>4. StatementsAreOwn'
    <3>1. t.op = "route" => t.scope \in Cities
      BY <1>0, <2>1 DEF Moves, StatementsAreOwn, Direct
    <3> QED BY <1>0, <2>1, <2>2, <3>1 DEF StatementsAreOwn, Moves
  <2>5. SinceIsNow' /\ r \in Running
    BY <1>2, <2>1, <2>2 DEF IInv, SinceIsNow, Running, Shown, Moves
  <2>6. SourceWasShown'
    <3>1. t.at = "compare" => \A p \in In(t.scope) : t.source[p] \in since[r][p]
      BY <2>1, <2>5 DEF IInv, SinceIsNow, Moves, ShownNow, In
    <3> QED BY <2>2, <3>1 DEF IInv, SourceWasShown
  <2>7. CheckedWasShown'
    <3>1. ASSUME t.checked, t.op \in Direct
          PROVE  \A p \in In(t.scope) : rows[Basis(t.op)][p] \in since[r][p]
      BY <2>1, <2>5, <3>1 DEF IInv, CheckedWasShown, SourceWasShown, Moves
    <3> QED BY <1>2, <2>2, <3>1 DEF IInv, CheckedWasShown, Running
  <2> QED BY <1>3, <2>3, <2>4, <2>5, <2>6, <2>7 DEF IInv
<1> QED BY <1>1, <1>4, <1>5

LEMMA NextIInv == IInv /\ [Next]_vars => IInv'
<1> SUFFICES ASSUME IInv, [Next]_vars PROVE IInv'
  OBVIOUS
<1>1. CASE UNCHANGED vars
  BY <1>1 DEF vars, tables, IInv, TypeOK, StatementsAreOwn, BuildsAreCurrent, VersionsAscend,
              SinceIsNow, SourceWasShown, CheckedWasShown, Running, Shown
<1>2. CASE Next
  BY <1>2, TouchesNoRowStep, CommitStep, SendStep, StatementStep DEF Next, TouchesNoRow, Statement
<1> QED BY <1>1, <1>2

(* All of it: the types, the lock, and what every request was shown. *)
THEOREM InductiveInvariant == Spec => []IInv
<1> QED BY InitIInv, NextIInv, PTL DEF Spec

-----------------------------------------------------------------------------
(* The results. *)

(* The tables, builds and requests keep their types. *)
THEOREM TypeCorrect == Spec => []TypeOK
<1>1. IInv => TypeOK
  BY DEF IInv
<1> QED BY <1>1, InductiveInvariant, PTL

(* What was compared with the snapshots is answered from rows that agreed   *)
(* with a snapshot that was the newest during the request: the comparison   *)
(* and the answer of assert_projection_ready and its callers may be any     *)
(* number of builds apart.                                                  *)
THEOREM ComparedRowsWereCurrent == Spec => []AnswersWereCurrent
<1>1. IInv => AnswersWereCurrent
  <2> SUFFICES ASSUME IInv PROVE AnswersWereCurrent
    OBVIOUS
  <2>1. ASSUME NEW r \in Requests, request[r].checked,
               \/ request[r].at = "points"
               \/ request[r].op \in {"list", "search"} /\ request[r].at = "answer"
        PROVE  \A p \in In(request[r].scope) : rows[Basis(request[r].op)][p] \in since[r][p]
    <3>1. request[r].op \in Direct /\ r \in Running
      BY <2>1 DEF IInv, StatementsAreOwn, Direct, Running
    <3> QED BY <2>1, <3>1 DEF IInv, CheckedWasShown
  <2> QED BY <2>1 DEF AnswersWereCurrent
<1> QED BY <1>1, InductiveInvariant, PTL

(* The table lock keeps a build that began earlier from replacing rows of a *)
(* later one: a row is replaced by one of a newer snapshot or removed.      *)
THEOREM RowsAscend == Spec => GenerationsOnlyGrow
<1>1. IInv /\ [Next]_vars =>
        [\A k \in RowKinds, p \in Places : rows'[k][p] = 0 \/ rows'[k][p] >= rows[k][p]]_vars
  <2> SUFFICES ASSUME IInv, [Next]_vars, NEW k \in RowKinds, NEW p \in Places
               PROVE  rows'[k][p] = 0 \/ rows'[k][p] >= rows[k][p]
    OBVIOUS
  <2>1. rows[k][p] \in Nat /\ snapshot[p].version \in Nat /\ rows[k][p] <= snapshot[p].version
    BY DEF IInv, TypeOK, Version, Snapshot, VersionsAscend
  <2>2. CASE rows'[k][p] = rows[k][p]
    BY <2>1, <2>2
  <2>3. CASE rows'[k][p] # rows[k][p]
    <3>1. PICK a \in Admins : Commit(a)
      <4>1. CASE UNCHANGED vars
        BY <2>3, <4>1 DEF vars, tables
      <4>2. ASSUME NEW a \in Admins, TouchesNoRow(a) PROVE UNCHANGED rows
        BY <4>2 DEF TouchesNoRow, Begin, TimeOut, Raise, RecordFailure, Abandon, tables
      <4>3. ASSUME NEW r \in Requests,
                   Statement(r) \/ \E op \in Operations, s \in Scopes : Send(r, op, s)
            PROVE  UNCHANGED rows
        BY <4>3, StatementMoves DEF IInv, Reads, Send, tables
      <4> QED BY <2>3, <4>1, <4>2, <4>3 DEF Next, TouchesNoRow, Statement
    <3>2. rows'[k][p] = Shown(snapshot[p])
      BY <2>3, <3>1, CommitRowsWrites
    <3> QED BY <2>1, <3>2 DEF Shown
  <2> QED BY <2>2, <2>3
<1> QED BY <1>1, InductiveInvariant, PTL DEF Spec, GenerationsOnlyGrow

-----------------------------------------------------------------------------
(* The refinement of AtomicRebuilds. *)

Gathers(a) == build[a].at = "building" /\ build[a].kind = "sets"

(* The nodes a build of candidate sets has listed are those there are: who  *)
(* would replace them has no lock.                                          *)
ListedIsNow ==
    \A a \in Admins : Gathers(a) =>
        build[a].listed = {p \in In(build[a].scope) : rows["nodes"][p] > 0}

(* No one but the session that commits was building. *)
LEMMA CommitsAlone ==
    ASSUME IInv, NEW a \in Admins, Commit(a)
    PROVE  \A x \in Admins : build'[x].at # "building"
<1>1. build' = [build EXCEPT ![a] = Away] /\ build \in [Admins -> Build] /\ build[a].at = "building"
  BY DEF Commit, Leave, IInv, TypeOK
<1>2. \A x \in Admins \ {a} : build[x].at # "building"
  BY <1>1 DEF IInv, BuildsAreCurrent
<1>3. Away.at # "building"
  BY DEF Away
<1> QED BY <1>1, <1>2, <1>3

LEMMA ListedStep ==
    ASSUME IInv, ListedIsNow, [Next]_vars
    PROVE  ListedIsNow'
<1>0. build \in [Admins -> Build]
  BY DEF IInv, TypeOK
<1>1. CASE UNCHANGED <<build, rows>>
  BY <1>1 DEF ListedIsNow, Gathers
<1>2. ASSUME NEW a \in Admins, Commit(a) PROVE ListedIsNow'
  BY <1>2, CommitsAlone DEF ListedIsNow, Gathers
<1>3. ASSUME NEW a \in Admins, NEW t, build' = [build EXCEPT ![a] = t], UNCHANGED rows,
             t.at = "building" /\ t.kind = "sets" =>
               t.listed = {p \in In(t.scope) : rows["nodes"][p] > 0}
      PROVE  ListedIsNow'
  <2> SUFFICES ASSUME NEW x \in Admins, Gathers(x)'
               PROVE  build'[x].listed = {p \in In(build'[x].scope) : rows'["nodes"][p] > 0}
    BY DEF ListedIsNow
  <2>1. CASE x = a BY <1>0, <1>3, <2>1 DEF Gathers
  <2>2. CASE x # a
    <3>1. build'[x] = build[x] BY <1>0, <1>3, <2>2
    <3> QED BY <1>3, <3>1 DEF ListedIsNow, Gathers
  <2> QED BY <2>1, <2>2
<1>4. ASSUME NEW a \in Admins, TouchesNoRow(a) PROVE ListedIsNow'
  <2>1. ASSUME NEW b \in Rebuilt, Begin(a, b[1], b[2]) PROVE ListedIsNow'
    <3>1. PICK source \in Sources(b[1], b[2]) :
            build' = [build EXCEPT ![a] =
                        [at |-> "building", kind |-> b[1], scope |-> b[2], source |-> source,
                         listed |-> IF b[1] = "sets"
                                    THEN {p \in In(b[2]) : rows["nodes"][p] > 0} ELSE {}]]
      BY <2>1 DEF Begin
    <3> QED BY <1>3, <2>1, <3>1 DEF Begin, tables
  <2>2. ASSUME NEW b \in Rebuilt, TimeOut(a, b[1], b[2]) PROVE ListedIsNow'
    BY <1>3, <2>2 DEF TimeOut, Failing, Away, tables
  <2>3. CASE Raise(a) BY <1>3, <2>3 DEF Raise, Failing, Away, tables
  <2>4. CASE RecordFailure(a) BY <1>3, <2>4 DEF RecordFailure, Leave, Away
  <2>5. CASE Abandon(a) BY <1>3, <2>5 DEF Abandon, Leave, Away, tables
  <2> QED BY <1>4, <2>1, <2>2, <2>3, <2>4, <2>5 DEF TouchesNoRow
<1>5. ASSUME NEW r \in Requests, Statement(r) \/ \E op \in Operations, s \in Scopes : Send(r, op, s)
      PROVE  ListedIsNow'
  BY <1>1, <1>5, StatementMoves DEF IInv, Reads, Send, tables
<1>6. CASE UNCHANGED vars BY <1>1, <1>6 DEF vars, tables
<1> QED BY <1>2, <1>4, <1>5, <1>6 DEF Next, TouchesNoRow, Statement

LEMMA AtomicInit == Init => Rebuilds!CacheInit
BY DEF Init, Rebuilds!CacheInit, Nothing, NoSet, Rebuilds!NoSet

LEMMA SameScopes == Rebuilds!Scopes = Scopes /\ \A s : Rebuilds!In(s) = In(s)
BY DEF Rebuilds!Scopes, Scopes, Rebuilds!In, In

LEMMA SameMax == \A S : Rebuilds!Max(S) = Max(S)
BY DEF Rebuilds!Max, Max

(* What a build copies is what is shown when it commits. *)
LEMMA CopiesAreShown ==
    ASSUME IInv, NEW a \in Admins, build[a].at = "building", build[a].kind # "snapshots"
    PROVE  \A p \in Places : Copies(build[a])[p] = Rebuilds!Shown(p)
BY DEF IInv, BuildsAreCurrent, Copies, Shown, Rebuilds!Shown

(* A commit is one step of the atomic rebuilds, or changes nothing there:   *)
(* a build that fails, and a scope without places.                          *)
LEMMA CommitIsAtomic ==
    ASSUME IInv, ListedIsNow, NEW a \in Admins, Commit(a)
    PROVE  [Rebuilds!CacheNext]_(Rebuilds!cacheVars)
<1> DEFINE b == build[a]
<1>0. /\ TypeOK /\ b \in Build /\ b.at = "building" /\ b.scope \in Rebuilds!Scopes
      /\ In(b.scope) = Rebuilds!In(b.scope) /\ In(b.scope) \subseteq Places
  BY SameScopes DEF IInv, TypeOK, Commit, Build, In
<1>1. CASE CommitSnapshots(b)
  <2>1. CASE In(b.scope) = {}
    <3>1. snapshot' = snapshot
      BY <1>0, <1>1, <2>1 DEF CommitSnapshots, TypeOK
    <3> QED BY <1>1, <2>1, <3>1 DEF CommitSnapshots, Rebuilds!cacheVars
  <2>2. CASE In(b.scope) # {}
    <3> DEFINE found == [p \in In(b.scope) |-> b.source[p].public]
    <3>1. \A p \in In(b.scope) : b.source[p] = [version |-> generation + 1, public |-> found[p]]
      <4>1. \A p \in In(b.scope) : b.source[p] \in Snapshot /\ b.source[p].version = generation + 1
        BY <1>0, <1>1 DEF CommitSnapshots, IInv, BuildsAreCurrent, Build
      <4> QED BY <4>1 DEF Snapshot
    <3>2. found \in [In(b.scope) -> BOOLEAN]
      BY <1>0 DEF Build, Snapshot
    <3>3. snapshot' = [p \in Places |->
                         IF p \in In(b.scope) THEN [version |-> generation + 1, public |-> found[p]]
                         ELSE snapshot[p]]
      <4> HIDE DEF found
      <4> QED BY <1>1, <3>1 DEF CommitSnapshots
    <3> HIDE DEF found
    <3>4. Rebuilds!Snap(b.scope)
      BY <1>0, <1>1, <2>2, <3>2, <3>3 DEF CommitSnapshots, Rebuilds!Snap
    <3> QED BY <1>0, <3>4 DEF Rebuilds!CacheNext
  <2> QED BY <2>1, <2>2
<1>2. CASE CommitRows(b)
  <2>1. b.kind \in RowKinds /\ \A p \in Places : Copies(b)[p] = Rebuilds!Shown(p)
    BY <1>0, <1>2, CopiesAreShown DEF CommitRows, RowKinds
  <2>2. CASE UNCHANGED rows
    BY <1>2, <2>2 DEF CommitRows, Rebuilds!cacheVars
  <2>3. CASE rows' = [rows EXCEPT ![b.kind] =
                        [p \in Places |-> IF p \in In(b.scope) THEN Copies(b)[p] ELSE @[p]]]
    <3>1. [p \in Places |-> IF p \in In(b.scope) THEN Copies(b)[p] ELSE rows[b.kind][p]]
            = [p \in Places |-> IF p \in Rebuilds!In(b.scope) THEN Rebuilds!Shown(p) ELSE rows[b.kind][p]]
      BY <1>0, <2>1
    <3>2. Rebuilds!Copy(b.kind, b.scope)
      BY <1>2, <2>3, <3>1 DEF CommitRows, Rebuilds!Copy
    <3> QED BY <1>0, <2>1, <3>2 DEF Rebuilds!CacheNext
  <2> QED BY <1>2, <2>2, <2>3 DEF CommitRows
<1>3. CASE CommitSets(b)
  <2> DEFINE version == Succeeded(b).version
             newest == Rebuilds!Max({0} \union {Rebuilds!Shown(p) : p \in Rebuilds!In(b.scope)})
  <2>1. \A p \in Places : Copies(b)[p] = Rebuilds!Shown(p)
    BY <1>0, <1>3, CopiesAreShown DEF CommitSets
  <2>2. version = newest
    <3>1. {Copies(b)[p] : p \in In(b.scope)} = {Rebuilds!Shown(p) : p \in Rebuilds!In(b.scope)}
      BY <1>0, <2>1
    <3>2. version = Max({0} \union {Copies(b)[p] : p \in In(b.scope)})
      BY DEF Succeeded, SourceVersion
    <3> QED BY <3>1, <3>2, SameMax
  <2>3. b.listed = {p \in In(b.scope) : rows["nodes"][p] > 0}
    BY <1>0, <1>3 DEF ListedIsNow, Gathers, CommitSets
  <2>4. ASSUME NEW c \in Cities, b.scope \in {All, c}
        PROVE  /\ b.listed \intersect In(c) = {p \in Rebuilds!In(c) : rows["nodes"][p] > 0}
               /\ (\A p \in In(c) : Copies(b)[p] = 0) <=> ~Rebuilds!ShowsPlace(c)
    <3>1. In(c) \subseteq In(b.scope) /\ In(c) \subseteq Places /\ Rebuilds!In(c) = In(c)
      BY <2>4, ScopesAssumption, SameScopes DEF In
    <3>2. b.listed \intersect In(c) = {p \in Rebuilds!In(c) : rows["nodes"][p] > 0}
      BY <2>3, <3>1
    <3>3. (\A p \in In(c) : Copies(b)[p] = 0) <=> ~Rebuilds!ShowsPlace(c)
      BY <2>1, <3>1 DEF Rebuilds!ShowsPlace
    <3> QED BY <3>2, <3>3
  <2> HIDE DEF version, newest
  <2>5. sets' = [c \in Cities |->
                   IF b.scope \notin {All, c} THEN sets[c]
                   ELSE IF \A p \in In(c) : Copies(b)[p] = 0 THEN NoSet
                   ELSE [version |-> version, ids |-> b.listed \intersect In(c)]]
    BY <1>3 DEF CommitSets, version
  <2>6. sets' = [c \in Cities |->
                   IF b.scope \notin {All, c} THEN sets[c]
                   ELSE IF Rebuilds!ShowsPlace(c)
                        THEN [version |-> newest, ids |-> {p \in Rebuilds!In(c) : rows["nodes"][p] > 0}]
                        ELSE Rebuilds!NoSet]
    BY <2>2, <2>4, <2>5, Zenon DEF NoSet, Rebuilds!NoSet
  <2>7. Rebuilds!Gather(b.scope)
    BY <1>3, <2>6 DEF CommitSets, Rebuilds!Gather, newest
  <2> QED BY <1>0, <2>7 DEF Rebuilds!CacheNext
<1> QED BY <1>1, <1>2, <1>3 DEF Commit

(* The table lock makes a rebuild look as if it read and wrote at once, in  *)
(* the moment of its commit.                                                *)
THEOREM LockMakesRebuildsAtomic == Spec => RebuildsAreAtomic
<1>1. Init => ListedIsNow
  BY DEF Init, ListedIsNow, Gathers, Away
<1>2. IInv /\ ListedIsNow /\ [Next]_vars => ListedIsNow'
  BY ListedStep
<1>3. IInv /\ ListedIsNow /\ [Next]_vars => [Rebuilds!CacheNext]_(Rebuilds!cacheVars)
  <2> SUFFICES ASSUME IInv, ListedIsNow, [Next]_vars
               PROVE  [Rebuilds!CacheNext]_(Rebuilds!cacheVars)
    OBVIOUS
  <2>1. CASE UNCHANGED vars
    BY <2>1 DEF vars, tables, Rebuilds!cacheVars
  <2>2. ASSUME NEW a \in Admins, Commit(a) PROVE [Rebuilds!CacheNext]_(Rebuilds!cacheVars)
    BY <2>2, CommitIsAtomic
  <2>3. ASSUME NEW a \in Admins, TouchesNoRow(a) PROVE UNCHANGED Rebuilds!cacheVars
    BY <2>3 DEF TouchesNoRow, Begin, TimeOut, Raise, RecordFailure, Abandon, tables, Rebuilds!cacheVars
  <2>4. ASSUME NEW r \in Requests,
               Statement(r) \/ \E op \in Operations, s \in Scopes : Send(r, op, s)
        PROVE  UNCHANGED Rebuilds!cacheVars
    BY <2>4, StatementMoves DEF IInv, Reads, Send, tables, Rebuilds!cacheVars
  <2> QED BY <2>1, <2>2, <2>3, <2>4 DEF Next, TouchesNoRow, Statement
<1> QED BY <1>1, <1>2, <1>3, AtomicInit, InductiveInvariant, PTL
    DEF Spec, RebuildsAreAtomic, Rebuilds!Spec
=============================================================================
