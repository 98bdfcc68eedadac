----------------------------- MODULE Projections -----------------------------
(***************************************************************************)
(* The read projections: snapshots of the places, the search documents and *)
(* routing nodes that copy the snapshots, the candidate sets made of the   *)
(* nodes, the jobs that record each build, and the public requests that    *)
(* are answered from the copies once their readiness was asserted.         *)
(*                                                                         *)
(* A build is one transaction under a table lock; a request makes several  *)
(* statements, each of which sees what was committed before it.  One       *)
(* action is the lock with the reads under it, a commit, or one statement  *)
(* of a request.                                                           *)
(*                                                                         *)
(* A snapshot is never changed, and a place has one of each version, so a  *)
(* document or node is the version of the snapshot it copies, and 0 says   *)
(* that there is none.  Of what a place shows only one thing is kept, may  *)
(* the public see it: catalog, search and route visibility are one.        *)
(***************************************************************************)
EXTENDS Integers, Sequences, FiniteSetsExt

CONSTANTS
    Places, Cities,
    CityOf,        \* the city of every place
    All,           \* the scope of every city: city_id None
    None,          \* nobody
    Admins,        \* sessions that rebuild
    Requests,      \* sessions of public requests
    Rebuilt,       \* bound: what is rebuilt in which scope
    MaxVersion,    \* bound: snapshot generations
    MaxJobs        \* bound: builds begun

ASSUME ScopesAssumption == CityOf \in [Places -> Cities] /\ All \notin Cities
ASSUME NobodyAssumption == None \notin Admins
ASSUME BoundsAssumption == MaxVersion \in Nat /\ MaxJobs \in Nat

Scopes == Cities \union {All}
In(scope) == {p \in Places : scope \in {All, CityOf[p]}}

Version == 0..MaxVersion
Snapshot == [version : Version, public : BOOLEAN]
Job == [latest : {"none", "succeeded", "failed"}, version : Version]

RowKinds == {"documents", "nodes"}
Kinds == RowKinds \union {"sets"}
Builds == Kinds \union {"snapshots"}

ASSUME RebuiltAssumption == Rebuilt \subseteq Builds \X Scopes

VARIABLES
    snapshot,    \* the latest snapshot of every place, version 0 before the first
    generation,  \* the highest snapshot_version of the table
    rows,        \* documents and nodes
    sets,        \* candidate set of every city: its version and its places
    jobs,        \* per kind and scope: newest job's status, newest success's version
    lock,        \* who holds the table of jobs
    build,       \* what every admin session does
    request,     \* what every request does
    since,       \* history: what every place was shown as since the request began
    begun        \* bound

tables == <<snapshot, generation, rows, sets, jobs>>
vars == <<tables, lock, build, request, since, begun>>

NoSet == [version |-> 0, ids |-> {}]
NoJob == [latest |-> "none", version |-> 0]

Build ==
    [at     : {"idle", "building", "failing"},
     kind   : Builds,
     scope  : Scopes,
     source : [Places -> Snapshot],   \* snapshots to copy, or to write
     listed : SUBSET Places]          \* places with a node

Away == [at |-> "idle", kind |-> "snapshots", scope |-> All,
         source |-> [p \in Places |-> [version |-> 0, public |-> FALSE]],
         listed |-> {}]

(* What a copy of the snapshot has for its version. *)
Shown(s) == IF s.public THEN s.version ELSE 0

(* source_version: None, here 0, when the scope shows no place *)
SourceVersion(shown, scope) == Max({0} \union {shown[p] : p \in In(scope)})

Operations == {"list", "search", "card", "nearby", "route"}

(* Documents or nodes: what the operation rests on. *)
Basis(op) == IF op = "route" THEN "nodes" ELSE "documents"

(* The statements of a request: those of assert_projection_ready, the       *)
(* second look of a search, and its own.                                    *)
AssertionStatements == {"exists", "latest", "success", "source", "expected", "compare"}
SearchStatements == {"recount", "rematch"}
OwnStatements == {"fetch", "answer", "candidates", "points"}

Request ==
    [op      : Operations,
     at      : {"idle"} \union AssertionStatements \union SearchStatements \union OwnStatements,
     kind    : Kinds,                 \* whose readiness is asserted
     scope   : Scopes,
     left    : SUBSET Scopes,         \* scopes whose readiness is still to be asserted
     job     : Scopes,                \* whose jobs are looked at
     version : Version,               \* of the newest success
     nodes   : Version,               \* source_version when the nodes' readiness was judged
     source  : [Places -> Version],   \* expected rows of the scope
     got     : [Places -> Version],   \* versions of documents fetched, or of the candidate set
     checked : BOOLEAN]               \* history: rows were compared with snapshots

Nothing == [p \in Places |-> 0]
Idle == [op |-> "list", at |-> "idle", kind |-> "documents", scope |-> All, left |-> {},
         job |-> All, version |-> 0, nodes |-> 0, source |-> Nothing, got |-> Nothing,
         checked |-> FALSE]

TypeOK ==
    /\ snapshot \in [Places -> Snapshot]
    /\ generation \in Version
    /\ rows \in [RowKinds -> [Places -> Version]]
    /\ sets \in [Cities -> [version : Version, ids : SUBSET Places]]
    /\ jobs \in [Kinds -> [Scopes -> Job]]
    /\ lock \in Admins \union {None}
    /\ build \in [Admins -> Build]
    /\ request \in [Requests -> Request]
    /\ since \in [Requests -> [Places -> SUBSET Version]]
    /\ begun \in 0..MaxJobs

Init ==
    /\ snapshot = [p \in Places |-> [version |-> 0, public |-> FALSE]]
    /\ generation = 0
    /\ rows = [k \in RowKinds |-> Nothing]
    /\ sets = [c \in Cities |-> NoSet]
    /\ jobs = [k \in Kinds |-> [s \in Scopes |-> NoJob]]
    /\ lock = None
    /\ build = [a \in Admins |-> Away]
    /\ request = [r \in Requests |-> Idle]
    /\ since = [r \in Requests |-> [p \in Places |-> {}]]
    /\ begun = 0

Running == {r \in Requests : request[r].at # "idle"}

-----------------------------------------------------------------------------
(* Rebuilding. *)

(* Places are edited, published and hidden (Places) without a word to the   *)
(* projections: a snapshot finds each of them public or not.               *)
Sources(kind, scope) ==
    IF kind = "snapshots"
    THEN {[p \in Places |-> IF p \in In(scope)
                            THEN [version |-> generation + 1, public |-> found[p]]
                            ELSE snapshot[p]] : found \in [In(scope) -> BOOLEAN]}
    ELSE {snapshot}

(* Faulty variant of LockIsFree: the table is not locked. *)
Unlocked == TRUE

LockIsFree == lock = None

(* serialize_projection_rebuilds, and all that is read under the lock.  A   *)
(* job is committed with its verdict, so that none is ever found running.   *)
Begin(a, kind, scope) ==
    /\ build[a].at = "idle"
    /\ LockIsFree
    /\ begun < MaxJobs
    /\ kind = "snapshots" => generation < MaxVersion
    /\ begun' = begun + 1
    /\ lock' = a
    /\ \E source \in Sources(kind, scope) :
         build' = [build EXCEPT ![a] =
                     [at |-> "building", kind |-> kind, scope |-> scope, source |-> source,
                      listed |-> IF kind = "sets"
                                 THEN {p \in In(scope) : rows["nodes"][p] > 0} ELSE {}]]
    /\ UNCHANGED <<tables, request, since>>

Record(kind, scope, job) == jobs' = [jobs EXCEPT ![kind][scope] = job]

(* rebuild_published_place_snapshots *)
CommitSnapshots(b) ==
    /\ b.kind = "snapshots"
    /\ snapshot' = [p \in Places |-> IF p \in In(b.scope) THEN b.source[p] ELSE snapshot[p]]
    /\ generation' = IF In(b.scope) = {} THEN generation ELSE generation + 1
    /\ since' = [r \in Requests |-> [p \in Places |->
                   IF r \in Running THEN since[r][p] \union {Shown(snapshot'[p])} ELSE {}]]
    /\ UNCHANGED <<rows, sets, jobs>>

Copies(b) == [p \in Places |-> Shown(b.source[p])]
Succeeded(b) == [latest |-> "succeeded", version |-> SourceVersion(Copies(b), b.scope)]

(* rebuild_search_place_documents, rebuild_routing_place_nodes: nothing is  *)
(* replaced when a snapshot of the scope lacks what its copy needs.         *)
CommitRows(b) ==
    /\ b.kind \in RowKinds
    /\ \/ /\ Record(b.kind, b.scope, [jobs[b.kind][b.scope] EXCEPT !.latest = "failed"])
          /\ \E p \in In(b.scope) : Copies(b)[p] > 0
          /\ UNCHANGED rows
       \/ /\ Record(b.kind, b.scope, Succeeded(b))
          /\ rows' = [rows EXCEPT ![b.kind] =
                        [p \in Places |-> IF p \in In(b.scope) THEN Copies(b)[p] ELSE @[p]]]
    /\ UNCHANGED <<snapshot, generation, sets, since>>

(* rebuild_route_candidate_sets: of the nodes there are, under the version  *)
(* of the snapshots there are.                                              *)
CommitSets(b) ==
    /\ b.kind = "sets"
    /\ LET version == Succeeded(b).version IN
       sets' = [c \in Cities |->
                  IF b.scope \notin {All, c} THEN sets[c]
                  ELSE IF \A p \in In(c) : Copies(b)[p] = 0 THEN NoSet
                  ELSE [version |-> version, ids |-> b.listed \intersect In(c)]]
    /\ Record(b.kind, b.scope, Succeeded(b))
    /\ UNCHANGED <<snapshot, generation, rows, since>>

(* Faulty variant of Leave: whoever leaves frees the lock. *)
LeaveUnlocked(a) ==
    /\ build' = [build EXCEPT ![a] = Away]
    /\ lock' = None

Leave(a) ==
    /\ build' = [build EXCEPT ![a] = Away]
    /\ lock' = IF lock = a THEN None ELSE lock

Commit(a) ==
    /\ build[a].at = "building"
    /\ CommitSnapshots(build[a]) \/ CommitRows(build[a]) \/ CommitSets(build[a])
    /\ Leave(a)
    /\ UNCHANGED <<request, begun>>

Failing(kind, scope) == [Away EXCEPT !.at = "failing", !.kind = kind, !.scope = scope]

(* The build raises and is rolled back, which gives the lock back. *)
Raise(a) ==
    /\ build[a].at = "building"
    /\ build' = [build EXCEPT ![a] = Failing(build[a].kind, build[a].scope)]
    /\ lock' = None
    /\ UNCHANGED <<tables, request, since, begun>>

(* lock_timeout passes while another session builds. *)
TimeOut(a, kind, scope) ==
    /\ build[a].at = "idle"
    /\ lock # None
    /\ begun < MaxJobs
    /\ begun' = begun + 1
    /\ build' = [build EXCEPT ![a] = Failing(kind, scope)]
    /\ UNCHANGED <<tables, lock, request, since>>

(* _record_failure: a transaction of its own, which the table lock holds up *)
RecordFailure(a) ==
    /\ build[a].at = "failing"
    /\ lock = None
    /\ IF build[a].kind \in Kinds
       THEN Record(build[a].kind, build[a].scope,
                   [jobs[build[a].kind][build[a].scope] EXCEPT !.latest = "failed"])
       ELSE UNCHANGED jobs
    /\ Leave(a)
    /\ UNCHANGED <<snapshot, generation, rows, sets, request, since, begun>>

(* The process dies, or the failure cannot be recorded either. *)
Abandon(a) ==
    /\ build[a].at # "idle"
    /\ Leave(a)
    /\ UNCHANGED <<tables, request, since, begun>>

-----------------------------------------------------------------------------
(* Requests. *)

(* The toggle of the request is found on.  (Turning one on asserts what a   *)
(* list of all cities asserts, and a request may find it on much later.)    *)
Send(r, op, scope) ==
    /\ request[r].at = "idle"
    /\ CASE op \in {"list", "search"} -> TRUE
         [] op = "route" -> scope \in Cities
         [] OTHER -> scope = All
    /\ request' = [request EXCEPT ![r] =
                      [Idle EXCEPT !.op = op, !.kind = Basis(op), !.scope = scope,
                                   !.at = IF op \in {"card", "nearby"} THEN "fetch" ELSE "exists"]]
    /\ since' = [since EXCEPT ![r] = [p \in Places |-> {Shown(snapshot[p])}]]
    /\ UNCHANGED <<tables, lock, build, begun>>

(* The session has loaded what later statements use, and goes on. *)
GoOn(r, q) == request' = [request EXCEPT ![r] = q] /\ UNCHANGED since

(* Answered, or refused with PublicReadProjectionError. *)
End(r) ==
    /\ request' = [request EXCEPT ![r] = Idle]
    /\ since' = [since EXCEPT ![r] = [p \in Places |-> {}]]

Require(condition, r, q) == IF condition THEN GoOn(r, q) ELSE End(r)

Reads == UNCHANGED <<tables, lock, build, begun>>

(* A city no build was ever made for is judged by the builds of all. *)
Exists(r) ==
    /\ request[r].at = "exists"
    /\ LET q == request[r] IN
       GoOn(r, [q EXCEPT !.at = "latest",
                         !.job = IF jobs[q.kind][q.scope].latest = "none" THEN All ELSE q.scope])
    /\ Reads

Latest(r) ==
    /\ request[r].at = "latest"
    /\ LET q == request[r] IN
       Require(jobs[q.kind][q.job].latest = "succeeded", r, [q EXCEPT !.at = "success"])
    /\ Reads

Success(r) ==
    /\ request[r].at = "success"
    /\ LET q == request[r] IN
       GoOn(r, [q EXCEPT !.at = "source", !.version = jobs[q.kind][q.job].version])
    /\ Reads

ShownNow(scope) == [p \in Places |-> IF p \in In(scope) THEN Shown(snapshot[p]) ELSE 0]

(* _reason: a city judged by the builds of all has the version it is told.  *)
(* A success is no longer fresh after a day: refused at any time.  A route  *)
(* whose nodes and candidate sets saw two versions is refused when both are *)
(* ready, here as soon as it is known.                                      *)
JudgeSource(r) ==
    /\ request[r].at = "source"
    /\ LET q == request[r]
           version == SourceVersion(ShownNow(q.scope), q.scope)
           compared == IF q.scope # All /\ q.job = All THEN q.version ELSE version IN
       \/ Require(/\ compared # 0 /\ q.version = compared
                  /\ q.kind = "sets" => version = q.nodes,
                  r, [q EXCEPT !.at = "expected", !.job = All,
                               !.version = IF q.kind = "sets" THEN @ ELSE 0,
                               !.nodes = IF q.kind = "nodes" THEN version ELSE 0])
       \/ End(r)
    /\ Reads

(* The readiness of a scope is asserted; that of the next scope follows, or *)
(* that of the candidate sets, or what the request itself does.             *)
Ready(r, asserted) ==
    LET q == [asserted EXCEPT !.version = 0, !.source = Nothing] IN
    IF q.left # {}
    THEN \E s \in q.left :
           GoOn(r, [q EXCEPT !.at = "exists", !.scope = s, !.left = @ \ {s}])
    ELSE IF q.kind = "nodes" THEN GoOn(r, [q EXCEPT !.at = "exists", !.kind = "sets"])
    ELSE GoOn(r, [q EXCEPT !.at = CASE q.op = "search" -> "recount"
                                    [] q.op = "route" -> "candidates"
                                    [] OTHER -> "answer"])

(* assert_projection_rows returns at once when nothing is public.           *)
Expected(r) ==
    /\ request[r].at = "expected"
    /\ LET q == [request[r] EXCEPT !.at = "compare", !.source = ShownNow(request[r].scope)] IN
       IF q.source = Nothing THEN Ready(r, q) ELSE GoOn(r, q)
    /\ Reads

(* Faulty variant of RowsMatch: as many rows as public places are enough. *)
RowsCounted(q) ==
    Cardinality({p \in In(q.scope) : rows[q.kind][p] > 0})
        = Cardinality({p \in In(q.scope) : q.source[p] > 0})

(* _assert_place_rows: one row for each public place, of the same version *)
RowsMatch(q) == \A p \in In(q.scope) : rows[q.kind][p] = q.source[p]

(* _assert_candidate_sets: a set for each city with a public place, of the  *)
(* version the newest success has; not all of them empty                    *)
SetsMatch(q) ==
    /\ \A c \in Cities :
          q.scope \in {All, c} =>
            /\ sets[c].version > 0 <=> \E p \in In(c) : q.source[p] > 0
            /\ sets[c].version > 0 => sets[c].version = q.version
    /\ \E c \in Cities : q.scope \in {All, c} /\ sets[c].ids # {}

Compare(r) ==
    /\ request[r].at = "compare"
    /\ LET q == request[r] IN
       IF IF q.kind = "sets" THEN SetsMatch(q) ELSE RowsMatch(q)
       THEN Ready(r, [q EXCEPT !.checked = @ \/ q.kind = Basis(q.op)])
       ELSE End(r)
    /\ Reads

(* assert_search_projection_ready looks once more. *)
Recount(r) ==
    /\ request[r].at = "recount"
    /\ LET source == ShownNow(request[r].scope) IN
       IF source = Nothing THEN GoOn(r, [request[r] EXCEPT !.at = "answer"])
       ELSE GoOn(r, [request[r] EXCEPT !.at = "rematch", !.source = source])
    /\ Reads

(* Refused also when the job counted fewer places than there are now. *)
Rematch(r) ==
    /\ request[r].at = "rematch"
    /\ LET q == request[r] IN
       \/ Require(\A p \in In(q.scope) : q.source[p] > 0 => rows["documents"][p] = q.source[p],
                  r, [q EXCEPT !.at = "answer"])
       \/ End(r)
    /\ Reads

(* get_catalog_place and nearby_catalog_places take the documents first and *)
(* assert the readiness of their cities after, or of all when there is none. *)
Fetch(r) ==
    /\ request[r].at = "fetch"
    /\ LET documents == rows["documents"]
           cities == {CityOf[p] : p \in {p \in Places : documents[p] > 0}}
           scopes == IF cities = {} THEN {All} ELSE cities
           q == [request[r] EXCEPT !.at = "exists"] IN
       \/ \E s \in scopes :
            GoOn(r, [q EXCEPT !.scope = s, !.left = scopes \ {s},
                              !.got = IF q.op = "nearby" THEN documents ELSE Nothing])
       \/ \E p \in Places :
            /\ q.op = "card" /\ documents[p] > 0
            /\ GoOn(r, [q EXCEPT !.scope = CityOf[p], !.got = [Nothing EXCEPT ![p] = documents[p]]])
    /\ Reads

(* The documents are read and returned, or those fetched before are. *)
Answer(r) == request[r].at = "answer" /\ End(r) /\ Reads

Candidates(r) ==
    /\ request[r].at = "candidates"
    /\ LET set == sets[request[r].scope] IN
       Require(set.ids # {}, r,
               [request[r] EXCEPT !.at = "points",
                                  !.got = [p \in Places |-> IF p \in set.ids THEN set.version ELSE 0]])
    /\ Reads

(* The nodes of the candidates are read; refused when one has none. *)
Points(r) == request[r].at = "points" /\ End(r) /\ Reads

Next ==
    \/ \E a \in Admins, b \in Rebuilt : Begin(a, b[1], b[2]) \/ TimeOut(a, b[1], b[2])
    \/ \E a \in Admins : Commit(a) \/ Raise(a) \/ RecordFailure(a) \/ Abandon(a)
    \/ \E r \in Requests, op \in Operations, s \in Scopes : Send(r, op, s)
    \/ \E r \in Requests :
          \/ Exists(r) \/ Latest(r) \/ Success(r) \/ JudgeSource(r)
          \/ Expected(r) \/ Compare(r) \/ Recount(r) \/ Rematch(r)
          \/ Fetch(r) \/ Answer(r) \/ Candidates(r) \/ Points(r)

Spec == Init /\ [][Next]_vars

-----------------------------------------------------------------------------
(* Properties. *)

(* A list, a search or a route whose rows were compared with the snapshots  *)
(* is answered from rows each of which its place's newest snapshot agreed   *)
(* with at some moment of the request, whatever was committed between the   *)
(* comparison and the answer.                                               *)
AnswersWereCurrent ==
    \A r \in Requests : LET q == request[r] IN
        q.checked /\ (q.at = "points" \/ (q.op \in {"list", "search"} /\ q.at = "answer")) =>
            \A p \in In(q.scope) : rows[Basis(q.op)][p] \in since[r][p]

(* Rows are replaced by newer ones or removed: a slow build never publishes *)
(* over a newer one (services/projection_rebuild_lock.py).                  *)
GenerationsOnlyGrow ==
    [][\A k \in RowKinds, p \in Places : rows'[k][p] = 0 \/ rows'[k][p] >= rows[k][p]]_vars

(* The sessions that rebuild look as if each did it in one step: what is    *)
(* written is what the newest snapshots show, and what nodes there are, at  *)
(* the moment of the commit, however long the build took and whatever       *)
(* failed, timed out or died beside it.                                     *)
Rebuilds == INSTANCE AtomicRebuilds WITH Copied <- RowKinds

RebuildsAreAtomic == Rebuilds!Spec

(* The documents a list or a card is made of. *)
Answered(q) ==
    [p \in Places |-> IF p \notin In(q.scope) THEN 0
                      ELSE IF q.op = "list" THEN rows["documents"][p] ELSE q.got[p]]

(* "stale projection blocks public read"                                    *)
(* (docs/product/public_read_projections_v2.md): no document is shown that  *)
(* its place's newest snapshot did not agree with during the request, also  *)
(* where rows were not compared, since nothing is public, or were fetched   *)
(* before they were compared.                                               *)
StaleReadsAreRefused ==
    \A r \in Requests : LET q == request[r] IN
        q.op \in {"list", "card"} /\ q.at = "answer" =>
            \A p \in Places : Answered(q)[p] \in {0} \union since[r][p]
=============================================================================
