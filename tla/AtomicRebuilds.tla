--------------------------- MODULE AtomicRebuilds ---------------------------
(***************************************************************************)
(* What the lock on the table of rebuild jobs promises: the sessions that  *)
(* rebuild read projections may as well do it in one step each.  A step    *)
(* takes new snapshots of the places of a scope, copies what the newest    *)
(* snapshots show, or gathers the places that have a node.  Sessions, the  *)
(* lock, failures and the time between reading and writing are left out.   *)
(* Projections implements this module (property RebuildsAreAtomic there).  *)
(***************************************************************************)
EXTENDS Integers, FiniteSetsExt

CONSTANTS
    Places, Cities, CityOf,
    All,     \* the scope of every city
    Copied   \* kinds of rows: documents and nodes

VARIABLES
    snapshot,    \* the newest snapshot of every place, version 0 before the first
    generation,
    rows,        \* the version of the snapshot a row was copied from, 0 for no row
    sets         \* the places every city offers to routes

cacheVars == <<snapshot, generation, rows, sets>>

Scopes == Cities \union {All}
In(scope) == {p \in Places : scope \in {All, CityOf[p]}}

Shown(p) == IF snapshot[p].public THEN snapshot[p].version ELSE 0
ShowsPlace(c) == \E p \in In(c) : Shown(p) # 0

NoSet == [version |-> 0, ids |-> {}]

CacheInit ==
    /\ snapshot = [p \in Places |-> [version |-> 0, public |-> FALSE]]
    /\ generation = 0
    /\ rows = [k \in Copied |-> [p \in Places |-> 0]]
    /\ sets = [c \in Cities |-> NoSet]

Snap(scope) ==
    /\ \E found \in [In(scope) -> BOOLEAN] :
         snapshot' = [p \in Places |->
                        IF p \in In(scope) THEN [version |-> generation + 1, public |-> found[p]]
                        ELSE snapshot[p]]
    /\ generation' = generation + 1
    /\ UNCHANGED <<rows, sets>>

Copy(kind, scope) ==
    /\ rows' = [rows EXCEPT ![kind] = [p \in Places |-> IF p \in In(scope) THEN Shown(p) ELSE @[p]]]
    /\ UNCHANGED <<snapshot, generation, sets>>

Gather(scope) ==
    LET newest == Max({0} \union {Shown(p) : p \in In(scope)})
        Offered(c) == [version |-> newest, ids |-> {p \in In(c) : rows["nodes"][p] > 0}]
    IN  /\ sets' = [c \in Cities |->
                      IF scope \notin {All, c} THEN sets[c]
                      ELSE IF ShowsPlace(c) THEN Offered(c) ELSE NoSet]
        /\ UNCHANGED <<snapshot, generation, rows>>

CacheNext ==
    \E scope \in Scopes :
        \/ Snap(scope) \/ Gather(scope)
        \/ \E kind \in Copied : Copy(kind, scope)

Spec == CacheInit /\ [][CacheNext]_cacheVars
=============================================================================
