----------------------------- MODULE VersionedRoute -----------------------------
(***************************************************************************)
(* What the version and the lock of a route draft promise its editors: a   *)
(* list of stops that is compared and edited in one step.  An edit is made *)
(* for what its client was shown, so it changes the stop the client saw    *)
(* there or nothing, and no edit disturbs the order of the other stops.    *)
(* Readers' rules, locks, answers under way and the removed list are left  *)
(* out.  RouteDrafts implements this module (property                      *)
(* ImplementsVersionedRoute there).                                        *)
(***************************************************************************)
EXTENDS Integers

CONSTANTS
    Client,
    Call    \* edits that can be under way at once

VARIABLES
    version,
    stops,   \* records with fields id, place and position
    shown,   \* what each client was shown last: a version and names of stops
    asked    \* of every call: the edit under way, if there is one

routeVars == <<version, stops, shown, asked>>

Name(stop) == [id |-> stop.id, place |-> stop.place]
Names(list) == {Name(x) : x \in list}

\* Stops that stay stay in order; equal positions promise nothing.
InOrder(list, new) ==
    \A p, q \in list, x, y \in new :
        p.id = x.id /\ q.id = y.id /\ p.position < q.position => x.position < y.position

RouteInit ==
    /\ version = 1
    /\ \A p, q \in stops : p # q => p.id # q.id /\ p.place # q.place /\ p.position # q.position
    /\ shown = [c \in Client |-> [version |-> 1, points |-> Names(stops)]]
    /\ asked = [s \in Call |-> {}]

\* A removal or replacement names a stop the client was shown.
Asks(s) ==
    \E c \in Client, e \in asked'[s] :
        /\ asked[s] = {} /\ asked' = [asked EXCEPT ![s] = {e}]
        /\ e.version = shown[c].version
        /\ e.kind \in {"remove", "replace"} => [id |-> e.point, place |-> e.was] \in shown[c].points
        /\ UNCHANGED <<version, stops, shown>>

Refuses(s) ==
    /\ asked[s] # {} /\ asked'[s] = {}
    /\ asked' = [asked EXCEPT ![s] = {}]
    /\ UNCHANGED <<version, stops, shown>>

\* The names of the stops after edit e of those that are kept.
Edited(e, kept) ==
    LET seen == [id |-> e.point, place |-> e.was] IN
    \/ e.kind = "remove" /\ seen \in kept /\ Names(stops') = kept \ {seen}
    \/ /\ e.kind = "replace" /\ seen \in kept
       /\ \A x \in kept : x.place # e.place
       /\ Names(stops') = (kept \ {seen}) \union {[id |-> e.point, place |-> e.place]}
    \/ /\ e.kind = "add" /\ \A x \in kept : x.place # e.place
       /\ \E new \in Names(stops') :
             /\ new.place = e.place /\ \A x \in stops : x.id # new.id
             /\ Names(stops') = kept \union {new}

Applies(s) ==
    /\ version' = version + 1
    /\ \E e \in asked[s] :
          /\ e.version = version
          /\ \E kept \in SUBSET Names(stops) : Edited(e, kept)
    /\ InOrder(stops, stops')
    /\ asked' = [asked EXCEPT ![s] = {}]
    /\ UNCHANGED shown

\* A client is shown stops of the version it is told, or of a later one.
Shows(c) ==
    /\ shown # shown' /\ shown' = [shown EXCEPT ![c] = shown'[c]]
    /\ shown'[c].version \in 1..version
    /\ shown'[c].version = version => shown'[c].points \subseteq Names(stops)
    /\ UNCHANGED <<version, stops, asked>>

RouteNext ==
    \/ \E s \in Call : Asks(s) \/ Refuses(s) \/ Applies(s)
    \/ \E c \in Client : Shows(c)

Spec == RouteInit /\ [][RouteNext]_routeVars
=============================================================================
