------------------------------ MODULE RouteDrafts ------------------------------
(***************************************************************************)
(* One draft of a random route and the clients who hold its token.  An     *)
(* edit names the version its client saw; the server locks the draft, drops *)
(* points whose places readers may no longer see, applies the edit and     *)
(* raises the version.  The catalogue of places changes all the while, and *)
(* what a client is shown is read after the lock is gone, row first and    *)
(* points later.  Every place counts for one unit of the time budget.      *)
(***************************************************************************)
EXTENDS Integers, FiniteSets

CONSTANTS
    Place, Client,
    Call,        \* requests that can be under way at once
    Selected,    \* points that create_random_route_draft selects at most
    Budget,      \* RouteDraft.budget_minutes
    After,       \* values of after_position that clients send, besides none
    MaxVersion,  \* bound: clients stop editing at this version
    MaxChanges   \* bound: changes of the catalogue, the city and the clock

ASSUME DraftsAssumption ==
    /\ IsFiniteSet(Place)
    /\ Selected \in Nat /\ Budget \in Nat /\ After \subseteq Int
    /\ MaxVersion \in Nat /\ MaxChanges \in Nat

RouteStatuses == {"no_route", "partial", "full"}
Point == [id : Nat, place : Place, position : Nat \ {0}]
Draft ==
    [version : Nat \ {0}, points : SUBSET Point, removed : SUBSET Place,
     total : Nat, status : RouteStatuses]

\* What the answer says of a point that the clients' later edits rely on.
Shown == [id : Nat, place : Place]
View == [version : Nat \ {0}, points : SUBSET Shown]

\* The body of an edit.  "was" is not sent: the place its client saw there.
Removal == [kind : {"remove"}, version : Nat, point : Nat, was : Place]
Addition ==
    [kind : {"add"}, version : Nat, place : Place,
     after : SUBSET After,    \* after_position: at most one number
     readd : BOOLEAN]
Replacement ==
    [kind : {"replace"}, version : Nat, point : Nat, was : Place, place : Place]
Edit == Removal \union Addition \union Replacement

Idle == [stage |-> "idle"]
Sent(c, e) == [stage |-> "sent", client |-> c, edit |-> e]
Asked(c) == [stage |-> "asked", client |-> c]
Editing(c, e, kept) == [stage |-> "editing", client |-> c, edit |-> e, kept |-> kept]
Committed(c) == [stage |-> "committed", client |-> c]
Loaded(c, version, all) ==
    [stage |-> "loaded", client |-> c, version |-> version, all |-> all]

Progress ==
    {Idle}
    \union [stage : {"sent"}, client : Client, edit : Edit]
    \union [stage : {"asked", "committed"}, client : Client]
    \union [stage : {"editing"}, client : Client, edit : Edit, kept : SUBSET Point]
    \union [stage : {"loaded"}, client : Client, version : Nat \ {0}, all : BOOLEAN]

VARIABLES
    eligible,   \* places that pass the place-level part of the public contract
    published,  \* the city is active and its launch_status is "published"
    expired,    \* expires_at has passed
    draft,      \* the row of route_drafts with its route_draft_points
    view,       \* the answer each client works from
    call,       \* the requests under way
    routable,   \* history: what was routable at some moment of an edit
    changes     \* bound

vars == <<eligible, published, expired, draft, view, call, routable, changes>>
catalogue == <<eligible, published, expired, changes>>

\* public_route_eligible_sql_conditions: the contract asks for the city as well.
Routable == IF published THEN eligible ELSE {}

PlacesOf(points) == {p.place : p \in points}
Named(points) == {[id |-> p.id, place |-> p.place] : p \in points}

-----------------------------------------------------------------------------
(* Positions, total and status. *)

\* Faulty variant: the points are numbered in the order the rows come in.
NumberingsOfRows(points) ==
    {f \in [points -> 1..Cardinality(points)] :
        \A p, q \in points : p # q => f[p] # f[q]}

\* The ways to number the points 1..n by position; a tie is broken by the
\* order in which the database returns the rows, which nobody states.
Numberings(points) ==
    {f \in [points -> 1..Cardinality(points)] :
        \A p, q \in points : p # q => /\ f[p] # f[q]
                                      /\ p.position < q.position => f[p] < f[q]}

Numbered(points, f) == {[p EXCEPT !.position = f[p]] : p \in points}
Reindexed(points) == {Numbered(points, f) : f \in Numberings(points)}

StatusOf(total) ==
    IF total = 0 THEN "no_route"
    ELSE IF total > Budget \/ total < 2 THEN "partial" ELSE "full"

\* recalculate_draft sees the points the session has loaded, not a new one.
Recalculated(version, loaded, new, removed) ==
    {[version |-> version, points |-> points \union new, removed |-> removed,
      total |-> Cardinality(loaded), status |-> StatusOf(Cardinality(loaded))]
        : points \in Reindexed(loaded)}

\* create_random_route_draft numbers the places it selected in their order.
Orders(places) ==
    {f \in [places -> 1..Cardinality(places)] :
        \A p, q \in places : f[p] = f[q] => p = q}

Created(places, f) ==
    [version |-> 1,
     points |-> {[id |-> f[p], place |-> p, position |-> f[p]] : p \in places},
     removed |-> {},
     total |-> Cardinality(places), status |-> StatusOf(Cardinality(places))]

Init ==
    /\ eligible \in SUBSET Place
    /\ published = TRUE /\ expired = FALSE
    /\ \E places \in SUBSET eligible :
          /\ Cardinality(places) <= Selected
          /\ eligible # {} => places # {}
          /\ \E f \in Orders(places) : draft = Created(places, f)
    /\ view = [c \in Client |-> [version |-> 1, points |-> Named(draft.points)]]
    /\ call = [s \in Call |-> Idle]
    /\ routable = [s \in Call |-> {}]
    /\ changes = 0

-----------------------------------------------------------------------------
(* Clients. *)

\* A client may send again before an answer came: it stopped waiting.
Request(s, c, e) ==
    /\ call[s] = Idle
    /\ view[c].version < MaxVersion
    /\ call' = [call EXCEPT ![s] = Sent(c, e)]
    /\ UNCHANGED <<catalogue, draft, view, routable>>

AskRemoval(s, c) ==
    \E p \in view[c].points :
        Request(s, c, [kind |-> "remove", version |-> view[c].version,
                       point |-> p.id, was |-> p.place])

\* The editor sends the last position it shows; the API takes none or any.
AskAddition(s, c) ==
    \E q \in Place, readd \in BOOLEAN,
       after \in {{}} \union {{n} : n \in After} :
        Request(s, c, [kind |-> "add", version |-> view[c].version,
                       place |-> q, after |-> after, readd |-> readd])

AskReplacement(s, c) ==
    \E p \in view[c].points, q \in Place :
        Request(s, c, [kind |-> "replace", version |-> view[c].version,
                       point |-> p.id, was |-> p.place, place |-> q])

AskRead(s, c) ==
    /\ call[s] = Idle
    /\ call' = [call EXCEPT ![s] = Asked(c)]
    /\ UNCHANGED <<catalogue, draft, view, routable>>

-----------------------------------------------------------------------------
(* An edit.  It holds the row of the draft from its start to its commit;    *)
(* the rows of places and of the city stay free.                            *)

Accessible == published /\ ~expired

\* Faulty variant: the row is loaded without FOR UPDATE.
NeverLocked == FALSE

Locked == \E s \in Call : call[s].stage = "editing"

\* The version a request names is the one the locked row has.
Current(e) == e.version = draft.version

\* Faulty variant: only the view leaves out what readers may not see.
ReconciledOnRead(points) == {points}

\* reconcile_draft_public_points: nothing is renumbered unless a point goes.
Reconciled(points) ==
    LET kept == {p \in points : p.place \in Routable}
    IN  IF kept = points THEN {points} ELSE Reindexed(kept)

Drop(s) ==
    /\ call' = [call EXCEPT ![s] = Idle]
    /\ routable' = [routable EXCEPT ![s] = {}]
    /\ UNCHANGED <<catalogue, draft, view>>

\* DRAFT_NOT_FOUND or STALE_DRAFT_VERSION.
TurnAway(s) ==
    /\ call[s].stage = "sent"
    /\ ~Locked
    /\ ~Accessible \/ ~Current(call[s].edit)
    /\ Drop(s)

Begin(s) ==
    /\ call[s].stage = "sent"
    /\ ~Locked
    /\ Accessible /\ Current(call[s].edit)
    /\ \E kept \in Reconciled(draft.points) :
          call' = [call EXCEPT ![s] = Editing(call[s].client, call[s].edit, kept)]
    /\ routable' = [routable EXCEPT ![s] = Routable]
    /\ UNCHANGED <<catalogue, draft, view>>

Targets(e, kept) == {p \in kept : p.id = e.point}

CanRemove(e, kept) == Targets(e, kept) # {}

CanAdd(e, kept) ==
    /\ e.place \notin PlacesOf(kept)
    /\ e.readd \/ e.place \notin draft.removed
    /\ e.place \in Routable

\* Faulty variant: the replacement may be in the route already.
CanReplaceByAny(e, kept) == Targets(e, kept) # {} /\ e.place \in Routable

CanReplace(e, kept) ==
    /\ Targets(e, kept) # {}
    /\ e.place \notin PlacesOf(kept)
    /\ e.place \in Routable

Possible(e, kept) ==
    \/ e.kind = "remove" /\ CanRemove(e, kept)
    \/ e.kind = "add" /\ CanAdd(e, kept)
    \/ e.kind = "replace" /\ CanReplace(e, kept)

\* An error rolls the whole edit back, the reconciliation included.
Fail(s) ==
    /\ call[s].stage = "editing"
    /\ ~Possible(call[s].edit, call[s].kept)
    /\ Drop(s)

Commit(s, drafts) ==
    /\ draft' \in drafts
    /\ call' = [call EXCEPT ![s] = Committed(call[s].client)]
    /\ routable' = [routable EXCEPT ![s] = {}]
    /\ UNCHANGED <<catalogue, view>>

\* Faulty variant: the other points keep their numbers.
RemovedInPlace(kept, p) ==
    {[version |-> draft.version + 1, points |-> kept \ {p},
      removed |-> draft.removed \union {p.place},
      total |-> Cardinality(kept \ {p}), status |-> StatusOf(Cardinality(kept \ {p}))]}

Removed(kept, p) ==
    Recalculated(draft.version + 1, kept \ {p}, {}, draft.removed \union {p.place})

RemovePoint(s) ==
    LET e == call[s].edit  kept == call[s].kept
    IN  /\ call[s].stage = "editing" /\ e.kind = "remove" /\ CanRemove(e, kept)
        /\ \E p \in Targets(e, kept) : Commit(s, Removed(kept, p))

InsertPosition(e, kept) ==
    IF e.after = {} THEN {Cardinality(kept) + 1}
                    ELSE {IF n < 0 THEN 1 ELSE n + 1 : n \in e.after}

Shifted(points, position) ==
    {[p EXCEPT !.position = IF @ >= position THEN @ + 1 ELSE @] : p \in points}

\* Ids come from the table's sequence.
FreshId == Selected + draft.version

Added(e, kept, position) ==
    Recalculated(draft.version + 1, Shifted(kept, position),
                 {[id |-> FreshId, place |-> e.place, position |-> position]},
                 draft.removed)

AddPoint(s) ==
    LET e == call[s].edit  kept == call[s].kept
    IN  /\ call[s].stage = "editing" /\ e.kind = "add" /\ CanAdd(e, kept)
        /\ \E position \in InsertPosition(e, kept) : Commit(s, Added(e, kept, position))

\* Faulty variant: a replacement does not raise the version.
ReplacedUntouched(e, kept, p) ==
    Recalculated(draft.version, (kept \ {p}) \union {[p EXCEPT !.place = e.place]},
                 {}, draft.removed \union {p.place})

Replaced(e, kept, p) ==
    Recalculated(draft.version + 1, (kept \ {p}) \union {[p EXCEPT !.place = e.place]},
                 {}, draft.removed \union {p.place})

ReplacePoint(s) ==
    LET e == call[s].edit  kept == call[s].kept
    IN  /\ call[s].stage = "editing" /\ e.kind = "replace" /\ CanReplace(e, kept)
        /\ \E p \in Targets(e, kept) : Commit(s, Replaced(e, kept, p))

-----------------------------------------------------------------------------
(* Answers.  The row and its points are two statements without a lock.      *)

Load(s, all) ==
    /\ call' = [call EXCEPT ![s] = Loaded(call[s].client, draft.version, all)]
    /\ UNCHANGED <<catalogue, draft, view, routable>>

\* db.refresh(draft) after the commit.
Refresh(s) == call[s].stage = "committed" /\ Load(s, TRUE)

ReadDraft(s) == call[s].stage = "asked" /\ Accessible /\ Load(s, FALSE)

RefuseRead(s) == call[s].stage = "asked" /\ ~Accessible /\ Drop(s)

\* serialize_draft shows every point, serialize_public_draft_view the routable.
Serialized(all) ==
    Named({p \in draft.points : all \/ p.place \in Routable})

Answer(s) ==
    /\ call[s].stage = "loaded"
    /\ view' = [view EXCEPT ![call[s].client] =
                  [version |-> call[s].version, points |-> Serialized(call[s].all)]]
    /\ call' = [call EXCEPT ![s] = Idle]
    /\ UNCHANGED <<catalogue, draft, routable>>

LoseAnswer(s) == call[s].stage = "loaded" /\ Drop(s)

-----------------------------------------------------------------------------
(* The catalogue, the administrator and the clock.                          *)

Environment ==
    /\ changes < MaxChanges
    /\ changes' = changes + 1
    /\ routable' = [s \in Call |-> IF call[s].stage = "editing"
                                      THEN routable[s] \union Routable' ELSE {}]
    /\ UNCHANGED <<draft, view, call>>

PlaceChanges ==
    /\ \E p \in Place : eligible' = IF p \in eligible THEN eligible \ {p}
                                                      ELSE eligible \union {p}
    /\ UNCHANGED <<published, expired>>
    /\ Environment

CityChanges ==
    /\ published' = ~published
    /\ UNCHANGED <<eligible, expired>>
    /\ Environment

Expires ==
    /\ ~expired
    /\ expired' = TRUE
    /\ UNCHANGED <<eligible, published>>
    /\ Environment

Ask(s, c) == AskRemoval(s, c) \/ AskAddition(s, c) \/ AskReplacement(s, c) \/ AskRead(s, c)

Serve(s) ==
    \/ TurnAway(s) \/ Begin(s) \/ Fail(s)
    \/ RemovePoint(s) \/ AddPoint(s) \/ ReplacePoint(s)
    \/ Refresh(s) \/ ReadDraft(s) \/ RefuseRead(s) \/ Answer(s) \/ LoseAnswer(s)

Next ==
    \/ \E s \in Call, c \in Client : Ask(s, c)
    \/ \E s \in Call : Serve(s)
    \/ PlaceChanges \/ CityChanges \/ Expires

Spec == Init /\ [][Next]_vars

-----------------------------------------------------------------------------
TypeOK ==
    /\ eligible \subseteq Place
    /\ published \in BOOLEAN /\ expired \in BOOLEAN
    /\ draft \in Draft
    /\ view \in [Client -> View]
    /\ call \in [Call -> Progress]
    /\ routable \in [Call -> SUBSET Place]
    /\ changes \in 0..MaxChanges

\* No place is twice in a draft: the test for it reads the points before the
\* replaced or added one, and only the lock keeps other edits out meanwhile.
EachPlaceOnce ==
    \A p, q \in draft.points : p.place = q.place => p = q

\* The stored positions, total and status leave out the point added last and no
\* other: recalculate_draft sees what the session loaded before the insert, and
\* the next edit repairs it.
OnlyTheNewPointIsUncounted ==
    \E new \in SUBSET draft.points :
        /\ Cardinality(new) <= 1
        /\ {p.position : p \in draft.points \ new} = 1..draft.total
        /\ Cardinality(draft.points \ new) = draft.total
        /\ draft.status = StatusOf(draft.total)

\* A client that works from the current version sees points the draft has: an
\* answer takes its version from the row before it loads the points, so what
\* overtakes it makes the version old.
CurrentViewsAreTrue ==
    \A c \in Client :
        view[c].version = draft.version => view[c].points \subseteq Named(draft.points)

\* A draft changes by one edit at a time, of the version it had, and a point is
\* removed or replaced only if it still is the place its client saw there: a
\* lost answer, a second tab or a request sent twice applies nothing twice.
EditsAreOfTheVersionSeen ==
    [][draft' # draft =>
        \E s \in Call :
            /\ call[s].stage = "editing"
            /\ call[s].edit.version = draft.version
            /\ draft'.version = draft.version + 1
            /\ call[s].edit.kind \in {"remove", "replace"} =>
                  PlacesOf(Targets(call[s].edit, draft.points)) = {call[s].edit.was}
      ]_vars

\* An edit leaves only points that readers could have been shown at some moment
\* while it ran, and a place the client once removed returns only by a replacement
\* or an addition that asks for it.
EditsLeaveRoutablePoints ==
    [][draft' # draft =>
        \E s \in Call :
            /\ call[s].stage = "editing"
            /\ PlacesOf(draft'.points) \subseteq routable[s]
            /\ PlacesOf(draft'.points) \intersect (draft.removed \ PlacesOf(draft.points)) # {} =>
                  \/ call[s].edit.kind = "replace"
                  \/ call[s].edit.kind = "add" /\ call[s].edit.readd
      ]_vars

-----------------------------------------------------------------------------
(* Refinement.  An edit is under way from the request to its commit or      *)
(* refusal; in between the lock makes it one step.                          *)
Under(s) == IF call[s].stage \in {"sent", "editing"} THEN {call[s].edit} ELSE {}

Versioned == INSTANCE VersionedRoute WITH
    version <- draft.version,
    stops   <- draft.points,
    shown   <- view,
    asked   <- [s \in Call |-> Under(s)]

\* The draft may as well be compared with an edit's version, cleared of what
\* readers may not see, edited and renumbered in one step (get_public_draft_or_error,
\* check_version): an edit applies to what its client was shown or not at all,
\* and stops that stay keep their order through every renumbering.
ImplementsVersionedRoute == Versioned!Spec
=============================================================================
