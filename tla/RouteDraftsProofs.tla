--------------------------- MODULE RouteDraftsProofs ---------------------------
(***************************************************************************)
(* Theorems about RouteDrafts for any places, clients and requests, any     *)
(* budget and any number of selected points, versions and changes.         *)
(***************************************************************************)
EXTENDS RouteDrafts, FiniteSetTheorems, TLAPS

-----------------------------------------------------------------------------
(* Points. *)

Distinct(points) ==
    \A p, q \in points : (p.id = q.id \/ p.place = q.place) => p = q

Sound(points) ==
    points \subseteq Point /\ IsFiniteSet(points) /\ Distinct(points)

Positions(points) == {p.position : p \in points}

(* New positions change neither the points nor their number.               *)
LEMMA NumberedPoints ==
    ASSUME NEW P, Sound(P), NEW f \in [P -> Nat \ {0}]
    PROVE  LET Q == Numbered(P, f) IN
           /\ Sound(Q) /\ Named(Q) = Named(P) /\ PlacesOf(Q) = PlacesOf(P)
           /\ Cardinality(Q) = Cardinality(P)
           /\ Positions(Q) = {f[p] : p \in P}
<1> DEFINE g == [p \in P |-> [p EXCEPT !.position = f[p]]]
           Q == Numbered(P, f)
<1>1. \A p \in P : /\ g[p] \in Point
                   /\ g[p].id = p.id /\ g[p].place = p.place /\ g[p].position = f[p]
    BY DEF Sound, Point
<1>2. Q = {g[p] : p \in P}
    BY DEF Numbered
<1> HIDE DEF g, Q
<1>3. DOMAIN g = P /\ g = [p \in P |-> g[p]]
    BY DEF g
<1>4. g \in [P -> Q]
    BY <1>2, <1>3
<1>5. \A p, q \in P : g[p] = g[q] => p = q
    BY <1>1 DEF Sound, Distinct
<1>6. g \in Surjection(P, Q) /\ g \in Injection(P, Q)
    BY <1>2, <1>4, <1>5 DEF Surjection, Injection, IsInjective
<1>7. IsFiniteSet(Q) /\ Cardinality(Q) = Cardinality(P)
    BY <1>6, FS_Surjection DEF Sound
<1>8. Distinct(Q) /\ Q \subseteq Point
    BY <1>1, <1>2 DEF Distinct, Sound
<1>9. Named(Q) = Named(P) /\ PlacesOf(Q) = PlacesOf(P) /\ Positions(Q) = {f[p] : p \in P}
    <2>1. \A p \in P : [id |-> g[p].id, place |-> g[p].place] = [id |-> p.id, place |-> p.place]
        BY <1>1
    <2>2. Named(Q) = {[id |-> g[p].id, place |-> g[p].place] : p \in P}
        BY <1>2 DEF Named
    <2>3. PlacesOf(Q) = {g[p].place : p \in P} /\ Positions(Q) = {g[p].position : p \in P}
        BY <1>2 DEF PlacesOf, Positions
    <2>4. Named(Q) = Named(P)
        <3>1. \A p \in P : <<g[p].id, g[p].place>> = <<p.id, p.place>>
            BY <1>1
        <3>2. Named(P) = {[id |-> p.id, place |-> p.place] : p \in P}
            BY DEF Named
        <3> QED BY <2>1, <2>2, <3>1, <3>2
    <2>5. PlacesOf(Q) = PlacesOf(P)
        BY <1>1, <2>3 DEF PlacesOf
    <2>6. Positions(Q) = {f[p] : p \in P}
        BY <1>1, <2>3
    <2> QED BY <2>4, <2>5, <2>6
<1> QED BY <1>7, <1>8, <1>9 DEF Sound, Q

(* _reindex leaves the same points at the positions 1..n.                  *)
LEMMA ReindexedPoints ==
    ASSUME NEW P, Sound(P), NEW Q \in Reindexed(P)
    PROVE  /\ Sound(Q) /\ Named(Q) = Named(P) /\ PlacesOf(Q) = PlacesOf(P)
           /\ Cardinality(Q) = Cardinality(P) /\ Cardinality(P) \in Nat
           /\ Positions(Q) = 1..Cardinality(P)
<1> DEFINE n == Cardinality(P)
<1>1. n \in Nat
    BY FS_CardinalityType DEF Sound
<1>2. PICK f \in Numberings(P) : Q = Numbered(P, f)
    BY DEF Reindexed
<1>3. f \in [P -> 1..n] /\ \A p, q \in P : p # q => f[p] # f[q]
    BY <1>2 DEF Numberings
<1>4. IsFiniteSet(1..n) /\ Cardinality(1..n) = n
    BY <1>1, FS_Interval
<1> HIDE DEF n
<1>5. f \in Injection(P, 1..n)
    BY <1>3 DEF Injection, IsInjective
<1>6. f \in Surjection(P, 1..n)
    BY <1>4, <1>5, FS_Injection DEF n
<1>7. {f[p] : p \in P} = 1..n
    BY <1>3, <1>6 DEF Surjection
<1>8. f \in [P -> Nat \ {0}]
    BY <1>1, <1>3
<1> QED BY <1>1, <1>2, <1>7, <1>8, NumberedPoints DEF n

LEMMA ShiftedPoints ==
    ASSUME NEW P, Sound(P), NEW n \in Nat
    PROVE  /\ Sound(Shifted(P, n)) /\ Named(Shifted(P, n)) = Named(P)
           /\ PlacesOf(Shifted(P, n)) = PlacesOf(P)
<1> DEFINE f == [p \in P |-> IF p.position >= n THEN p.position + 1 ELSE p.position]
<1>1. f \in [P -> Nat \ {0}]
    BY DEF Sound, Point
<1>2. Shifted(P, n) = Numbered(P, f)
    BY DEF Shifted, Numbered
<1> QED BY <1>1, <1>2, NumberedPoints

LEMMA PartOfPoints ==
    ASSUME NEW P, Sound(P), NEW Q \in SUBSET P
    PROVE  /\ Sound(Q) /\ Named(Q) \subseteq Named(P) /\ PlacesOf(Q) \subseteq PlacesOf(P)
BY FS_Subset DEF Sound, Distinct, Named, PlacesOf

LEMMA NamedPoint ==
    ASSUME NEW P, NEW Q, Named(P) \subseteq Named(Q), NEW p \in P
    PROVE  \E q \in Q : q.id = p.id /\ q.place = p.place
<1>1. [id |-> p.id, place |-> p.place] \in Named(Q)
    BY DEF Named
<1>2. PICK q \in Q : [id |-> p.id, place |-> p.place] = [id |-> q.id, place |-> q.place]
    BY <1>1 DEF Named
<1> QED BY <1>2

LEMMA SameNames ==
    ASSUME NEW P, NEW Q, Named(P) \subseteq Named(Q)
    PROVE  PlacesOf(P) \subseteq PlacesOf(Q)
<1> SUFFICES ASSUME NEW p \in P PROVE \E q \in Q : q.place = p.place
    BY DEF PlacesOf
<1> QED BY NamedPoint

-----------------------------------------------------------------------------
(* The order of points. *)

\* Points of P that are in Q as well are in the same order there.
Keeps(P, Q) ==
    \A p, q \in P, x, y \in Q :
        p.id = x.id /\ q.id = y.id /\ p.position < q.position => x.position < y.position

LEMMA NumberedInOrder ==
    ASSUME NEW P, Sound(P), NEW f \in [P -> Nat \ {0}],
           \A p, q \in P : p.position < q.position => f[p] < f[q]
    PROVE  Keeps(P, Numbered(P, f))
<1>1. \A x \in Numbered(P, f), p \in P : p.id = x.id => x.position = f[p]
    <2> TAKE x \in Numbered(P, f), p \in P
    <2>1. PICK q \in P : x = [q EXCEPT !.position = f[q]]
        BY DEF Numbered
    <2>2. q \in Point /\ p \in Point
        BY DEF Sound
    <2>3. x.id = q.id /\ x.position = f[q]
        BY <2>1, <2>2 DEF Point
    <2> QED BY <2>3 DEF Sound, Distinct
<1> QED BY <1>1 DEF Keeps

LEMMA ReindexedInOrder ==
    ASSUME NEW P, Sound(P), NEW Q \in Reindexed(P)
    PROVE  Keeps(P, Q)
<1>1. Cardinality(P) \in Nat /\ P \subseteq Point
    BY FS_CardinalityType DEF Sound
<1>2. PICK f \in Numberings(P) : Q = Numbered(P, f)
    BY DEF Reindexed
<1>3. f \in [P -> 1..Cardinality(P)]
    BY <1>2 DEF Numberings
<1>4. \A p, q \in P : p # q /\ p.position < q.position => f[p] < f[q]
    BY <1>2 DEF Numberings
<1>5. \A p, q \in P : p.position < q.position => p # q
    BY <1>1 DEF Point
<1>6. f \in [P -> Nat \ {0}]
    BY <1>1, <1>3
<1> QED BY <1>2, <1>4, <1>5, <1>6, NumberedInOrder

LEMMA ShiftedInOrder ==
    ASSUME NEW P, Sound(P), NEW n \in Nat
    PROVE  Keeps(P, Shifted(P, n))
<1> DEFINE f == [p \in P |-> IF p.position >= n THEN p.position + 1 ELSE p.position]
<1>1. \A p \in P : p.position \in Nat \ {0}
    BY DEF Sound, Point
<1>2. f \in [P -> Nat \ {0}] /\ \A p, q \in P : p.position < q.position => f[p] < f[q]
    BY <1>1
<1>3. Shifted(P, n) = Numbered(P, f)
    BY DEF Shifted, Numbered
<1> HIDE DEF f
<1> QED BY <1>2, <1>3, NumberedInOrder

LEMMA PartInOrder ==
    ASSUME NEW P, Sound(P), NEW Q \in SUBSET P
    PROVE  Keeps(P, Q)
BY DEF Sound, Distinct, Keeps

LEMMA InOrderThrough ==
    ASSUME NEW P, NEW Q, NEW R, Keeps(P, Q), Keeps(Q, R),
           \A p \in P, x \in R : p.id = x.id => \E q \in Q : q.id = x.id
    PROVE  Keeps(P, R)
BY DEF Keeps

-----------------------------------------------------------------------------
(* Drafts. *)

\* OnlyTheNewPointIsUncounted, of any draft.
Summed(d) ==
    \E new \in SUBSET d.points :
        /\ Cardinality(new) <= 1
        /\ {p.position : p \in d.points \ new} = 1..d.total
        /\ Cardinality(d.points \ new) = d.total
        /\ d.status = StatusOf(d.total)

SoundDraft(d) ==
    /\ d \in Draft /\ Sound(d.points) /\ Summed(d)
    /\ \A p \in d.points : p.id < Selected + d.version

LEMMA StatusType ==
    ASSUME NEW n \in Nat
    PROVE  StatusOf(n) \in RouteStatuses
BY DEF StatusOf, RouteStatuses

\* The new point, or none, beside the loaded ones of a draft of version v.
Beside(new, P, v) ==
    /\ new \in SUBSET Point
    /\ new = {} \/ \E x : new = {x}
    /\ \A x \in new, p \in P : p.id # x.id /\ p.place # x.place
    /\ \A p \in P \union new : p.id < Selected + v

(* recalculate_draft, with a new point or none beside the loaded ones.     *)
LEMMA RecalculatedDraft ==
    ASSUME NEW v \in Nat \ {0}, NEW P, Sound(P), NEW new, Beside(new, P, v),
           NEW R \in SUBSET Place,
           NEW d \in Recalculated(v, P, new, R)
    PROVE  /\ SoundDraft(d) /\ d.version = v /\ d.removed = R
           /\ Named(d.points) = Named(P) \union Named(new)
           /\ PlacesOf(d.points) = PlacesOf(P) \union PlacesOf(new)
           /\ Keeps(P, d.points)
<1> USE DEF Beside
<1>1. PICK Q \in Reindexed(P) :
         d = [version |-> v, points |-> Q \union new, removed |-> R,
              total |-> Cardinality(P), status |-> StatusOf(Cardinality(P))]
    BY DEF Recalculated
<1>2. /\ Sound(Q) /\ Named(Q) = Named(P) /\ PlacesOf(Q) = PlacesOf(P)
      /\ Cardinality(Q) = Cardinality(P) /\ Cardinality(P) \in Nat
      /\ Positions(Q) = 1..Cardinality(P)
    BY ReindexedPoints
<1>3. \A q \in Q : \E p \in P : p.id = q.id /\ p.place = q.place
    BY <1>2, NamedPoint
<1>4. new \intersect Q = {} /\ \A x \in new, q \in Q : q.id # x.id /\ q.place # x.place
    BY <1>3
<1>5. IsFiniteSet(new) /\ Cardinality(new) <= 1
    <2>1. CASE new = {}
        BY <2>1, FS_EmptySet
    <2>2. CASE \E x : new = {x}
        <3>1. PICK x : new = {x}
            BY <2>2
        <3>2. IsFiniteSet({x}) /\ Cardinality({x}) = 1
            BY FS_Singleton
        <3> QED BY <3>1, <3>2
    <2> QED BY <2>1, <2>2
<1>6. Sound(Q \union new)
    <2>1. IsFiniteSet(Q \union new)
        BY <1>2, <1>5, FS_Union DEF Sound
    <2>2. Distinct(Q \union new)
        BY <1>2, <1>4 DEF Sound, Distinct
    <2> QED BY <1>2, <2>1, <2>2 DEF Sound
<1>7. Summed(d)
    <2>1. d.points \ new = Q /\ new \in SUBSET d.points
        BY <1>1, <1>4
    <2> QED BY <1>1, <1>2, <1>5, <2>1 DEF Summed, Positions
<1>8. d \in Draft
    BY <1>1, <1>2, <1>6, StatusType DEF Draft, Sound
<1>9. \A p \in d.points : p.id < Selected + d.version
    BY <1>1, <1>3
<1>10. Named(Q \union new) = Named(P) \union Named(new)
    BY <1>2 DEF Named
<1>11. PlacesOf(Q \union new) = PlacesOf(P) \union PlacesOf(new)
    BY <1>2 DEF PlacesOf
<1>12. Keeps(P, Q \union new)
    <2>1. Keeps(P, Q) /\ \A p \in P, x \in new : p.id # x.id
        BY ReindexedInOrder
    <2> QED BY <2>1 DEF Keeps
<1> QED BY <1>1, <1>6, <1>7, <1>8, <1>9, <1>10, <1>11, <1>12 DEF SoundDraft

LEMMA RecalculatedOld ==
    ASSUME NEW v \in Nat \ {0}, NEW P, Sound(P), \A p \in P : p.id < Selected + v,
           NEW R \in SUBSET Place, NEW d \in Recalculated(v, P, {}, R)
    PROVE  /\ SoundDraft(d) /\ d.version = v /\ d.removed = R
           /\ PlacesOf(d.points) = PlacesOf(P) /\ Named(d.points) = Named(P)
           /\ Keeps(P, d.points)
<1>1. PlacesOf({}) = {} /\ Named({}) = {}
    BY DEF PlacesOf, Named
<1>2. /\ SoundDraft(d) /\ d.version = v /\ d.removed = R
      /\ PlacesOf(d.points) = PlacesOf(P) \union PlacesOf({})
      /\ Named(d.points) = Named(P) \union Named({})
      /\ Keeps(P, d.points)
    <2>1. Beside({}, P, v)
        BY DEF Beside
    <2> QED BY <2>1, RecalculatedDraft
<1> QED BY <1>1, <1>2

(* A draft as create_random_route_draft leaves it.                         *)
LEMMA CreatedDraft ==
    ASSUME NEW places \in SUBSET Place, IsFiniteSet(places),
           Cardinality(places) <= Selected, NEW f \in Orders(places)
    PROVE  /\ SoundDraft(Created(places, f)) /\ Created(places, f).version = 1
           /\ \A p, q \in Created(places, f).points : p.position = q.position => p = q
<1> DEFINE n == Cardinality(places)
           P == {[id |-> f[p], place |-> p, position |-> f[p]] : p \in places}
           g == [p \in places |-> [id |-> f[p], place |-> p, position |-> f[p]]]
           d == Created(places, f)
<1>1. n \in Nat /\ IsFiniteSet(1..n) /\ Cardinality(1..n) = n
    BY FS_CardinalityType, FS_Interval
<1>2. d = [version |-> 1, points |-> P, removed |-> {}, total |-> n, status |-> StatusOf(n)]
    BY DEF Created
<1>3. f \in [places -> 1..n] /\ \A p, q \in places : f[p] = f[q] => p = q
    BY DEF Orders
<1> HIDE DEF n, d
<1>4. f \in Injection(places, 1..n)
    BY <1>3 DEF Injection, IsInjective
<1>5. f \in Surjection(places, 1..n)
    BY <1>1, <1>4, FS_Injection DEF n
<1>6. {f[p] : p \in places} = 1..n
    BY <1>3, <1>5 DEF Surjection
<1>7. P \subseteq Point
    BY <1>1, <1>3 DEF Point
<1>8. Distinct(P)
    BY <1>3 DEF Distinct
<1>9. /\ g \in [places -> P]
      /\ \A x \in P : \E p \in places : g[p] = x
      /\ \A p, q \in places : g[p] = g[q] => p = q
    OBVIOUS
<1>10. g \in Surjection(places, P) /\ g \in Injection(places, P)
    BY <1>9 DEF Surjection, Injection, IsInjective
<1>11. IsFiniteSet(P) /\ Cardinality(P) = n
    BY <1>10, FS_Surjection DEF n
<1>12. {p.position : p \in P} = 1..n
    <2>1. P = {g[p] : p \in places} /\ \A p \in places : g[p].position = f[p]
        OBVIOUS
    <2> HIDE DEF P, g
    <2>2. {p.position : p \in P} = {g[p].position : p \in places}
        BY <2>1
    <2> QED BY <1>6, <2>1, <2>2
<1>13. Summed(d)
    <2>1. {} \in SUBSET d.points /\ d.points \ {} = P
        BY <1>2
    <2>2. Cardinality({}) <= 1
        BY FS_EmptySet
    <2> HIDE DEF P
    <2> QED BY <1>2, <1>11, <1>12, <2>1, <2>2 DEF Summed
<1>14. \A p \in P : p.id < Selected + 1
    BY <1>1, <1>3, DraftsAssumption DEF n
<1>15. \A p, q \in P : p.position = q.position => p = q
    BY <1>3
<1> HIDE DEF P, g
<1> QED BY <1>1, <1>2, <1>7, <1>8, <1>11, <1>13, <1>14, <1>15, StatusType DEF SoundDraft, Draft, Sound, d

-----------------------------------------------------------------------------
(* The inductive invariant. *)

\* What an edit under way relies on is true as long as its version is current.
EditTrue(e) ==
    /\ e.version <= draft.version
    /\ e.version = draft.version /\ e.kind \in {"remove", "replace"} =>
          [id |-> e.point, place |-> e.was] \in Named(draft.points)

ViewTrue(v) ==
    /\ v.version <= draft.version
    /\ v.version = draft.version => v.points \subseteq Named(draft.points)

CallTrue(s) ==
    /\ call[s].stage \in {"sent", "editing"} => EditTrue(call[s].edit)
    /\ call[s].stage = "editing" =>
          /\ call[s].edit.version = draft.version
          /\ Sound(call[s].kept)
          /\ Named(call[s].kept) \subseteq Named(draft.points)
          /\ PlacesOf(call[s].kept) \subseteq routable[s]
          /\ Routable \subseteq routable[s]
    /\ call[s].stage = "loaded" => call[s].version <= draft.version

OneEditor ==
    \A s, t \in Call : call[s].stage = "editing" /\ call[t].stage = "editing" => s = t

IInv ==
    /\ TypeOK
    /\ SoundDraft(draft)
    /\ \A c \in Client : ViewTrue(view[c])
    /\ \A s \in Call : CallTrue(s)
    /\ OneEditor

LEMMA Requests ==
    ASSUME NEW x \in Progress
    PROVE  /\ x.stage \in {"sent", "editing"} => x.client \in Client /\ x.edit \in Edit
           /\ x.stage = "editing" => x.kept \in SUBSET Point
           /\ x.stage \in {"asked", "committed", "loaded"} => x.client \in Client
           /\ x.stage = "loaded" => x.version \in Nat \ {0} /\ x.all \in BOOLEAN
<1>1. CASE x = Idle
    BY <1>1 DEF Idle
<1>2. CASE x \in [stage : {"sent"}, client : Client, edit : Edit]
    BY <1>2
<1>3. CASE x \in [stage : {"asked", "committed"}, client : Client]
    BY <1>3
<1>4. CASE x \in [stage : {"editing"}, client : Client, edit : Edit, kept : SUBSET Point]
    BY <1>4
<1>5. CASE x \in [stage : {"loaded"}, client : Client, version : Nat \ {0}, all : BOOLEAN]
    BY <1>5
<1> QED BY <1>1, <1>2, <1>3, <1>4, <1>5 DEF Progress

LEMMA Edits ==
    ASSUME NEW e \in Edit
    PROVE  /\ e.version \in Nat /\ e.kind \in {"remove", "add", "replace"}
           /\ e.kind \in {"remove", "replace"} => e.point \in Nat /\ e.was \in Place
           /\ e.kind \in {"add", "replace"} => e.place \in Place
           /\ e.kind = "add" => e.after \in SUBSET Int /\ e.readd \in BOOLEAN
BY DraftsAssumption DEF Edit, Removal, Addition, Replacement

LEMMA Stages ==
    ASSUME NEW c \in Client
    PROVE  /\ Idle \in Progress /\ Asked(c) \in Progress /\ Committed(c) \in Progress
           /\ \A e \in Edit : Sent(c, e) \in Progress
           /\ \A e \in Edit, kept \in SUBSET Point : Editing(c, e, kept) \in Progress
           /\ \A v \in Nat \ {0}, all \in BOOLEAN : Loaded(c, v, all) \in Progress
BY DEF Idle, Asked, Committed, Sent, Editing, Loaded, Progress

LEMMA RoutablePlaces == TypeOK => Routable \subseteq Place
BY DEF TypeOK, Routable

(* A step of one request that leaves the draft alone.                      *)
LEMMA OneCall ==
    ASSUME IInv, NEW s \in Call, NEW x \in Progress,
           call' = [call EXCEPT ![s] = x],
           UNCHANGED <<catalogue, draft>>,
           routable' \in [Call -> SUBSET Place],
           \A t \in Call \ {s} : routable'[t] = routable[t],
           view' \in [Client -> View], \A c \in Client : ViewTrue(view'[c]),
           x.stage \in {"sent", "editing"} => EditTrue(x.edit),
           x.stage = "loaded" => x.version <= draft.version,
           x.stage = "editing" =>
              /\ ~Locked
              /\ x.edit.version = draft.version /\ Sound(x.kept)
              /\ Named(x.kept) \subseteq Named(draft.points)
              /\ PlacesOf(x.kept) \subseteq routable'[s]
              /\ Routable \subseteq routable'[s]
    PROVE  IInv'
<1>1. TypeOK /\ call \in [Call -> Progress]
    BY DEF IInv, TypeOK
<1>2. call'[s] = x /\ \A t \in Call \ {s} : call'[t] = call[t]
    BY <1>1
<1>3. Routable' = Routable /\ draft' = draft
    BY DEF Routable, catalogue
<1>4. TypeOK'
    BY <1>1 DEF TypeOK, catalogue
<1>5. SoundDraft(draft)' /\ (\A c \in Client : ViewTrue(view[c]))'
    BY <1>3 DEF IInv, ViewTrue
<1>6. ASSUME NEW t \in Call PROVE CallTrue(t)'
    <2>1. CASE t = s
        BY <1>2, <1>3, <2>1 DEF CallTrue, EditTrue
    <2>2. CASE t # s
        BY <1>2, <1>3, <2>2 DEF IInv, CallTrue, EditTrue
    <2> QED BY <2>1, <2>2
<1>7. OneEditor'
    BY <1>2 DEF IInv, OneEditor, Locked
<1> QED BY <1>4, <1>5, <1>6, <1>7 DEF IInv

(* A step that changes the draft, by the one who holds it.                 *)
LEMMA OneCommit ==
    ASSUME IInv, NEW s \in Call, call[s].stage = "editing",
           call' = [call EXCEPT ![s] = Committed(call[s].client)],
           routable' = [routable EXCEPT ![s] = {}],
           UNCHANGED <<catalogue, view>>,
           SoundDraft(draft'), draft'.version = draft.version + 1
    PROVE  IInv'
<1>1. TypeOK /\ call \in [Call -> Progress] /\ SoundDraft(draft)
    BY DEF IInv, TypeOK
<1>2. draft.version \in Nat \ {0} /\ draft' \in Draft
    BY <1>1 DEF SoundDraft, Draft
<1>3. call[s].client \in Client
    BY <1>1, Requests
<1>4. call'[s] = Committed(call[s].client) /\ \A t \in Call \ {s} : call'[t] = call[t]
    BY <1>1
<1>5. TypeOK'
    BY <1>1, <1>2, <1>3, Stages DEF TypeOK, catalogue
<1>6. ASSUME NEW c \in Client PROVE ViewTrue(view[c])'
    <2>1. view[c].version \in Nat /\ view[c].version <= draft.version
        BY <1>1 DEF IInv, ViewTrue, TypeOK, View
    <2> QED BY <1>2, <2>1 DEF ViewTrue
<1>7. ASSUME NEW t \in Call PROVE CallTrue(t)'
    <2>1. CASE t = s
        BY <1>4, <2>1 DEF CallTrue, Committed
    <2>2. CASE t # s
        <3>1. call'[t] = call[t] /\ call[t].stage # "editing"
            BY <1>4, <2>2 DEF IInv, OneEditor
        <3>2. call[t] \in Progress /\ CallTrue(t)
            BY <1>1 DEF IInv
        <3>3. ASSUME call[t].stage = "sent"
              PROVE  call[t].edit.version \in Nat /\ call[t].edit.version <= draft.version
            <4>1. call[t].edit \in Edit
                BY <3>2, <3>3, Requests
            <4>2. call[t].edit.version \in Nat
                BY <4>1, Edits
            <4> QED BY <3>2, <3>3, <4>2 DEF CallTrue, EditTrue
        <3>4. call[t].stage = "loaded" => call[t].version \in Nat /\ call[t].version <= draft.version
            BY <3>2, Requests DEF CallTrue
        <3>5. call[t].stage = "sent" => call[t].edit.version < draft'.version
            BY <1>2, <3>3
        <3>6. call[t].stage = "sent" => EditTrue(call[t].edit)'
            BY <3>1, <3>3, <3>5, <1>2 DEF EditTrue
        <3>7. call[t].stage = "loaded" => call[t].version <= draft'.version
            BY <1>2, <3>4
        <3> QED BY <3>1, <3>6, <3>7 DEF CallTrue
    <2> QED BY <2>1, <2>2
<1>8. OneEditor'
    BY <1>4 DEF IInv, OneEditor, Committed
<1> QED BY <1>5, <1>6, <1>7, <1>8 DEF IInv

(* The world changes under the requests.                                   *)
LEMMA OneChange ==
    ASSUME IInv, Environment, eligible' \subseteq Place, published' \in BOOLEAN,
           expired' \in BOOLEAN
    PROVE  IInv'
<1>1. TypeOK /\ call \in [Call -> Progress] /\ Routable' \subseteq Place
    BY DEF IInv, TypeOK, Routable
<1>2. UNCHANGED <<draft, view, call>>
    BY DEF Environment
<1>3. TypeOK'
    BY <1>1, <1>2, DraftsAssumption DEF TypeOK, Environment
<1>4. ASSUME NEW t \in Call PROVE CallTrue(t)'
    <2>1. routable'[t] = IF call[t].stage = "editing" THEN routable[t] \union Routable' ELSE {}
        BY DEF Environment
    <2> QED BY <1>2, <2>1 DEF IInv, CallTrue, EditTrue
<1> QED BY <1>2, <1>3, <1>4 DEF IInv, OneEditor, ViewTrue

-----------------------------------------------------------------------------
(* What a committed edit does. *)

\* The names of the points before and after the edit of s.
EditedNames(s) ==
    LET e == call[s].edit
        seen == [id |-> e.point, place |-> e.was]
        kept == Named(call[s].kept)
    IN  \/ e.kind = "remove" /\ seen \in kept /\ Named(draft'.points) = kept \ {seen}
        \/ /\ e.kind = "replace" /\ seen \in kept /\ \A x \in kept : x.place # e.place
           /\ Named(draft'.points) =
                 (kept \ {seen}) \union {[id |-> e.point, place |-> e.place]}
        \/ /\ e.kind = "add" /\ \A x \in kept : x.place # e.place
           /\ Named(draft'.points) = kept \union {[id |-> FreshId, place |-> e.place]}

CommitEffect(s) ==
    /\ call[s].stage = "editing"
    /\ call' = [call EXCEPT ![s] = Committed(call[s].client)]
    /\ routable' = [routable EXCEPT ![s] = {}]
    /\ UNCHANGED <<catalogue, view>>
    /\ SoundDraft(draft') /\ draft'.version = draft.version + 1
    /\ call[s].edit.version = draft.version
    /\ call[s].edit.kind \in {"remove", "replace"} =>
          PlacesOf(Targets(call[s].edit, draft.points)) = {call[s].edit.was}
    /\ PlacesOf(draft'.points) \subseteq routable[s]
    /\ PlacesOf(draft'.points) \intersect (draft.removed \ PlacesOf(draft.points)) # {} =>
          \/ call[s].edit.kind = "replace"
          \/ call[s].edit.kind = "add" /\ call[s].edit.readd
    /\ EditedNames(s) /\ Keeps(call[s].kept, draft'.points)

\* What the invariant says of the edit that holds the draft.
Held(s) ==
    LET e == call[s].edit  kept == call[s].kept
    IN  /\ e \in Edit /\ e.version = draft.version
        /\ Sound(kept)
        /\ Named(kept) \subseteq Named(draft.points)
        /\ PlacesOf(kept) \subseteq PlacesOf(draft.points)
        /\ \A p \in kept : p.id < Selected + draft.version
        /\ PlacesOf(kept) \subseteq routable[s] /\ Routable \subseteq routable[s]
        /\ draft.version \in Nat \ {0} /\ draft.removed \in SUBSET Place
        /\ Routable \subseteq Place

LEMMA HeldDraft ==
    ASSUME IInv, NEW s \in Call, call[s].stage = "editing"
    PROVE  Held(s)
<1> DEFINE e == call[s].edit  kept == call[s].kept
<1>1. TypeOK /\ SoundDraft(draft) /\ CallTrue(s) /\ call[s] \in Progress
    BY DEF IInv, TypeOK
<1>2. e \in Edit
    BY <1>1, Requests
<1>3. /\ e.version = draft.version /\ Sound(kept) /\ Named(kept) \subseteq Named(draft.points)
      /\ PlacesOf(kept) \subseteq routable[s] /\ Routable \subseteq routable[s]
    BY <1>1 DEF CallTrue
<1>4. \A p \in kept : p.id < Selected + draft.version
    <2> TAKE p \in kept
    <2> DEFINE P == draft.points
    <2>1. Named(kept) \subseteq Named(P)
        BY <1>3
    <2> HIDE DEF P
    <2>2. PICK q \in P : q.id = p.id
        BY <2>1, NamedPoint
    <2> QED BY <1>1, <2>2 DEF SoundDraft, P
<1>5. draft.version \in Nat \ {0} /\ draft.removed \in SUBSET Place
    BY <1>1 DEF SoundDraft, Draft
<1> HIDE DEF e, kept
<1> QED BY <1>1, <1>2, <1>3, <1>4, <1>5, SameNames, RoutablePlaces DEF Held, e, kept

\* The named point still is the place the client saw.
LEMMA SeenTarget ==
    ASSUME IInv, NEW s \in Call, call[s].stage = "editing",
           call[s].edit.kind \in {"remove", "replace"}
    PROVE  PlacesOf(Targets(call[s].edit, draft.points)) = {call[s].edit.was}
<1> DEFINE e == call[s].edit
<1>1. EditTrue(e) /\ e.version = draft.version /\ Sound(draft.points)
    BY DEF IInv, CallTrue, SoundDraft
<1>2. [id |-> e.point, place |-> e.was] \in Named(draft.points)
    BY <1>1 DEF EditTrue
<1>3. PICK r \in draft.points : [id |-> r.id, place |-> r.place] = [id |-> e.point, place |-> e.was]
    BY <1>2 DEF Named
<1>4. r.id = e.point /\ r.place = e.was
    BY <1>3
<1>5. Targets(e, draft.points) = {r}
    BY <1>1, <1>4 DEF Targets, Sound, Distinct
<1> HIDE DEF e
<1>6. PlacesOf({r}) = {r.place}
    BY DEF PlacesOf
<1> QED BY <1>4, <1>5, <1>6 DEF e

LEMMA KeptTarget ==
    ASSUME IInv, NEW s \in Call, call[s].stage = "editing",
           call[s].edit.kind \in {"remove", "replace"},
           NEW p \in Targets(call[s].edit, call[s].kept)
    PROVE  p \in call[s].kept /\ p.id = call[s].edit.point /\ p.place = call[s].edit.was
<1> DEFINE e == call[s].edit
<1>1. p \in call[s].kept /\ p.id = e.point
    BY DEF Targets
<1>2. Named(call[s].kept) \subseteq Named(draft.points)
    BY DEF IInv, CallTrue
<1> DEFINE kept == call[s].kept  P == draft.points
<1>3. PICK q \in P : q.id = p.id /\ q.place = p.place
    <2>1. p \in kept /\ Named(kept) \subseteq Named(P)
        BY <1>1, <1>2
    <2> HIDE DEF kept, P
    <2> QED BY <2>1, NamedPoint
<1>4. q \in Targets(e, draft.points)
    BY <1>1, <1>3 DEF Targets
<1>5. q.place \in PlacesOf(Targets(e, draft.points))
    BY <1>4 DEF PlacesOf
<1> QED BY <1>1, <1>3, <1>5, SeenTarget

\* The names of the others, and that no name has a place that is not there.
LEMMA NamesWithout ==
    ASSUME NEW P, Sound(P), NEW p \in P
    PROVE  /\ Named(P \ {p}) = Named(P) \ {[id |-> p.id, place |-> p.place]}
           /\ [id |-> p.id, place |-> p.place] \in Named(P)
<1>1. \A q \in P : [id |-> q.id, place |-> q.place] = [id |-> p.id, place |-> p.place] => q = p
    BY DEF Sound, Distinct
<1> QED BY <1>1 DEF Named

LEMMA NoSuchName ==
    ASSUME NEW P, NEW q, q \notin PlacesOf(P)
    PROVE  \A x \in Named(P) : x.place # q
BY DEF Named, PlacesOf

LEMMA RemovalCommits ==
    ASSUME IInv, NEW s \in Call, RemovePoint(s)
    PROVE  CommitEffect(s)
<1> DEFINE e == call[s].edit  kept == call[s].kept
<1>1. call[s].stage = "editing" /\ e.kind = "remove"
    BY DEF RemovePoint
<1>2. Held(s)
    BY <1>1, HeldDraft
<1>3. PICK p \in Targets(e, kept) : Commit(s, Removed(kept, p))
    BY DEF RemovePoint
<1>4. p \in kept /\ p.place \in Place
    BY <1>2 DEF Targets, Held, Sound, Point
<1> DEFINE P == kept \ {p}  R == draft.removed \union {p.place}
<1>5. Sound(P) /\ PlacesOf(P) \subseteq PlacesOf(kept)
    BY <1>2, PartOfPoints DEF Held
<1>6. draft' \in Recalculated(draft.version + 1, P, {}, R)
    BY <1>3 DEF Commit, Removed
<1>7. /\ draft.version + 1 \in Nat \ {0} /\ R \in SUBSET Place
      /\ \A q \in P : q.id < Selected + (draft.version + 1)
    <2>1. \A q \in P : q.id \in Nat /\ q.id < Selected + draft.version
        BY <1>2 DEF Held, Sound, Point
    <2> QED BY <1>2, <1>4, <2>1, DraftsAssumption DEF Held
<1> HIDE DEF P, R
<1>8. /\ SoundDraft(draft') /\ draft'.version = draft.version + 1
      /\ PlacesOf(draft'.points) = PlacesOf(P)
      /\ Named(draft'.points) = Named(P) /\ Keeps(P, draft'.points)
    BY <1>5, <1>6, <1>7, RecalculatedOld
<1>9. /\ PlacesOf(draft'.points) \subseteq routable[s]
      /\ PlacesOf(draft'.points) \subseteq PlacesOf(draft.points)
    BY <1>2, <1>5, <1>8 DEF Held
<1>10. p.id = e.point /\ p.place = e.was
    BY <1>1, KeptTarget
<1>11. /\ Named(P) = Named(kept) \ {[id |-> p.id, place |-> p.place]}
       /\ [id |-> p.id, place |-> p.place] \in Named(kept)
    BY <1>2, <1>4, NamesWithout DEF Held, P
<1>12. EditedNames(s)
    BY <1>1, <1>8, <1>10, <1>11 DEF EditedNames
<1>13. Keeps(kept, draft'.points)
    <2>1. Keeps(kept, P)
        BY <1>2, PartInOrder DEF Held, P
    <2>2. \A x \in draft'.points : \E q \in P : q.id = x.id
        BY <1>8, NamedPoint
    <2> QED BY <1>8, <2>1, <2>2, InOrderThrough
<1> QED BY <1>1, <1>2, <1>3, <1>8, <1>9, <1>12, <1>13, SeenTarget DEF CommitEffect, Commit, Held

LEMMA AdditionCommits ==
    ASSUME IInv, NEW s \in Call, AddPoint(s)
    PROVE  CommitEffect(s)
<1> DEFINE e == call[s].edit  kept == call[s].kept
<1>1. /\ call[s].stage = "editing" /\ e.kind = "add"
      /\ e.place \notin PlacesOf(kept) /\ (e.readd \/ e.place \notin draft.removed)
      /\ e.place \in Routable
    BY DEF AddPoint, CanAdd
<1>2. Held(s)
    BY <1>1, HeldDraft
<1>3. PICK n \in InsertPosition(e, kept) : Commit(s, Added(e, kept, n))
    BY DEF AddPoint
<1>4. n \in Nat \ {0}
    <2>1. Cardinality(kept) \in Nat
        BY <1>2, FS_CardinalityType DEF Held, Sound
    <2>2. e.after \in SUBSET Int
        BY <1>1, <1>2, Edits DEF Held
    <2>3. CASE e.after = {}
        BY <1>3, <2>1, <2>3 DEF InsertPosition
    <2>4. CASE e.after # {}
        <3>1. PICK k \in e.after : n = IF k < 0 THEN 1 ELSE k + 1
            BY <1>3, <2>4 DEF InsertPosition
        <3> QED BY <2>2, <3>1
    <2> QED BY <2>3, <2>4
<1> DEFINE P == Shifted(kept, n)
           x == [id |-> FreshId, place |-> e.place, position |-> n]
<1>5. Sound(P) /\ Named(P) = Named(kept) /\ PlacesOf(P) = PlacesOf(kept)
    BY <1>2, <1>4, ShiftedPoints DEF Held
<1>6. draft' \in Recalculated(draft.version + 1, P, {x}, draft.removed)
    BY <1>3 DEF Commit, Added
<1>7. \A p \in P : p.id < Selected + draft.version /\ p.place # e.place
    <2> TAKE p \in P
    <2>1. PICK q \in kept : q.id = p.id /\ q.place = p.place
        BY <1>5, NamedPoint
    <2>2. q.place \in PlacesOf(kept)
        BY DEF PlacesOf
    <2> QED BY <1>1, <1>2, <2>1, <2>2 DEF Held
<1>8. x \in Point /\ x.id = Selected + draft.version /\ x.place = e.place
    BY <1>1, <1>2, <1>4, DraftsAssumption DEF FreshId, Point, Held
<1> HIDE DEF P, x
<1>9. Beside({x}, P, draft.version + 1)
    <2>1. \A p \in P : p.id \in Nat /\ p.id # x.id /\ p.id < Selected + (draft.version + 1)
        BY <1>2, <1>5, <1>7, <1>8, DraftsAssumption DEF Sound, Point, Held
    <2>2. x.id < Selected + (draft.version + 1)
        BY <1>2, <1>8, DraftsAssumption DEF Held
    <2> QED BY <1>7, <1>8, <2>1, <2>2 DEF Beside
<1>10. draft.version + 1 \in Nat \ {0} /\ draft.removed \in SUBSET Place
    BY <1>2 DEF Held
<1>11. /\ SoundDraft(draft') /\ draft'.version = draft.version + 1
       /\ PlacesOf(draft'.points) = PlacesOf(P) \union PlacesOf({x})
       /\ Named(draft'.points) = Named(P) \union Named({x})
       /\ Keeps(P, draft'.points)
    <2> DEFINE v == draft.version + 1  new == {x}
    <2>1. /\ v \in Nat \ {0} /\ draft.removed \in SUBSET Place /\ Sound(P)
          /\ Beside(new, P, v) /\ draft' \in Recalculated(v, P, new, draft.removed)
        BY <1>5, <1>6, <1>9, <1>10
    <2> HIDE DEF v, new
    <2>2. /\ SoundDraft(draft') /\ draft'.version = v
          /\ PlacesOf(draft'.points) = PlacesOf(P) \union PlacesOf(new)
          /\ Named(draft'.points) = Named(P) \union Named(new)
          /\ Keeps(P, draft'.points)
        BY <2>1, RecalculatedDraft
    <2> QED BY <2>2 DEF v, new
<1>12. PlacesOf({x}) = {e.place} /\ Named({x}) = {[id |-> FreshId, place |-> e.place]}
    BY <1>8 DEF PlacesOf, Named, FreshId
<1>13. PlacesOf(draft'.points) = PlacesOf(kept) \union {e.place}
    BY <1>5, <1>11, <1>12
<1>14. PlacesOf(draft'.points) \subseteq routable[s]
    BY <1>1, <1>2, <1>13 DEF Held
<1>15. PlacesOf(draft'.points) \intersect (draft.removed \ PlacesOf(draft.points)) # {} => e.readd
    BY <1>1, <1>2, <1>13 DEF Held
<1>16. EditedNames(s)
    BY <1>1, <1>5, <1>11, <1>12, NoSuchName DEF EditedNames
<1>17. Keeps(kept, draft'.points)
    <2>1. Keeps(kept, P)
        BY <1>2, <1>4, ShiftedInOrder DEF Held, P
    <2>2. \A q \in kept, y \in draft'.points : q.id = y.id => \E r \in P : r.id = y.id
        BY <1>5, NamedPoint
    <2> QED BY <1>11, <2>1, <2>2, InOrderThrough
<1> QED BY <1>1, <1>2, <1>3, <1>11, <1>14, <1>15, <1>16, <1>17 DEF CommitEffect, Commit, Held

LEMMA ReplacementCommits ==
    ASSUME IInv, NEW s \in Call, ReplacePoint(s)
    PROVE  CommitEffect(s)
<1> DEFINE e == call[s].edit  kept == call[s].kept
<1>1. /\ call[s].stage = "editing" /\ e.kind = "replace"
      /\ e.place \notin PlacesOf(kept) /\ e.place \in Routable
    BY DEF ReplacePoint, CanReplace
<1>2. Held(s)
    BY <1>1, HeldDraft
<1>3. PICK p \in Targets(e, kept) : Commit(s, Replaced(e, kept, p))
    BY DEF ReplacePoint
<1> DEFINE x == [p EXCEPT !.place = e.place]
           P == (kept \ {p}) \union {x}
           R == draft.removed \union {p.place}
<1>4. /\ p \in kept /\ p \in Point /\ p.place \in Place
      /\ x \in Point /\ x.id = p.id /\ x.place = e.place
    BY <1>1, <1>2, <1>3 DEF Targets, Held, Sound, Point
<1>5. draft' \in Recalculated(draft.version + 1, P, {}, R)
    BY <1>3 DEF Commit, Replaced
<1> HIDE DEF x
<1>6. Sound(P)
    <2>1. IsFiniteSet(P)
        <3>1. IsFiniteSet(kept)
            BY <1>2 DEF Held, Sound
        <3>2. IsFiniteSet(kept \ {p})
            BY <3>1, FS_RemoveElement
        <3> HIDE DEF kept
        <3> QED BY <3>2, FS_AddElement
    <2>2. \A q \in kept \ {p} : q.id # x.id /\ q.place # x.place
        BY <1>1, <1>2, <1>4 DEF Held, Sound, Distinct, PlacesOf
    <2>3. Distinct(P)
        BY <1>2, <2>2 DEF Held, Sound, Distinct
    <2> QED BY <1>2, <1>4, <2>1, <2>3 DEF Held, Sound
<1>7. PlacesOf(P) \subseteq PlacesOf(kept) \union {e.place}
    BY <1>4 DEF PlacesOf
<1>8. /\ draft.version + 1 \in Nat \ {0} /\ R \in SUBSET Place
      /\ \A q \in P : q.id < Selected + (draft.version + 1)
    <2>1. \A q \in kept : q.id \in Nat /\ q.id < Selected + draft.version
        BY <1>2 DEF Held, Sound, Point
    <2> QED BY <1>2, <1>4, <2>1, DraftsAssumption DEF Held
<1> HIDE DEF P, R
<1>9. /\ SoundDraft(draft') /\ draft'.version = draft.version + 1
      /\ PlacesOf(draft'.points) = PlacesOf(P)
      /\ Named(draft'.points) = Named(P) /\ Keeps(P, draft'.points)
    BY <1>5, <1>6, <1>8, RecalculatedOld
<1>10. PlacesOf(draft'.points) \subseteq routable[s]
    BY <1>1, <1>2, <1>7, <1>9 DEF Held
<1>11. p.id = e.point /\ p.place = e.was
    BY <1>1, KeptTarget
<1>12. /\ Named(kept \ {p}) = Named(kept) \ {[id |-> p.id, place |-> p.place]}
       /\ [id |-> p.id, place |-> p.place] \in Named(kept)
    BY <1>2, <1>4, NamesWithout DEF Held
<1>13. Named(P) = Named(kept \ {p}) \union {[id |-> e.point, place |-> e.place]}
    BY <1>4, <1>11 DEF P, Named
<1>14. EditedNames(s)
    BY <1>1, <1>9, <1>11, <1>12, <1>13, NoSuchName DEF EditedNames
<1>15. Keeps(kept, draft'.points)
    <2>1. x.position = p.position
        BY <1>4 DEF x, Point
    <2>2. Keeps(kept, P)
        BY <1>2, <1>4, <2>1 DEF Held, Sound, Distinct, Keeps, P
    <2>3. \A y \in draft'.points : \E q \in P : q.id = y.id
        BY <1>9, NamedPoint
    <2> QED BY <1>9, <2>2, <2>3, InOrderThrough
<1> QED BY <1>1, <1>2, <1>3, <1>9, <1>10, <1>14, <1>15, SeenTarget DEF CommitEffect, Commit, Held

-----------------------------------------------------------------------------
(* Every step. *)

\* A step that leaves the draft alone, and one that may not.
Quiet == draft' = draft /\ IInv'
Harmless == Quiet \/ \E s \in Call : CommitEffect(s)

LEMMA RequestIsQuiet ==
    ASSUME IInv, NEW s \in Call, NEW c \in Client, NEW e \in Edit, EditTrue(e),
           Request(s, c, e)
    PROVE  Quiet
<1> DEFINE x == Sent(c, e)
<1>1. x \in Progress /\ x.stage = "sent" /\ x.edit = e
    BY Stages DEF Sent
<1>2. call' = [call EXCEPT ![s] = x] /\ UNCHANGED <<catalogue, draft, view, routable>>
    BY DEF Request
<1>3. /\ routable' \in [Call -> SUBSET Place] /\ \A t \in Call \ {s} : routable'[t] = routable[t]
      /\ view' \in [Client -> View] /\ \A d \in Client : ViewTrue(view'[d])
    BY <1>2 DEF IInv, TypeOK
<1> HIDE DEF x
<1>4. IInv'
    BY <1>1, <1>2, <1>3, OneCall
<1> QED BY <1>2, <1>4 DEF Quiet

LEMMA AskIsQuiet ==
    ASSUME IInv, NEW s \in Call, NEW c \in Client, Ask(s, c)
    PROVE  Quiet
<1>1. /\ TypeOK /\ ViewTrue(view[c])
      /\ view[c].version \in Nat \ {0} /\ view[c].points \subseteq Shown
    BY DEF IInv, TypeOK, View
<1>2. CASE AskRemoval(s, c)
    <2>1. PICK p \in view[c].points :
            Request(s, c, [kind |-> "remove", version |-> view[c].version,
                           point |-> p.id, was |-> p.place])
        BY <1>2 DEF AskRemoval
    <2> DEFINE e == [kind |-> "remove", version |-> view[c].version,
                     point |-> p.id, was |-> p.place]
    <2>2. p = [id |-> p.id, place |-> p.place] /\ p.id \in Nat /\ p.place \in Place
        BY <1>1 DEF Shown
    <2>3. e \in Edit
        BY <1>1, <2>2 DEF Edit, Removal
    <2>4. EditTrue(e)
        BY <1>1, <2>2 DEF EditTrue, ViewTrue
    <2> HIDE DEF e
    <2> QED BY <2>1, <2>3, <2>4, RequestIsQuiet DEF e
<1>3. CASE AskAddition(s, c)
    <2>1. PICK q \in Place, readd \in BOOLEAN, after \in {{}} \union {{n} : n \in After} :
            Request(s, c, [kind |-> "add", version |-> view[c].version,
                           place |-> q, after |-> after, readd |-> readd])
        BY <1>3 DEF AskAddition
    <2> DEFINE e == [kind |-> "add", version |-> view[c].version,
                     place |-> q, after |-> after, readd |-> readd]
    <2>2. after \in SUBSET After
        OBVIOUS
    <2>3. e \in Edit
        BY <1>1, <2>2 DEF Edit, Addition
    <2>4. EditTrue(e)
        BY <1>1 DEF EditTrue, ViewTrue
    <2> HIDE DEF e
    <2> QED BY <2>1, <2>3, <2>4, RequestIsQuiet DEF e
<1>4. CASE AskReplacement(s, c)
    <2>1. PICK p \in view[c].points, q \in Place :
            Request(s, c, [kind |-> "replace", version |-> view[c].version,
                           point |-> p.id, was |-> p.place, place |-> q])
        BY <1>4 DEF AskReplacement
    <2> DEFINE e == [kind |-> "replace", version |-> view[c].version,
                     point |-> p.id, was |-> p.place, place |-> q]
    <2>2. p = [id |-> p.id, place |-> p.place] /\ p.id \in Nat /\ p.place \in Place
        BY <1>1 DEF Shown
    <2>3. e \in Edit
        BY <1>1, <2>2 DEF Edit, Replacement
    <2>4. EditTrue(e)
        BY <1>1, <2>2 DEF EditTrue, ViewTrue
    <2> HIDE DEF e
    <2> QED BY <2>1, <2>3, <2>4, RequestIsQuiet DEF e
<1>5. CASE AskRead(s, c)
    <2> DEFINE x == Asked(c)
    <2>1. x \in Progress /\ x.stage = "asked"
        BY Stages DEF Asked
    <2>2. call' = [call EXCEPT ![s] = x] /\ UNCHANGED <<catalogue, draft, view, routable>>
        BY <1>5 DEF AskRead
    <2>3. /\ routable' \in [Call -> SUBSET Place] /\ \A t \in Call \ {s} : routable'[t] = routable[t]
          /\ view' \in [Client -> View] /\ \A d \in Client : ViewTrue(view'[d])
        BY <2>2 DEF IInv, TypeOK
    <2> HIDE DEF x
    <2>4. IInv'
        BY <2>1, <2>2, <2>3, OneCall
    <2> QED BY <2>2, <2>4 DEF Quiet
<1> QED BY <1>2, <1>3, <1>4, <1>5 DEF Ask

LEMMA DropIsQuiet ==
    ASSUME IInv, NEW s \in Call, Drop(s)
    PROVE  Quiet
<1>1. Idle \in Progress /\ Idle.stage = "idle"
    BY DEF Idle, Progress
<1>2. /\ call' = [call EXCEPT ![s] = Idle] /\ routable' = [routable EXCEPT ![s] = {}]
      /\ UNCHANGED <<catalogue, draft, view>>
    BY DEF Drop
<1>3. /\ routable' \in [Call -> SUBSET Place] /\ \A t \in Call \ {s} : routable'[t] = routable[t]
      /\ view' \in [Client -> View] /\ \A d \in Client : ViewTrue(view'[d])
    BY <1>2 DEF IInv, TypeOK
<1>4. IInv'
    BY <1>1, <1>2, <1>3, OneCall
<1> QED BY <1>2, <1>4 DEF Quiet

LEMMA LoadIsQuiet ==
    ASSUME IInv, NEW s \in Call, NEW all \in BOOLEAN, Load(s, all),
           call[s].stage \in {"asked", "committed"}
    PROVE  Quiet
<1> DEFINE x == Loaded(call[s].client, draft.version, all)
<1>1. TypeOK /\ call[s] \in Progress /\ draft.version \in Nat \ {0}
    BY DEF IInv, TypeOK, SoundDraft, Draft
<1>2. x \in Progress /\ x.stage = "loaded" /\ x.version = draft.version
    BY <1>1, Requests, Stages DEF Loaded
<1>3. call' = [call EXCEPT ![s] = x] /\ UNCHANGED <<catalogue, draft, view, routable>>
    BY DEF Load
<1>4. /\ routable' \in [Call -> SUBSET Place] /\ \A t \in Call \ {s} : routable'[t] = routable[t]
      /\ view' \in [Client -> View] /\ \A d \in Client : ViewTrue(view'[d])
    BY <1>3 DEF IInv, TypeOK
<1>5. x.version <= draft.version
    BY <1>1, <1>2
<1> HIDE DEF x
<1>6. IInv'
    BY <1>2, <1>3, <1>4, <1>5, OneCall
<1> QED BY <1>3, <1>6 DEF Quiet

LEMMA AnswerIsQuiet ==
    ASSUME IInv, NEW s \in Call, Answer(s)
    PROVE  Quiet
<1> DEFINE c == call[s].client
           v == [version |-> call[s].version, points |-> Serialized(call[s].all)]
<1>1. TypeOK /\ call[s] \in Progress /\ CallTrue(s) /\ call[s].stage = "loaded"
    BY DEF IInv, TypeOK, Answer
<1>2. c \in Client /\ call[s].version \in Nat \ {0} /\ call[s].version <= draft.version
    BY <1>1, Requests DEF CallTrue
<1>3. Serialized(call[s].all) \subseteq Named(draft.points)
    BY DEF Serialized, Named
<1>4. Named(draft.points) \subseteq Shown
    BY DEF IInv, SoundDraft, Sound, Point, Named, Shown
<1>5. v \in View /\ ViewTrue(v)
    BY <1>2, <1>3, <1>4 DEF View, ViewTrue
<1>6. /\ view' = [view EXCEPT ![c] = v] /\ call' = [call EXCEPT ![s] = Idle]
      /\ UNCHANGED <<catalogue, draft, routable>>
    BY DEF Answer
<1> HIDE DEF c, v
<1>7. view' \in [Client -> View] /\ \A d \in Client : ViewTrue(view'[d])
    BY <1>1, <1>5, <1>6 DEF IInv, TypeOK
<1>8. routable' \in [Call -> SUBSET Place] /\ \A t \in Call \ {s} : routable'[t] = routable[t]
    BY <1>1, <1>6 DEF TypeOK
<1>9. Idle \in Progress /\ Idle.stage = "idle"
    BY DEF Idle, Progress
<1>10. IInv'
    BY <1>6, <1>7, <1>8, <1>9, OneCall
<1> QED BY <1>6, <1>10 DEF Quiet

(* The points an edit starts from.                                         *)
LEMMA ReconciledPoints ==
    ASSUME IInv, NEW kept \in Reconciled(draft.points)
    PROVE  /\ Sound(kept) /\ Named(kept) \subseteq Named(draft.points)
           /\ PlacesOf(kept) \subseteq Routable
<1> DEFINE P == {p \in draft.points : p.place \in Routable}
<1>1. Sound(draft.points)
    BY DEF IInv, SoundDraft
<1>2. P \in SUBSET draft.points /\ PlacesOf(P) \subseteq Routable
    BY DEF PlacesOf
<1>3. kept \in IF P = draft.points THEN {draft.points} ELSE Reindexed(P)
    BY DEF Reconciled
<1> HIDE DEF P
<1>4. Sound(P) /\ Named(P) \subseteq Named(draft.points)
    BY <1>1, <1>2, PartOfPoints
<1>5. kept = P \/ kept \in Reindexed(P)
    BY <1>3
<1> QED BY <1>2, <1>4, <1>5, ReindexedPoints

LEMMA BeginIsQuiet ==
    ASSUME IInv, NEW s \in Call, Begin(s)
    PROVE  Quiet
<1>1. /\ TypeOK /\ call[s] \in Progress /\ CallTrue(s) /\ call[s].stage = "sent"
      /\ ~Locked /\ call[s].edit.version = draft.version
    BY DEF IInv, TypeOK, Begin, Current
<1>2. call[s].client \in Client /\ call[s].edit \in Edit /\ EditTrue(call[s].edit)
    BY <1>1, Requests DEF CallTrue
<1>3. PICK kept \in Reconciled(draft.points) :
         call' = [call EXCEPT ![s] = Editing(call[s].client, call[s].edit, kept)]
    BY DEF Begin
<1>4. routable' = [routable EXCEPT ![s] = Routable] /\ UNCHANGED <<catalogue, draft, view>>
    BY DEF Begin
<1>5. /\ Sound(kept) /\ Named(kept) \subseteq Named(draft.points) /\ PlacesOf(kept) \subseteq Routable
    BY ReconciledPoints
<1> DEFINE x == Editing(call[s].client, call[s].edit, kept)
<1>6. kept \in SUBSET Point
    BY <1>5 DEF Sound
<1>7. /\ x \in Progress /\ x.stage = "editing" /\ x.edit = call[s].edit /\ x.kept = kept
    BY <1>2, <1>6, Stages DEF Editing
<1>8. routable'[s] = Routable /\ routable' \in [Call -> SUBSET Place]
      /\ \A t \in Call \ {s} : routable'[t] = routable[t]
    BY <1>1, <1>4, RoutablePlaces DEF TypeOK
<1>9. view' \in [Client -> View] /\ \A d \in Client : ViewTrue(view'[d])
    BY <1>4 DEF IInv, TypeOK
<1> HIDE DEF x
<1>10. call' = [call EXCEPT ![s] = x]
    BY <1>3 DEF x
<1>11. IInv'
    BY <1>1, <1>2, <1>4, <1>5, <1>7, <1>8, <1>9, <1>10, OneCall
<1> QED BY <1>4, <1>11 DEF Quiet

LEMMA ServeIsHarmless ==
    ASSUME IInv, NEW s \in Call, Serve(s)
    PROVE  Harmless
<1>1. CASE TurnAway(s) \/ Fail(s) \/ RefuseRead(s) \/ LoseAnswer(s)
    BY <1>1, DropIsQuiet DEF TurnAway, Fail, RefuseRead, LoseAnswer, Harmless
<1>2. CASE Refresh(s) \/ ReadDraft(s)
    BY <1>2, LoadIsQuiet DEF Refresh, ReadDraft, Harmless
<1>3. CASE Answer(s) \/ Begin(s)
    BY <1>3, AnswerIsQuiet, BeginIsQuiet DEF Harmless
<1>4. CASE RemovePoint(s) \/ AddPoint(s) \/ ReplacePoint(s)
    BY <1>4, RemovalCommits, AdditionCommits, ReplacementCommits DEF Harmless
<1> QED BY <1>1, <1>2, <1>3, <1>4 DEF Serve

LEMMA StepIsHarmless ==
    ASSUME IInv, [Next]_vars
    PROVE  Harmless
<1>1. CASE UNCHANGED vars
    BY <1>1 DEF vars, Harmless, Quiet, IInv, TypeOK, ViewTrue, CallTrue, EditTrue, OneEditor, Routable
<1>2. CASE \E s \in Call, c \in Client : Ask(s, c)
    BY <1>2, AskIsQuiet DEF Harmless
<1>3. CASE \E s \in Call : Serve(s)
    BY <1>3, ServeIsHarmless
<1>4. CASE PlaceChanges \/ CityChanges \/ Expires
    <2>1. TypeOK
        BY DEF IInv
    <2>2. Environment /\ eligible' \subseteq Place /\ published' \in BOOLEAN /\ expired' \in BOOLEAN
        <3>1. CASE PlaceChanges
            BY <2>1, <3>1 DEF PlaceChanges, TypeOK
        <3>2. CASE CityChanges
            BY <2>1, <3>2 DEF CityChanges, TypeOK
        <3>3. CASE Expires
            BY <2>1, <3>3 DEF Expires, TypeOK
        <3> QED BY <1>4, <3>1, <3>2, <3>3
    <2>3. IInv'
        BY <2>2, OneChange
    <2> QED BY <2>2, <2>3 DEF Harmless, Quiet, Environment
<1> QED BY <1>1, <1>2, <1>3, <1>4 DEF Next

LEMMA Invariance == Spec => []IInv
<1>1. Init => IInv
    <2> SUFFICES ASSUME Init PROVE IInv
        OBVIOUS
    <2>1. PICK places \in SUBSET eligible :
             /\ Cardinality(places) <= Selected
             /\ \E f \in Orders(places) : draft = Created(places, f)
        BY DEF Init
    <2>2. PICK f \in Orders(places) : draft = Created(places, f)
        BY <2>1
    <2>3. IsFiniteSet(places) /\ places \in SUBSET Place
        BY FS_Subset, DraftsAssumption DEF Init
    <2>4. SoundDraft(draft) /\ draft.version = 1
        BY <2>1, <2>2, <2>3, CreatedDraft
    <2>5. Named(draft.points) \subseteq Shown
        BY <2>4 DEF SoundDraft, Sound, Point, Named, Shown
    <2>6. \A s \in Call : call[s] = Idle /\ call[s].stage = "idle"
        BY DEF Init, Idle
    <2>7. TypeOK
        <3>1. [version |-> 1, points |-> Named(draft.points)] \in View
            BY <2>5 DEF View
        <3>2. view \in [Client -> View]
            BY <3>1 DEF Init
        <3>3. Idle \in Progress
            BY DEF Progress
        <3>4. call \in [Call -> Progress]
            BY <3>3 DEF Init
        <3>5. published \in BOOLEAN /\ expired \in BOOLEAN
            BY DEF Init
        <3>6. routable \in [Call -> SUBSET Place] /\ changes \in 0..MaxChanges
            BY DraftsAssumption DEF Init
        <3>7. eligible \subseteq Place /\ draft \in Draft
            BY <2>4 DEF Init, SoundDraft
        <3> QED BY <3>2, <3>4, <3>5, <3>6, <3>7 DEF TypeOK
    <2>8. \A c \in Client : ViewTrue(view[c])
        BY <2>4 DEF Init, ViewTrue
    <2> QED BY <2>4, <2>6, <2>7, <2>8 DEF IInv, CallTrue, OneEditor
<1>2. IInv /\ [Next]_vars => IInv'
    <2> SUFFICES ASSUME IInv, [Next]_vars PROVE IInv'
        OBVIOUS
    <2>1. Harmless
        BY StepIsHarmless
    <2>2. ASSUME NEW s \in Call, CommitEffect(s) PROVE IInv'
        BY <2>2, OneCommit DEF CommitEffect
    <2> QED BY <2>1, <2>2 DEF Harmless, Quiet
<1> QED BY <1>1, <1>2, PTL DEF Spec

-----------------------------------------------------------------------------
(* Every variable keeps its type.                                          *)
THEOREM TypeCorrect == Spec => []TypeOK
BY Invariance, PTL DEF IInv

(* A draft never has a place twice.                                        *)
THEOREM PlacesOnce == Spec => []EachPlaceOnce
<1>1. IInv => EachPlaceOnce
    BY DEF IInv, SoundDraft, Sound, Distinct, EachPlaceOnce
<1> QED BY <1>1, Invariance, PTL

(* The stored positions, total and status miss the point added last only.  *)
THEOREM OnePointUncounted == Spec => []OnlyTheNewPointIsUncounted
<1>1. IInv => OnlyTheNewPointIsUncounted
    BY DEF IInv, SoundDraft, Summed, OnlyTheNewPointIsUncounted
<1> QED BY <1>1, Invariance, PTL

(* A client with the current version sees points that the draft has.       *)
THEOREM ViewsAreTrue == Spec => []CurrentViewsAreTrue
<1>1. IInv => CurrentViewsAreTrue
    BY DEF IInv, ViewTrue, CurrentViewsAreTrue
<1> QED BY <1>1, Invariance, PTL

(* A draft changes by one edit at a time, of the version its client saw,    *)
(* and by the removal or replacement of the place its client saw.          *)
THEOREM EditsAreSeen == Spec => EditsAreOfTheVersionSeen
<1> DEFINE Step == draft' # draft =>
                      \E s \in Call :
                          /\ call[s].stage = "editing"
                          /\ call[s].edit.version = draft.version
                          /\ draft'.version = draft.version + 1
                          /\ call[s].edit.kind \in {"remove", "replace"} =>
                                PlacesOf(Targets(call[s].edit, draft.points)) = {call[s].edit.was}
<1>1. IInv /\ [Next]_vars => [Step]_vars
    BY StepIsHarmless DEF Harmless, Quiet, CommitEffect
<1> QED BY <1>1, Invariance, PTL DEF Spec, EditsAreOfTheVersionSeen

(* An edit leaves only points readers could be shown while it ran, and      *)
(* brings back what was removed only when it says so.                      *)
THEOREM RoutablePointsStay == Spec => EditsLeaveRoutablePoints
<1> DEFINE Step == draft' # draft =>
                      \E s \in Call :
                          /\ call[s].stage = "editing"
                          /\ PlacesOf(draft'.points) \subseteq routable[s]
                          /\ PlacesOf(draft'.points) \intersect (draft.removed \ PlacesOf(draft.points)) # {} =>
                                \/ call[s].edit.kind = "replace"
                                \/ call[s].edit.kind = "add" /\ call[s].edit.readd
<1>1. IInv /\ [Next]_vars => [Step]_vars
    BY StepIsHarmless DEF Harmless, Quiet, CommitEffect
<1> QED BY <1>1, Invariance, PTL DEF Spec, EditsLeaveRoutablePoints

-----------------------------------------------------------------------------
(* RouteDrafts implements VersionedRoute. *)

\* What the abstract route sees of the requests.
Outstanding == [s \in Call |-> Under(s)]

\* The second invariant: the points an edit starts from are in the draft's order.
KeptInOrder ==
    \A s \in Call : call[s].stage = "editing" => Keeps(draft.points, call[s].kept)

\* A step that the abstract route takes too.
Follows ==
    /\ [Versioned!RouteNext]_(Versioned!routeVars)
    /\ KeptInOrder'

\* A step of request s changes what is seen of s.
LEMMA OneOutstanding ==
    ASSUME TypeOK, NEW s \in Call, NEW x, call' = [call EXCEPT ![s] = x]
    PROVE  Outstanding' = [Outstanding EXCEPT ![s] =
              IF x.stage \in {"sent", "editing"} THEN {x.edit} ELSE {}]
<1>1. call'[s] = x /\ \A t \in Call \ {s} : call'[t] = call[t]
    BY DEF TypeOK
<1>2. \A t \in Call : Under(t)' = IF call'[t].stage \in {"sent", "editing"} THEN {call'[t].edit} ELSE {}
    BY DEF Under
<1>3. Outstanding' = [t \in Call |-> Under(t)']
    BY DEF Outstanding
<1>4. \A t \in Call \ {s} : Under(t)' = Under(t)
    BY <1>1, <1>2 DEF Under
<1> QED BY <1>1, <1>2, <1>3, <1>4 DEF Outstanding

\* No edit begins and none commits.
LEMMA OrderStays ==
    ASSUME TypeOK, KeptInOrder, NEW s \in Call, NEW x, x.stage # "editing",
           call' = [call EXCEPT ![s] = x], draft' = draft
    PROVE  KeptInOrder'
<1>1. call'[s] = x /\ \A t \in Call \ {s} : call'[t] = call[t]
    BY DEF TypeOK
<1> QED BY <1>1 DEF KeptInOrder

LEMMA StuttersFollow ==
    ASSUME KeptInOrder', UNCHANGED <<draft, view>>, Outstanding' = Outstanding
    PROVE  Follows
BY DEF Follows, Versioned!routeVars, Outstanding

LEMMA RefusalFollows ==
    ASSUME TypeOK, KeptInOrder, NEW s \in Call, call[s].stage \in {"sent", "editing"}, Drop(s)
    PROVE  Follows
<1>1. call' = [call EXCEPT ![s] = Idle] /\ UNCHANGED <<draft, view>> /\ Idle.stage = "idle"
    BY DEF Drop, Idle
<1>2. Outstanding' = [Outstanding EXCEPT ![s] = {}]
    BY <1>1, OneOutstanding
<1>3. Outstanding[s] # {} /\ Outstanding'[s] = {}
    BY <1>2 DEF Outstanding, Under
<1>4. Versioned!Refuses(s)
    BY <1>1, <1>2, <1>3 DEF Versioned!Refuses, Outstanding
<1>5. KeptInOrder'
    BY <1>1, OrderStays
<1> QED BY <1>4, <1>5 DEF Follows, Versioned!RouteNext

\* What ends without an edit is no step of the abstract route.
LEMMA EndOfReadFollows ==
    ASSUME TypeOK, KeptInOrder, NEW s \in Call, call[s].stage \notin {"sent", "editing"}, Drop(s)
    PROVE  Follows
<1>1. call' = [call EXCEPT ![s] = Idle] /\ UNCHANGED <<draft, view>> /\ Idle.stage = "idle"
    BY DEF Drop, Idle
<1>2. Outstanding' = [Outstanding EXCEPT ![s] = {}]
    BY <1>1, OneOutstanding
<1>3. Outstanding[s] = {}
    BY DEF Outstanding, Under
<1>4. Outstanding' = Outstanding
    BY <1>2, <1>3 DEF Outstanding
<1>5. KeptInOrder'
    BY <1>1, OrderStays
<1> QED BY <1>1, <1>4, <1>5, StuttersFollow

LEMMA RequestFollows ==
    ASSUME TypeOK, KeptInOrder, NEW s \in Call, NEW c \in Client, NEW e,
           Request(s, c, e), e.version = view[c].version,
           e.kind \in {"remove", "replace"} =>
              [id |-> e.point, place |-> e.was] \in view[c].points
    PROVE  Follows
<1> DEFINE x == Sent(c, e)
<1>1. x.stage = "sent" /\ x.edit = e
    BY DEF Sent
<1>2. /\ call[s].stage = "idle" /\ call' = [call EXCEPT ![s] = x]
      /\ UNCHANGED <<draft, view>>
    BY DEF Request, Idle
<1> HIDE DEF x
<1>3. Outstanding' = [Outstanding EXCEPT ![s] = {e}]
    BY <1>1, <1>2, OneOutstanding
<1>4. Outstanding[s] = {} /\ e \in Outstanding'[s]
    BY <1>2, <1>3 DEF Outstanding, Under
<1>5. Versioned!Asks(s)
    BY <1>2, <1>3, <1>4 DEF Versioned!Asks, Outstanding
<1>6. KeptInOrder'
    BY <1>1, <1>2, OrderStays
<1> QED BY <1>5, <1>6 DEF Follows, Versioned!RouteNext

LEMMA AskFollows ==
    ASSUME IInv, KeptInOrder, NEW s \in Call, NEW c \in Client, Ask(s, c)
    PROVE  Follows
<1>1. TypeOK /\ view[c].points \subseteq Shown
    BY DEF IInv, TypeOK, View
<1>2. CASE AskRemoval(s, c)
    <2>1. PICK p \in view[c].points :
            Request(s, c, [kind |-> "remove", version |-> view[c].version,
                           point |-> p.id, was |-> p.place])
        BY <1>2 DEF AskRemoval
    <2> DEFINE e == [kind |-> "remove", version |-> view[c].version,
                     point |-> p.id, was |-> p.place]
    <2>2. e.version = view[c].version /\ [id |-> e.point, place |-> e.was] = p
        BY <1>1 DEF Shown
    <2> HIDE DEF e
    <2>3. Request(s, c, e)
        BY <2>1 DEF e
    <2> QED BY <1>1, <2>2, <2>3, RequestFollows
<1>3. CASE AskAddition(s, c)
    <2>1. PICK q \in Place, readd \in BOOLEAN, after \in {{}} \union {{n} : n \in After} :
            Request(s, c, [kind |-> "add", version |-> view[c].version,
                           place |-> q, after |-> after, readd |-> readd])
        BY <1>3 DEF AskAddition
    <2> DEFINE e == [kind |-> "add", version |-> view[c].version,
                     place |-> q, after |-> after, readd |-> readd]
    <2>2. e.version = view[c].version /\ e.kind = "add"
        OBVIOUS
    <2> HIDE DEF e
    <2>3. Request(s, c, e)
        BY <2>1 DEF e
    <2> QED BY <1>1, <2>2, <2>3, RequestFollows
<1>4. CASE AskReplacement(s, c)
    <2>1. PICK p \in view[c].points, q \in Place :
            Request(s, c, [kind |-> "replace", version |-> view[c].version,
                           point |-> p.id, was |-> p.place, place |-> q])
        BY <1>4 DEF AskReplacement
    <2> DEFINE e == [kind |-> "replace", version |-> view[c].version,
                     point |-> p.id, was |-> p.place, place |-> q]
    <2>2. e.version = view[c].version /\ [id |-> e.point, place |-> e.was] = p
        BY <1>1 DEF Shown
    <2> HIDE DEF e
    <2>3. Request(s, c, e)
        BY <2>1 DEF e
    <2> QED BY <1>1, <2>2, <2>3, RequestFollows
<1>5. CASE AskRead(s, c)
    <2> DEFINE x == Asked(c)
    <2>1. x.stage = "asked"
        BY DEF Asked
    <2>2. /\ call[s].stage = "idle" /\ call' = [call EXCEPT ![s] = x]
          /\ UNCHANGED <<draft, view>>
        BY <1>5 DEF AskRead, Idle
    <2> HIDE DEF x
    <2>3. Outstanding' = [Outstanding EXCEPT ![s] = {}]
        BY <1>1, <2>1, <2>2, OneOutstanding
    <2>4. Outstanding' = Outstanding
        BY <2>2, <2>3 DEF Outstanding, Under
    <2> QED BY <1>1, <2>1, <2>2, <2>4, OrderStays, StuttersFollow
<1> QED BY <1>2, <1>3, <1>4, <1>5 DEF Ask

LEMMA LoadFollows ==
    ASSUME TypeOK, KeptInOrder, NEW s \in Call, NEW all, Load(s, all),
           call[s].stage \in {"asked", "committed"}
    PROVE  Follows
<1> DEFINE x == Loaded(call[s].client, draft.version, all)
<1>1. x.stage = "loaded"
    BY DEF Loaded
<1>2. call' = [call EXCEPT ![s] = x] /\ UNCHANGED <<draft, view>>
    BY DEF Load
<1> HIDE DEF x
<1>3. Outstanding' = [Outstanding EXCEPT ![s] = {}]
    BY <1>1, <1>2, OneOutstanding
<1>4. Outstanding' = Outstanding
    BY <1>3 DEF Outstanding, Under
<1> QED BY <1>1, <1>2, <1>4, OrderStays, StuttersFollow

(* What reconcile_draft_public_points leaves is in the draft's order.      *)
LEMMA ReconciledInOrder ==
    ASSUME NEW P, Sound(P), NEW kept \in Reconciled(P)
    PROVE  Keeps(P, kept)
<1> DEFINE Q == {p \in P : p.place \in Routable}
<1>1. kept \in IF Q = P THEN {P} ELSE Reindexed(Q)
    BY DEF Reconciled
<1>2. Q \in SUBSET P
    OBVIOUS
<1> HIDE DEF Q
<1>3. Keeps(P, Q) /\ Sound(Q)
    BY <1>2, PartInOrder, PartOfPoints
<1>4. CASE kept = Q
    BY <1>3, <1>4
<1>5. CASE kept \in Reindexed(Q)
    <2>1. Keeps(Q, kept) /\ Named(kept) = Named(Q)
        BY <1>3, <1>5, ReindexedInOrder, ReindexedPoints
    <2>2. \A x \in kept : \E q \in Q : q.id = x.id
        BY <2>1, NamedPoint
    <2> QED BY <1>3, <2>1, <2>2, InOrderThrough
<1> QED BY <1>1, <1>4, <1>5

LEMMA BeginFollows ==
    ASSUME IInv, KeptInOrder, NEW s \in Call, Begin(s)
    PROVE  Follows
<1>1. TypeOK /\ Sound(draft.points) /\ call[s].stage = "sent"
    BY DEF IInv, SoundDraft, Begin
<1>2. PICK kept \in Reconciled(draft.points) :
         call' = [call EXCEPT ![s] = Editing(call[s].client, call[s].edit, kept)]
    BY DEF Begin
<1> DEFINE x == Editing(call[s].client, call[s].edit, kept)
<1>3. x.stage = "editing" /\ x.edit = call[s].edit /\ x.kept = kept
    BY DEF Editing
<1> HIDE DEF x
<1>4. call' = [call EXCEPT ![s] = x] /\ UNCHANGED <<draft, view>>
    BY <1>2 DEF x, Begin
<1>5. Outstanding' = [Outstanding EXCEPT ![s] = {call[s].edit}]
    BY <1>1, <1>3, <1>4, OneOutstanding
<1>6. Outstanding' = Outstanding
    BY <1>1, <1>5 DEF Outstanding, Under
<1>7. Keeps(draft.points, kept)
    BY <1>1, ReconciledInOrder
<1>8. call'[s] = x /\ \A t \in Call \ {s} : call'[t] = call[t]
    BY <1>1, <1>4 DEF TypeOK
<1>9. KeptInOrder'
    BY <1>3, <1>4, <1>7, <1>8 DEF KeptInOrder
<1> QED BY <1>4, <1>6, <1>9, StuttersFollow

LEMMA AnswerFollows ==
    ASSUME IInv, KeptInOrder, NEW s \in Call, Answer(s)
    PROVE  Follows
<1> DEFINE c == call[s].client
           v == [version |-> call[s].version, points |-> Serialized(call[s].all)]
<1>1. TypeOK /\ call[s].stage = "loaded" /\ IInv'
    BY AnswerIsQuiet DEF IInv, Answer, Quiet
<1>2. c \in Client
    BY <1>1, Requests DEF TypeOK
<1>3. /\ view' = [view EXCEPT ![c] = v] /\ call' = [call EXCEPT ![s] = Idle]
      /\ draft' = draft /\ Idle.stage = "idle"
    BY DEF Answer, Idle
<1> HIDE DEF c, v
<1>4. Outstanding' = [Outstanding EXCEPT ![s] = {}]
    BY <1>1, <1>3, OneOutstanding
<1>5. Outstanding' = Outstanding
    BY <1>1, <1>4 DEF Outstanding, Under
<1>6. KeptInOrder'
    BY <1>1, <1>3, OrderStays
<1>7. CASE view' = view
    BY <1>3, <1>5, <1>6, <1>7, StuttersFollow
<1>8. CASE view' # view
    <2>1. view' = [view EXCEPT ![c] = view'[c]]
        BY <1>1, <1>2, <1>3 DEF TypeOK
    <2>2. /\ view'[c].version \in Nat \ {0} /\ view'[c].version <= draft.version
          /\ draft.version \in Nat
          /\ view'[c].version = draft.version => view'[c].points \subseteq Named(draft.points)
        <3>1. draft.version \in Nat /\ view' \in [Client -> View]
            BY <1>1 DEF IInv, SoundDraft, Draft, TypeOK
        <3>2. ASSUME NEW d \in Client
              PROVE  /\ view'[d].version \in Nat \ {0} /\ view'[d].version <= draft.version
                     /\ view'[d].version = draft.version => view'[d].points \subseteq Named(draft.points)
            <4>1. ViewTrue(view[d])'
                BY <1>1 DEF IInv
            <4> QED BY <1>3, <3>1, <4>1 DEF ViewTrue, View
        <3> QED BY <1>2, <3>1, <3>2
    <2>3. Named(draft.points) = Versioned!Names(draft.points)
        BY DEF Named, Versioned!Names, Versioned!Name
    <2>4. Versioned!Shows(c)
        BY <1>3, <1>5, <1>8, <2>1, <2>2, <2>3 DEF Versioned!Shows, Outstanding
    <2> QED BY <1>2, <1>6, <2>4 DEF Follows, Versioned!RouteNext
<1> QED BY <1>7, <1>8

(* A commit is the edit of the abstract route: of its version, of the names *)
(* it has, and in its order, through the reconciliation and the numbering. *)
LEMMA CommitFollows ==
    ASSUME IInv, KeptInOrder, NEW s \in Call, CommitEffect(s)
    PROVE  Follows
<1> DEFINE e == call[s].edit  x == Committed(call[s].client)
<1>1. TypeOK /\ Held(s) /\ call[s].stage = "editing" /\ Keeps(draft.points, call[s].kept)
    BY HeldDraft DEF IInv, CommitEffect, KeptInOrder
<1>2. /\ call' = [call EXCEPT ![s] = x] /\ view' = view /\ x.stage = "committed"
      /\ draft'.version = draft.version + 1 /\ e.version = draft.version
      /\ EditedNames(s) /\ Keeps(call[s].kept, draft'.points)
    BY DEF CommitEffect, Committed
<1> HIDE DEF x
<1>3. Outstanding' = [Outstanding EXCEPT ![s] = {}]
    BY <1>1, <1>2, OneOutstanding
<1>4. e \in Outstanding[s]
    BY <1>1 DEF Outstanding, Under
<1>5. \A P : Versioned!Names(P) = Named(P)
    BY DEF Named, Versioned!Names, Versioned!Name
<1>6. \A p \in draft.points : p.id # FreshId
    BY <1>1, DraftsAssumption DEF IInv, SoundDraft, Sound, Point, Held, FreshId
<1> DEFINE kept == Named(call[s].kept)
<1>7. kept \in SUBSET Named(draft.points)
    BY <1>1 DEF Held
<1>8. Versioned!Edited(e, kept)
    <2>1. CASE e.kind = "add"
        <3> DEFINE new == [id |-> FreshId, place |-> e.place]
        <3>1. /\ \A y \in kept : y.place # e.place
              /\ Named(draft'.points) = kept \union {new}
            BY <1>2, <2>1 DEF EditedNames
        <3>2. new.place = e.place /\ \A y \in draft.points : y.id # new.id
            BY <1>6
        <3> HIDE DEF new
        <3> QED BY <1>5, <2>1, <3>1, <3>2 DEF Versioned!Edited
    <2>2. CASE e.kind # "add"
        BY <1>2, <1>5, <2>2 DEF EditedNames, Versioned!Edited
    <2> QED BY <2>1, <2>2
<1>9. Keeps(draft.points, draft'.points)
    <2>1. ASSUME NEW p \in draft.points, NEW y \in draft'.points, p.id = y.id
          PROVE  \E q \in call[s].kept : q.id = y.id
        <3>1. [id |-> y.id, place |-> y.place] \in Named(draft'.points)
            BY DEF Named
        <3>2. y.id # FreshId
            BY <1>6, <2>1
        <3> DEFINE name == [id |-> y.id, place |-> y.place]
        <3>3. name \in kept \/ (y.id = e.point /\ e.kind = "replace")
            <4>1. \/ Named(draft'.points) \subseteq kept
                  \/ /\ e.kind = "replace"
                     /\ Named(draft'.points) \subseteq kept \union {[id |-> e.point, place |-> e.place]}
                  \/ Named(draft'.points) = kept \union {[id |-> FreshId, place |-> e.place]}
                BY <1>2 DEF EditedNames
            <4>2. name.id = y.id
                OBVIOUS
            <4> HIDE DEF name, kept, e
            <4>3. name # [id |-> FreshId, place |-> e.place]
                BY <3>2, <4>2
            <4>4. name = [id |-> e.point, place |-> e.place] => y.id = e.point
                BY <4>2
            <4> QED BY <3>1, <4>1, <4>3, <4>4 DEF name
        <3>4. CASE name \in kept
            <4>1. PICK q \in call[s].kept :
                     [id |-> y.id, place |-> y.place] = [id |-> q.id, place |-> q.place]
                BY <3>4 DEF Named
            <4> QED BY <4>1
        <3>5. CASE y.id = e.point /\ e.kind = "replace"
            <4>1. [id |-> e.point, place |-> e.was] \in kept
                BY <1>2, <3>5 DEF EditedNames
            <4>2. PICK q \in call[s].kept :
                     [id |-> e.point, place |-> e.was] = [id |-> q.id, place |-> q.place]
                BY <4>1 DEF Named
            <4> QED BY <3>5, <4>2
        <3> QED BY <3>3, <3>4, <3>5
    <2> QED BY <1>1, <1>2, <2>1, InOrderThrough
<1>10. Versioned!InOrder(draft.points, draft'.points)
    BY <1>9 DEF Keeps, Versioned!InOrder
<1> HIDE DEF e, kept
<1>11. Versioned!Applies(s)
    BY <1>2, <1>3, <1>4, <1>5, <1>7, <1>8, <1>10 DEF Versioned!Applies, Outstanding
<1>12. KeptInOrder'
    <2>1. call'[s] = x /\ \A t \in Call \ {s} : call'[t] = call[t] /\ call[t].stage # "editing"
        BY <1>1, <1>2 DEF TypeOK, IInv, OneEditor
    <2> QED BY <1>2, <2>1 DEF KeptInOrder
<1> QED BY <1>11, <1>12 DEF Follows, Versioned!RouteNext

LEMMA ServeFollows ==
    ASSUME IInv, KeptInOrder, NEW s \in Call, Serve(s)
    PROVE  Follows
<1>1. TypeOK
    BY DEF IInv
<1>2. CASE TurnAway(s) \/ Fail(s)
    BY <1>1, <1>2, RefusalFollows DEF TurnAway, Fail
<1>3. CASE RefuseRead(s) \/ LoseAnswer(s)
    BY <1>1, <1>3, EndOfReadFollows DEF RefuseRead, LoseAnswer
<1>4. CASE Refresh(s) \/ ReadDraft(s)
    BY <1>1, <1>4, LoadFollows DEF Refresh, ReadDraft
<1>5. CASE Begin(s) \/ Answer(s)
    BY <1>5, BeginFollows, AnswerFollows
<1>6. CASE RemovePoint(s) \/ AddPoint(s) \/ ReplacePoint(s)
    <2>1. CommitEffect(s)
        BY <1>6, RemovalCommits, AdditionCommits, ReplacementCommits
    <2> QED BY <2>1, CommitFollows
<1> QED BY <1>2, <1>3, <1>4, <1>5, <1>6 DEF Serve

LEMMA StepFollows ==
    ASSUME IInv, KeptInOrder, [Next]_vars
    PROVE  Follows
<1>1. CASE UNCHANGED <<draft, view, call>>
    <2>1. Outstanding' = Outstanding
        BY <1>1 DEF Outstanding, Under
    <2>2. KeptInOrder'
        BY <1>1 DEF KeptInOrder
    <2> QED BY <1>1, <2>1, <2>2, StuttersFollow
<1>2. CASE \E s \in Call, c \in Client : Ask(s, c)
    BY <1>2, AskFollows
<1>3. CASE \E s \in Call : Serve(s)
    BY <1>3, ServeFollows
<1>4. UNCHANGED vars \/ PlaceChanges \/ CityChanges \/ Expires => UNCHANGED <<draft, view, call>>
    BY DEF vars, PlaceChanges, CityChanges, Expires, Environment
<1> QED BY <1>1, <1>2, <1>3, <1>4 DEF Next

(* create_random_route_draft gives every place a position of its own.      *)
LEMMA DraftsBegin ==
    ASSUME Init
    PROVE  Versioned!RouteInit /\ KeptInOrder
<1>1. PICK places \in SUBSET eligible :
         /\ Cardinality(places) <= Selected
         /\ \E f \in Orders(places) : draft = Created(places, f)
    BY DEF Init
<1>2. PICK f \in Orders(places) : draft = Created(places, f)
    BY <1>1
<1>3. IsFiniteSet(places) /\ places \in SUBSET Place
    BY FS_Subset, DraftsAssumption DEF Init
<1>4. /\ SoundDraft(draft) /\ draft.version = 1
      /\ \A p, q \in draft.points : p.position = q.position => p = q
    BY <1>1, <1>2, <1>3, CreatedDraft
<1>5. \A p, q \in draft.points : p # q => p.id # q.id /\ p.place # q.place /\ p.position # q.position
    BY <1>4 DEF SoundDraft, Sound, Distinct
<1>6. \A s \in Call : call[s] = Idle /\ call[s].stage = "idle"
    BY DEF Init, Idle
<1>7. Outstanding = [s \in Call |-> {}]
    BY <1>6 DEF Outstanding, Under
<1>8. Versioned!Names(draft.points) = Named(draft.points)
    BY DEF Named, Versioned!Names, Versioned!Name
<1>9. view = [c \in Client |-> [version |-> 1, points |-> Versioned!Names(draft.points)]]
    BY <1>8 DEF Init
<1>10. Versioned!RouteInit
    BY <1>4, <1>5, <1>7, <1>9 DEF Versioned!RouteInit, Outstanding
<1> QED BY <1>6, <1>10 DEF KeptInOrder

(* The draft with its lock, its reconciliation before the edit and its      *)
(* renumbering after it implements a list that is compared and edited at    *)
(* once and in which stops keep their order.                               *)
THEOREM DraftIsVersioned == Spec => ImplementsVersionedRoute
<1>1. Init => Versioned!RouteInit /\ KeptInOrder
    BY DraftsBegin
<1>2. IInv /\ KeptInOrder /\ [Next]_vars =>
         [Versioned!RouteNext]_(Versioned!routeVars) /\ KeptInOrder'
    BY StepFollows DEF Follows
<1> QED BY <1>1, <1>2, Invariance, PTL DEF Spec, ImplementsVersionedRoute, Versioned!Spec
=============================================================================
