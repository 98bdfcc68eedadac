----------------------------- MODULE PlacesProofs -----------------------------
(***************************************************************************)
(* Theorems about Places for any number of places, workers, decisions and  *)
(* loads, and any set of data.                                             *)
(***************************************************************************)
EXTENDS Places, TLAPS

-----------------------------------------------------------------------------
(* Rows. *)

SameFlags(r, row) ==
    /\ r.pub = row.pub /\ r.active = row.active /\ r.route = row.route
    /\ r.shown = row.shown /\ r.found = row.found

LEMMA TransitionRow ==
    ASSUME NEW row \in Row, NEW to \in Statuses, NEW route \in BOOLEAN
    PROVE  LET t == Transition(row, to, route) IN
           /\ t \in Row /\ Consistent(t)
           /\ t.pub = to /\ t.shown = (to = "published")
           /\ t.life = row.life /\ t.fit = row.fit /\ t.sound = row.sound /\ t.data = row.data
<1> DEFINE t == Transition(row, to, route)
<1> DEFINE a == to \notin Withdrawn  shown == to = "published"  kept == to = "published" /\ route
<1>1. a \in BOOLEAN /\ shown \in BOOLEAN /\ kept \in BOOLEAN /\ (kept => shown)
    OBVIOUS
<1>2. t = [row EXCEPT !.pub = to, !.active = a, !.shown = shown, !.found = shown, !.route = kept]
    BY DEF Transition, StateFlags
<1> HIDE DEF t, a, shown, kept
<1>3. t \in Row
    BY <1>1, <1>2 DEF Row
<1>4. /\ t.pub = to /\ t.active = a /\ t.shown = shown /\ t.found = shown /\ t.route = kept
      /\ t.life = row.life /\ t.fit = row.fit /\ t.sound = row.sound /\ t.data = row.data
    BY <1>2 DEF Row
<1>5. Consistent(t)
    <2>1. StateFlags(to).active = a /\ StateFlags(to).shown = shown /\ StateFlags(to).found = shown
        BY DEF StateFlags, a, shown
    <2> QED BY <1>1, <1>4, <2>1 DEF Consistent
<1>6. t.shown = (to = "published")
    BY <1>4 DEF shown
<1> QED BY <1>3, <1>4, <1>5, <1>6 DEF t

LEMMA LifeOfRow ==
    ASSUME NEW row \in Row, NEW life \in Lives
    PROVE  LET t == [row EXCEPT !.life = life] IN
           /\ t \in Row /\ SameFlags(t, row)
           /\ t.life = life /\ t.fit = row.fit /\ t.data = row.data
           /\ Consistent(row) => Consistent(t)
BY DEF Row, SameFlags, Consistent, StateFlags

LEMMA DataOfRow ==
    ASSUME NEW row \in Row, NEW data \in Data
    PROVE  LET t == [row EXCEPT !.data = data] IN
           /\ t \in Row /\ SameFlags(t, row)
           /\ t.life = row.life /\ t.fit = row.fit /\ t.data = data
BY DEF Row, SameFlags

(* A flush takes every column from the row or from the new values. *)
LEMMA FlushedRow ==
    ASSUME NEW row \in Row, NEW copy \in Row, NEW new \in Row
    PROVE  LET f == Flushed(row, copy, new) IN
           /\ f \in Row
           /\ f.pub = IF new.pub = copy.pub THEN row.pub ELSE new.pub
           /\ f.active = IF new.active = copy.active THEN row.active ELSE new.active
           /\ f.shown = IF new.shown = copy.shown THEN row.shown ELSE new.shown
           /\ f.found = IF new.found = copy.found THEN row.found ELSE new.found
           /\ f.route = IF new.route = copy.route THEN row.route ELSE new.route
           /\ f.life = IF new.life = copy.life THEN row.life ELSE new.life
           /\ f.fit = IF new.fit = copy.fit THEN row.fit ELSE new.fit
           /\ f.sound = IF new.sound = copy.sound THEN row.sound ELSE new.sound
           /\ f.data = IF new.data = copy.data THEN row.data ELSE new.data
<1>1. DOMAIN row = {"pub", "active", "shown", "found", "route", "life", "fit", "sound", "data"}
    BY DEF Row
<1>2. Flushed(row, copy, new) =
          [pub    |-> IF new.pub = copy.pub THEN row.pub ELSE new.pub,
           active |-> IF new.active = copy.active THEN row.active ELSE new.active,
           shown  |-> IF new.shown = copy.shown THEN row.shown ELSE new.shown,
           found  |-> IF new.found = copy.found THEN row.found ELSE new.found,
           route  |-> IF new.route = copy.route THEN row.route ELSE new.route,
           life   |-> IF new.life = copy.life THEN row.life ELSE new.life,
           fit    |-> IF new.fit = copy.fit THEN row.fit ELSE new.fit,
           sound  |-> IF new.sound = copy.sound THEN row.sound ELSE new.sound,
           data   |-> IF new.data = copy.data THEN row.data ELSE new.data]
    BY <1>1 DEF Flushed
<1> QED BY <1>2 DEF Row

(* The flush of a copy that is not out of date writes the new values. *)
LEMMA FlushedCurrent ==
    ASSUME NEW row \in Row, NEW new \in Row
    PROVE  Flushed(row, row, new) = new
<1>1. DOMAIN row = DOMAIN new /\ new = [f \in DOMAIN new |-> new[f]]
    BY DEF Row
<1> QED BY <1>1 DEF Flushed

-----------------------------------------------------------------------------
(* The inductive invariant. *)

(* What an emergency hide leaves: nothing that publishes whatever is        *)
(* eligible can pick the place up.                                          *)
Off(row) == ~row.shown /\ row.life # "active" /\ row.pub # "published"
HeldPlacesAreOff == \A p \in Place : held[p] => Off(rows[p])

(* What the candidate queries saw is still in the copy.                     *)
CopiesWereCandidates ==
    \A w \in Worker : work[w] # NoJob =>
        /\ work[w].kind = "policy" => work[w].copy.fit
        /\ work[w].kind = "normalize" => work[w].copy.pub = "needs_review"
        /\ work[w].kind \in {"restore", "repair"} => work[w].copy.pub = "published"

(* An item that changes the status or the flags knows what they were.       *)
KnownItem == {i \in Item : i.was = None => i.changes = "data"}
ItemsAreKnown == \A p \in Place : item[p] \in KnownItem \union {NoItem}

IInv ==
    /\ TypeOK /\ TakenOfflineIsQueued
    /\ HeldPlacesAreOff /\ CopiesWereCandidates /\ ItemsAreKnown

-----------------------------------------------------------------------------
(* The shapes of a step.  A row is settled when its flags and its history   *)
(* agree with its status and it is visible only if it passes the gates.     *)
Settled(r, to) == Consistent(r) /\ r.pub = to /\ (r.shown => Eligible(r))

(* A decision about one place. *)
DecisionEffect(p) ==
    \E r \in Row, i \in {item[p], NoItem}, h \in BOOLEAN :
        /\ rows' = [rows EXCEPT ![p] = r]
        /\ \/ last' = [last EXCEPT ![p] = r.pub] /\ Settled(r, r.pub)
           \/ last' = last /\ SameFlags(r, rows[p])
        /\ item' = [item EXCEPT ![p] = i]
        /\ held' = [held EXCEPT ![p] = h] /\ (h => Off(r))
        /\ owed' = [owed EXCEPT ![p] = FALSE]
        /\ decisions' \in 0..MaxDecisions
        /\ UNCHANGED <<launched, work, audits, jobs>>

(* A decision about the city and all its places. *)
CityEffect ==
    /\ rows' \in [Place -> Row] /\ last' \in [Place -> Statuses]
    /\ \A p \in Place :
          \/ rows'[p] = rows[p] /\ last'[p] = last[p]
          \/ Settled(rows'[p], last'[p]) /\ rows'[p].life = rows[p].life
    /\ launched' \in BOOLEAN /\ decisions' \in 0..MaxDecisions
    /\ UNCHANGED <<item, work, audits, held, owed, jobs>>

(* The rollback of a repair of one place. *)
RollbackEffect(p) ==
    \E r \in Row :
        /\ rows' = [rows EXCEPT ![p] = r]
        /\ last' = [last EXCEPT ![p] = "published"]
        /\ Consistent(r) /\ r.pub = "published"
        /\ held' = [held EXCEPT ![p] = FALSE]
        /\ decisions' \in 0..MaxDecisions
        /\ UNCHANGED <<launched, item, work, audits, owed, jobs>>

(* The write of a worker, and what each property needs to know of it. *)
WriteEffect(w) ==
    LET j == work[w]
        p == j.place
    IN  \E r \in Row, to \in Statuses :
        /\ rows' = [rows EXCEPT ![p] = r]
        /\ last' = [last EXCEPT ![p] = to]
        /\ \/ to = last[p] /\ SameFlags(r, rows[p])
           \/ Consistent(r) /\ r.pub = to
           \/ Overtaken(w) /\ j.kind \in Unguarded
        /\ r.shown /\ ~rows[p].shown =>
              /\ j.kind \in Republishing
              /\ j.kind = "policy" => Overtaken(w) \/ Eligible(r)
        /\ ~r.shown /\ rows[p].shown =>
              j.kind \in {"hide", "sweep", "cleanup"} \/ ~Reconcilable(j.copy) \/ ~j.copy.sound
        /\ r.data # rows[p].data => ~rows[p].shown \/ j.kind = "address" \/ ~j.copy.shown
        /\ r.life # "active" \/ r.life = rows[p].life \/ j.kind = "policy"
        /\ r.pub # "published" \/ r.pub = rows[p].pub \/ j.kind \in Republishing

WorkerEffect(w) ==
    LET j == work[w]
        p == j.place
    IN  /\ j # NoJob
        /\ WriteEffect(w)
        /\ work' = [work EXCEPT ![w] = NoJob]
        /\ \E i \in KnownItem \union {item[p]} : item' = [item EXCEPT ![p] = i]
        /\ held' = IF j.kind \in Republishing THEN [held EXCEPT ![p] = FALSE] ELSE held
        /\ \E o \in BOOLEAN : /\ owed' = [owed EXCEPT ![p] = o]
                              /\ o => owed[p] \/ item'[p] \in KnownItem
        /\ audits' \in [Place -> SUBSET BOOLEAN] /\ launched' \in BOOLEAN
        /\ UNCHANGED <<decisions, jobs>>

-----------------------------------------------------------------------------
(* Decisions. *)

LEMMA StatusFacts ==
    /\ Statuses = {"published", "draft", "auto_backlog", "low_confidence", "needs_review",
                   "needs_manual_review", "deferred", "hidden", "archived", "unpublished", "rejected"}
    /\ Lives = {"active", "draft", "needs_review", "hidden", "inactive", "rejected", "closed"}
BY DEF Statuses, InQueue, Backlog, Withdrawn, Lives

Moved(row, to, life) == [Transition(row, to, FALSE) EXCEPT !.life = life]

LEMMA MovedRow ==
    ASSUME NEW row \in Row, NEW to \in Statuses \ {"published"}, NEW life \in Lives
    PROVE  LET r == Moved(row, to, life) IN
           /\ r \in Row /\ Settled(r, to) /\ r.pub = to /\ ~r.shown
           /\ r.life = life /\ r.fit = row.fit /\ r.data = row.data
<1> DEFINE t == Transition(row, to, FALSE)
<1>1. t \in Row /\ Consistent(t) /\ t.pub = to /\ t.shown = FALSE /\ t.fit = row.fit /\ t.data = row.data
    BY TransitionRow
<1> HIDE DEF t
<1>2. LET r == [t EXCEPT !.life = life] IN
      r \in Row /\ SameFlags(r, t) /\ r.life = life /\ r.fit = t.fit /\ r.data = t.data /\ Consistent(r)
    BY <1>1, LifeOfRow
<1> QED BY <1>1, <1>2 DEF Moved, Settled, SameFlags, t

LEMMA PublishedRow ==
    ASSUME NEW row \in Row, Eligible(row), NEW route \in BOOLEAN
    PROVE  LET r == Transition(row, "published", route) IN
           r \in Row /\ Settled(r, "published") /\ r.pub = "published" /\ r.shown /\ r.life = row.life
<1>1. "published" \in Statuses
    BY StatusFacts
<1> DEFINE r == Transition(row, "published", route)
<1>2. /\ r \in Row /\ Consistent(r) /\ r.pub = "published" /\ r.shown
      /\ r.life = row.life /\ r.fit = row.fit
    BY <1>1, TransitionRow
<1> HIDE DEF r
<1>3. Settled(r, "published")
    BY <1>2 DEF Settled, Eligible
<1> QED BY <1>2, <1>3 DEF r

LEMMA RepublishedRow ==
    ASSUME NEW row \in Row, NEW route \in BOOLEAN
    PROVE  LET r == Transition(row, "published", route) IN
           /\ r \in Row /\ Consistent(r) /\ r.pub = "published" /\ r.shown
           /\ r.life = row.life /\ r.fit = row.fit /\ r.data = row.data
<1>1. "published" \in Statuses
    BY StatusFacts
<1> QED BY <1>1, TransitionRow

LEMMA WithdrawnRow ==
    ASSUME NEW row \in Row, NEW to \in Statuses \ {"published"}
    PROVE  LET r == Transition(row, to, FALSE) IN
           r \in Row /\ Settled(r, to) /\ r.pub = to /\ ~r.shown /\ r.life = row.life
BY TransitionRow DEF Settled

(* The part of a decision that writes the row. *)
RowDecided(p) ==
    \E r \in Row :
        /\ rows' = [rows EXCEPT ![p] = r]
        /\ \/ last' = [last EXCEPT ![p] = r.pub] /\ Settled(r, r.pub)
           \/ last' = last /\ SameFlags(r, rows[p])

LEMMA MoveDecides ==
    ASSUME TypeOK, NEW p \in Place, NEW to \in Statuses \ {"published"}, NEW life \in Lives,
           Move(p, to, life)
    PROVE  RowDecided(p)
<1> DEFINE r == Moved(rows[p], to, life)
<1>1. rows[p] \in Row
    BY DEF TypeOK
<1>2. r \in Row /\ Settled(r, to) /\ r.pub = to
    BY <1>1, MovedRow
<1>3. rows' = [rows EXCEPT ![p] = r] /\ last' = [last EXCEPT ![p] = to]
    BY DEF Move, Write, Logged, Moved
<1> HIDE DEF r
<1> QED BY <1>2, <1>3 DEF RowDecided

LEMMA PublishDecides ==
    ASSUME NEW p \in Place, NEW row \in Row, Publish(p, row)
    PROVE  RowDecided(p)
<1>1. PICK route \in BOOLEAN : rows' = [rows EXCEPT ![p] = Transition(row, "published", route)]
    BY DEF Publish, Write
<1>2. Eligible(row) /\ last' = [last EXCEPT ![p] = "published"]
    BY DEF Publish, Logged
<1>3. LET r == Transition(row, "published", route) IN
      r \in Row /\ Settled(r, "published") /\ r.pub = "published"
    BY <1>2, PublishedRow
<1> QED BY <1>1, <1>2, <1>3 DEF RowDecided

LEMMA WithdrawDecides ==
    ASSUME NEW p \in Place, NEW row \in Row, NEW to \in Statuses \ {"published"},
           Write(p, Transition(row, to, FALSE)), Logged(p, to)
    PROVE  RowDecided(p)
<1>1. LET r == Transition(row, to, FALSE) IN r \in Row /\ Settled(r, to) /\ r.pub = to
    BY WithdrawnRow
<1> QED BY <1>1 DEF RowDecided, Write, Logged

LEMMA EditDecides ==
    ASSUME NEW p \in Place, NEW row \in Row, SameFlags(row, rows[p]), Write(p, row), UNCHANGED last
    PROVE  RowDecided(p)
BY DEF RowDecided, Write

LEMMA AboutDecides ==
    ASSUME NEW p \in Place, About(p), RowDecided(p), UNCHANGED launched, TypeOK,
           NEW i \in {item[p], NoItem}, item' = [item EXCEPT ![p] = i]
    PROVE  DecisionEffect(p)
<1>1. decisions' \in 0..MaxDecisions /\ UNCHANGED <<work, audits, jobs>>
    BY PlacesAssumption DEF About, Deciding, TypeOK
<1>2. /\ held' = [held EXCEPT ![p] = FALSE]
      /\ owed' = [owed EXCEPT ![p] = FALSE]
    BY DEF About
<1>3. PICK r \in Row :
        /\ rows' = [rows EXCEPT ![p] = r]
        /\ \/ last' = [last EXCEPT ![p] = r.pub] /\ Settled(r, r.pub)
           \/ last' = last /\ SameFlags(r, rows[p])
    BY DEF RowDecided
<1> QED BY <1>1, <1>2, <1>3 DEF DecisionEffect

(* The decisions that leave the review item alone. *)
LEMMA AboutAlone ==
    ASSUME NEW p \in Place, About(p), RowDecided(p), UNCHANGED <<launched, item>>, TypeOK
    PROVE  DecisionEffect(p)
<1>1. item' = [item EXCEPT ![p] = item[p]]
    BY DEF TypeOK
<1> QED BY <1>1, AboutDecides

LEMMA ReconcileDecides ==
    ASSUME TypeOK, NEW p \in Place, NEW row \in Row, SameFlags(row, rows[p]), Reconcile(p, row)
    PROVE  RowDecided(p)
<1>1. CASE ~Reconcilable(row)
    BY <1>1, EditDecides DEF Reconcile
<1>2. CASE Reconcilable(row) /\ Eligible(row)
    BY <1>2, PublishDecides DEF Reconcile
<1>3. CASE Reconcilable(row) /\ ~Eligible(row)
    <2>1. Write(p, Transition(row, "needs_review", FALSE)) /\ Logged(p, "needs_review")
        BY <1>3 DEF Reconcile
    <2> QED BY <2>1, WithdrawDecides, StatusFacts
<1> QED BY <1>1, <1>2, <1>3

LEMMA ItemFacts ==
    ASSUME NEW change \in KnownItem
    PROVE  /\ change # NoItem /\ change \in Item
           /\ change.before \in Data /\ change.after \in Data
           /\ change.was # None => /\ change.was.life \in Lives /\ change.was.pub \in Statuses
           /\ change.was = None => change.changes = "data"
BY DEF KnownItem, Item, NoItem, None, Snapshot

LEMMA ApproveDecides ==
    ASSUME TypeOK, ItemsAreKnown, NEW p \in Place, Approve(p)
    PROVE  DecisionEffect(p)
<1> DEFINE change == item[p]
           row == [rows[p] EXCEPT !.data = IF change.applied THEN @ ELSE change.after]
           live == [row EXCEPT !.life = "active"]
<1>1. change \in KnownItem
    BY DEF Approve, ItemsAreKnown
<1>2. row \in Row
    <2>1. rows[p] \in Row /\ rows[p].data \in Data /\ change.after \in Data
        BY <1>1, ItemFacts DEF TypeOK, Row
    <2> HIDE DEF change
    <2> QED BY <2>1 DEF Row
<1>3. live \in Row
    BY <1>2 DEF Row, Lives
<1> HIDE DEF live, row
<1>4. RowDecided(p)
    <2>1. \/ Write(p, Transition(row, "needs_review", FALSE)) /\ Logged(p, "needs_review")
          \/ Publish(p, live)
          \/ Write(p, Transition(live, "needs_review", FALSE)) /\ Logged(p, "needs_review")
          \/ Write(p, Transition(live, "deferred", FALSE)) /\ Logged(p, "deferred")
        BY DEF Approve, row, live
    <2>2. {"needs_review", "deferred"} \subseteq Statuses \ {"published"}
        BY StatusFacts
    <2> QED BY <1>2, <1>3, <2>1, <2>2, PublishDecides, WithdrawDecides
<1>5. About(p) /\ item' = [item EXCEPT ![p] = NoItem] /\ UNCHANGED launched
    BY DEF Approve
<1> QED BY <1>4, <1>5, AboutDecides

LEMMA RejectDecides ==
    ASSUME TypeOK, ItemsAreKnown, NEW p \in Place, Reject(p)
    PROVE  DecisionEffect(p)
<1> DEFINE change == item[p]
           was == change.was
           row == Restored(rows[p], change)
           again == [row EXCEPT !.life = was.life]
<1>1. change \in KnownItem
    BY DEF Reject, ItemsAreKnown
<1>2. row \in Row /\ SameFlags(row, rows[p])
    <2>1. /\ rows[p] \in Row /\ rows[p].data \in Data /\ rows[p].life \in Lives
          /\ change.before \in Data
          /\ change.changes = "status" => was.life \in Lives
        BY <1>1, ItemFacts DEF TypeOK, Row
    <2> HIDE DEF change
    <2> QED BY <2>1 DEF Row, Restored, SameFlags
<1>3. was # None => again \in Row /\ RestoreTarget(was) \in Statuses \ {"published"}
    <2>1. was # None => was.life \in Lives /\ was.pub \in Statuses
        BY <1>1, ItemFacts
    <2> HIDE DEF row, was, change
    <2> QED BY <1>2, <2>1, StatusFacts DEF Row, RestoreTarget
<1>4. \/ Write(p, row) /\ UNCHANGED last
      \/ was # None /\ Publish(p, again)
      \/ /\ was # None
         /\ Write(p, Transition(row, RestoreTarget(was), FALSE)) /\ Logged(p, RestoreTarget(was))
    BY DEF Reject
<1> HIDE DEF again, row, was
<1>5. RowDecided(p)
    BY <1>2, <1>3, <1>4, EditDecides, PublishDecides, WithdrawDecides
<1>6. About(p) /\ item' = [item EXCEPT ![p] = NoItem] /\ UNCHANGED launched
    BY DEF Reject
<1> QED BY <1>5, <1>6, AboutDecides

LEMMA DecisionsDecide ==
    ASSUME TypeOK, ItemsAreKnown, NEW p \in Place, Decide(p)
    PROVE  DecisionEffect(p)
<1>1. rows[p] \in Row /\ rows[p].life \in Lives
    BY DEF TypeOK, Row
<1>2. CASE publish_place(p)
    BY <1>1, <1>2, PublishDecides, AboutAlone DEF publish_place
<1>3. CASE unpublish_place(p)
    BY <1>1, <1>3, StatusFacts, MoveDecides, AboutAlone DEF unpublish_place
<1>4. CASE reject_place(p)
    BY <1>1, <1>4, StatusFacts, MoveDecides, AboutAlone DEF reject_place
<1>5. CASE move_back_to_queue(p)
    BY <1>1, <1>5, StatusFacts, MoveDecides, AboutAlone DEF move_back_to_queue
<1>6. CASE delete_place(p)
    BY <1>1, <1>6, StatusFacts, MoveDecides, AboutAlone DEF delete_place
<1>7. CASE emergency_hide_place(p)
    <2> DEFINE r == Moved(rows[p], "hidden", "hidden")
    <2>1. "hidden" \in Statuses \ {"published"} /\ "hidden" \in Lives
        BY StatusFacts
    <2>2. r \in Row /\ Settled(r, "hidden") /\ r.pub = "hidden" /\ ~r.shown /\ r.life = "hidden"
        BY <1>1, <2>1, MovedRow
    <2>3. rows' = [rows EXCEPT ![p] = r] /\ last' = [last EXCEPT ![p] = "hidden"]
        BY <1>7 DEF emergency_hide_place, Move, Write, Logged, Moved
    <2>4. /\ item' = [item EXCEPT ![p] = item[p]]
          /\ held' = [held EXCEPT ![p] = TRUE]
          /\ owed' = [owed EXCEPT ![p] = FALSE]
          /\ decisions' \in 0..MaxDecisions
          /\ UNCHANGED <<launched, work, audits, jobs>>
        BY <1>7, PlacesAssumption DEF emergency_hide_place, Deciding, TypeOK
    <2>5. Off(r)
        BY <2>2 DEF Off
    <2> HIDE DEF r
    <2> QED BY <2>2, <2>3, <2>4, <2>5 DEF DecisionEffect
<1>8. CASE VerifyExists(p)
    <2>1. PICK life \in Lives : Write(p, [rows[p] EXCEPT !.life = life])
        <3>1. (IF rows[p].life \in {"draft", "needs_review"} THEN "active" ELSE rows[p].life) \in Lives
            BY <1>1, StatusFacts
        <3> QED BY <1>8, <3>1 DEF VerifyExists
    <2> QED BY <1>1, <1>8, <2>1, LifeOfRow, EditDecides, AboutAlone DEF VerifyExists
<1>9. CASE VerifyGone(p)
    <2>1. PICK action \in {"not_found", "closed", "moved", "duplicate"} :
              Move(p, Consequence(action)[1], Consequence(action)[2])
        BY <1>9 DEF VerifyGone
    <2>2. Consequence(action)[1] \in Statuses \ {"published"} /\ Consequence(action)[2] \in Lives
        BY StatusFacts DEF Consequence
    <2>3. RowDecided(p)
        BY <2>1, <2>2, MoveDecides
    <2> QED BY <1>9, <2>3, AboutAlone DEF VerifyGone
<1>10. CASE update_place(p)
    <2>1. CASE \E data \in Data, fit \in BOOLEAN, sound \in BOOLEAN :
                   Reconcile(p, [rows[p] EXCEPT !.data = data, !.fit = fit, !.sound = sound])
        <3>1. PICK data \in Data, fit \in BOOLEAN, sound \in BOOLEAN :
                   Reconcile(p, [rows[p] EXCEPT !.data = data, !.fit = fit, !.sound = sound])
            BY <2>1
        <3> DEFINE row == [rows[p] EXCEPT !.data = data, !.fit = fit, !.sound = sound]
        <3>2. row \in Row /\ SameFlags(row, rows[p])
            BY <1>1 DEF Row, SameFlags
        <3>3. Reconcile(p, row)
            BY <3>1
        <3> HIDE DEF row
        <3>4. RowDecided(p)
            BY <3>2, <3>3, ReconcileDecides
        <3> QED BY <1>10, <3>4, AboutAlone DEF update_place
    <2>2. CASE \E life \in {"active", "closed"} \ {rows[p].life} :
                   Write(p, [rows[p] EXCEPT !.life = life]) /\ UNCHANGED last
        <3>1. PICK life \in Lives : Write(p, [rows[p] EXCEPT !.life = life]) /\ UNCHANGED last
            BY <2>2, StatusFacts
        <3>2. RowDecided(p)
            BY <1>1, <3>1, LifeOfRow, EditDecides
        <3> QED BY <1>10, <3>2, AboutAlone DEF update_place
    <2> QED BY <1>10, <2>1, <2>2 DEF update_place
<1>11. CASE Approve(p)
    BY <1>11, ApproveDecides
<1>12. CASE Reject(p)
    BY <1>12, RejectDecides
<1> QED BY <1>2, <1>3, <1>4, <1>5, <1>6, <1>7, <1>8, <1>9, <1>10, <1>11, <1>12 DEF Decide

LEMMA CityDecides ==
    ASSUME TypeOK, DecideCity
    PROVE  CityEffect
<1>1. \A p \in Place : rows[p] \in Row
    BY DEF TypeOK
<1>2. {"published", "needs_review", "unpublished"} \subseteq Statuses
    BY StatusFacts
<1>3. CASE publish_city
    <2>1. PICK route \in [Place -> BOOLEAN] :
              rows' = [p \in Place |-> IF Eligible(rows[p]) THEN Transition(rows[p], "published", route[p])
                                       ELSE Transition(rows[p], "needs_review", FALSE)]
        BY <1>3 DEF publish_city
    <2>2. ASSUME NEW p \in Place
          PROVE  /\ rows'[p] \in Row /\ Settled(rows'[p], rows'[p].pub) /\ rows'[p].pub \in Statuses
                 /\ rows'[p].life = rows[p].life
        <3>1. CASE Eligible(rows[p])
            BY <1>1, <1>2, <2>1, <3>1, PublishedRow
        <3>2. CASE ~Eligible(rows[p])
            BY <1>1, <1>2, <2>1, <3>2, WithdrawnRow
        <3> QED BY <3>1, <3>2
    <2>3. decisions' \in 0..MaxDecisions
        BY <1>3, PlacesAssumption DEF publish_city, Deciding, TypeOK
    <2> QED BY <1>3, <2>1, <2>2, <2>3 DEF publish_city, CityEffect
<1>4. CASE unpublish_city
    <2>1. ASSUME NEW p \in Place
          PROVE  /\ rows'[p] \in Row /\ Settled(rows'[p], "unpublished")
                 /\ rows'[p].life = rows[p].life
        BY <1>1, <1>2, <1>4, WithdrawnRow DEF unpublish_city
    <2>2. decisions' \in 0..MaxDecisions
        BY <1>4, PlacesAssumption DEF unpublish_city, Deciding, TypeOK
    <2> QED BY <1>2, <1>4, <2>1, <2>2 DEF unpublish_city, CityEffect
<1>5. CASE auto_publish_trusted_places
    <2>1. PICK trusted \in SUBSET Place :
              /\ \A p \in trusted : Eligible(rows[p])
              /\ \E route \in [trusted -> BOOLEAN] :
                    rows' = [p \in Place |-> IF p \in trusted THEN Transition(rows[p], "published", route[p])
                                             ELSE rows[p]]
              /\ last' = [p \in Place |-> IF p \in trusted THEN "published" ELSE last[p]]
        BY <1>5 DEF auto_publish_trusted_places
    <2>2. PICK route \in [trusted -> BOOLEAN] :
              rows' = [p \in Place |-> IF p \in trusted THEN Transition(rows[p], "published", route[p])
                                       ELSE rows[p]]
        BY <2>1
    <2>3. ASSUME NEW p \in trusted
          PROVE  rows'[p] \in Row /\ Settled(rows'[p], "published") /\ rows'[p].life = rows[p].life
        BY <1>1, <2>1, <2>2, PublishedRow
    <2>4. decisions' \in 0..MaxDecisions
        BY <1>5, PlacesAssumption DEF auto_publish_trusted_places, Deciding, TypeOK
    <2>5. rows' \in [Place -> Row] /\ last' \in [Place -> Statuses]
        BY <1>1, <1>2, <2>1, <2>2, <2>3 DEF TypeOK
    <2> QED BY <1>5, <2>1, <2>2, <2>3, <2>4, <2>5 DEF auto_publish_trusted_places, CityEffect, TypeOK
<1> QED BY <1>3, <1>4, <1>5 DEF DecideCity

LEMMA RollbackRestores ==
    ASSUME TypeOK, NEW p \in Place, rollback_publication_reconciliation(p)
    PROVE  RollbackEffect(p)
<1>1. rows[p] \in Row /\ audits[p] \subseteq BOOLEAN
    BY DEF TypeOK
<1>2. PICK route \in BOOLEAN : rows' = [rows EXCEPT ![p] = Transition(rows[p], "published", route)]
    BY <1>1 DEF rollback_publication_reconciliation, Write
<1> DEFINE r == Transition(rows[p], "published", route)
<1>3. r \in Row /\ Consistent(r) /\ r.pub = "published" /\ rows' = [rows EXCEPT ![p] = r]
    BY <1>1, <1>2, RepublishedRow
<1> HIDE DEF r
<1>4. /\ last' = [last EXCEPT ![p] = "published"]
      /\ held' = [held EXCEPT ![p] = FALSE]
      /\ UNCHANGED <<launched, item, work, audits, owed, jobs>>
    BY DEF rollback_publication_reconciliation, Logged
<1>5. decisions' \in 0..MaxDecisions
    BY PlacesAssumption DEF rollback_publication_reconciliation, Deciding, TypeOK
<1> QED BY <1>3, <1>4, <1>5 DEF RollbackEffect

-----------------------------------------------------------------------------
(* Workers. *)

LEMMA JobFacts ==
    ASSUME TypeOK, NEW w \in Worker, work[w] # NoJob
    PROVE  /\ work[w].kind \in Kinds /\ work[w].place \in Place /\ work[w].copy \in Row
           /\ rows[work[w].place] \in Row /\ last[work[w].place] \in Statuses
BY DEF TypeOK, Job

(* A write that leaves the row, or its flags and its life, alone. *)
LEMMA FlushDataWrites ==
    ASSUME TypeOK, NEW w \in Worker, work[w] # NoJob, NEW data \in Data,
           FlushData(w, [work[w].copy EXCEPT !.data = data]),
           data = work[w].copy.data \/ work[w].kind = "address" \/ ~work[w].copy.shown
    PROVE  WriteEffect(w)
<1> DEFINE p == work[w].place
           copy == work[w].copy
           new == [copy EXCEPT !.data = data]
           r == Flushed(rows[p], copy, new)
<1>1. p \in Place /\ copy \in Row /\ rows[p] \in Row /\ last[p] \in Statuses
    BY JobFacts
<1>2. new \in Row /\ SameFlags(new, copy) /\ new.life = copy.life /\ new.fit = copy.fit /\ new.data = data
    BY <1>1, DataOfRow
<1>3. rows' = [rows EXCEPT ![p] = r] /\ last' = [last EXCEPT ![p] = last[p]]
    BY DEF FlushData, Write, TypeOK
<1> HIDE DEF new
<1>4. /\ r \in Row /\ SameFlags(r, rows[p]) /\ r.life = rows[p].life
      /\ r.data # rows[p].data => data # copy.data
    BY <1>1, <1>2, FlushedRow DEF SameFlags
<1> HIDE DEF r
<1> QED BY <1>1, <1>3, <1>4 DEF WriteEffect, SameFlags

LEMMA KeepWrites ==
    ASSUME TypeOK, NEW w \in Worker, work[w] # NoJob, Keep
    PROVE  WriteEffect(w)
<1> DEFINE p == work[w].place
           r == rows[p]
<1>1. p \in Place /\ r \in Row /\ last[p] \in Statuses
    BY JobFacts
<1>2. rows' = [rows EXCEPT ![p] = r] /\ last' = [last EXCEPT ![p] = last[p]]
    BY <1>1 DEF Keep, TypeOK
<1> HIDE DEF r
<1>3. r = rows[p]
    BY DEF r
<1> QED BY <1>1, <1>2, <1>3 DEF WriteEffect, SameFlags

(* An unlocked transition to a status that is not public. *)
LEMMA UnlockedWrites ==
    ASSUME TypeOK, NEW w \in Worker, work[w] # NoJob, work[w].kind \in Unguarded,
           NEW to \in Statuses \ {"published"}, NEW new \in Row,
           SameFlags(new, work[w].copy), new.fit = work[w].copy.fit, new.life # "active",
           new.data = work[w].copy.data \/ ~work[w].copy.shown,
           ~work[w].copy.shown \/ work[w].kind \in {"hide", "sweep"},
           Unlocked(w, to, new)
    PROVE  WriteEffect(w)
<1> DEFINE p == work[w].place
           copy == work[w].copy
           t == Transition(new, to, FALSE)
           r == Flushed(rows[p], copy, t)
<1>1. p \in Place /\ copy \in Row /\ rows[p] \in Row /\ last[p] \in Statuses
    BY JobFacts
<1>2. /\ t \in Row /\ Consistent(t) /\ t.pub = to /\ t.shown = FALSE
      /\ t.life = new.life /\ t.data = new.data
    BY TransitionRow
<1>3. rows' = [rows EXCEPT ![p] = r] /\ last' = [last EXCEPT ![p] = to]
    BY DEF Unlocked, Write, Logged
<1> HIDE DEF t
<1>4. /\ r \in Row
      /\ r.shown => rows[p].shown
      /\ r.data # rows[p].data => new.data # copy.data
      /\ r.life = rows[p].life \/ r.life = new.life
      /\ r.pub = rows[p].pub \/ r.pub = to
    BY <1>1, <1>2, FlushedRow
<1>5. copy = rows[p] => r = t
    BY <1>1, <1>2, FlushedCurrent
<1>6. (Consistent(r) /\ r.pub = to) \/ Overtaken(w)
    BY <1>2, <1>5 DEF Overtaken
<1> HIDE DEF r
<1> QED BY <1>1, <1>3, <1>4, <1>6 DEF WriteEffect, Reconcilable

(* A transition under the lock to a status that is not public. *)
LEMMA MoveWrites ==
    ASSUME TypeOK, NEW w \in Worker, work[w] # NoJob, NEW to \in Statuses \ {"published"},
           Move(work[w].place, to, rows[work[w].place].life),
           ~Reconcilable(work[w].copy) \/ ~work[w].copy.sound
    PROVE  WriteEffect(w)
<1> DEFINE p == work[w].place
           r == Moved(rows[p], to, rows[p].life)
<1>1. p \in Place /\ rows[p] \in Row /\ rows[p].life \in Lives
    BY JobFacts DEF Row
<1>2. r \in Row /\ Settled(r, to) /\ r.pub = to /\ ~r.shown /\ r.life = rows[p].life /\ r.data = rows[p].data
    BY <1>1, MovedRow
<1>3. rows' = [rows EXCEPT ![p] = r] /\ last' = [last EXCEPT ![p] = to]
    BY DEF Move, Write, Logged, Moved
<1> HIDE DEF r
<1> QED BY <1>1, <1>2, <1>3 DEF WriteEffect, Settled

(* A worker that publishes nothing by itself and updates no history. *)
LEMMA QuietWorker ==
    ASSUME TypeOK, NEW w \in Worker, work[w] # NoJob, work[w].kind \notin Republishing,
           WriteEffect(w), Finished(w), UNCHANGED <<launched, audits, held, owed>>,
           NEW i \in KnownItem \union {item[work[w].place]},
           item' = [item EXCEPT ![work[w].place] = i]
    PROVE  WorkerEffect(w)
<1>1. owed[work[w].place] \in BOOLEAN /\ owed' = [owed EXCEPT ![work[w].place] = owed[work[w].place]]
    BY JobFacts DEF TypeOK
<1>2. audits' \in [Place -> SUBSET BOOLEAN] /\ launched' \in BOOLEAN
    BY DEF TypeOK
<1> QED BY <1>1, <1>2 DEF WorkerEffect, Finished

LEMMA QuietWorkerAlone ==
    ASSUME TypeOK, NEW w \in Worker, work[w] # NoJob, work[w].kind \notin Republishing,
           WriteEffect(w), Finished(w), UNCHANGED <<launched, item, audits, held, owed>>
    PROVE  WorkerEffect(w)
<1>1. item' = [item EXCEPT ![work[w].place] = item[work[w].place]]
    BY JobFacts DEF TypeOK
<1> QED BY <1>1, QuietWorker

LEMMA MarkWrites ==
    ASSUME TypeOK, NEW w \in Worker, mark_place_for_review(w)
    PROVE  WorkerEffect(w)
<1> DEFINE copy == work[w].copy
<1>1. work[w] # NoJob /\ work[w].kind \in {"mark", "address"}
    BY DEF mark_place_for_review, Runs
<1>2. copy \in Row /\ copy.data \in Data
    BY <1>1, JobFacts DEF Row
<1>3. PICK data \in IF work[w].kind = "address" THEN Data ELSE {copy.data} :
          LET new == [copy EXCEPT !.data = data] IN
          IF Waits(copy) THEN FlushData(w, new)
          ELSE Unlocked(w, "needs_review", [new EXCEPT !.life = "needs_review"])
    BY DEF mark_place_for_review
<1>4. data \in Data /\ (data = copy.data \/ work[w].kind = "address")
    BY <1>2, <1>3
<1>5. CASE Waits(copy)
    <2>1. FlushData(w, [copy EXCEPT !.data = data])
        BY <1>3, <1>5
    <2>2. WriteEffect(w)
        BY <1>1, <1>4, <2>1, FlushDataWrites
    <2> QED BY <1>1, <2>2, QuietWorkerAlone DEF Republishing, mark_place_for_review
<1>6. CASE ~Waits(copy)
    <2> DEFINE new == [[copy EXCEPT !.data = data] EXCEPT !.life = "needs_review"]
    <2>1. /\ new \in Row /\ SameFlags(new, copy) /\ new.fit = copy.fit
          /\ new.life = "needs_review"
        BY <1>2, <1>4, StatusFacts DEF Row, SameFlags
    <2>2. Unlocked(w, "needs_review", new)
        BY <1>3, <1>6
    <2>3. "needs_review" \in Statuses \ {"published"} /\ ~copy.shown /\ work[w].kind \in Unguarded
        BY <1>1, <1>6, StatusFacts DEF Waits, Unguarded
    <2> HIDE DEF new
    <2>4. WriteEffect(w)
        BY <1>1, <2>1, <2>2, <2>3, UnlockedWrites
    <2> QED BY <1>1, <2>4, QuietWorkerAlone DEF Republishing, mark_place_for_review
<1> QED BY <1>5, <1>6

LEMMA BeforePublicType ==
    ASSUME NEW copy \in Row
    PROVE  BeforePublic(copy) \in Snapshot /\ BeforePublic(copy) # None
BY DEF BeforePublic, Snapshot, None, Row

LEMMA HideWrites ==
    ASSUME TypeOK, NEW w \in Worker, hide_place(w)
    PROVE  WorkerEffect(w)
<1> DEFINE j == work[w]
           p == j.place
           copy == j.copy
<1>1. j # NoJob /\ j.kind = "hide"
    BY DEF hide_place, Runs
<1>2. p \in Place /\ copy \in Row /\ copy.data \in Data
    BY <1>1, JobFacts DEF Row
<1>3. PICK life \in {"closed", "draft"} :
          /\ Unlocked(w, HideTarget(life), [copy EXCEPT !.life = life])
          /\ Enqueued(p, [kind |-> "place_change", applied |-> TRUE, private |-> TRUE,
                          changes |-> HideChanges(copy, life), before |-> copy.data, after |-> copy.data,
                          was |-> BeforePublic(copy)])
    BY DEF hide_place
<1>4. WriteEffect(w)
    <2> DEFINE new == [copy EXCEPT !.life = life]
    <2>1. new \in Row /\ SameFlags(new, copy) /\ new.fit = copy.fit /\ new.life = life /\ new.data = copy.data
        BY <1>2, StatusFacts DEF Row, SameFlags
    <2>2. HideTarget(life) \in Statuses \ {"published"} /\ life # "active" /\ j.kind \in Unguarded
        BY <1>1, StatusFacts DEF HideTarget, Unguarded
    <2>3. Unlocked(w, HideTarget(life), new)
        BY <1>3
    <2> HIDE DEF new
    <2> QED BY <1>1, <2>1, <2>2, <2>3, UnlockedWrites
<1>5. PICK i \in KnownItem : item' = [item EXCEPT ![p] = i]
    <2> DEFINE i == [kind |-> "place_change", applied |-> TRUE, private |-> TRUE,
                     changes |-> HideChanges(copy, life), before |-> copy.data, after |-> copy.data,
                     was |-> BeforePublic(copy)]
    <2>1. HideChanges(copy, life) \in {"flags", "status"}
        BY DEF HideChanges
    <2>2. i \in KnownItem
        BY <1>2, <2>1, BeforePublicType DEF KnownItem, Item
    <2>3. item' = [item EXCEPT ![p] = i]
        BY <1>3 DEF Enqueued
    <2> QED BY <2>2, <2>3
<1>6. owed' = [owed EXCEPT ![p] = owed[p] \/ rows[p].shown] /\ item'[p] \in KnownItem
    BY <1>2, <1>5 DEF hide_place, TypeOK
<1>7. /\ audits' \in [Place -> SUBSET BOOLEAN] /\ launched' \in BOOLEAN
      /\ (owed[p] \/ rows[p].shown) \in BOOLEAN
    BY <1>2 DEF hide_place, TypeOK
<1> QED BY <1>1, <1>4, <1>5, <1>6, <1>7 DEF hide_place, Finished, WorkerEffect, Republishing

LEMMA ApplyWrites ==
    ASSUME TypeOK, NEW w \in Worker, apply_accepted_import_to_place(w)
    PROVE  WorkerEffect(w)
<1> DEFINE j == work[w]
           copy == j.copy
<1>1. j # NoJob /\ j.kind = "apply"
    BY DEF apply_accepted_import_to_place, Runs
<1>2. copy \in Row /\ copy.data \in Data
    BY <1>1, JobFacts DEF Row
<1>3. PICK data \in Data \ {copy.data} :
          /\ IF Waits(copy) THEN Keep
             ELSE Unlocked(w, "needs_review", [copy EXCEPT !.data = data, !.life = "needs_review"])
          /\ Enqueued(j.place, [kind |-> "place_change", applied |-> TRUE, private |-> FALSE,
                                changes |-> "data", before |-> copy.data, after |-> data,
                                was |-> BeforePublic(copy)])
    BY DEF apply_accepted_import_to_place
<1>4. WriteEffect(w)
    <2>1. CASE Waits(copy)
        BY <1>1, <1>3, <2>1, KeepWrites
    <2>2. CASE ~Waits(copy)
        <3> DEFINE new == [copy EXCEPT !.data = data, !.life = "needs_review"]
        <3>1. new \in Row /\ SameFlags(new, copy) /\ new.fit = copy.fit /\ new.life = "needs_review"
            BY <1>2, StatusFacts DEF Row, SameFlags
        <3>2. "needs_review" \in Statuses \ {"published"} /\ ~copy.shown /\ j.kind \in Unguarded
            BY <1>1, <2>2, StatusFacts DEF Waits, Unguarded
        <3>3. Unlocked(w, "needs_review", new)
            BY <1>3, <2>2
        <3> HIDE DEF new
        <3> QED BY <1>1, <3>1, <3>2, <3>3, UnlockedWrites
    <2> QED BY <2>1, <2>2
<1>5. PICK i \in KnownItem : item' = [item EXCEPT ![j.place] = i]
    <2>1. [kind |-> "place_change", applied |-> TRUE, private |-> FALSE,
           changes |-> "data", before |-> copy.data, after |-> data,
           was |-> BeforePublic(copy)] \in KnownItem
        BY <1>2, BeforePublicType DEF KnownItem, Item
    <2> QED BY <1>3, <2>1 DEF Enqueued
<1> QED BY <1>1, <1>4, <1>5, QuietWorker DEF Republishing, apply_accepted_import_to_place

LEMMA ProposeWrites ==
    ASSUME TypeOK, NEW w \in Worker, propose_place_change(w)
    PROVE  WorkerEffect(w)
<1> DEFINE j == work[w]
           copy == j.copy
<1>1. j # NoJob /\ j.kind = "propose"
    BY DEF propose_place_change, Runs
<1>2. copy \in Row /\ copy.data \in Data
    BY <1>1, JobFacts DEF Row
<1>3. PICK data \in Data \ {copy.data} :
          IF Waits(copy)
          THEN /\ Enqueued(j.place, [kind |-> "place_change", applied |-> FALSE, private |-> FALSE,
                                     changes |-> "data", before |-> copy.data, after |-> data,
                                     was |-> None])
               /\ Keep
          ELSE FlushData(w, [copy EXCEPT !.data = data]) /\ UNCHANGED item
    BY DEF propose_place_change
<1>4. CASE Waits(copy)
    <2>1. [kind |-> "place_change", applied |-> FALSE, private |-> FALSE,
           changes |-> "data", before |-> copy.data, after |-> data, was |-> None] \in KnownItem
        BY <1>2 DEF KnownItem, Item
    <2>2. WriteEffect(w)
        BY <1>1, <1>3, <1>4, KeepWrites
    <2>3. PICK i \in KnownItem : item' = [item EXCEPT ![j.place] = i]
        BY <1>3, <1>4, <2>1 DEF Enqueued
    <2> QED BY <1>1, <2>2, <2>3, QuietWorker DEF Republishing, propose_place_change
<1>5. CASE ~Waits(copy)
    <2>1. FlushData(w, [copy EXCEPT !.data = data]) /\ ~copy.shown
        BY <1>3, <1>5 DEF Waits
    <2>2. WriteEffect(w)
        BY <1>1, <2>1, FlushDataWrites
    <2> QED BY <1>1, <1>3, <1>5, <2>2, QuietWorkerAlone DEF Republishing, propose_place_change
<1> QED BY <1>4, <1>5

LEMMA PipelineWrites ==
    ASSUME TypeOK, NEW w \in Worker, apply_pipeline_publication(w)
    PROVE  WorkerEffect(w)
<1> DEFINE j == work[w]
           p == j.place
<1>1. j # NoJob /\ j.kind = "pipeline"
    BY DEF apply_pipeline_publication, Runs
<1>2. PICK verdict \in Verdict(j.copy) :
          \/ verdict = "preserve_public" /\ Keep
          \/ /\ verdict # "preserve_public"
             /\ \E outcome \in {verdict} \union (IF rows[p].sound THEN {} ELSE {"reject"}) :
                   Move(p, IF outcome = "reject" THEN "archived" ELSE "needs_review", rows[p].life)
    BY DEF apply_pipeline_publication
<1>3. CASE verdict = "preserve_public" /\ Keep
    BY <1>1, <1>3, KeepWrites, QuietWorkerAlone DEF Republishing, apply_pipeline_publication
<1>4. CASE verdict # "preserve_public"
    <2>1. ~Reconcilable(j.copy) \/ ~j.copy.sound
        BY <1>2, <1>4 DEF Verdict, Reconcilable
    <2>2. PICK to \in {"archived", "needs_review"} : Move(p, to, rows[p].life)
        BY <1>2, <1>4
    <2>3. to \in Statuses \ {"published"}
        BY StatusFacts
    <2>4. WriteEffect(w)
        BY <1>1, <2>1, <2>2, <2>3, MoveWrites
    <2> QED BY <1>1, <2>4, QuietWorkerAlone DEF Republishing, apply_pipeline_publication
<1> QED BY <1>2, <1>3, <1>4

LEMMA PolicyWrites ==
    ASSUME TypeOK, CopiesWereCandidates, NEW w \in Worker, apply_publication_decision(w)
    PROVE  WorkerEffect(w)
<1> DEFINE j == work[w]
           p == j.place
           copy == j.copy
           live == [copy EXCEPT !.life = "active"]
           saved == Flushed(rows[p], copy, live)
           r == Transition(saved, "published", TRUE)
<1>1. j # NoJob /\ j.kind = "policy"
    BY DEF apply_publication_decision, Runs
<1>2. p \in Place /\ copy \in Row /\ rows[p] \in Row /\ copy.fit /\ "published" \in Statuses
    BY <1>1, JobFacts, StatusFacts DEF CopiesWereCandidates
<1>3. live \in Row /\ live.life = "active" /\ live.data = copy.data /\ live.fit = copy.fit
    BY <1>2, StatusFacts DEF Row
<1> HIDE DEF live
<1>4. saved \in Row /\ saved.data = rows[p].data
    BY <1>2, <1>3, FlushedRow
<1>5. copy = rows[p] => saved = live
    BY <1>2, <1>3, FlushedCurrent
<1>6. rows' = [rows EXCEPT ![p] = r] /\ last' = [last EXCEPT ![p] = "published"]
    BY DEF live, saved, apply_publication_decision, Write, Logged
<1> HIDE DEF saved
<1>7. /\ r \in Row /\ Consistent(r) /\ r.pub = "published" /\ r.shown
      /\ r.life = saved.life /\ r.fit = saved.fit /\ r.data = saved.data
    BY <1>4, RepublishedRow
<1> HIDE DEF r
<1>8. Overtaken(w) \/ Eligible(r)
    BY <1>2, <1>3, <1>5, <1>7 DEF Overtaken, Eligible
<1>9. WriteEffect(w)
    BY <1>1, <1>2, <1>4, <1>6, <1>7, <1>8 DEF WriteEffect, Republishing
<1>10. /\ held' = [held EXCEPT ![p] = FALSE]
       /\ audits' \in [Place -> SUBSET BOOLEAN] /\ launched' \in BOOLEAN
       /\ owed' = [owed EXCEPT ![p] = owed[p]] /\ owed[p] \in BOOLEAN
       /\ item' = [item EXCEPT ![p] = item[p]]
    BY <1>2 DEF apply_publication_decision, TypeOK
<1> QED BY <1>1, <1>9, <1>10 DEF apply_publication_decision, Finished, WorkerEffect, Republishing

LEMMA RouteWrites ==
    ASSUME TypeOK, NEW w \in Worker, reconcile_route(w)
    PROVE  WorkerEffect(w)
<1> DEFINE p == work[w].place
<1>1. work[w] # NoJob /\ work[w].kind = "route"
    BY DEF reconcile_route, Runs
<1>2. p \in Place /\ rows[p] \in Row /\ "published" \in Statuses
    BY <1>1, JobFacts, StatusFacts
<1>3. CASE ~Reconcilable(rows[p])
    BY <1>1, <1>3, KeepWrites, QuietWorkerAlone DEF Republishing, reconcile_route
<1>4. CASE Reconcilable(rows[p])
    <2>1. PICK route \in BOOLEAN : rows' = [rows EXCEPT ![p] = Transition(rows[p], "published", route)]
        BY <1>4 DEF reconcile_route, Write, Reconciled
    <2> DEFINE r == Transition(rows[p], "published", route)
    <2>2. last' = [last EXCEPT ![p] = "published"] /\ rows' = [rows EXCEPT ![p] = r]
        BY <1>4, <2>1 DEF reconcile_route, Logged
    <2>3. /\ r \in Row /\ Consistent(r) /\ r.pub = "published" /\ r.shown
          /\ r.life = rows[p].life /\ r.data = rows[p].data /\ rows[p].shown /\ rows[p].pub = "published"
        BY <1>2, <1>4, RepublishedRow DEF Reconcilable
    <2> HIDE DEF r
    <2>4. WriteEffect(w)
        BY <1>2, <2>2, <2>3 DEF WriteEffect
    <2> QED BY <1>1, <2>4, QuietWorkerAlone DEF Republishing, reconcile_route
<1> QED BY <1>3, <1>4

(* A worker that publishes the locked row again, whatever it says. *)
LEMMA RepublishWrites ==
    ASSUME TypeOK, NEW w \in Worker, work[w] # NoJob, work[w].kind \in {"restore", "repair"},
           NEW route \in BOOLEAN,
           Write(work[w].place, Transition(rows[work[w].place], "published", route)),
           Logged(work[w].place, "published"),
           held' = [held EXCEPT ![work[w].place] = FALSE],
           audits' \in [Place -> SUBSET BOOLEAN], Finished(w), UNCHANGED <<launched, item, owed>>
    PROVE  WorkerEffect(w)
<1> DEFINE p == work[w].place
           r == Transition(rows[p], "published", route)
<1>1. p \in Place /\ rows[p] \in Row /\ "published" \in Statuses
    BY JobFacts, StatusFacts
<1>2. rows' = [rows EXCEPT ![p] = r] /\ last' = [last EXCEPT ![p] = "published"]
    BY DEF Write, Logged
<1>3. /\ r \in Row /\ Consistent(r) /\ r.pub = "published" /\ r.shown
      /\ r.life = rows[p].life /\ r.data = rows[p].data
    BY <1>1, RepublishedRow
<1> HIDE DEF r
<1>4. WriteEffect(w)
    BY <1>1, <1>2, <1>3 DEF WriteEffect, Republishing
<1>5. /\ owed' = [owed EXCEPT ![p] = owed[p]] /\ owed[p] \in BOOLEAN
      /\ item' = [item EXCEPT ![p] = item[p]] /\ launched' \in BOOLEAN
    BY <1>1 DEF TypeOK
<1> QED BY <1>4, <1>5 DEF Finished, WorkerEffect, Republishing

LEMMA RestoreWrites ==
    ASSUME TypeOK, NEW w \in Worker, apply_publication_reconciliation(w)
    PROVE  WorkerEffect(w)
<1>1. work[w] # NoJob /\ work[w].kind = "restore" /\ TRUE \in BOOLEAN
    BY DEF apply_publication_reconciliation, Runs
<1>2. audits' \in [Place -> SUBSET BOOLEAN]
    <2>1. work[w].copy.route \in BOOLEAN
        BY <1>1, JobFacts DEF Row
    <2> QED BY <1>1, <2>1, JobFacts DEF apply_publication_reconciliation, TypeOK
<1> QED BY <1>1, <1>2, RepublishWrites DEF apply_publication_reconciliation

LEMMA RepairWrites ==
    ASSUME TypeOK, NEW w \in Worker, repair_publication_states(w)
    PROVE  WorkerEffect(w)
<1>1. work[w] # NoJob /\ work[w].kind = "repair"
    BY DEF repair_publication_states, Runs
<1>2. audits' \in [Place -> SUBSET BOOLEAN]
    BY DEF repair_publication_states, TypeOK
<1> QED BY <1>1, <1>2, RepublishWrites DEF repair_publication_states

LEMMA RelaunchWrites ==
    ASSUME TypeOK, NEW w \in Worker, restore_cities(w)
    PROVE  WorkerEffect(w)
<1> DEFINE p == work[w].place
<1>1. work[w] # NoJob /\ work[w].kind = "relaunch" /\ p \in Place
    BY JobFacts DEF restore_cities, Runs
<1>2. WriteEffect(w)
    BY <1>1, KeepWrites DEF restore_cities
<1>3. /\ owed' = [owed EXCEPT ![p] = owed[p]] /\ owed[p] \in BOOLEAN
      /\ item' = [item EXCEPT ![p] = item[p]]
      /\ audits' \in [Place -> SUBSET BOOLEAN] /\ launched' \in BOOLEAN
    BY <1>1 DEF restore_cities, TypeOK
<1> QED BY <1>1, <1>2, <1>3 DEF restore_cities, Finished, WorkerEffect, Republishing

LEMMA SweepWrites ==
    ASSUME TypeOK, NEW w \in Worker, hide_bad_existing_places(w)
    PROVE  WorkerEffect(w)
<1> DEFINE copy == work[w].copy
<1>1. work[w] # NoJob /\ work[w].kind = "sweep"
    BY DEF hide_bad_existing_places, Runs
<1>2. copy \in Row
    BY <1>1, JobFacts
<1>3. PICK life \in {"closed", "draft"} : Unlocked(w, HideTarget(life), [copy EXCEPT !.life = life])
    BY DEF hide_bad_existing_places
<1> DEFINE new == [copy EXCEPT !.life = life]
<1>4. new \in Row /\ SameFlags(new, copy) /\ new.fit = copy.fit /\ new.life = life /\ new.data = copy.data
    BY <1>2, StatusFacts DEF Row, SameFlags
<1>5. HideTarget(life) \in Statuses \ {"published"} /\ life # "active" /\ work[w].kind \in Unguarded
    BY <1>1, StatusFacts DEF HideTarget, Unguarded
<1>6. Unlocked(w, HideTarget(life), new)
    BY <1>3
<1> HIDE DEF new
<1>7. WriteEffect(w)
    BY <1>1, <1>4, <1>5, <1>6, UnlockedWrites
<1> QED BY <1>1, <1>7, QuietWorkerAlone DEF Republishing, hide_bad_existing_places

LEMMA CleanupWrites ==
    ASSUME TypeOK, NEW w \in Worker, cleanup_bad_places(w)
    PROVE  WorkerEffect(w)
<1> DEFINE p == work[w].place
           copy == work[w].copy
           gone == [copy EXCEPT !.life = "hidden"]
           saved == Flushed(rows[p], copy, gone)
           r == Transition(saved, "hidden", FALSE)
<1>1. work[w] # NoJob /\ work[w].kind = "cleanup"
    BY DEF cleanup_bad_places, Runs
<1>2. p \in Place /\ copy \in Row /\ rows[p] \in Row /\ "hidden" \in Statuses \ {"published"}
    BY <1>1, JobFacts, StatusFacts
<1>3. gone \in Row /\ gone.life = "hidden" /\ gone.data = copy.data
    BY <1>2, StatusFacts DEF Row
<1> HIDE DEF gone
<1>4. saved \in Row /\ saved.data = rows[p].data /\ saved.life \in {rows[p].life, "hidden"}
    BY <1>2, <1>3, FlushedRow
<1>5. rows' = [rows EXCEPT ![p] = r] /\ last' = [last EXCEPT ![p] = "hidden"]
    BY DEF cleanup_bad_places, Write, Logged, gone, saved
<1> HIDE DEF saved
<1>6. /\ r \in Row /\ Consistent(r) /\ r.pub = "hidden" /\ ~r.shown
      /\ r.life = saved.life /\ r.data = saved.data
    <2>1. "hidden" \in Statuses /\ "hidden" # "published" /\ FALSE \in BOOLEAN
        BY <1>2
    <2> QED BY <1>4, <2>1, TransitionRow DEF r
<1> HIDE DEF r
<1>7. "hidden" \in Statuses /\ r.data = rows[p].data /\ r.life \in {rows[p].life, "hidden"}
    BY <1>2, <1>4, <1>6
<1> HIDE DEF p
<1>8. WriteEffect(w)
    <2>1. p = work[w].place
        BY DEF p
    <2> QED BY <1>1, <1>5, <1>6, <1>7, <2>1 DEF WriteEffect
<1> QED BY <1>1, <1>8, QuietWorkerAlone DEF Republishing, cleanup_bad_places

LEMMA WorkersWrite ==
    ASSUME TypeOK, CopiesWereCandidates, NEW w \in Worker,
           ImportStep(w) \/ RunStep(w) \/ ScriptStep(w) \/ Abandon(w)
    PROVE  WorkerEffect(w) \/ (Abandon(w) /\ Keep)
<1>2. CASE normalize_backlog(w)
    <2>1. /\ work[w] # NoJob /\ work[w].kind = "normalize"
          /\ Move(work[w].place, "auto_backlog", rows[work[w].place].life)
        BY <1>2 DEF normalize_backlog, Runs
    <2>2. ~Reconcilable(work[w].copy)
        BY <2>1 DEF CopiesWereCandidates, Reconcilable
    <2>3. WriteEffect(w)
        BY <2>1, <2>2, MoveWrites, StatusFacts
    <2> QED BY <1>2, <2>1, <2>3, QuietWorkerAlone DEF Republishing, normalize_backlog
<1>3. CASE Abandon(w)
    BY <1>3 DEF Abandon
<1> QED BY <1>2, <1>3, MarkWrites, HideWrites, ApplyWrites, ProposeWrites, PipelineWrites, PolicyWrites,
           RouteWrites, RestoreWrites, SweepWrites, CleanupWrites, RepairWrites, RelaunchWrites
       DEF ImportStep, RunStep, ScriptStep

-----------------------------------------------------------------------------
(* Every step has one of the shapes. *)

Loads(w) == \E kind \in Kinds, p \in Place : Load(w, kind, p)
Gives(w) == Abandon(w) /\ Keep

LEMMA Shapes ==
    ASSUME IInv, [Next]_vars
    PROVE  \/ \E p \in Place : Decide(p) /\ DecisionEffect(p)
           \/ \E p \in Place : rollback_publication_reconciliation(p) /\ RollbackEffect(p)
           \/ CityEffect
           \/ \E w \in Worker : Loads(w) \/ WorkerEffect(w) \/ Gives(w)
           \/ UNCHANGED vars
<1>1. TypeOK /\ ItemsAreKnown /\ CopiesWereCandidates
    BY DEF IInv
<1>2. CASE \E p \in Place : Decide(p)
    BY <1>1, <1>2, DecisionsDecide
<1>3. CASE DecideCity
    BY <1>1, <1>3, CityDecides
<1>4. ASSUME NEW w \in Worker,
             Loads(w) \/ ImportStep(w) \/ RunStep(w) \/ ScriptStep(w) \/ Abandon(w)
      PROVE  Loads(w) \/ WorkerEffect(w) \/ Gives(w)
    BY <1>1, <1>4, WorkersWrite DEF Gives
<1>5. CASE \E p \in Place : rollback_publication_reconciliation(p)
    BY <1>1, <1>5, RollbackRestores
<1> QED BY <1>2, <1>3, <1>4, <1>5 DEF Next, Loads

LEMMA JobOfLoad ==
    ASSUME TypeOK, NEW w \in Worker, NEW kind \in Kinds, NEW p \in Place, Load(w, kind, p)
    PROVE  /\ work' \in [Worker -> Job \union {NoJob}] /\ jobs' \in 0..MaxJobs
           /\ work'[w] = [kind |-> kind, place |-> p, copy |-> rows[p]]
<1>1. [kind |-> kind, place |-> p, copy |-> rows[p]] \in Job
    BY DEF TypeOK, Job
<1>2. work' = [work EXCEPT ![w] = [kind |-> kind, place |-> p, copy |-> rows[p]]]
    BY DEF Load
<1>3. jobs' \in 0..MaxJobs
    BY PlacesAssumption DEF Load, TypeOK
<1> QED BY <1>1, <1>2, <1>3 DEF TypeOK

LEMMA InitIInv == Init => IInv
<1> SUFFICES ASSUME Init PROVE IInv
    OBVIOUS
<1>1. rows \in [Place -> Row] /\ last \in [Place -> Statuses]
    BY DEF Init, Fresh, Legacy, Row
<1>2. decisions \in 0..MaxDecisions /\ jobs \in 0..MaxJobs
    BY PlacesAssumption DEF Init
<1>3. /\ item = [p \in Place |-> NoItem] /\ work = [w \in Worker |-> NoJob]
      /\ held = [p \in Place |-> FALSE] /\ owed = [p \in Place |-> FALSE] /\ launched = FALSE
      /\ audits = [p \in Place |-> {}]
    BY DEF Init
<1>4. TypeOK
    BY <1>1, <1>2, <1>3 DEF TypeOK
<1>5. TakenOfflineIsQueued /\ HeldPlacesAreOff /\ CopiesWereCandidates /\ ItemsAreKnown
    BY <1>3 DEF TakenOfflineIsQueued, HeldPlacesAreOff, CopiesWereCandidates, ItemsAreKnown
<1> QED BY <1>4, <1>5 DEF IInv

LEMMA DecisionKeepsIInv ==
    ASSUME IInv, NEW p \in Place, DecisionEffect(p)
    PROVE  IInv'
<1>1. PICK r \in Row, i \in {item[p], NoItem}, h \in BOOLEAN :
        /\ rows' = [rows EXCEPT ![p] = r]
        /\ \/ last' = [last EXCEPT ![p] = r.pub]
           \/ last' = last
        /\ item' = [item EXCEPT ![p] = i]
        /\ held' = [held EXCEPT ![p] = h] /\ (h => Off(r))
        /\ owed' = [owed EXCEPT ![p] = FALSE]
        /\ decisions' \in 0..MaxDecisions
        /\ UNCHANGED <<launched, work, audits, jobs>>
    BY DEF DecisionEffect
<1>2. TypeOK'
    <2>1. r.pub \in Statuses
        BY DEF Row
    <2> QED BY <1>1, <2>1 DEF IInv, TypeOK
<1>3. TakenOfflineIsQueued' /\ ItemsAreKnown'
    BY <1>1 DEF IInv, TypeOK, TakenOfflineIsQueued, ItemsAreKnown
<1>4. HeldPlacesAreOff'
    BY <1>1 DEF IInv, TypeOK, HeldPlacesAreOff
<1>5. CopiesWereCandidates'
    BY <1>1 DEF IInv, CopiesWereCandidates
<1> QED BY <1>2, <1>3, <1>4, <1>5 DEF IInv

LEMMA CityKeepsIInv ==
    ASSUME IInv, CityEffect
    PROVE  IInv'
<1>1. TypeOK'
    BY DEF CityEffect, IInv, TypeOK
<1>2. TakenOfflineIsQueued' /\ ItemsAreKnown' /\ CopiesWereCandidates'
    BY DEF CityEffect, IInv, TakenOfflineIsQueued, ItemsAreKnown, CopiesWereCandidates
<1>3. HeldPlacesAreOff'
    <2> SUFFICES ASSUME NEW p \in Place, held[p] PROVE Off(rows'[p])
        BY DEF CityEffect, HeldPlacesAreOff
    <2>1. Off(rows[p])
        BY DEF IInv, HeldPlacesAreOff
    <2>2. CASE rows'[p] = rows[p]
        BY <2>1, <2>2
    <2>3. CASE Settled(rows'[p], last'[p]) /\ rows'[p].life = rows[p].life
        <3>1. rows'[p].life # "active" /\ ~rows'[p].shown
            BY <2>1, <2>3 DEF Off, Settled, Eligible
        <3>2. rows'[p].pub # "published"
            BY <2>3, <3>1 DEF Settled, Consistent, StateFlags
        <3> QED BY <3>1, <3>2 DEF Off
    <2> QED BY <2>2, <2>3 DEF CityEffect
<1> QED BY <1>1, <1>2, <1>3 DEF IInv

LEMMA RollbackKeepsIInv ==
    ASSUME IInv, NEW p \in Place, RollbackEffect(p)
    PROVE  IInv'
<1>1. PICK r \in Row :
        /\ rows' = [rows EXCEPT ![p] = r]
        /\ last' = [last EXCEPT ![p] = "published"]
        /\ held' = [held EXCEPT ![p] = FALSE]
        /\ decisions' \in 0..MaxDecisions
        /\ UNCHANGED <<launched, item, work, audits, owed, jobs>>
    BY DEF RollbackEffect
<1>2. TypeOK'
    BY <1>1, StatusFacts DEF IInv, TypeOK
<1>3. TakenOfflineIsQueued' /\ ItemsAreKnown' /\ CopiesWereCandidates'
    BY <1>1 DEF IInv, TakenOfflineIsQueued, ItemsAreKnown, CopiesWereCandidates
<1>4. HeldPlacesAreOff'
    BY <1>1 DEF IInv, TypeOK, HeldPlacesAreOff
<1> QED BY <1>2, <1>3, <1>4 DEF IInv

LEMMA WorkerKeepsIInv ==
    ASSUME IInv, NEW w \in Worker, WorkerEffect(w)
    PROVE  IInv'
<1> DEFINE p == work[w].place
<1>1. p \in Place /\ work[w] # NoJob
    BY JobFacts DEF WorkerEffect, IInv
<1>2. PICK r \in Row, to \in Statuses :
        /\ rows' = [rows EXCEPT ![p] = r]
        /\ last' = [last EXCEPT ![p] = to]
        /\ r.shown /\ ~rows[p].shown => work[w].kind \in Republishing
        /\ r.life # "active" \/ r.life = rows[p].life \/ work[w].kind = "policy"
        /\ r.pub # "published" \/ r.pub = rows[p].pub \/ work[w].kind \in Republishing
    BY DEF WorkerEffect, WriteEffect
<1>3. PICK i \in KnownItem \union {item[p]} : item' = [item EXCEPT ![p] = i]
    BY DEF WorkerEffect
<1>4. PICK o \in BOOLEAN : owed' = [owed EXCEPT ![p] = o] /\ (o => owed[p] \/ item'[p] \in KnownItem)
    BY DEF WorkerEffect
<1>5. /\ work' = [work EXCEPT ![w] = NoJob]
      /\ held' = IF work[w].kind \in Republishing THEN [held EXCEPT ![p] = FALSE] ELSE held
      /\ audits' \in [Place -> SUBSET BOOLEAN] /\ launched' \in BOOLEAN
      /\ UNCHANGED <<decisions, jobs>>
    BY DEF WorkerEffect
<1> HIDE DEF p
<1>6. TypeOK'
    BY <1>1, <1>2, <1>3, <1>4, <1>5 DEF IInv, TypeOK, KnownItem
<1>7. ItemsAreKnown'
    BY <1>1, <1>3 DEF IInv, TypeOK, ItemsAreKnown
<1>8. TakenOfflineIsQueued'
    BY <1>1, <1>3, <1>4, ItemFacts DEF IInv, TypeOK, TakenOfflineIsQueued
<1>9. HeldPlacesAreOff'
    <2>1. \A q \in Place : q # p => rows'[q] = rows[q] /\ held'[q] = held[q]
        BY <1>1, <1>2, <1>5 DEF IInv, TypeOK
    <2>2. CASE work[w].kind \in Republishing
        BY <1>1, <1>5, <2>1, <2>2 DEF IInv, TypeOK, HeldPlacesAreOff
    <2>3. CASE work[w].kind \notin Republishing
        <3>1. rows'[p] = r /\ held' = held /\ work[w].kind # "policy"
            BY <1>1, <1>2, <1>5, <2>3 DEF IInv, TypeOK, Republishing
        <3>2. Off(rows[p]) => Off(r)
            BY <1>2, <2>3, <3>1 DEF Off
        <3> QED BY <2>1, <3>1, <3>2 DEF IInv, HeldPlacesAreOff
    <2> QED BY <2>2, <2>3
<1>10. CopiesWereCandidates'
    BY <1>5 DEF IInv, TypeOK, CopiesWereCandidates
<1> QED BY <1>6, <1>7, <1>8, <1>9, <1>10 DEF IInv

LEMMA LoadKeepsIInv ==
    ASSUME IInv, NEW w \in Worker, Loads(w)
    PROVE  IInv'
<1>1. PICK kind \in Kinds, p \in Place : Load(w, kind, p)
    BY DEF Loads
<1>2. /\ work' \in [Worker -> Job \union {NoJob}] /\ jobs' \in 0..MaxJobs
      /\ work'[w] = [kind |-> kind, place |-> p, copy |-> rows[p]]
    BY <1>1, JobOfLoad DEF IInv
<1>3. Candidate(kind, rows[p]) /\ UNCHANGED <<rows, last, launched, item, audits, held, owed, decisions>>
    BY <1>1 DEF Load
<1>4. \A v \in Worker \ {w} : work'[v] = work[v]
    BY <1>1 DEF Load, IInv, TypeOK
<1>5. TypeOK'
    BY <1>2, <1>3 DEF IInv, TypeOK
<1>6. CopiesWereCandidates'
    BY <1>2, <1>3, <1>4 DEF IInv, CopiesWereCandidates, Candidate
<1> QED BY <1>3, <1>5, <1>6 DEF IInv, TakenOfflineIsQueued, ItemsAreKnown, HeldPlacesAreOff

LEMMA NextIInv == IInv /\ [Next]_vars => IInv'
<1> SUFFICES ASSUME IInv, [Next]_vars PROVE IInv'
    OBVIOUS
<1>1. CASE UNCHANGED vars
    BY <1>1 DEF vars, IInv, TypeOK, TakenOfflineIsQueued, HeldPlacesAreOff, CopiesWereCandidates, ItemsAreKnown
<1>2. ASSUME NEW w \in Worker, Gives(w) PROVE IInv'
    BY <1>2 DEF Gives, Abandon, Finished, Keep, IInv, TypeOK, TakenOfflineIsQueued, HeldPlacesAreOff,
                CopiesWereCandidates, ItemsAreKnown
<1> QED BY <1>1, <1>2, Shapes, DecisionKeepsIInv, RollbackKeepsIInv, CityKeepsIInv, WorkerKeepsIInv,
           LoadKeepsIInv

THEOREM Invariance == Spec => []IInv
<1> QED BY InitIInv, NextIInv, PTL DEF Spec

-----------------------------------------------------------------------------
(* The invariants. *)

(* The tables and the workers keep their types. *)
THEOREM TypeCorrect == Spec => []TypeOK
<1>1. IInv => TypeOK
    BY DEF IInv
<1> QED BY <1>1, Invariance, PTL

(* An import that takes a live place offline leaves an open review item.    *)
THEOREM OfflineIsQueued == Spec => []TakenOfflineIsQueued
<1>1. IInv => TakenOfflineIsQueued
    BY DEF IInv
<1> QED BY <1>1, Invariance, PTL

-----------------------------------------------------------------------------
(* What a step may do.  The worker that writes is the one in the shape.     *)

LEMMA TheWriter ==
    ASSUME TypeOK, NEW v \in Worker, NEW w \in Worker, NEW p \in Place,
           work' = [work EXCEPT ![v] = NoJob], work[v] # NoJob, Writes(w, p)
    PROVE  w = v /\ work[v].place = p
BY DEF Writes, TypeOK

LEMMA WriterWrites ==
    ASSUME TypeOK, NEW w \in Worker, WorkerEffect(w)
    PROVE  /\ Writes(w, work[w].place) /\ work[w].place \in Place /\ work[w] # NoJob
           /\ work' = [work EXCEPT ![w] = NoJob]
BY JobFacts DEF WorkerEffect, Writes, TypeOK

(* A worker that loads or gives up writes no place, and neither do workers  *)
(* when an administrator decides.                                           *)
LEMMA NobodyElseWrites ==
    ASSUME TypeOK, NEW p \in Place, NEW w \in Worker, Writes(w, p)
    PROVE  /\ UNCHANGED vars => FALSE
           /\ CityEffect => FALSE
           /\ \A q \in Place : DecisionEffect(q) \/ RollbackEffect(q) => FALSE
           /\ \A v \in Worker : Loads(v) => FALSE
<1>1. work[w] # NoJob /\ work'[w] = NoJob
    BY DEF Writes
<1>2. ASSUME NEW v \in Worker, Loads(v) PROVE FALSE
    <2>1. work[v] = NoJob /\ \E job : work' = [work EXCEPT ![v] = job]
        BY <1>2 DEF Loads, Load
    <2> QED BY <1>1, <2>1 DEF TypeOK
<1> QED BY <1>1, <1>2 DEF vars, CityEffect, DecisionEffect, RollbackEffect

(* Flags, status and history of a place come apart only in an unlocked      *)
(* write of a copy that is out of date.                                     *)
THEOREM TornByOvertaken == Spec => RowsTearOnlyWhenOvertaken
<1> DEFINE Torn(p) == ~Agrees(p)' /\ (Agrees(p) \/ last'[p] # last[p])
           Blame(p) == \E w \in Worker : Writes(w, p) /\ Overtaken(w) /\ work[w].kind \in Unguarded
           Step == \A p \in Place : Torn(p) => Blame(p)
<1>1. IInv /\ [Next]_vars => [Step]_vars
    <2> SUFFICES ASSUME IInv, [Next]_vars, NEW p \in Place, Torn(p) PROVE Blame(p)
        OBVIOUS
    <2>1. TypeOK
        BY DEF IInv
    <2>2. ASSUME rows'[p] = rows[p], last'[p] = last[p] PROVE FALSE
        BY <2>2 DEF Agrees
    <2>3. ASSUME Consistent(rows'[p]), last'[p] = rows'[p].pub PROVE FALSE
        BY <2>3 DEF Agrees, Consistent, StateFlags
    <2>4. ASSUME SameFlags(rows'[p], rows[p]), last'[p] = last[p] PROVE FALSE
        BY <2>4 DEF Agrees, Consistent, SameFlags, StateFlags
    <2>5. CASE UNCHANGED vars
        BY <2>2, <2>5 DEF vars
    <2>6. CASE \E w \in Worker : Loads(w) \/ Gives(w)
        BY <2>2, <2>6 DEF Loads, Load, Gives, Keep
    <2>7. CASE CityEffect
        BY <2>2, <2>3, <2>7 DEF CityEffect, Settled
    <2>8. ASSUME NEW q \in Place, DecisionEffect(q) PROVE FALSE
        <3>1. PICK r \in Row :
                /\ rows' = [rows EXCEPT ![q] = r]
                /\ \/ last' = [last EXCEPT ![q] = r.pub] /\ Settled(r, r.pub)
                   \/ last' = last /\ SameFlags(r, rows[q])
            BY <2>8 DEF DecisionEffect
        <3> QED BY <2>1, <2>2, <2>3, <2>4, <3>1 DEF Settled, TypeOK
    <2>10. ASSUME NEW q \in Place, RollbackEffect(q) PROVE FALSE
        <3>1. PICK r \in Row :
                /\ rows' = [rows EXCEPT ![q] = r]
                /\ last' = [last EXCEPT ![q] = "published"]
                /\ Consistent(r) /\ r.pub = "published"
            BY <2>10 DEF RollbackEffect
        <3> QED BY <2>1, <2>2, <2>3, <3>1 DEF TypeOK
    <2>9. ASSUME NEW w \in Worker, WorkerEffect(w) PROVE Blame(p)
        <3>1. work[w].place \in Place /\ Writes(w, work[w].place)
            BY <2>1, <2>9, WriterWrites
        <3>2. PICK r \in Row, to \in Statuses :
                /\ rows' = [rows EXCEPT ![work[w].place] = r]
                /\ last' = [last EXCEPT ![work[w].place] = to]
                /\ \/ to = last[work[w].place] /\ SameFlags(r, rows[work[w].place])
                   \/ Consistent(r) /\ r.pub = to
                   \/ Overtaken(w) /\ work[w].kind \in Unguarded
            BY <2>9 DEF WorkerEffect, WriteEffect
        <3>3. CASE p # work[w].place
            BY <2>1, <2>2, <3>2, <3>3 DEF TypeOK
        <3>4. CASE p = work[w].place
            BY <2>1, <2>3, <2>4, <3>1, <3>2, <3>4 DEF TypeOK
        <3> QED BY <3>3, <3>4
    <2> QED BY <2>5, <2>6, <2>7, <2>8, <2>9, <2>10, Shapes
<1> QED BY <1>1, Invariance, PTL DEF Spec, RowsTearOnlyWhenOvertaken

(* What makes a place visible passes the gates of publication, unless a     *)
(* policy run published it over a newer row or a repair, or the rollback of *)
(* one, brought it back.                                                    *)
THEOREM LiveMeansEligible == Spec => GoesLiveOnlyWhenEligible
<1> DEFINE Allowed(p) == \/ Eligible(rows'[p])
                         \/ \E w \in Worker : /\ Writes(w, p)
                                              /\ \/ work[w].kind = "policy" /\ Overtaken(w)
                                                 \/ work[w].kind \in {"restore", "repair"}
                         \/ rollback_publication_reconciliation(p)
           Step == \A p \in Place : ~rows[p].shown /\ rows'[p].shown => Allowed(p)
<1>1. IInv /\ [Next]_vars => [Step]_vars
    <2> SUFFICES ASSUME IInv, [Next]_vars, NEW p \in Place, ~rows[p].shown, rows'[p].shown PROVE Allowed(p)
        OBVIOUS
    <2>1. TypeOK /\ rows'[p] # rows[p]
        BY DEF IInv
    <2>2. CASE UNCHANGED vars \/ \E w \in Worker : Loads(w) \/ Gives(w)
        BY <2>1, <2>2 DEF vars, Loads, Load, Gives, Keep
    <2>3. CASE CityEffect
        BY <2>1, <2>3 DEF CityEffect, Settled
    <2>4. ASSUME NEW q \in Place, DecisionEffect(q) PROVE Allowed(p)
        <3>1. PICK r \in Row :
                /\ rows' = [rows EXCEPT ![q] = r]
                /\ Settled(r, r.pub) \/ SameFlags(r, rows[q])
            BY <2>4 DEF DecisionEffect
        <3> QED BY <2>1, <3>1 DEF Settled, SameFlags, TypeOK
    <2>5. ASSUME NEW w \in Worker, WorkerEffect(w) PROVE Allowed(p)
        <3>1. work[w].place \in Place /\ Writes(w, work[w].place)
            BY <2>1, <2>5, WriterWrites
        <3>2. PICK r \in Row :
                /\ rows' = [rows EXCEPT ![work[w].place] = r]
                /\ r.shown /\ ~rows[work[w].place].shown =>
                      /\ work[w].kind \in Republishing
                      /\ work[w].kind = "policy" => Overtaken(w) \/ Eligible(r)
            BY <2>5 DEF WorkerEffect, WriteEffect
        <3>3. p = work[w].place /\ rows'[p] = r
            BY <2>1, <3>1, <3>2 DEF TypeOK
        <3> QED BY <3>1, <3>2, <3>3 DEF Republishing
    <2>6. ASSUME NEW q \in Place, rollback_publication_reconciliation(q), RollbackEffect(q) PROVE Allowed(p)
        <3>1. PICK r \in Row : rows' = [rows EXCEPT ![q] = r]
            BY <2>6 DEF RollbackEffect
        <3> QED BY <2>1, <2>6, <3>1 DEF TypeOK
    <2> QED BY <2>2, <2>3, <2>4, <2>5, <2>6, Shapes
<1> QED BY <1>1, Invariance, PTL DEF Spec, GoesLiveOnlyWhenEligible

(* A worker takes a visible place offline only if it is one that hides, or  *)
(* over a copy that was not published or did not pass the gate of imports.  *)
THEOREM LiveStaysLive == Spec => LivePlacesStayLive
<1> DEFINE Step == \A p \in Place, w \in Worker :
                      Writes(w, p) /\ rows[p].shown /\ ~rows'[p].shown =>
                         \/ work[w].kind \in {"hide", "sweep", "cleanup"}
                         \/ ~Reconcilable(work[w].copy) \/ ~work[w].copy.sound
<1>1. IInv /\ [Next]_vars => [Step]_vars
    <2> SUFFICES ASSUME IInv, [Next]_vars, NEW p \in Place, NEW w \in Worker,
                        Writes(w, p), rows[p].shown, ~rows'[p].shown
                 PROVE  \/ work[w].kind \in {"hide", "sweep", "cleanup"}
                        \/ ~Reconcilable(work[w].copy) \/ ~work[w].copy.sound
        OBVIOUS
    <2>1. TypeOK /\ rows'[p] # rows[p]
        BY DEF IInv
    <2>2. PICK v \in Worker : WorkerEffect(v)
        BY <2>1, NobodyElseWrites, Shapes DEF Gives, Keep
    <2>3. w = v /\ work[w].place = p
        BY <2>1, <2>2, WriterWrites, TheWriter
    <2>4. PICK r \in Row :
            /\ rows' = [rows EXCEPT ![p] = r]
            /\ ~r.shown /\ rows[p].shown =>
                  work[w].kind \in {"hide", "sweep", "cleanup"} \/ ~Reconcilable(work[w].copy) \/ ~work[w].copy.sound
        BY <2>2, <2>3 DEF WorkerEffect, WriteEffect
    <2> QED BY <2>1, <2>4 DEF TypeOK
<1> QED BY <1>1, Invariance, PTL DEF Spec, LivePlacesStayLive

(* What readers see of a place is not overwritten by a worker, unless by an *)
(* address job or over a copy from before the publication.                  *)
THEOREM DataIsDecided == Spec => LiveDataIsDecided
<1> DEFINE Step == \A p \in Place, w \in Worker :
                      Writes(w, p) /\ rows[p].shown /\ rows'[p].data # rows[p].data =>
                         work[w].kind = "address" \/ ~work[w].copy.shown
<1>1. IInv /\ [Next]_vars => [Step]_vars
    <2> SUFFICES ASSUME IInv, [Next]_vars, NEW p \in Place, NEW w \in Worker,
                        Writes(w, p), rows[p].shown, rows'[p].data # rows[p].data
                 PROVE  work[w].kind = "address" \/ ~work[w].copy.shown
        OBVIOUS
    <2>1. TypeOK /\ rows'[p] # rows[p]
        BY DEF IInv
    <2>2. PICK v \in Worker : WorkerEffect(v)
        BY <2>1, NobodyElseWrites, Shapes DEF Gives, Keep
    <2>3. w = v /\ work[w].place = p
        BY <2>1, <2>2, WriterWrites, TheWriter
    <2>4. PICK r \in Row :
            /\ rows' = [rows EXCEPT ![p] = r]
            /\ r.data # rows[p].data => ~rows[p].shown \/ work[w].kind = "address" \/ ~work[w].copy.shown
        BY <2>2, <2>3 DEF WorkerEffect, WriteEffect
    <2> QED BY <2>1, <2>4 DEF TypeOK
<1> QED BY <1>1, Invariance, PTL DEF Spec, LiveDataIsDecided

(* A place hidden in an emergency comes back by a decision about it, by a   *)
(* policy run, by the rollback of a repair, or by a repair that had read it *)
(* before.                                                                  *)
THEOREM HideHolds == Spec => EmergencyHideHolds
<1> DEFINE Back(w, p) == /\ Writes(w, p) /\ work[w].kind \in Republishing
                         /\ work[w].kind # "policy" => Overtaken(w)
           Allowed(p) == \/ Decide(p) \/ rollback_publication_reconciliation(p)
                         \/ \E w \in Worker : Back(w, p)
           Step == \A p \in Place : held[p] /\ rows'[p].shown => Allowed(p)
<1>1. IInv /\ [Next]_vars => [Step]_vars
    <2> SUFFICES ASSUME IInv, [Next]_vars, NEW p \in Place, held[p], rows'[p].shown PROVE Allowed(p)
        OBVIOUS
    <2>1. TypeOK /\ CopiesWereCandidates /\ Off(rows[p]) /\ ~rows[p].shown /\ rows[p].life # "active"
        BY DEF IInv, HeldPlacesAreOff, Off
    <2>2. rows'[p] # rows[p]
        BY <2>1
    <2>3. CASE UNCHANGED vars \/ \E w \in Worker : Loads(w) \/ Gives(w)
        BY <2>2, <2>3 DEF vars, Loads, Load, Gives, Keep
    <2>4. CASE CityEffect
        BY <2>1, <2>2, <2>4 DEF CityEffect, Settled, Eligible
    <2>5. ASSUME NEW q \in Place, Decide(q), DecisionEffect(q) PROVE Decide(p)
        <3>1. PICK r \in Row : rows' = [rows EXCEPT ![q] = r]
            BY <2>5 DEF DecisionEffect
        <3> QED BY <2>1, <2>2, <2>5, <3>1 DEF TypeOK
    <2>6. ASSUME NEW w \in Worker, WorkerEffect(w) PROVE Back(w, p)
        <3>1. work[w].place \in Place /\ Writes(w, work[w].place)
            BY <2>1, <2>6, WriterWrites
        <3>2. PICK r \in Row :
                /\ rows' = [rows EXCEPT ![work[w].place] = r]
                /\ r.shown /\ ~rows[work[w].place].shown => work[w].kind \in Republishing
            BY <2>6 DEF WorkerEffect, WriteEffect
        <3>3. p = work[w].place /\ work[w].kind \in Republishing
            BY <2>1, <2>2, <3>1, <3>2 DEF TypeOK
        <3>4. work[w].kind # "policy" => Overtaken(w)
            BY <2>1, <3>1, <3>3, WriterWrites, <2>6 DEF CopiesWereCandidates, Republishing, Overtaken, Off
        <3> QED BY <3>1, <3>3, <3>4
    <2>7. ASSUME NEW q \in Place, rollback_publication_reconciliation(q), RollbackEffect(q)
          PROVE  rollback_publication_reconciliation(p)
        <3>1. PICK r \in Row : rows' = [rows EXCEPT ![q] = r]
            BY <2>7 DEF RollbackEffect
        <3> QED BY <2>1, <2>2, <2>7, <3>1 DEF TypeOK
    <2> QED BY <2>3, <2>4, <2>5, <2>6, <2>7, Shapes
<1> QED BY <1>1, Invariance, PTL DEF Spec, EmergencyHideHolds
=============================================================================
