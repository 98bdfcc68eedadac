-------------------------------- MODULE Places --------------------------------
(***************************************************************************)
(* The publication of the places of one city.  Administrators decide under *)
(* a row lock; imports, enrichment, policy runs and reconciliation are     *)
(* workers that load a place, decide on their copy and write later, most   *)
(* of them without a lock.  A worker's load and its write are two actions. *)
(***************************************************************************)
EXTENDS PlaceRows, Naturals

CONSTANTS
    Place, Worker,
    MaxDecisions,  \* bound: decisions of administrators
    MaxJobs        \* bound: loads of workers

ASSUME PlacesAssumption == MaxDecisions \in Nat /\ MaxJobs \in Nat

ImportKinds == {"mark", "address", "hide", "apply", "propose", "pipeline"}
RunKinds == {"policy", "route", "normalize", "restore"}
ScriptKinds == {"sweep", "cleanup", "repair", "relaunch"}
Kinds == ImportKinds \union RunKinds \union ScriptKinds

NoJob == [kind |-> "none"]
NoItem == [kind |-> "none"]
None == [kind |-> "none"]
Snapshot == [kind : {"before_public"}, pub : Statuses, shown : BOOLEAN, life : Lives]
Job == [kind : Kinds, place : Place, copy : Row]

(* The open review item of a place whose field_name is place_change.        *)
Item ==
    [kind    : {"place_change"},
     applied : BOOLEAN,       \* FALSE only in the payload of propose_place_change
     private : BOOLEAN,       \* decision = "hidden"
     changes : {"data", "status", "flags"},
     before  : Data, after : Data,
     was     : Snapshot \union {None}]  \* before_public

VARIABLES
    rows,      \* the table places
    last,      \* to_status of the latest place_publication_transitions row
    launched,  \* City.is_active and launch_status = "published"
    item,      \* review_queue_items
    work,      \* what each worker loaded
    audits,    \* is_route_eligible in the old_value of the place's restore audit rows
    held,      \* history: hidden in an emergency and not brought back since
    owed,      \* history: its source took it offline, no later decision about it
    decisions, jobs  \* bounds

bounds == <<decisions, jobs>>
history == <<held, owed>>
vars == <<rows, last, launched, item, work, audits, held, owed, decisions, jobs>>

TypeOK ==
    /\ rows \in [Place -> Row]
    /\ last \in [Place -> Statuses]
    /\ launched \in BOOLEAN
    /\ item \in [Place -> Item \union {NoItem}]
    /\ work \in [Worker -> Job \union {NoJob}]
    /\ audits \in [Place -> SUBSET BOOLEAN]
    /\ held \in [Place -> BOOLEAN] /\ owed \in [Place -> BOOLEAN]
    /\ decisions \in 0..MaxDecisions /\ jobs \in 0..MaxJobs

\* A place comes from an import or from the administrator's form.
Fresh ==
    {r \in Row : /\ r.pub \in {"needs_review", "draft"} /\ r.life = "active"
                 /\ r.active /\ ~r.shown /\ ~r.found /\ ~r.route}

\* A row older than the single writer: each flag a column of its own, true by default.
Legacy ==
    {r \in Row : /\ r.pub = "published" /\ r.life = "active"
                 /\ r.active /\ r.shown # r.found}

Init ==
    /\ rows \in [Place -> Fresh \union Legacy]
    /\ last = [p \in Place |-> rows[p].pub]
    /\ launched = FALSE
    /\ item = [p \in Place |-> NoItem]
    /\ work = [w \in Worker |-> NoJob]
    /\ audits = [p \in Place |-> {}]
    /\ held = [p \in Place |-> FALSE] /\ owed = [p \in Place |-> FALSE]
    /\ decisions = 0 /\ jobs = 0

-----------------------------------------------------------------------------
(* Decisions of administrators, each one transaction that locks the row. *)

Deciding ==
    /\ decisions < MaxDecisions
    /\ decisions' = decisions + 1

\* The bookkeeping of a decision about one place.
About(p) ==
    /\ Deciding
    /\ held' = [held EXCEPT ![p] = FALSE]
    /\ owed' = [owed EXCEPT ![p] = FALSE]
    /\ UNCHANGED <<work, audits, jobs>>

Write(p, row) == rows' = [rows EXCEPT ![p] = row]
Logged(p, to) == last' = [last EXCEPT ![p] = to]

\* One transition of one place, its life kept or set by the caller.
Move(p, to, life) ==
    /\ Write(p, [Transition(rows[p], to, FALSE) EXCEPT !.life = life])
    /\ Logged(p, to)

\* Faulty variant: the gates are not asked again under the lock.
PublishUnchecked(p, row) ==
    /\ \E route \in BOOLEAN : Write(p, Transition(row, "published", route))
    /\ Logged(p, "published")

(* apply_admin_city_publication_place: an ineligible place raises.          *)
Publish(p, row) ==
    /\ Eligible(row)
    /\ \E route \in BOOLEAN : Write(p, Transition(row, "published", route))
    /\ Logged(p, "published")

publish_place(p) ==
    /\ About(p)
    /\ Publish(p, rows[p])
    /\ UNCHANGED <<launched, item>>

\* The desktop, mobile and bulk endpoints that withdraw a place.
unpublish_place(p) ==
    /\ About(p)
    /\ Move(p, "unpublished", rows[p].life)
    /\ UNCHANGED <<launched, item>>

reject_place(p) ==
    /\ About(p)
    /\ \E life \in {"inactive", rows[p].life} : Move(p, "rejected", life)
    /\ UNCHANGED <<launched, item>>

move_back_to_queue(p) ==
    /\ About(p)
    /\ Move(p, "needs_review", rows[p].life)
    /\ UNCHANGED <<launched, item>>

delete_place(p) ==
    /\ About(p)
    /\ Move(p, "hidden", rows[p].life)
    /\ UNCHANGED <<launched, item>>

\* Faulty variant: the lifecycle of the place is left alone.
HideFlagsOnly(p) ==
    /\ Deciding
    /\ Move(p, "hidden", rows[p].life)
    /\ held' = [held EXCEPT ![p] = TRUE]
    /\ owed' = [owed EXCEPT ![p] = FALSE]
    /\ UNCHANGED <<launched, item, work, audits, jobs>>

(* A replay of the idempotency key finds the audit row and changes nothing. *)
emergency_hide_place(p) ==
    /\ Deciding
    /\ Move(p, "hidden", "hidden")
    /\ held' = [held EXCEPT ![p] = TRUE]
    /\ owed' = [owed EXCEPT ![p] = FALSE]
    /\ UNCHANGED <<launched, item, work, audits, jobs>>

(* What a verification says of the lifecycle and of the publication.        *)
Consequence(action) ==
    CASE action \in {"not_found"} -> <<"hidden", "needs_review">>
      [] action = "closed" -> <<"hidden", "closed">>
      [] action = "moved" -> <<"needs_review", "needs_review">>
      [] action = "duplicate" -> <<"rejected", "rejected">>

VerifyExists(p) ==
    /\ About(p)
    /\ Write(p, [rows[p] EXCEPT !.life = IF @ \in {"draft", "needs_review"} THEN "active" ELSE @])
    /\ UNCHANGED <<last, launched, item>>

VerifyGone(p) ==
    /\ About(p)
    /\ \E action \in {"not_found", "closed", "moved", "duplicate"} :
          Move(p, Consequence(action)[1], Consequence(action)[2])
    /\ UNCHANGED <<launched, item>>

(* reconcile_published_place, the last step of the workflow of an update.   *)
Reconcile(p, row) ==
    IF ~Reconcilable(row)
    THEN Write(p, row) /\ UNCHANGED last
    ELSE IF Eligible(row)
    THEN Publish(p, row)
    ELSE Write(p, Transition(row, "needs_review", FALSE)) /\ Logged(p, "needs_review")

\* A change of data starts the workflow, one of the bare status does not.
update_place(p) ==
    /\ About(p)
    /\ \/ \E data \in Data, fit \in BOOLEAN, sound \in BOOLEAN :
             Reconcile(p, [rows[p] EXCEPT !.data = data, !.fit = fit, !.sound = sound])
       \/ \E life \in {"active", "closed"} \ {rows[p].life} :
             Write(p, [rows[p] EXCEPT !.life = life]) /\ UNCHANGED last
    /\ UNCHANGED <<launched, item>>

Approve(p) ==
    LET change == item[p]
        row == [rows[p] EXCEPT !.data = IF change.applied THEN @ ELSE change.after]
        live == [row EXCEPT !.life = "active"]
    IN  /\ change # NoItem
        /\ About(p)
        /\ \/ /\ change.private
              /\ Write(p, Transition(row, "needs_review", FALSE)) /\ Logged(p, "needs_review")
           \/ /\ ~change.private /\ launched /\ row.fit
              /\ Publish(p, live)
           \/ /\ ~change.private /\ launched /\ ~row.fit
              /\ Write(p, Transition(live, "needs_review", FALSE)) /\ Logged(p, "needs_review")
           \/ /\ ~change.private /\ ~launched
              /\ Write(p, Transition(live, "deferred", FALSE)) /\ Logged(p, "deferred")
        /\ item' = [item EXCEPT ![p] = NoItem]
        /\ UNCHANGED launched

(* The values of before are written whether or not the change was applied.  *)
Restored(row, change) ==
    [row EXCEPT !.data = IF change.changes = "data" THEN change.before ELSE @,
                !.life = IF change.changes = "status" THEN change.was.life ELSE @]

RestoreTarget(was) == IF was.pub \in {"published", "archived"} THEN "draft" ELSE was.pub

Reject(p) ==
    LET change == item[p]
        was == change.was
        row == Restored(rows[p], change)
    IN  /\ change # NoItem
        /\ About(p)
        /\ \/ /\ was = None
              /\ Write(p, row) /\ UNCHANGED last
           \/ /\ was # None /\ was.shown /\ was.pub = "published"
              /\ Publish(p, [row EXCEPT !.life = was.life])
           \/ /\ was # None /\ ~(was.shown /\ was.pub = "published")
              /\ Write(p, Transition(row, RestoreTarget(was), FALSE))
              /\ Logged(p, RestoreTarget(was))
        /\ item' = [item EXCEPT ![p] = NoItem]
        /\ UNCHANGED launched

(* The city and all its places in one transaction.                          *)
publish_city ==
    /\ Deciding
    /\ \E p \in Place : Eligible(rows[p])
    /\ \E route \in [Place -> BOOLEAN] :
          rows' = [p \in Place |->
                      IF Eligible(rows[p]) THEN Transition(rows[p], "published", route[p])
                      ELSE Transition(rows[p], "needs_review", FALSE)]
    /\ last' = [p \in Place |-> rows'[p].pub]
    /\ launched' = TRUE
    /\ UNCHANGED <<item, work, audits, held, owed, jobs>>

unpublish_city ==
    /\ Deciding
    /\ rows' = [p \in Place |-> Transition(rows[p], "unpublished", FALSE)]
    /\ last' = [p \in Place |-> "unpublished"]
    /\ launched' = FALSE
    /\ UNCHANGED <<item, work, audits, held, owed, jobs>>

(* Trust is not modelled: any of the backlog may be trusted.  One candidate *)
(* that is not eligible rolls the whole batch back.                         *)
auto_publish_trusted_places ==
    /\ Deciding
    /\ \E trusted \in (SUBSET {p \in Place : rows[p].pub \in Backlog /\ rows[p].fit
                                            /\ rows[p].life \notin {"closed", "inactive"}}) \ {{}} :
          /\ \A p \in trusted : Eligible(rows[p])
          /\ \E route \in [trusted -> BOOLEAN] :
                rows' = [p \in Place |-> IF p \in trusted
                                         THEN Transition(rows[p], "published", route[p])
                                         ELSE rows[p]]
          /\ last' = [p \in Place |-> IF p \in trusted THEN "published" ELSE last[p]]
    /\ UNCHANGED <<launched, item, work, audits, held, owed, jobs>>

(* The rollback of a restored place.  The audit row says how the place was  *)
(* before; the rollback asks no gate, looks at nothing that happened since, *)
(* and can be repeated.                                                     *)
rollback_publication_reconciliation(p) ==
    /\ Deciding
    /\ \E route \in audits[p] : Write(p, Transition(rows[p], "published", route))
    /\ Logged(p, "published")
    /\ held' = [held EXCEPT ![p] = FALSE]
    /\ UNCHANGED <<launched, item, work, audits, owed, jobs>>

-----------------------------------------------------------------------------
(* Workers. *)

\* The candidates of the runs and scripts that choose the places they write.
Candidate(kind, row) ==
    /\ kind = "policy" => ~row.shown /\ row.active /\ row.fit /\ row.life # "closed" /\ launched
    /\ kind = "route" => row.shown
    /\ kind = "normalize" => row.pub = "needs_review"
    /\ kind = "restore" => row.pub = "published" /\ row.shown # row.found
    /\ kind = "sweep" => row.active
    /\ kind = "repair" => row.pub = "published"
    /\ kind = "relaunch" => row.shown /\ ~launched

Load(w, kind, p) ==
    /\ work[w] = NoJob /\ jobs < MaxJobs
    /\ Candidate(kind, rows[p])
    /\ work' = [work EXCEPT ![w] = [kind |-> kind, place |-> p, copy |-> rows[p]]]
    /\ jobs' = jobs + 1
    /\ UNCHANGED <<rows, last, launched, item, audits, held, owed, decisions>>

Runs(w, kind) == work[w] # NoJob /\ work[w].kind = kind

Finished(w) ==
    /\ work' = [work EXCEPT ![w] = NoJob]
    /\ UNCHANGED <<decisions, jobs>>

(* A transition without a lock: the copy goes through the writer, the       *)
(* differences are flushed, and the history names the target in any case.   *)
Unlocked(w, to, new) ==
    LET j == work[w] IN
    /\ Write(j.place, Flushed(rows[j.place], j.copy, Transition(new, to, FALSE)))
    /\ Logged(j.place, to)

\* A write of ordinary columns without a lock.
FlushData(w, new) ==
    Write(work[w].place, Flushed(rows[work[w].place], work[w].copy, new)) /\ UNCHANGED last

Keep == UNCHANGED <<rows, last>>

\* was_public, or is_published: the copy says that readers see the place.
\* Faulty variant: nobody asks.
NeverWaits(copy) == FALSE

Waits(copy) == copy.shown

\* The address jobs write the address before they ask whether the place is live.
mark_place_for_review(w) ==
    LET copy == work[w].copy IN
    /\ Runs(w, "mark") \/ Runs(w, "address")
    /\ \E data \in IF work[w].kind = "address" THEN Data ELSE {copy.data} :
          LET new == [copy EXCEPT !.data = data] IN
          IF Waits(copy) THEN FlushData(w, new)
          ELSE Unlocked(w, "needs_review", [new EXCEPT !.life = "needs_review"])
    /\ Finished(w)
    /\ UNCHANGED <<launched, item, audits, held, owed>>

\* ensure_review_item: an open item of the field is reused.
\* Faulty variant: only an open item is updated.
EnqueuedAgain(p, entry) ==
    item' = [item EXCEPT ![p] = IF @ = NoItem THEN NoItem ELSE entry]

Enqueued(p, entry) == item' = [item EXCEPT ![p] = entry]

BeforePublic(copy) == [kind |-> "before_public", pub |-> copy.pub, shown |-> copy.shown, life |-> copy.life]

HideTarget(life) == IF life = "draft" THEN "draft" ELSE "hidden"

\* The change set names the status if it changed, or if nothing else did.
HideChanges(copy, life) ==
    IF life = copy.life /\ Transition(copy, HideTarget(life), FALSE) # copy THEN "flags" ELSE "status"

(* The place vanished from its source or was rejected there.  An item that  *)
(* is still open gets the new payload.                                      *)
hide_place(w) ==
    LET j == work[w]
        p == j.place
    IN  /\ Runs(w, "hide")
        /\ \E life \in {"closed", "draft"} :
              /\ Unlocked(w, HideTarget(life), [j.copy EXCEPT !.life = life])
              /\ Enqueued(p, [kind |-> "place_change", applied |-> TRUE, private |-> TRUE,
                              changes |-> HideChanges(j.copy, life), before |-> j.copy.data, after |-> j.copy.data,
                              was |-> BeforePublic(j.copy)])
        /\ owed' = [owed EXCEPT ![p] = @ \/ rows[p].shown]
        /\ Finished(w)
        /\ UNCHANGED <<launched, audits, held>>

(* A later import brings other values: they wait while the place is live.   *)
apply_accepted_import_to_place(w) ==
    LET j == work[w] IN
    /\ Runs(w, "apply")
    /\ \E data \in Data \ {j.copy.data} :
          /\ IF Waits(j.copy) THEN Keep
             ELSE Unlocked(w, "needs_review",
                           [j.copy EXCEPT !.data = data, !.life = "needs_review"])
          /\ Enqueued(j.place, [kind |-> "place_change", applied |-> TRUE, private |-> FALSE,
                                changes |-> "data", before |-> j.copy.data, after |-> data,
                                was |-> BeforePublic(j.copy)])
    /\ Finished(w)
    /\ UNCHANGED <<launched, audits, held, owed>>

propose_place_change(w) ==
    LET j == work[w] IN
    /\ Runs(w, "propose")
    /\ \E data \in Data \ {j.copy.data} :
          IF Waits(j.copy)
          THEN /\ Enqueued(j.place, [kind |-> "place_change", applied |-> FALSE, private |-> FALSE,
                                     changes |-> "data", before |-> j.copy.data, after |-> data,
                                     was |-> None])
               /\ Keep
          ELSE FlushData(w, [j.copy EXCEPT !.data = data]) /\ UNCHANGED item
    /\ Finished(w)
    /\ UNCHANGED <<launched, audits, held, owed>>

-----------------------------------------------------------------------------
(* The publication step of an import: the verdict comes from the copy and   *)
(* is applied under the lock, where it may only become a rejection.         *)
\* Faulty variant: a place that is already public is judged like any other.
VerdictOfAny(row) == IF ~row.sound THEN {"reject", "review"} ELSE {"review"}

(* evaluate_canonical_publication, without evidence.  The gate of imports   *)
(* comes first, for a public place too; what may be published is not asked. *)
Verdict(row) ==
    IF ~row.sound THEN {"reject", "review"}
    ELSE IF row.shown THEN {"preserve_public"}
    ELSE {"review"}

apply_pipeline_publication(w) ==
    LET j == work[w]
        p == j.place
    IN  /\ Runs(w, "pipeline")
        /\ \E verdict \in Verdict(j.copy) :
              \/ verdict = "preserve_public" /\ Keep
              \/ /\ verdict # "preserve_public"
                 /\ \E outcome \in {verdict} \union (IF rows[p].sound THEN {} ELSE {"reject"}) :
                       Move(p, IF outcome = "reject" THEN "archived" ELSE "needs_review", rows[p].life)
        /\ Finished(w)
        /\ UNCHANGED <<launched, item, audits, held, owed>>

(* The policy run saves status = active from its copy, then publishes the   *)
(* locked row without looking at it again.                                  *)
apply_publication_decision(w) ==
    LET j == work[w]
        p == j.place
    IN  /\ Runs(w, "policy")
        /\ Write(p, Transition(Flushed(rows[p], j.copy, [j.copy EXCEPT !.life = "active"]),
                               "published", TRUE))
        /\ Logged(p, "published")
        /\ held' = [held EXCEPT ![p] = FALSE]
        /\ Finished(w)
        /\ UNCHANGED <<launched, item, audits, owed>>

(* A published place with only some of the flags gets them all, without a   *)
(* gate; the flags were read before the lock.                               *)
apply_publication_reconciliation(w) ==
    LET j == work[w]
        p == j.place
    IN  /\ Runs(w, "restore")
        /\ Write(p, Transition(rows[p], "published", TRUE))
        /\ Logged(p, "published")
        /\ audits' = [audits EXCEPT ![p] = @ \union {j.copy.route}]
        /\ held' = [held EXCEPT ![p] = FALSE]
        /\ Finished(w)
        /\ UNCHANGED <<launched, item, owed>>

\* A place that is no longer published raises and is left alone.
reconcile_route(w) ==
    LET p == work[w].place IN
    /\ Runs(w, "route")
    /\ IF Reconcilable(rows[p])
       THEN /\ \E route \in BOOLEAN : Write(p, Reconciled(rows[p], route))
            /\ Logged(p, "published")
       ELSE Keep
    /\ Finished(w)
    /\ UNCHANGED <<launched, item, audits, held, owed>>

\* normalize_manual_review_backlog: the status was read before the lock.
normalize_backlog(w) ==
    /\ Runs(w, "normalize")
    /\ Move(work[w].place, "auto_backlog", rows[work[w].place].life)
    /\ Finished(w)
    /\ UNCHANGED <<launched, item, audits, held, owed>>

-----------------------------------------------------------------------------
(* Scripts and sweeps over the places of a city. *)

(* _hide_bad_existing_places, at the end of a scope, and the cleanup of the *)
(* places that are not public.  Neither leaves a review item.               *)
hide_bad_existing_places(w) ==
    LET copy == work[w].copy IN
    /\ Runs(w, "sweep")
    /\ \E life \in IF copy.shown THEN {"draft"} ELSE {"draft", "closed"} :
          Unlocked(w, HideTarget(life), [copy EXCEPT !.life = life])
    /\ Finished(w)
    /\ UNCHANGED <<launched, item, audits, held, owed>>

\* cleanup_bad_places.py saves status = hidden from its copy, then locks the row.
cleanup_bad_places(w) ==
    LET j == work[w]
        p == j.place
    IN  /\ Runs(w, "cleanup")
        /\ Write(p, Transition(Flushed(rows[p], j.copy, [j.copy EXCEPT !.life = "hidden"]),
                               "hidden", FALSE))
        /\ Logged(p, "hidden")
        /\ Finished(w)
        /\ UNCHANGED <<launched, item, audits, held, owed>>

(* repair_publication_states.py --repair-place-flags: whatever the plan     *)
(* found published is published again under the lock, with the planned      *)
(* route flag and without another look.                                     *)
repair_publication_states(w) ==
    LET j == work[w]
        p == j.place
    IN  /\ Runs(w, "repair")
        /\ \E route \in BOOLEAN :
              /\ j.copy.active /\ j.copy.shown /\ j.copy.found => route # j.copy.route
              /\ Write(p, Transition(rows[p], "published", route))
        /\ Logged(p, "published")
        /\ held' = [held EXCEPT ![p] = FALSE]
        /\ Finished(w)
        /\ UNCHANGED <<launched, item, audits, owed>>

\* repair_publication_states.py --restore-cities
restore_cities(w) ==
    /\ Runs(w, "relaunch")
    /\ launched' = TRUE
    /\ Keep
    /\ Finished(w)
    /\ UNCHANGED <<item, audits, held, owed>>

\* A session that fails or a process that dies writes nothing.
Abandon(w) ==
    /\ work[w] # NoJob
    /\ Finished(w)
    /\ Keep
    /\ UNCHANGED <<launched, item, audits, held, owed>>

-----------------------------------------------------------------------------
Decide(p) ==
    \/ publish_place(p) \/ unpublish_place(p) \/ reject_place(p) \/ move_back_to_queue(p)
    \/ delete_place(p) \/ emergency_hide_place(p) \/ VerifyExists(p) \/ VerifyGone(p)
    \/ update_place(p) \/ Approve(p) \/ Reject(p)

DecideCity == publish_city \/ unpublish_city \/ auto_publish_trusted_places

ImportStep(w) ==
    \/ mark_place_for_review(w) \/ hide_place(w) \/ apply_accepted_import_to_place(w)
    \/ propose_place_change(w) \/ apply_pipeline_publication(w)

RunStep(w) ==
    \/ apply_publication_decision(w) \/ apply_publication_reconciliation(w)
    \/ reconcile_route(w) \/ normalize_backlog(w)

ScriptStep(w) ==
    \/ hide_bad_existing_places(w) \/ cleanup_bad_places(w)
    \/ repair_publication_states(w) \/ restore_cities(w)

Next ==
    \/ \E p \in Place : Decide(p) \/ rollback_publication_reconciliation(p)
    \/ DecideCity
    \/ \E w \in Worker : \/ \E kind \in Kinds, p \in Place : Load(w, kind, p)
                         \/ ImportStep(w)
                         \/ RunStep(w)
                         \/ ScriptStep(w)
                         \/ Abandon(w)

Spec == Init /\ [][Next]_vars

-----------------------------------------------------------------------------
(* Properties. *)

Agrees(p) == Consistent(rows[p]) /\ last[p] = rows[p].pub

\* The step in which worker w writes place p, and whether its copy is old.
Writes(w, p) == work[w] # NoJob /\ work[w].place = p /\ work'[w] = NoJob
Overtaken(w) == work[w].copy # rows[work[w].place]
Unguarded == {"mark", "address", "hide", "apply", "propose", "sweep"}
Republishing == {"policy", "restore", "repair"}

(* Flags, status and transition history of a place come to disagree only in *)
(* a write without a lock by a worker whose copy was out of date, and each  *)
(* other transition of the place leaves them in agreement again.            *)
RowsTearOnlyWhenOvertaken ==
    [][\A p \in Place :
          ~Agrees(p)' /\ (Agrees(p) \/ last'[p] # last[p]) =>
             \E w \in Worker : Writes(w, p) /\ Overtaken(w) /\ work[w].kind \in Unguarded]_vars

(* Whatever makes a place visible, it passes the gates of publication at    *)
(* that moment.  The exceptions are the writers that do not ask: a policy   *)
(* run over a newer row, the two repairs of published places, and the       *)
(* rollback of such a repair.                                               *)
GoesLiveOnlyWhenEligible ==
    [][\A p \in Place :
          ~rows[p].shown /\ rows'[p].shown =>
             \/ Eligible(rows'[p])
             \/ \E w \in Worker : /\ Writes(w, p)
                                  /\ \/ work[w].kind = "policy" /\ Overtaken(w)
                                     \/ work[w].kind \in {"restore", "repair"}
             \/ rollback_publication_reconciliation(p)]_vars

(* A worker takes a visible place offline only if it is one that hides what *)
(* its source lost or a sweep dislikes, or if its copy is from before the   *)
(* publication or did not pass the gate of imports.                         *)
LivePlacesStayLive ==
    [][\A p \in Place, w \in Worker :
          Writes(w, p) /\ rows[p].shown /\ ~rows'[p].shown =>
             \/ work[w].kind \in {"hide", "sweep", "cleanup"}
             \/ ~Reconcilable(work[w].copy) \/ ~work[w].copy.sound]_vars

(* propose_place_change: a worker does not overwrite what readers see.  The *)
(* exceptions are the address jobs and copies from before the publication.  *)
LiveDataIsDecided ==
    [][\A p \in Place, w \in Worker :
          Writes(w, p) /\ rows[p].shown /\ rows'[p].data # rows[p].data =>
             work[w].kind = "address" \/ ~work[w].copy.shown]_vars

(* A place hidden in an emergency does not come back with its city, with a  *)
(* batch or by an import.  It takes a decision about it, a policy run, the  *)
(* rollback of a repair, or a repair whose copy is from before the hide.    *)
EmergencyHideHolds ==
    [][\A p \in Place :
          held[p] /\ rows'[p].shown =>
             \/ Decide(p) \/ rollback_publication_reconciliation(p)
             \/ \E w \in Worker : /\ Writes(w, p) /\ work[w].kind \in Republishing
                                  /\ work[w].kind # "policy" => Overtaken(w)]_vars

(* A live place whose source lost or rejected it has an open review item    *)
(* until somebody decides about it.  The sweeps of bad places leave none.   *)
TakenOfflineIsQueued == \A p \in Place : owed[p] => item[p] # NoItem
=============================================================================
