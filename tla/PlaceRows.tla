------------------------------ MODULE PlaceRows ------------------------------
(***************************************************************************)
(* The publication part of a row of places and the functions that compute  *)
(* its next value: the publication state writer, the eligibility rule and  *)
(* the flush of a session.  The code writes is_published,                  *)
(* is_visible_in_catalog and is_searchable together; they differ only in   *)
(* rows older than the writer, so the first two are one field, shown, and  *)
(* the third is another, found.  Reason codes, comments and details are    *)
(* left out, and with them the refusal of a transition that would change   *)
(* none of them.                                                           *)
(***************************************************************************)
CONSTANT Data  \* values of the ordinary columns: title, address, hours...

\* publication_status
Backlog == {"draft", "auto_backlog", "low_confidence"}
InQueue == Backlog \union {"needs_review", "needs_manual_review", "deferred"}
Withdrawn == {"hidden", "archived", "unpublished", "rejected"}
Statuses == {"published"} \union InQueue \union Withdrawn

\* status: the lifecycle of the place itself; closed stands for temporarily_closed,
\* removed_from_source and archived too
Lives == {"active", "draft", "needs_review", "hidden", "inactive", "rejected", "closed"}

Row ==
    [pub    : Statuses,
     active : BOOLEAN,  \* is_active
     shown  : BOOLEAN,
     found  : BOOLEAN,
     route  : BOOLEAN,  \* is_route_eligible
     life   : Lives,
     fit    : BOOLEAN,  \* category, coordinates, title and spam marks allow publication
     sound  : BOOLEAN,  \* confidence, coordinates and category pass the gate of imports
     data   : Data]

-----------------------------------------------------------------------------
(* transition_place_publication: the flags follow the status, and the route *)
(* verdict of the caller counts only for a published place.                 *)
StateFlags(to) ==
    [active |-> to \notin Withdrawn, shown |-> to = "published", found |-> to = "published"]

\* Faulty variant: leaving publication forgets the route flag.
TransitionKeepsRoute(row, to, route) ==
    [row EXCEPT !.pub = to,
                !.active = StateFlags(to).active,
                !.shown = StateFlags(to).shown,
                !.found = StateFlags(to).found,
                !.route = IF to = "published" THEN route ELSE @]

Transition(row, to, route) ==
    [row EXCEPT !.pub = to,
                !.active = StateFlags(to).active,
                !.shown = StateFlags(to).shown,
                !.found = StateFlags(to).found,
                !.route = to = "published" /\ route]

\* reconcile_published_place_state
Reconcilable(row) == row.pub = "published" /\ row.shown
Reconciled(row, route) == Transition(row, "published", route)

\* place_publication_eligibility
Eligible(row) == row.life = "active" /\ row.fit

\* What readers of the catalogue and the route builder rely on.
Consistent(row) ==
    /\ row.active = StateFlags(row.pub).active
    /\ row.shown = StateFlags(row.pub).shown
    /\ row.found = StateFlags(row.pub).found
    /\ row.route => row.shown

(* The flush of a session that loaded copy and changed it into new: only    *)
(* the columns that differ from the copy are in the UPDATE.                 *)
Flushed(row, copy, new) ==
    [f \in DOMAIN row |-> IF new[f] = copy[f] THEN row[f] ELSE new[f]]
=============================================================================
