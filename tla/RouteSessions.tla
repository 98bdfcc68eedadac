----------------------------- MODULE RouteSessions -----------------------------
(***************************************************************************)
(* Walks along a route.  Two services write the same rows: the one of user *)
(* routes (POST /user-routes/sessions/../action) and the one of editorial  *)
(* routes (/route-sessions/..), and a token opens both.  Every request     *)
(* locks the session row before it reads it and commits before it answers: *)
(* one request is one action.  Refused requests change nothing and are     *)
(* guards.                                                                 *)
(***************************************************************************)
EXTENDS Naturals, Sequences

CONSTANTS
    Lists,       \* ordered lists of places a session can be started with
    PointCount,  \* places in each of them
    MaxSessions  \* bound: sessions ever started

ASSUME PointsAssumption == PointCount \in Nat \ {0} /\ MaxSessions \in Nat

Position == 0..(PointCount - 1)

ACTIVE_STATUSES == {"active", "paused"}   \* "planned" is never written
TERMINAL_STATUSES == {"completed", "abandoned"}

Session ==
    [status  : ACTIVE_STATUSES \union TERMINAL_STATUSES,
     list    : Lists,
     mark    : [Position -> {"open", "visited", "skipped"}],  \* of its points
     visited : SUBSET Position,   \* visited_point_indexes
     skipped : SUBSET Position,   \* skipped_point_indexes
     current : 0..PointCount,     \* current_point_index
     ended   : BOOLEAN]           \* completed_at is set

VARIABLE sessions  \* the rows and their points, by id

SessionsTypeOK == sessions \in Seq(Session) /\ Len(sessions) <= MaxSessions

NewSession(list) ==
    [status |-> "active", list |-> list, mark |-> [p \in Position |-> "open"],
     visited |-> {}, skipped |-> {}, current |-> 0, ended |-> FALSE]

SessionsInit == sessions = <<>>

SessionId == DOMAIN sessions

IsOpen(i) == sessions[i].status \in ACTIVE_STATUSES

OpenPositions(s) == {p \in Position : s.mark[p] = "open"}
Least(S) == CHOOSE p \in S : \A q \in S : p <= q

Set(i, s) == sessions' = [sessions EXCEPT ![i] = s]

-----------------------------------------------------------------------------
(* The insert of UserRouteSessionService.start. *)
Insert(list) ==
    /\ Len(sessions) < MaxSessions
    /\ sessions' = Append(sessions, NewSession(list))

-----------------------------------------------------------------------------
(* UserRouteSessionService.apply_action. *)

Pause(i) ==
    /\ sessions[i].status = "active"
    /\ Set(i, [sessions[i] EXCEPT !.status = "paused"])

Resume(i) ==
    /\ sessions[i].status = "paused"
    /\ Set(i, [sessions[i] EXCEPT !.status = "active"])

FinishSession(i) ==
    /\ IsOpen(i)
    /\ Set(i, [sessions[i] EXCEPT !.status = "completed", !.ended = TRUE])

Abandon(i) ==
    Set(i, IF sessions[i].status \in TERMINAL_STATUSES THEN sessions[i]
           ELSE [sessions[i] EXCEPT !.status = "abandoned", !.ended = TRUE])

(* Faulty variant of Marked: a point that changes sides stays listed on the *)
(* old one.                                                                 *)
MarkedTwice(s, p, how) ==
    [s EXCEPT !.mark[p] = how,
              !.visited = IF how = "visited" THEN @ \union {p} ELSE @,
              !.skipped = IF how = "skipped" THEN @ \union {p} ELSE @]

(* The point and the two lists of indexes. *)
Marked(s, p, how) ==
    [s EXCEPT !.mark[p] = how,
              !.visited = IF how = "visited" THEN @ \union {p} ELSE @ \ {p},
              !.skipped = IF how = "skipped" THEN @ \union {p} ELSE @ \ {p}]

(* Faulty variant of Advanced: the last point does not complete the walk. *)
AdvancedOnly(s) ==
    IF OpenPositions(s) = {} THEN s ELSE [s EXCEPT !.current = Least(OpenPositions(s))]

(* _advance_current_index: a paused session stays paused, and the index     *)
(* stays where it is when the last point is closed.                         *)
Advanced(s) ==
    IF OpenPositions(s) = {}
    THEN [s EXCEPT !.status = "completed", !.ended = TRUE]
    ELSE [s EXCEPT !.current = Least(OpenPositions(s))]

(* complete_point, skip_point and remove_point: a point is closed once. *)
ClosePoint(i, p, how) ==
    /\ IsOpen(i) /\ sessions[i].mark[p] = "open"
    /\ Set(i, Advanced(Marked(sessions[i], p, how)))

-----------------------------------------------------------------------------
(* route_session_service. *)

(* Faulty variant of Editable: an abandoned walk can be taken up again. *)
EditableUnlessCompleted(i) == sessions[i].status # "completed"

Editable(i) == IsOpen(i)

(* update_route_session: the status, the index or both; what is not given  *)
(* stays.  An abandoned session gets no completed_at.                       *)
UpdateSession(i, status, p) ==
    /\ Editable(i)
    /\ Set(i, [sessions[i] EXCEPT !.status = status,
                                  !.current = p,
                                  !.ended = IF status = "abandoned" THEN FALSE ELSE @])

(* The new row of check_in_route_point: points may change sides, a paused   *)
(* session becomes active, and what is still open is what neither of the    *)
(* two index lists names.                                                   *)
CheckedIn(s, p, how) ==
    LET m == Marked(s, p, how)
        rest == Position \ (m.visited \union m.skipped)
    IN  IF rest = {}
        THEN [m EXCEPT !.current = PointCount, !.status = "completed", !.ended = TRUE]
        ELSE [m EXCEPT !.current = Least(rest), !.status = "active"]

CheckIn(i, p, how) ==
    /\ Editable(i)
    /\ Set(i, CheckedIn(sessions[i], p, how))

(* complete_route_session, also of a session that is completed already. *)
CompleteSession(i) ==
    /\ sessions[i].status # "abandoned"
    /\ Set(i, [sessions[i] EXCEPT !.status = "completed", !.current = PointCount, !.ended = TRUE])

SessionStep(i) ==
    \/ Pause(i) \/ Resume(i) \/ FinishSession(i) \/ Abandon(i) \/ CompleteSession(i)
    \/ \E status \in {"active", "paused", "abandoned"} :
        \E p \in Position \union {sessions[i].current} : UpdateSession(i, status, p)
    \/ \E p \in Position :
        \E how \in {"visited", "skipped"} : ClosePoint(i, p, how) \/ CheckIn(i, p, how)

-----------------------------------------------------------------------------
(* Properties. *)

(* A session keeps its progress twice, in its points and in two lists of    *)
(* indexes; whichever service wrote last, the two agree.                    *)
IndexesMatchPoints ==
    \A i \in SessionId :
        /\ sessions[i].visited = {p \in Position : sessions[i].mark[p] = "visited"}
        /\ sessions[i].skipped = {p \in Position : sessions[i].mark[p] = "skipped"}

(* A walk that goes on has a point left, a current position within its list *)
(* and no end: the request that closes the last point completes the walk.   *)
OpenWalksHaveWork ==
    \A i \in SessionId : IsOpen(i) =>
        /\ OpenPositions(sessions[i]) # {}
        /\ sessions[i].current \in Position
        /\ ~sessions[i].ended

(* Neither service takes a finished or abandoned walk up again, or turns    *)
(* the one into the other.                                                  *)
EndedWalksStayEnded ==
    [][\A i \in SessionId :
         sessions[i].status \in TERMINAL_STATUSES => sessions'[i].status = sessions[i].status]_sessions
=============================================================================
