------------------------------- MODULE UserRoutes -------------------------------
(***************************************************************************)
(* A user route: its registry (RouteStates) and the sessions walked on it  *)
(* (RouteSessions).  A start presents a state like every other request,    *)
(* locks the row of the registry and then the record of the route, looks   *)
(* for an open session and creates one if there is none.  The sessions are *)
(* walked by requests that lock the session row only, at any time.         *)
(***************************************************************************)
EXTENDS RouteStates, RouteSessions

ASSUME OneKindOfList == Lists = Plans

vars == <<registryVars, sessions>>

UserRoutesTypeOK == RegistryTypeOK /\ SessionsTypeOK

Init == RegistryInit /\ SessionsInit

-----------------------------------------------------------------------------
OpenSessions == {i \in SessionId : IsOpen(i)}

(* Faulty variant of SessionsToReclaim: a paused walk is overlooked. *)
ActiveSessions == {i \in SessionId : sessions[i].status = "active"}

SessionsToReclaim == OpenSessions

(* _ensure_locked_route_record and the query for an open session: the slug  *)
(* of the record is unique, a second start waits for the end of the first.  *)
(* With an open session the start ends here, be it that it hands the        *)
(* session out again or refuses it for its list or token: see Abort.        *)
LookUp(c) ==
    /\ doing[c] = "starting"
    /\ \A d \in Clients : doing[d] # "creating"
    /\ SessionsToReclaim = {}
    /\ doing' = [doing EXCEPT ![c] = "creating"]
    /\ UNCHANGED <<current, expired, issued, locker, shown, sessions>>

(* The session is inserted with the places of the state, and the commit. *)
Create(c) ==
    /\ doing[c] = "creating"
    /\ Insert(shown[c].plan)
    /\ Release(c)
    /\ UNCHANGED <<current, expired, issued>>

StartSession(c) == LookUp(c) \/ Create(c)

Next ==
    \/ RegistryNext /\ UNCHANGED sessions
    \/ \E c \in Clients : StartSession(c)
    \/ \E i \in SessionId : SessionStep(i) /\ UNCHANGED registryVars

Spec == Init /\ [][Next]_vars

-----------------------------------------------------------------------------
(* Properties, besides those of the two parts. *)

(* Requests that start a session at the same time, and walks that both      *)
(* services pause, resume and end meanwhile, never leave the route with two *)
(* open sessions.                                                           *)
OneOpenSession == \A i, j \in OpenSessions : i = j

(* A session is created for the places of the state that is current at that *)
(* moment, though the request verified it earlier and the clock, the        *)
(* cleanup and other requests went on.                                      *)
SessionsAreFromCurrent ==
    [][Len(sessions') > Len(sessions) =>
         current # None /\ sessions'[Len(sessions')].list = current.plan]_vars
=============================================================================
