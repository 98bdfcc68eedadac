------------------------------ MODULE RouteStates ------------------------------
(***************************************************************************)
(* The registry of one user route.  Its row names the only signed state    *)
(* that a request may present.  A request locks the row, compares, works   *)
(* on the route for a while, looks at the clock again and writes the next  *)
(* revision; all of it is one transaction, which the router commits.  The  *)
(* clock and the cleanup loop go on beside it.                             *)
(*                                                                         *)
(* Route ids are drawn at random for every build, so that the routes have  *)
(* nothing in common and a route is registered once.                       *)
(***************************************************************************)
EXTENDS Naturals

CONSTANTS
    Clients,      \* requests that are open at a time
    Plans,        \* ordered lists of places a route can have
    MaxRevision,  \* bound: revisions of the route
    None          \* no state, no owner of the lock

ASSUME RevisionsAssumption == MaxRevision \in Nat \ {0}

(* "ready" may be changed and walked, "preview" neither, "failed" stands    *)
(* for the statuses that may be changed but not walked.                     *)
Statuses == {"ready", "preview", "failed"}

State == [rev : 1..MaxRevision, plan : Plans, status : Statuses]

ASSUME NoneAssumption == None \notin State /\ None \notin Clients

VARIABLES
    current,  \* revision, place_ids and token_digest of the row; None: no row
    expired,  \* expires_at is not after the clock
    issued,   \* every state whose transaction was committed
    locker,   \* the transaction that holds the row lock
    doing,    \* what each request is at
    shown     \* the state each request presented

registryVars == <<current, expired, issued, locker, doing, shown>>

RegistryTypeOK ==
    /\ current \in State \union {None}
    /\ expired \in BOOLEAN
    /\ issued \subseteq State
    /\ locker \in Clients \union {None}
    /\ doing \in [Clients -> {"nothing", "reading", "changing", "advancing", "starting", "creating"}]
    /\ shown \in [Clients -> State \union {None}]

RegistryInit ==
    /\ current = None /\ expired = FALSE /\ issued = {} /\ locker = None
    /\ doing = [c \in Clients |-> "nothing"]
    /\ shown = [c \in Clients |-> None]

-----------------------------------------------------------------------------
(* register_initial_route_state. *)
Register(s) ==
    /\ issued = {} /\ s.rev = 1
    /\ current' = s
    /\ issued' = {s}
    /\ UNCHANGED <<expired, locker, doing, shown>>

\* What a request that presents s may want, by the status of s.
Wants(s) ==
    {"reading"} \union
    (IF s.status = "preview" THEN {} ELSE {"changing"}) \union
    (IF s.status = "ready" THEN {"starting"} ELSE {})

Verified(s) == current = s /\ ~expired

(* Faulty variant of Verify: the row is read and not locked. *)
VerifyUnlocked(c, s, want) ==
    /\ doing[c] = "nothing" /\ locker = None
    /\ s \in issued /\ Verified(s) /\ want \in Wants(s)
    /\ doing' = [doing EXCEPT ![c] = want]
    /\ shown' = [shown EXCEPT ![c] = s]
    /\ UNCHANGED <<current, expired, issued, locker>>

(* verify_current_route_state under the row lock, which it waits for.  A    *)
(* request that is refused changes nothing.                                 *)
Verify(c, s, want) ==
    /\ doing[c] = "nothing" /\ locker = None
    /\ s \in issued /\ Verified(s) /\ want \in Wants(s)
    /\ locker' = c
    /\ doing' = [doing EXCEPT ![c] = want]
    /\ shown' = [shown EXCEPT ![c] = s]
    /\ UNCHANGED <<current, expired, issued>>

Unlock(c) == locker' = IF locker = c THEN None ELSE locker

(* The transaction ends; the locks go with it. *)
Release(c) ==
    /\ Unlock(c)
    /\ doing' = [doing EXCEPT ![c] = "nothing"]
    /\ shown' = [shown EXCEPT ![c] = None]

(* The mutation was accepted and the row has not expired meanwhile. *)
Recheck(c) ==
    /\ doing[c] = "changing" /\ ~expired
    /\ doing' = [doing EXCEPT ![c] = "advancing"]
    /\ UNCHANGED <<current, expired, issued, locker, shown>>

(* Faulty variant of NextStates: the revision is the one presented. *)
SameRevision(s) == {t \in State : t.rev = s.rev /\ t.status # "preview"}

NextStates(s) == {t \in State : t.rev = s.rev + 1 /\ t.status # "preview"}

(* The rest of advance_route_state, after waiting for the locks on the city *)
(* and its places, and the commit.  The new expiry is after the old one and *)
(* after the clock, whether or not the old one has passed by now.           *)
Advance(c, t) ==
    /\ doing[c] = "advancing" /\ t \in NextStates(shown[c])
    /\ current' = t
    /\ expired' = FALSE
    /\ issued' = issued \union {t}
    /\ Release(c)

(* Read, rejected, without effect, refused for its evidence, expired under  *)
(* the request's hands, timed out or cut off: nothing is written.           *)
Abort(c) ==
    /\ doing[c] # "nothing"
    /\ Release(c)
    /\ UNCHANGED <<current, expired, issued>>

(* The clock passes expires_at. *)
Expire ==
    /\ current # None /\ ~expired
    /\ expired' = TRUE
    /\ UNCHANGED <<current, issued, locker, doing, shown>>

(* Faulty variant of Removable: the lock is not asked for. *)
ExpiredOnce == current # None /\ expired

Removable == current # None /\ expired /\ locker = None

(* cleanup_expired_route_states: a locked row is skipped. *)
Cleanup ==
    /\ Removable
    /\ current' = None
    /\ UNCHANGED <<expired, issued, locker, doing, shown>>

RequestEnds(c) == Abort(c) \/ \E t \in State : Advance(c, t)

RegistryNext ==
    \/ \E s \in State : Register(s)
    \/ \E c \in Clients :
        \/ \E s \in State, want \in {"reading", "changing", "starting"} : Verify(c, s, want)
        \/ Recheck(c) \/ RequestEnds(c)
    \/ Expire \/ Cleanup

-----------------------------------------------------------------------------
(* Properties. *)

(* Requests that present one state at the same time, the clock and the      *)
(* cleanup never make the route fork: a revision is issued once.            *)
OneStatePerRevision == \A s, t \in issued : s.rev = t.rev => s = t

(* A request that was let in works on the current state until it ends: no   *)
(* advance and no cleanup takes it away under its hands.                    *)
RequestsSeeCurrent == \A c \in Clients : doing[c] # "nothing" => shown[c] = current

(* The registry is a compare-and-advance register. *)
Chain == INSTANCE RevisionChain
ImplementsChain == Chain!Spec
=============================================================================
