----------------------------- MODULE RevisionChain -----------------------------
(***************************************************************************)
(* What the registry of route states promises the holders of a state: a    *)
(* register that is compared and advanced.  A state is replaced at most    *)
(* once, by one of the next revision, and a route that was retired issues  *)
(* nothing more.                                                           *)
(***************************************************************************)
EXTENDS Naturals

CONSTANTS
    State,  \* signed route states, records with a field rev
    None    \* no current state

VARIABLES
    current,  \* the state that the next request must present
    issued    \* every state ever handed out

Init == current = None /\ issued = {}

Issue(s) ==
    /\ issued = {} /\ s.rev = 1
    /\ current' = s
    /\ issued' = {s}

Advance(s, t) ==
    /\ current = s /\ t.rev = s.rev + 1
    /\ current' = t
    /\ issued' = issued \union {t}

Retire ==
    /\ current # None
    /\ current' = None
    /\ UNCHANGED issued

Next ==
    \/ \E s \in State : Issue(s)
    \/ \E s, t \in State : Advance(s, t)
    \/ Retire

Spec == Init /\ [][Next]_<<current, issued>>
=============================================================================
