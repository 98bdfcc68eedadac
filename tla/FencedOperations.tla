-------------------------- MODULE FencedOperations --------------------------
(***************************************************************************)
(* What the lease and the fencing token of the operations queue promise,   *)
(* without threads, leases and tokens: every claim of a row has a number,  *)
(* there are at most MAX_ATTEMPTS of them, and the last one alone can have *)
(* its result written, once.  BackgroundOperations implements this module  *)
(* (property ImplementsFencedOperations there).                            *)
(***************************************************************************)
EXTENDS Naturals

CONSTANTS
    Scopes, None,
    Rows,
    Verdicts,
    MAX_ATTEMPTS

VARIABLE row    \* of every id: its scope, the number of its last claim, its
                \* verdict or "open", and the claim whose result this is

Unused == [scope |-> None, gen |-> 0, verdict |-> "open", by |-> 0]

OpsInit == row = [j \in Rows |-> Unused]

IsOpen(j) == row[j].scope # None /\ row[j].verdict = "open"

Open(j, s) ==
    /\ row[j].scope = None
    /\ \A k \in Rows : IsOpen(k) => row[k].scope # s
    /\ row' = [row EXCEPT ![j].scope = s]

Claim(j) ==
    /\ IsOpen(j) /\ row[j].gen < MAX_ATTEMPTS
    /\ row' = [row EXCEPT ![j].gen = @ + 1]

(* The last claim may still be at work. *)
GiveUp(j) ==
    /\ IsOpen(j) /\ row[j].gen = MAX_ATTEMPTS
    /\ row' = [row EXCEPT ![j].verdict = "failed"]

(* The result of the last claim, also of a row that was given up. *)
Land(j, v) ==
    /\ row[j].gen > 0 /\ row[j].by = 0
    /\ row' = [row EXCEPT ![j] = [scope |-> row[j].scope, gen |-> row[j].gen,
                                 verdict |-> v, by |-> row[j].gen]]

OpsNext ==
    \E j \in Rows :
        \/ \E s \in Scopes : Open(j, s)
        \/ Claim(j) \/ GiveUp(j)
        \/ \E v \in Verdicts : Land(j, v)

Spec == OpsInit /\ [][OpsNext]_row
=============================================================================
