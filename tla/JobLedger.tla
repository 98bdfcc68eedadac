------------------------------ MODULE JobLedger ------------------------------
(***************************************************************************)
(* What the import-job table promises its readers, with workers, locks,    *)
(* sessions and heartbeats left out: a ledger of attempts.  An attempt is  *)
(* opened for a city only while no other attempt of the city is open, and  *)
(* an open attempt receives exactly one verdict, which is never rewritten. *)
(* ImportJobs implements this module (property Ledger!Spec there).         *)
(***************************************************************************)
CONSTANTS
    Cities,     \* cities an attempt can belong to
    Jobs,       \* ids of attempts
    Verdicts,   \* the terminal statuses of an import job
    NoCity      \* the city of an id that was never used

VARIABLES
    city,       \* city[j]: the city attempt j was opened for
    verdict     \* verdict[j]: "unused", "open" or a member of Verdicts

ledgerVars == <<city, verdict>>

LedgerTypeOK ==
    /\ city \in [Jobs -> Cities \union {NoCity}]
    /\ verdict \in [Jobs -> {"unused", "open"} \union Verdicts]

LedgerInit ==
    /\ city = [j \in Jobs |-> NoCity]
    /\ verdict = [j \in Jobs |-> "unused"]

(* An enqueue: one admin launch or retry is one new attempt. *)
Open(j, c) ==
    /\ verdict[j] = "unused"
    /\ \A k \in Jobs : city[k] = c => verdict[k] # "open"
    /\ city' = [city EXCEPT ![j] = c]
    /\ verdict' = [verdict EXCEPT ![j] = "open"]

(* A snapshot refresh of a city without attempts records a closed one. *)
RecordClosed(j, c) ==
    /\ verdict[j] = "unused"
    /\ city' = [city EXCEPT ![j] = c]
    /\ verdict' = [verdict EXCEPT ![j] = "success"]

(* A terminal transition. *)
Close(j, v) ==
    /\ verdict[j] = "open"
    /\ verdict' = [verdict EXCEPT ![j] = v]
    /\ UNCHANGED city

LedgerNext ==
    \E j \in Jobs :
        \/ \E c \in Cities : Open(j, c) \/ RecordClosed(j, c)
        \/ \E v \in Verdicts : Close(j, v)

Spec == LedgerInit /\ [][LedgerNext]_ledgerVars
=============================================================================
