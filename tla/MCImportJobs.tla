---------------------------- MODULE MCImportJobs ----------------------------
(***************************************************************************)
(* Small instances of ImportJobs for TLC.                                  *)
(***************************************************************************)
EXTENDS ImportJobs, TLC

(* Cities, workers and admin connections are interchangeable: no action    *)
(* names one of them.  Used by the runs that check no liveness.            *)
Symmetry ==
    Permutations(Cities) \union Permutations(Workers) \union Permutations(Admins)
=============================================================================
