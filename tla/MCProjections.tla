---------------------------- MODULE MCProjections ----------------------------
(***************************************************************************)
(* Two cities with a place each.  One city is rebuilt on its own, the      *)
(* other only with it; nodes and candidate sets only for all.              *)
(***************************************************************************)
EXTENDS Projections, TLC

CONSTANTS p1, p2, c1, c2

MCCityOf == p1 :> c1 @@ p2 :> c2
MCRebuilt == {"snapshots", "documents"} \X {All, c1} \union {"nodes", "sets"} \X {All}

(* Administrators' sessions are interchangeable. *)
Symmetry == Permutations(Admins)
=============================================================================
