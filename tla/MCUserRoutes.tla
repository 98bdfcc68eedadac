------------------------------ MODULE MCUserRoutes ------------------------------
(***************************************************************************)
(* UserRoutes for TLC.  Requests are interchangeable, and so are the lists *)
(* of places: no action or property names one of them, and every property  *)
(* of the run is a safety property.                                        *)
(***************************************************************************)
EXTENDS UserRoutes, TLC

Symmetry == Permutations(Clients) \union Permutations(Plans)
=============================================================================
