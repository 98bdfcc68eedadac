---------------------------- MODULE MCRouteDrafts ----------------------------
(* RouteDrafts for TLC: places, clients and requests are interchangeable.   *)
EXTENDS RouteDrafts, TLC

Symmetry == Permutations(Place) \union Permutations(Client) \union Permutations(Call)
=============================================================================
