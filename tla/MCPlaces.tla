------------------------------ MODULE MCPlaces ------------------------------
(* Places for TLC: the values of the ordinary columns are interchangeable. *)
EXTENDS Places, TLC

DataSymmetry == Permutations(Data)
=============================================================================
