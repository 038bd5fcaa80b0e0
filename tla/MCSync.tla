------------------------------- MODULE MCSync -------------------------------
(* Sync for TLC: characters are interchangeable.                           *)
EXTENDS Sync, TLC

Symmetry == Permutations(Characters)
=============================================================================
