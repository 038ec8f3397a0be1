------------------------------ MODULE MCStore ------------------------------
(* One or two processes over a few slots.                                   *)
EXTENDS Store, TLC

CONSTANTS p1, p2

ProcessSymmetry == Permutations(Processes)
=============================================================================
