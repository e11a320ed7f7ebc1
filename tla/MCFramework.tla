----------------------------- MODULE MCFramework -----------------------------
(* Framework with a few interchangeable instances.                         *)
EXTENDS Framework, TLC

CONSTANTS x1, x2, x3

Symmetry == Permutations(Instance)
==============================================================================
