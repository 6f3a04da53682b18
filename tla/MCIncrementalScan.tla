-------------------------- MODULE MCIncrementalScan --------------------------
(* Two or three files, interchangeable: nothing orders paths. *)
EXTENDS IncrementalScan, TLC
CONSTANTS f1, f2, f3
Symmetry == Permutations(Files)
=============================================================================
