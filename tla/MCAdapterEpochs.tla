---------------------------- MODULE MCAdapterEpochs ----------------------------
(* AdapterEpochs with model values for TLC. *)
EXTENDS AdapterEpochs, TLC

CONSTANTS a1, a2, a3

Symmetry == Permutations({a1, a2, a3})
================================================================================
