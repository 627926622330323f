---------------------------- MODULE MCLoginPipeline ----------------------------
(* Small instances of LoginPipeline: requests are interchangeable. *)
EXTENDS LoginPipeline, TLC

CONSTANTS i1, i2, r1, r2, r3, r4

Symmetry == Permutations(Tasks)
=============================================================================
