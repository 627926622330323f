------------------------------- MODULE MCLoginPage -----------------------------
(* Instances of LoginPage for TLC. *)
EXTENDS LoginPage, TLC
CONSTANTS s1, s2
Symmetry == Permutations({s1, s2})
================================================================================
