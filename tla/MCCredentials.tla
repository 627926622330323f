----------------------------- MODULE MCCredentials -----------------------------
(* Instances of Credentials for TLC. *)
EXTENDS Credentials, TLC
CONSTANTS r1, r2, i1, i2, a1, a2, b1, b2, p
Symmetry == Permutations({r1, r2}) \cup Permutations({i1, i2})
            \cup Permutations({a1, a2}) \cup Permutations({b1, b2})
================================================================================
