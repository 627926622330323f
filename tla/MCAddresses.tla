------------------------------ MODULE MCAddresses ------------------------------
(* Instances of Addresses for TLC. *)
EXTENDS Addresses, TLC
CONSTANTS r1, r2, q1, i1, i2, i3, h1, h2, local4, wide
Symmetry == Permutations({r1, r2}) \cup Permutations({i1, i2, i3})
\* a full table whose rows are locked at once, and one of one row that two attempts lock
OneOfEach == {[rows |-> 2, attempts |-> 1], [rows |-> 1, attempts |-> 2]}
\* a network, and an address that is written in two ways; two visitors for one place
Visitors == {h1, local4, Local6, Remote6}
Sent == [entry : Visitors \cup {wide}, mapped : {FALSE}]
        \cup {[entry |-> h1, mapped |-> TRUE], [entry |-> Invalid, mapped |-> FALSE]}
Around == {[clients |-> Visitors, lists |-> {{}} \cup {{raw} : raw \in Sent}],
           [clients |-> {h1, h2, local4}, lists |-> {{}}]}
CoversWide == [n \in {wide} |-> {h1, local4}]
================================================================================
