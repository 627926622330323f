----------------------------- MODULE MCAccountCore -----------------------------
(* Small instances of AccountCore. *)
EXTENDS AccountCore, TLC

CONSTANTS c1, c2, t1, t2, b1

\* Addresses and tokens are interchangeable: no patch names one of several.
Symmetry == Permutations(Clients) \cup Permutations(Tokens)

Change      == [password |-> TRUE, deny |-> {}, ttl |-> 1]
DenyAll     == [password |-> FALSE, deny |-> Clients, ttl |-> 1]
Shorten     == [password |-> FALSE, deny |-> {}, ttl |-> 1]
Lengthen    == [password |-> TRUE, deny |-> {}, ttl |-> 2]

RevocationPatches == {Change, DenyAll}
ExpiryPatches     == {Shorten, Lengthen}
=============================================================================
