----------------------------- MODULE MCLoginGuard ------------------------------
(* A small instance of LoginGuard. *)
EXTENDS LoginGuard

CONSTANTS t1, t2, t3, t4
================================================================================
