---------------------------------- MODULE Door ----------------------------------
(***************************************************************************)
(* What the guard of a web server promises, dsh-adapter.js: once there, it *)
(* stays; it lets at most one application of the plugin decide requests,   *)
(* denies them all otherwise, and never returns to an application that it  *)
(* closed or refused.                                                      *)
(***************************************************************************)
CONSTANTS
    Instances,  \* applications of the plugin
    Nobody      \* no application

VARIABLES
    guarded,    \* the routes of the web server are wrapped
    open,       \* the application that decides requests; Nobody: they are denied
    used        \* applications that were let in or refused

vars == <<guarded, open, used>>

Init == guarded = FALSE /\ open = Nobody /\ used = {}

\* i takes over, from one that served or from nobody
Admit(i) ==
    /\ i \notin used
    /\ guarded' = TRUE /\ open' = i /\ used' = used \cup {i}

\* i is refused: the one that served may keep its place or lose it
Refuse(i) ==
    /\ i \notin used
    /\ guarded' \in {guarded, TRUE}
    /\ open' \in {open, Nobody} /\ used' = used \cup {i}

Close == open' = Nobody /\ UNCHANGED <<guarded, used>>

Next == Close \/ \E i \in Instances : Admit(i) \/ Refuse(i)

Spec == Init /\ [][Next]_vars
================================================================================
