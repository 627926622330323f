--------------------------- MODULE SessionAuthority ---------------------------
(***************************************************************************)
(* What an account promises about its sessions, whatever files, handlers,  *)
(* failed writes, disposals and crashes lie behind it: a session is        *)
(* granted once, ends once, and a change of the password ends all of them  *)
(* at the same moment.                                                     *)
(***************************************************************************)
EXTENDS Naturals

CONSTANTS Tokens

VARIABLES
    password,   \* how many passwords there were
    honoured,   \* sessions that the account goes by, now or when it serves again
    granted,    \* sessions that were ever granted
    ended       \* sessions whose end was acknowledged

vars == <<password, honoured, granted, ended>>

Init == password = 1 /\ honoured = {} /\ granted = {} /\ ended = {}

Grant(t) ==
    /\ t \notin granted
    /\ honoured' = honoured \cup {t} /\ granted' = granted \cup {t}
    /\ UNCHANGED <<password, ended>>

\* Sessions end, and the end of some that are over is acknowledged.
End(gone, told) ==
    /\ honoured' = honoured \ gone
    /\ told \subseteq granted \ honoured' /\ ended' = ended \cup told
    /\ UNCHANGED <<password, granted>>

ChangePassword ==
    /\ password' = password + 1 /\ honoured' = {}
    /\ UNCHANGED <<granted, ended>>

Next ==
    \/ \E t \in Tokens : Grant(t)
    \/ \E gone \in SUBSET Tokens, told \in SUBSET Tokens : End(gone, told)
    \/ ChangePassword

Spec == Init /\ [][Next]_vars
================================================================================
