------------------------- MODULE MCClientAuthSession -------------------------
(***************************************************************************)
(* Small instances of ClientAuthSession, explored in one run: each         *)
(* behaviour keeps to the logins, requests, flights and callers of one of  *)
(* them.                                                                   *)
(***************************************************************************)
EXTENDS ClientAuthSession, TLC

CONSTANTS s1, s2, r1, r2, f1, f2, c1, c2
CONSTANT Instances

VARIABLE usable     \* the instance

\* late answers of two requests around a logout; two callers who share a flight while the
\* login changes; two flights, of which one replaces the other
LateAnswers == {s1, s2, r1, r2}
SharedFlight == {s1, s2, r1, f1, c1, c2}
TwoFlights == {s1, r1, f1, f2, c1, c2}
AllInstances == {LateAnswers, SharedFlight, TwoFlights}

Outside ==
    /\ issued' \subseteq usable
    /\ \A r \in Requests \ usable : me'[r] = IdleRequest
    /\ \A f \in Flights \ usable : flights'[f] = IdleFlight
    /\ \A c \in Callers \ usable : caller'[c] = IdleCaller

MCInit == Init /\ usable \in Instances
MCNext == Next /\ Outside /\ UNCHANGED usable
MCSpec ==
    /\ MCInit /\ [][MCNext]_<<vars, usable>>
    /\ \A r \in Requests : WF_vars(EndMe(r))
    /\ \A f \in Flights : WF_vars(EndFlight(f))
    /\ \A c \in Callers : WF_vars(Settle(c))
================================================================================
