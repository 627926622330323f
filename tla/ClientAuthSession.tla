--------------------------- MODULE ClientAuthSession ---------------------------
(***************************************************************************)
(* What a browser page believes about its login, lib/auth-session.js: the  *)
(* answers of /auth/me, the logout, and the grants that the page asks for  *)
(* on behalf of several callers.  Answers arrive in any order or not at    *)
(* all; the server changes its mind between the answer and its arrival.    *)
(*                                                                         *)
(* version and rpcGrantGeneration only serve to ask whether the request at *)
(* hand is still the latest one: that request is inflight, or flight.      *)
(***************************************************************************)
EXTENDS FiniteSets

CONSTANTS
    Scopes, NoScope,    \* resume scopes, each of one login
    Requests,           \* requests of /auth/me that may be under way at a time
    Flights,            \* the same of /auth/rpc-grant
    Callers,            \* of requestRpcGrant
    None                \* no request, no flight, no grant

ASSUME ClientAssumption == NoScope \notin Scopes /\ None \notin Requests \cup Flights

VARIABLES
    server,         \* the login that the cookies of the browser stand for
    issued,         \* scopes the server has used
    leaving,        \* the login that a logout of this page ended, unknown to the page
    dead,           \* history: the logins whose end was acknowledged to the page
    disposed, status, scope,
    inflight, me,   \* the latest request of /auth/me; all of them
    grant,          \* rpcGrant: its scope, and whether it has 2 s left
    flight, flights, \* rpcGrantFlight; all of them
    caller          \* of each caller: its call, or the grant it was given last

external == <<server, issued, leaving, dead>>
belief == <<disposed, status, scope>>
grants == <<grant, flight, flights, caller>>
vars == <<external, belief, inflight, me, grants>>

Grant == [scope : Scopes \cup {NoScope}, fresh : BOOLEAN]
NoGrant == [scope |-> NoScope, fresh |-> FALSE]

\* what classifyMeResponse and classifyMeFailure make of an answer: a login confirms only
\* when it is complete, only its denial ends it, and anything else is unavailability
Answer ==
    [status : {"authenticated"}, scope : Scopes, denied : {FALSE}]
    \cup [status : {"unauthenticated"}, scope : {NoScope}, denied : {FALSE}]
    \cup [status : {"unavailable"}, scope : {NoScope}, denied : BOOLEAN]

Failure == [status |-> "unavailable", scope |-> NoScope, denied |-> FALSE]
IdleRequest == [stage |-> "idle", answer |-> Failure, old |-> FALSE]
IdleFlight == [stage |-> "idle", expected |-> NoScope, value |-> NoScope, aborted |-> FALSE]
IdleCaller == [state |-> "idle", flight |-> None, asked |-> NoScope, got |-> NoScope]

TypeOK ==
    /\ server \in Scopes \cup {NoScope} /\ issued \in SUBSET Scopes
    /\ leaving \in Scopes \cup {NoScope, None} /\ dead \in SUBSET Scopes
    /\ disposed \in BOOLEAN
    /\ status \in {"unknown", "checking", "authenticated", "unauthenticated", "unavailable"}
    /\ scope \in Scopes \cup {NoScope}
    /\ inflight \in Requests \cup {None}
    /\ inflight # None => me[inflight].stage # "idle"
    /\ me \in [Requests ->
           [stage : {"idle", "sent", "answered"}, answer : Answer, old : BOOLEAN]]
    /\ grant \in Grant
    /\ flight \in Flights \cup {None}
    /\ flight # None => flights[flight].stage \in {"sent", "answered"}
    /\ flights \in [Flights ->
           [stage : {"idle", "sent", "answered", "resolved", "rejected"},
            expected : Scopes \cup {NoScope}, value : Scopes \cup {NoScope}, aborted : BOOLEAN]]
    /\ caller \in [Callers -> [state : {"idle", "waiting", "granted"},
           flight : Flights \cup {None}, asked : Scopes \cup {NoScope},
           got : Scopes \cup {NoScope}]]

Init ==
    /\ server = NoScope /\ issued = {} /\ leaving = None /\ dead = {}
    /\ disposed = FALSE /\ status = "unknown" /\ scope = NoScope
    /\ inflight = None /\ me = [r \in Requests |-> IdleRequest]
    /\ grant = NoGrant /\ flight = None
    /\ flights = [f \in Flights |-> IdleFlight]
    /\ caller = [c \in Callers |-> IdleCaller]

-----------------------------------------------------------------------------
(* The server, as the page sees it *)

Login(s) ==
    /\ s \notin issued
    /\ issued' = issued \cup {s} /\ server' = s
    /\ UNCHANGED <<leaving, dead, belief, inflight, me, grants>>

\* expiry, a change of the password, a logout elsewhere; or the logout of this page
LoginEnds(byPage) ==
    /\ server' = NoScope
    /\ IF byPage THEN leaving = None /\ ~disposed /\ leaving' = server
                 ELSE server # NoScope /\ UNCHANGED leaving
    /\ UNCHANGED <<issued, dead, belief, inflight, me, grants>>

\* the answer of /auth/me speaks of the login of this moment
AnswerMe(r, a) ==
    /\ me[r].stage = "sent"
    /\ a # Failure
    /\ a.status = "authenticated" => a.scope = server
    /\ a.status = "unauthenticated" => server = NoScope
    /\ me' = [me EXCEPT ![r].stage = "answered", ![r].answer = a]
    /\ UNCHANGED <<external, belief, inflight, grants>>

AnswerGrant(f) ==
    /\ flights[f].stage = "sent"
    /\ flights' = [flights EXCEPT ![f].stage = "answered", ![f].value = server]
    /\ UNCHANGED <<external, belief, inflight, me, grant, flight, caller>>

-----------------------------------------------------------------------------
(* The page *)

\* retireRpcGrant(): its controller aborts the latest flight
Retire ==
    /\ grant' = NoGrant /\ flight' = None
    /\ flights' = [f \in Flights |->
           IF f = flight THEN [flights[f] EXCEPT !.aborted = TRUE] ELSE flights[f]]
    /\ UNCHANGED caller

Refresh(r) ==
    /\ ~disposed /\ inflight = None
    /\ me[r].stage = "idle"
    /\ inflight' = r
    /\ me' = [me EXCEPT ![r].stage = "sent"]
    /\ status' = IF status = "authenticated" THEN status ELSE "checking"
    /\ UNCHANGED <<external, disposed, scope, grants>>

\* apply()
Apply(a) ==
    /\ status' = a.status
    /\ scope' = IF a.status = "unavailable" THEN scope ELSE a.scope
    /\ IF a.denied \/ scope' # scope THEN Retire ELSE UNCHANGED grants

\* a request of /auth/me ends with its answer, or fails, or is aborted; only the latest
\* counts.  And as it would be if any did.
EndMeAnyOrder(r) ==
    /\ me[r].stage # "idle"
    /\ me' = [me EXCEPT ![r] = IdleRequest]
    /\ inflight' = IF inflight = r THEN None ELSE inflight
    /\ \E a \in {Failure, me[r].answer} : Apply(a)
    /\ UNCHANGED <<external, disposed>>

EndMe(r) ==
    /\ me[r].stage # "idle"
    /\ me' = [me EXCEPT ![r] = IdleRequest]
    /\ IF inflight = r
       THEN inflight' = None /\ \E a \in {Failure, me[r].answer} : Apply(a)
       ELSE UNCHANGED <<inflight, status, scope, grants>>
    /\ UNCHANGED <<external, disposed>>

\* every request under way is from before
GrowOld == [r \in Requests |-> [me[r] EXCEPT !.old = me[r].stage # "idle"]]

\* invalidate(); and as it would be if the request under way stayed the latest
InvalidateLate ==
    /\ ~disposed
    /\ status' = "unauthenticated" /\ scope' = NoScope
    /\ me' = GrowOld /\ UNCHANGED <<inflight, disposed>>
    /\ Retire

Invalidate ==
    /\ ~disposed
    /\ status' = "unauthenticated" /\ scope' = NoScope
    /\ me' = GrowOld /\ inflight' = None /\ UNCHANGED disposed
    /\ Retire

\* the logout of the page is acknowledged, or its answer is lost
LogoutAnswered ==
    /\ leaving # None
    /\ leaving' = None
    /\ dead' = dead \cup ({leaving} \ {NoScope})
    /\ Invalidate
    /\ UNCHANGED <<server, issued>>

LogoutLost ==
    /\ leaving # None
    /\ leaving' = None
    /\ UNCHANGED <<server, issued, dead, belief, inflight, me, grants>>

\* invalidate() is also offered to other plugins
InvalidatedByOther == Invalidate /\ UNCHANGED external

Dispose ==
    /\ ~disposed
    /\ disposed' = TRUE /\ inflight' = None /\ me' = GrowOld
    /\ Retire
    /\ UNCHANGED <<external, status, scope>>

-----------------------------------------------------------------------------
(* requestRpcGrant *)

Waiting(f) == {c \in Callers : caller[c].state = "waiting" /\ caller[c].flight = f}

\* a call that is refused leaves nothing behind
Refuse(c) == caller' = [caller EXCEPT ![c] = IdleCaller]

\* the call itself: refused, served from the cache, joined to the latest flight, or the
\* first of a new flight, which aborts the latest
RequestRpcGrant(c, force) ==
    LET asked == [IdleCaller EXCEPT !.asked = scope] IN
    /\ caller[c].state # "waiting"
    /\ \/ /\ disposed \/ status # "authenticated" \/ scope = NoScope
          /\ Refuse(c) /\ UNCHANGED <<flight, flights>>
       \/ /\ ~disposed /\ status = "authenticated" /\ scope # NoScope
          /\ IF ~force /\ grant = [scope |-> scope, fresh |-> TRUE]
             THEN /\ caller' = [caller EXCEPT ![c] = [asked EXCEPT !.state = "granted", !.got = scope]]
                  /\ UNCHANGED <<flight, flights>>
             ELSE IF ~force /\ flight # None
             THEN /\ caller' = [caller EXCEPT ![c] = [asked EXCEPT !.state = "waiting", !.flight = flight]]
                  /\ UNCHANGED <<flight, flights>>
             ELSE \E f \in Flights :
                  /\ flights[f].stage = "idle"
                  /\ flight' = f
                  /\ flights' = [h \in Flights |->
                         IF h = f THEN [IdleFlight EXCEPT !.stage = "sent", !.expected = scope]
                         ELSE IF h = flight THEN [flights[h] EXCEPT !.aborted = TRUE] ELSE flights[h]]
                  /\ caller' = [caller EXCEPT ![c] = [asked EXCEPT !.state = "waiting", !.flight = f]]
    /\ UNCHANGED <<external, belief, inflight, me, grant>>

\* the answer is good for flight f; and as it would be if only the login were asked for
GoodForLogin(f) == ~disposed /\ status = "authenticated" /\ flights[f].value # NoScope

Good(f) ==
    /\ ~disposed /\ flight = f
    /\ status = "authenticated" /\ scope = flights[f].expected
    /\ Waiting(f) # {}
    /\ flights[f].value = flights[f].expected

\* a flight ends with its answer, in time or too late, or fails, or is aborted.  And as it
\* would be if one that was replaced did not reject.
EndFlightSilently(f) ==
    /\ flights[f].stage \in {"sent", "answered"}
    /\ flight' = IF flight = f THEN None ELSE flight
    /\ flights' = [flights EXCEPT ![f] =
           IF flight = f THEN [flights[f] EXCEPT !.stage = "rejected"] ELSE IdleFlight]
    /\ UNCHANGED <<external, belief, inflight, me, grant, caller>>

EndFlight(f) ==
    /\ flights[f].stage \in {"sent", "answered"}
    /\ flight' = IF flight = f THEN None ELSE flight
    /\ \/ /\ flights[f].stage = "answered" /\ Good(f)
          /\ \E fresh \in BOOLEAN : grant' = [scope |-> flights[f].value, fresh |-> fresh]
          /\ flights' = [flights EXCEPT ![f].stage = "resolved"]
       \/ /\ flights' = [flights EXCEPT ![f] =
                 IF Waiting(f) = {} THEN IdleFlight ELSE [flights[f] EXCEPT !.stage = "rejected"]]
          /\ UNCHANGED grant
    /\ UNCHANGED <<external, belief, inflight, me, caller>>

\* finish(): the last one to leave a flight under way aborts it, if it is the latest.
\* And as it would be if it did not.
LeaveQuietly(c) ==
    LET f == caller[c].flight IN
    /\ flights' = [flights EXCEPT ![f] =
           IF Waiting(f) = {c} /\ flights[f].stage \in {"resolved", "rejected"} THEN IdleFlight ELSE @]
    /\ UNCHANGED <<external, belief, inflight, me, grant, flight>>

Leave(c) ==
    LET f == caller[c].flight
        last == Waiting(f) = {c}
    IN
    /\ flights' = [flights EXCEPT ![f] =
           IF last /\ flights[f].stage \in {"resolved", "rejected"} THEN IdleFlight
           ELSE IF last /\ f = flight THEN [@ EXCEPT !.aborted = TRUE] ELSE @]
    /\ flight' = IF last /\ f = flight THEN None ELSE flight
    /\ UNCHANGED <<external, belief, inflight, me, grant>>

Settle(c) ==
    LET f == caller[c].flight IN
    /\ caller[c].state = "waiting"
    /\ \/ /\ flights[f].stage = "resolved"
          /\ caller' = [caller EXCEPT ![c].state = "granted", ![c].flight = None, ![c].got = flights[f].value]
       \/ /\ flights[f].stage = "rejected" /\ Refuse(c)
    /\ Leave(c)

CallerAborts(c) ==
    /\ caller[c].state = "waiting"
    /\ Refuse(c)
    /\ Leave(c)

GrantAges ==
    /\ grant.fresh
    /\ grant' = [grant EXCEPT !.fresh = FALSE]
    /\ UNCHANGED <<external, belief, inflight, me, flight, flights, caller>>

Next ==
    \/ \E s \in Scopes : Login(s)
    \/ \E byPage \in BOOLEAN : LoginEnds(byPage)
    \/ LogoutAnswered \/ LogoutLost \/ InvalidatedByOther \/ Dispose \/ GrantAges
    \/ \E r \in Requests :
        \/ Refresh(r) \/ EndMe(r)
        \/ \E a \in Answer : AnswerMe(r, a)
    \/ \E f \in Flights : AnswerGrant(f) \/ EndFlight(f)
    \/ \E c \in Callers :
        \/ \E force \in BOOLEAN : RequestRpcGrant(c, force)
        \/ Settle(c) \/ CallerAborts(c)

Spec == Init /\ [][Next]_vars

\* every request has a timeout, and a promise that is settled calls back
FairSpec ==
    /\ Spec
    /\ \A r \in Requests : WF_vars(EndMe(r))
    /\ \A f \in Flights : WF_vars(EndFlight(f))
    /\ \A c \in Callers : WF_vars(Settle(c))

-----------------------------------------------------------------------------

\* A login whose logout was acknowledged never comes back: neither as the scope of the page
\* nor through a grant, whatever answers of before the logout are still under way.
NoRevival == scope \notin dead /\ grant.scope \notin dead

\* The cached grant belongs to the login the page believes in, also after that changed.
GrantFollowsScope == grant.scope \in {NoScope, scope}

\* A caller is only ever given a grant of the login it asked for, although callers share
\* flights and the login may change while they wait.
CallersGetTheirScope ==
    \A c \in Callers : caller[c].state = "granted" => caller[c].got = caller[c].asked

\* No request for a grant goes on that nobody waits for, unless it is being aborted; and at
\* most one goes on that is not.
NothingUnwatched ==
    \A f \in Flights : flights[f].stage \in {"sent", "answered"} /\ ~flights[f].aborted =>
        flight = f /\ Waiting(f) # {}

\* What was asked before an invalidation, and is answered after it, changes nothing.
OldAnswersChangeNothing ==
    [][\A r \in Requests : me[r].old /\ me'[r].stage = "idle" =>
           UNCHANGED <<status, scope, grant, flight>>]_vars

\* Every call of requestRpcGrant ends, also of one who shares a flight that is replaced.
CallsEnd == \A c \in Callers : caller[c].state = "waiting" ~> caller[c].state # "waiting"
================================================================================
