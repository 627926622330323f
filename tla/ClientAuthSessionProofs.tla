------------------------ MODULE ClientAuthSessionProofs ------------------------
(***************************************************************************)
(* The page never returns to a login that it knows to be over, and its     *)
(* callers get grants of the login they asked for, for any number of       *)
(* logins, requests, flights and callers.  The invariant is in two halves, *)
(* what the page believes and what it does for its callers, that meet in   *)
(* scope: a step that changes scope retires the grant and the flight.      *)
(***************************************************************************)
EXTENDS ClientAuthSession, TLAPS

Scope == Scopes \cup {NoScope}
Request == [stage : {"idle", "sent", "answered"}, answer : Answer, old : BOOLEAN]
Flight == [stage : {"idle", "sent", "answered", "resolved", "rejected"},
           expected : Scope, value : Scope, aborted : BOOLEAN]
Caller == [state : {"idle", "waiting", "granted"}, flight : Flights \cup {None},
           asked : Scope, got : Scope]

-----------------------------------------------------------------------------
(* The invariant *)

BeliefTypes ==
    /\ server \in Scope /\ issued \in SUBSET Scopes
    /\ leaving \in Scope \cup {None} /\ dead \in SUBSET Scopes
    /\ disposed \in BOOLEAN
    /\ status \in {"unknown", "checking", "authenticated", "unauthenticated", "unavailable"}
    /\ scope \in Scope
    /\ inflight \in Requests \cup {None}
    /\ me \in [Requests -> Request]

\* A login that is over was used, is not the present one, and cannot be used again.
DeadStayDead ==
    /\ dead \subseteq issued
    /\ server \in issued \cup {NoScope} /\ server \notin dead
    /\ leaving \in issued \cup {NoScope, None}
    /\ leaving \notin {NoScope, None} => server # leaving

\* The latest request was made after the last invalidation, and knows of no login that is over.
LatestIsNew ==
    /\ \A r \in Requests : me[r].stage = "idle" => me[r] = IdleRequest
    /\ inflight # None =>
          /\ me[inflight].stage # "idle" /\ ~me[inflight].old
          /\ me[inflight].answer.scope \notin dead

BInv == BeliefTypes /\ DeadStayDead /\ LatestIsNew /\ scope \notin dead

GrantTypes ==
    /\ grant \in Grant
    /\ flight \in Flights \cup {None}
    /\ flights \in [Flights -> Flight]
    /\ caller \in [Callers -> Caller]

\* The latest flight is under way for the scope of the page, and somebody waits for it; every other
\* one under way is being aborted.
OneFlight ==
    /\ flight # None =>
          /\ flights[flight].stage \in {"sent", "answered"}
          /\ flights[flight].expected = scope
          /\ \E c \in Callers : caller[c].state = "waiting" /\ caller[c].flight = flight
    /\ \A f \in Flights :
          flights[f].stage \in {"sent", "answered"} /\ ~flights[f].aborted => flight = f

\* Who waits does so for a flight that asks for his login, and a flight that succeeds has what it
\* asked for.
FlightsFit ==
    /\ \A c \in Callers : caller[c].state = "waiting" =>
          /\ caller[c].flight \in Flights
          /\ flights[caller[c].flight].stage # "idle"
          /\ flights[caller[c].flight].expected = caller[c].asked
    /\ \A f \in Flights : flights[f].stage = "resolved" => flights[f].value = flights[f].expected

GInv == GrantTypes /\ OneFlight /\ FlightsFit /\ GrantFollowsScope /\ CallersGetTheirScope

IInv == BInv /\ GInv

-----------------------------------------------------------------------------
(* The grants of steps that are about the belief *)

LEMMA IdleTypes ==
    /\ Failure \in Answer /\ Failure.scope = NoScope
    /\ IdleRequest \in Request /\ IdleRequest.stage = "idle" /\ ~IdleRequest.old
    /\ IdleRequest.answer = Failure
    /\ IdleFlight \in Flight /\ IdleFlight.stage = "idle" /\ IdleFlight.expected = NoScope
    /\ IdleCaller \in Caller /\ IdleCaller.state = "idle"
    /\ NoGrant \in Grant /\ NoGrant.scope = NoScope
BY DEF Failure, Answer, IdleRequest, Request, IdleFlight, Flight, IdleCaller, Caller, NoGrant, Grant, Scope

\* An answer is about a login, or about none.
LEMMA AnswerScope == \A a \in Answer : a.scope \in Scope
BY DEF Answer, Scope

\* Nothing changes for the callers.
LEMMA GrantsFrame ==
    ASSUME GInv, UNCHANGED <<grants, scope>>
    PROVE  GInv'
BY DEF GInv, GrantTypes, OneFlight, FlightsFit, GrantFollowsScope, CallersGetTheirScope, grants

\* retireRpcGrant() fits any scope.
LEMMA RetireKeeps ==
    ASSUME GInv, Retire
    PROVE  GInv'
<1>1. \A f \in Flights : /\ flights'[f] \in Flight
                         /\ flights'[f].stage = flights[f].stage
                         /\ flights'[f].expected = flights[f].expected
                         /\ flights'[f].value = flights[f].value
                         /\ flights'[f].aborted = (flights[f].aborted \/ f = flight)
  BY DEF Retire, GInv, GrantTypes, Flight
<1>2. flights' \in [Flights -> Flight] /\ grant' \in Grant /\ grant'.scope = NoScope
      /\ flight' = None /\ caller' = caller
  BY <1>1, IdleTypes DEF Retire
<1>3. \A f \in Flights : flights'[f].stage \in {"sent", "answered"} => flights'[f].aborted
  BY <1>1 DEF GInv, OneFlight
<1>. QED
  BY <1>1, <1>2, <1>3
     DEF GInv, GrantTypes, OneFlight, FlightsFit, GrantFollowsScope, CallersGetTheirScope

\* apply(): a new scope retires the grant.
LEMMA ApplyKeeps ==
    ASSUME GInv, NEW a \in Answer, Apply(a)
    PROVE  GInv'
<1>1. CASE a.denied \/ scope' # scope
  BY <1>1, RetireKeeps DEF Apply
<1>2. CASE ~(a.denied \/ scope' # scope)
  BY <1>2, GrantsFrame DEF Apply
<1>. QED BY <1>1, <1>2

-----------------------------------------------------------------------------
(* Steps of the server and of the belief *)

LEMMA ServerStep ==
    ASSUME IInv, \/ \E s \in Scopes : Login(s)
                 \/ \E byPage \in BOOLEAN : LoginEnds(byPage)
                 \/ LogoutLost
    PROVE  IInv'
<1>1. GInv'
  BY GrantsFrame DEF IInv, Login, LoginEnds, LogoutLost, belief
<1>2. BeliefTypes'
  BY DEF IInv, BInv, BeliefTypes, Login, LoginEnds, LogoutLost, belief, Scope
<1>3. DeadStayDead'
  BY ClientAssumption
     DEF IInv, BInv, BeliefTypes, DeadStayDead, Login, LoginEnds, LogoutLost, belief, Scope
<1>4. LatestIsNew' /\ scope' \notin dead'
  BY DEF IInv, BInv, LatestIsNew, Login, LoginEnds, LogoutLost, belief
<1>. QED BY <1>1, <1>2, <1>3, <1>4 DEF IInv, BInv

LEMMA AnswerMeStep ==
    ASSUME IInv, NEW r \in Requests, NEW a \in Answer, AnswerMe(r, a)
    PROVE  IInv'
<1>1. GInv'
  BY GrantsFrame DEF IInv, AnswerMe, belief
<1> DEFINE new == [me[r] EXCEPT !.stage = "answered", !.answer = a]
<1>2. /\ new \in Request /\ new.stage = "answered" /\ new.answer = a /\ new.old = me[r].old
      /\ me' = [me EXCEPT ![r] = new]
  BY DEF AnswerMe, IInv, BInv, BeliefTypes, Request
<1> HIDE DEF new
<1>3. \A q \in Requests : me'[q] = IF q = r THEN new ELSE me[q]
  BY <1>2 DEF IInv, BInv, BeliefTypes
<1>4. a.scope \notin dead
  BY ClientAssumption DEF AnswerMe, Answer, IInv, BInv, BeliefTypes, DeadStayDead
<1>5. UNCHANGED <<server, issued, leaving, dead, disposed, status, scope, inflight>>
  BY DEF AnswerMe, external, belief
<1>6. BeliefTypes'
  BY <1>2, <1>5 DEF IInv, BInv, BeliefTypes
<1>7. LatestIsNew'
  BY <1>2, <1>3, <1>4, <1>5 DEF IInv, BInv, BeliefTypes, LatestIsNew
<1>. QED BY <1>1, <1>5, <1>6, <1>7 DEF IInv, BInv, DeadStayDead

LEMMA RefreshStep ==
    ASSUME IInv, NEW r \in Requests, Refresh(r)
    PROVE  IInv'
<1>1. GInv'
  BY GrantsFrame DEF IInv, Refresh
<1> DEFINE new == [me[r] EXCEPT !.stage = "sent"]
<1>2. /\ new \in Request /\ new.stage = "sent" /\ new.answer = Failure /\ ~new.old
      /\ me' = [me EXCEPT ![r] = new]
  <2>1. me[r] = IdleRequest
    BY DEF Refresh, IInv, BInv, LatestIsNew
  <2>2. me' = [me EXCEPT ![r] = new]
    BY DEF Refresh, IInv, BInv, BeliefTypes
  <2>. QED BY <2>1, <2>2, IdleTypes DEF IdleRequest, Request
<1> HIDE DEF new
<1>3. \A q \in Requests : me'[q] = IF q = r THEN new ELSE me[q]
  BY <1>2 DEF IInv, BInv, BeliefTypes
<1>4. UNCHANGED <<server, issued, leaving, dead, disposed, scope>> /\ inflight' = r
  BY DEF Refresh, external
<1>5. BeliefTypes'
  BY <1>2, <1>4 DEF IInv, BInv, BeliefTypes, Refresh
<1>6. Failure.scope \notin dead
  BY IdleTypes, ClientAssumption DEF IInv, BInv, BeliefTypes
<1>7. LatestIsNew'
  BY <1>2, <1>3, <1>4, <1>6 DEF IInv, BInv, LatestIsNew
<1>. QED BY <1>1, <1>4, <1>5, <1>7 DEF IInv, BInv, DeadStayDead

LEMMA EndMeStep ==
    ASSUME IInv, NEW r \in Requests, EndMe(r)
    PROVE  IInv'
<1>1. me' = [me EXCEPT ![r] = IdleRequest] /\ \A q \in Requests : me'[q] = IF q = r THEN IdleRequest ELSE me[q]
  BY DEF EndMe, IInv, BInv, BeliefTypes
<1>2. UNCHANGED <<server, issued, leaving, dead, disposed>>
  BY DEF EndMe, external
<1>3. CASE inflight = r
  <2>1. PICK a \in {Failure, me[r].answer} : Apply(a)
    BY <1>3 DEF EndMe
  <2>2. a \in Answer /\ a.scope \notin dead
    BY <1>3, IdleTypes, ClientAssumption DEF IInv, BInv, BeliefTypes, LatestIsNew, Request
  <2>3. GInv'
    BY <2>1, <2>2, ApplyKeeps DEF IInv
  <2>4. inflight' = None
    BY <1>3 DEF EndMe
  <2>5. a.status \in {"authenticated", "unauthenticated", "unavailable"} /\ a.scope \in Scope
    BY <2>2 DEF Answer, Scope
  <2>6. status' = a.status /\ scope' \in {scope, a.scope}
    BY <2>1 DEF Apply
  <2>7. BeliefTypes'
    BY <1>1, <1>2, <2>4, <2>5, <2>6, IdleTypes DEF IInv, BInv, BeliefTypes
  <2>8. LatestIsNew'
    BY <1>1, <2>4 DEF IInv, BInv, LatestIsNew
  <2>. QED BY <1>2, <2>2, <2>3, <2>6, <2>7, <2>8 DEF IInv, BInv, DeadStayDead
<1>4. CASE inflight # r
  <2>1. UNCHANGED <<inflight, status, scope, grants>>
    BY <1>4 DEF EndMe
  <2>2. GInv'
    BY <2>1, GrantsFrame DEF IInv
  <2>3. BeliefTypes'
    BY <1>1, <1>2, <2>1, IdleTypes DEF IInv, BInv, BeliefTypes
  <2>4. LatestIsNew'
    BY <1>1, <1>2, <1>4, <2>1 DEF IInv, BInv, BeliefTypes, LatestIsNew
  <2>. QED BY <1>2, <2>1, <2>2, <2>3, <2>4 DEF IInv, BInv, DeadStayDead
<1>. QED BY <1>3, <1>4

\* The requests under way become old: each is what it was otherwise.
LEMMA Olds ==
    ASSUME BInv, me' = GrowOld
    PROVE  /\ me' \in [Requests -> Request]
           /\ \A r \in Requests : me'[r].stage = "idle" => me'[r] = IdleRequest
<1>1. ASSUME NEW r \in Requests
      PROVE  me'[r] \in Request /\ (me'[r].stage = "idle" => me'[r] = IdleRequest)
  <2>1. me[r] \in Request /\ me'[r] = [me[r] EXCEPT !.old = me[r].stage # "idle"]
    BY DEF BInv, BeliefTypes, GrowOld
  <2>2. me'[r] \in Request /\ me'[r].stage = me[r].stage
    BY <2>1 DEF Request
  <2>3. CASE me[r].stage = "idle"
    <3>1. me[r] = [stage |-> "idle", answer |-> Failure, old |-> FALSE]
      BY <2>3 DEF BInv, LatestIsNew, IdleRequest
    <3>2. me'[r] = [me[r] EXCEPT !.old = FALSE]
      BY <2>1, <2>3
    <3>3. /\ me'[r].stage = "idle" /\ me'[r].old = FALSE
          /\ me'[r].answer = me[r].answer /\ me[r].answer = Failure
      BY <2>1, <2>3, <3>1, <3>2 DEF Request
    <3>. QED BY <2>2, <3>3 DEF Request, IdleRequest
  <2>. QED BY <2>2, <2>3
<1>2. me' = [r \in Requests |-> me'[r]]
  BY DEF GrowOld
<1>. QED BY <1>1, <1>2

LEMMA InvalidateStep ==
    ASSUME IInv, LogoutAnswered \/ InvalidatedByOther \/ Dispose
    PROVE  IInv'
<1>1. GInv'
  BY RetireKeeps DEF IInv, LogoutAnswered, InvalidatedByOther, Dispose, Invalidate
<1>2. me' = GrowOld /\ inflight' = None
  BY DEF LogoutAnswered, InvalidatedByOther, Dispose, Invalidate
<1>3. me' \in [Requests -> Request] /\ LatestIsNew'
  BY <1>2, Olds DEF IInv, BInv, LatestIsNew
<1>4. BeliefTypes' /\ DeadStayDead' /\ scope' \notin dead'
  <2>1. CASE LogoutAnswered
    BY <1>2, <1>3, <2>1, ClientAssumption
       DEF IInv, BInv, BeliefTypes, DeadStayDead, LogoutAnswered, Invalidate, Scope
  <2>2. CASE InvalidatedByOther
    BY <1>2, <1>3, <2>2, ClientAssumption
       DEF IInv, BInv, BeliefTypes, DeadStayDead, InvalidatedByOther, Invalidate, external, Scope
  <2>3. CASE Dispose
    BY <1>2, <1>3, <2>3 DEF IInv, BInv, BeliefTypes, DeadStayDead, Dispose, external
  <2>. QED BY <2>1, <2>2, <2>3
<1>. QED BY <1>1, <1>3, <1>4 DEF IInv, BInv

-----------------------------------------------------------------------------
(* Steps of the callers *)

\* They leave the belief alone.
LEMMA BeliefFrame ==
    ASSUME BInv, UNCHANGED <<external, belief, inflight, me>>
    PROVE  BInv'
BY DEF BInv, BeliefTypes, DeadStayDead, LatestIsNew, external, belief

LEMMA AnswerGrantStep ==
    ASSUME IInv, NEW f \in Flights, AnswerGrant(f)
    PROVE  IInv'
<1>1. BInv'
  BY BeliefFrame DEF IInv, AnswerGrant
<1> DEFINE new == [flights[f] EXCEPT !.stage = "answered", !.value = server]
<1>2. /\ new \in Flight /\ new.stage = "answered"
      /\ new.expected = flights[f].expected /\ new.aborted = flights[f].aborted
      /\ flights' = [flights EXCEPT ![f] = new]
  BY DEF AnswerGrant, IInv, BInv, BeliefTypes, GInv, GrantTypes, Flight
<1> HIDE DEF new
<1>3. \A h \in Flights : flights'[h] = IF h = f THEN new ELSE flights[h]
  BY <1>2 DEF IInv, GInv, GrantTypes
<1>4. flights[f].stage = "sent" /\ UNCHANGED <<scope, grant, flight, caller>>
  BY DEF AnswerGrant, belief
<1>5. GrantTypes'
  BY <1>2, <1>4 DEF IInv, GInv, GrantTypes
<1>6. OneFlight'
  BY <1>2, <1>3, <1>4 DEF IInv, GInv, GrantTypes, OneFlight
<1>7. FlightsFit'
  BY <1>2, <1>3, <1>4 DEF IInv, GInv, FlightsFit
<1>. QED
  BY <1>1, <1>4, <1>5, <1>6, <1>7 DEF IInv, GInv, GrantFollowsScope, CallersGetTheirScope

LEMMA GrantAgesStep ==
    ASSUME IInv, GrantAges
    PROVE  IInv'
<1>1. BInv'
  BY BeliefFrame DEF IInv, GrantAges
<1>2. grant' \in Grant /\ grant'.scope = grant.scope /\ UNCHANGED <<scope, flight, flights, caller>>
  BY DEF GrantAges, belief, IInv, GInv, GrantTypes, Grant
<1>. QED
  BY <1>1, <1>2
     DEF IInv, GInv, GrantTypes, OneFlight, FlightsFit, GrantFollowsScope, CallersGetTheirScope

\* What one caller becomes, when no flight changes and he was not waiting.
LEMMA CallerStep ==
    ASSUME GInv, UNCHANGED <<scope, grant, flight, flights>>,
           NEW c \in Callers, NEW new \in Caller,
           caller[c].state # "waiting", caller' = [caller EXCEPT ![c] = new],
           new.state = "waiting" => /\ new.flight \in Flights
                                    /\ flights[new.flight].stage # "idle"
                                    /\ flights[new.flight].expected = new.asked,
           new.state = "granted" => new.got = new.asked
    PROVE  GInv'
<1>1. \A d \in Callers : caller'[d] = IF d = c THEN new ELSE caller[d]
  BY DEF GInv, GrantTypes
<1>2. GrantTypes'
  BY DEF GInv, GrantTypes
<1>3. OneFlight'
  BY <1>1 DEF GInv, OneFlight
<1>4. FlightsFit' /\ CallersGetTheirScope'
  BY <1>1 DEF GInv, FlightsFit, CallersGetTheirScope
<1>. QED BY <1>2, <1>3, <1>4 DEF GInv, GrantFollowsScope

LEMMA RequestStep ==
    ASSUME IInv, NEW c \in Callers, NEW force \in BOOLEAN, RequestRpcGrant(c, force)
    PROVE  IInv'
<1>1. BInv'
  BY BeliefFrame DEF IInv, RequestRpcGrant
<1>2. scope \in Scope /\ caller[c].state # "waiting" /\ UNCHANGED <<scope, grant>>
  BY DEF RequestRpcGrant, belief, IInv, BInv, BeliefTypes
<1> DEFINE asked == [IdleCaller EXCEPT !.asked = scope]
           granted == [asked EXCEPT !.state = "granted", !.got = scope]
           waits(f) == [asked EXCEPT !.state = "waiting", !.flight = f]
<1>3. /\ granted \in Caller /\ granted.state = "granted" /\ granted.got = granted.asked
      /\ \A f \in Flights : /\ waits(f) \in Caller /\ waits(f).state = "waiting"
                             /\ waits(f).flight = f /\ waits(f).asked = scope
  <2>1. /\ asked \in Caller /\ asked.asked = scope
    BY <1>2, IdleTypes DEF IdleCaller, Caller
  <2> HIDE DEF asked
  <2>2. granted \in Caller /\ granted.state = "granted" /\ granted.got = granted.asked
    BY <1>2, <2>1 DEF Caller
  <2>3. ASSUME NEW f \in Flights
        PROVE  waits(f) \in Caller /\ waits(f).state = "waiting" /\ waits(f).flight = f /\ waits(f).asked = scope
    BY <2>1 DEF Caller
  <2>. QED BY <2>2, <2>3
<1> DEFINE serve(f) == [h \in Flights |->
               IF h = f THEN [IdleFlight EXCEPT !.stage = "sent", !.expected = scope]
               ELSE IF h = flight THEN [flights[h] EXCEPT !.aborted = TRUE] ELSE flights[h]]
<1>4. \/ Refuse(c) /\ UNCHANGED <<flight, flights>>
      \/ caller' = [caller EXCEPT ![c] = granted] /\ UNCHANGED <<flight, flights>>
      \/ /\ flight # None /\ caller' = [caller EXCEPT ![c] = waits(flight)]
         /\ UNCHANGED <<flight, flights>>
      \/ \E f \in Flights :
            /\ flights[f].stage = "idle" /\ flight' = f /\ flights' = serve(f)
            /\ caller' = [caller EXCEPT ![c] = waits(f)]
  BY DEF RequestRpcGrant
<1> HIDE DEF granted, waits
<1>5. CASE Refuse(c) /\ UNCHANGED <<flight, flights>>
  BY <1>1, <1>2, <1>5, IdleTypes, CallerStep DEF Refuse, IInv
<1>6. CASE caller' = [caller EXCEPT ![c] = granted] /\ UNCHANGED <<flight, flights>>
  BY <1>1, <1>2, <1>3, <1>6, CallerStep DEF IInv
<1>7. CASE /\ flight # None /\ caller' = [caller EXCEPT ![c] = waits(flight)]
           /\ UNCHANGED <<flight, flights>>
  <2>1. /\ flight \in Flights /\ flights[flight].stage # "idle"
        /\ flights[flight].expected = scope
    BY <1>7 DEF IInv, GInv, GrantTypes, OneFlight
  <2>. QED BY <1>1, <1>2, <1>3, <1>7, <2>1, CallerStep DEF IInv
<1>8. ASSUME NEW f \in Flights, flights[f].stage = "idle", flight' = f, flights' = serve(f),
             caller' = [caller EXCEPT ![c] = waits(f)]
      PROVE  IInv'
  <2>1. /\ flights'[f] \in Flight /\ flights'[f].stage = "sent" /\ flights'[f].expected = scope
    <3>1. flights'[f] = [IdleFlight EXCEPT !.stage = "sent", !.expected = scope]
      BY <1>8
    <3>2. flights'[f] = [stage |-> "sent", expected |-> scope, value |-> NoScope, aborted |-> FALSE]
      BY <3>1 DEF IdleFlight
    <3>. QED BY <1>2, <3>2 DEF Flight, Scope
  <2>2. ASSUME NEW h \in Flights, h # f
        PROVE  /\ flights'[h] \in Flight
               /\ flights'[h].stage = flights[h].stage /\ flights'[h].value = flights[h].value
               /\ flights'[h].expected = flights[h].expected
               /\ flights'[h].aborted = (flights[h].aborted \/ h = flight)
    BY <1>8, <2>2 DEF IInv, GInv, GrantTypes, Flight
  <2>3. \A d \in Callers : caller'[d] = IF d = c THEN waits(f) ELSE caller[d]
    BY <1>8 DEF IInv, GInv, GrantTypes
  <2>4. \A h \in Flights : flights'[h] \in Flight
    BY <2>1, <2>2
  <2>5. flights' \in [Flights -> Flight]
    BY <1>8, <2>4
  <2>6. GrantTypes'
    BY <1>2, <1>3, <1>8, <2>5 DEF IInv, GInv, GrantTypes
  <2>7. OneFlight'
    BY <1>2, <1>3, <1>8, <2>1, <2>2, <2>3 DEF IInv, GInv, GrantTypes, OneFlight
  <2>8. FlightsFit'
    BY <1>2, <1>3, <1>8, <2>1, <2>2, <2>3 DEF IInv, GInv, GrantTypes, FlightsFit
  <2>9. CallersGetTheirScope' /\ GrantFollowsScope'
    BY <1>2, <1>3, <2>3 DEF IInv, GInv, CallersGetTheirScope, GrantFollowsScope
  <2>. QED BY <1>1, <2>6, <2>7, <2>8, <2>9 DEF IInv, GInv
<1>. QED BY <1>4, <1>5, <1>6, <1>7, <1>8

LEMMA EndFlightStep ==
    ASSUME IInv, NEW f \in Flights, EndFlight(f)
    PROVE  IInv'
<1>1. BInv'
  BY BeliefFrame DEF IInv, EndFlight
<1>2. /\ flights[f].stage \in {"sent", "answered"} /\ flight' = IF flight = f THEN None ELSE flight
      /\ UNCHANGED <<scope, caller>>
  BY DEF EndFlight, belief
<1>3. ASSUME NEW new \in Flight, flights' = [flights EXCEPT ![f] = new],
             new.stage \in {"idle", "resolved", "rejected"},
             new.stage = "idle" => Waiting(f) = {},
             new.stage # "idle" => new.expected = flights[f].expected,
             new.stage = "resolved" => new.value = new.expected,
             grant' \in Grant, grant'.scope \in {NoScope, scope}
      PROVE  GInv'
  <2>1. \A h \in Flights : flights'[h] = IF h = f THEN new ELSE flights[h]
    BY <1>3 DEF IInv, GInv, GrantTypes
  <2>2. GrantTypes'
    BY <1>2, <1>3 DEF IInv, GInv, GrantTypes
  <2>3. OneFlight'
    BY <1>2, <1>3, <2>1, ClientAssumption DEF IInv, GInv, GrantTypes, OneFlight
  <2>4. \A c \in Callers : caller[c].state = "waiting" /\ caller[c].flight = f => new.stage # "idle"
    BY <1>3 DEF Waiting
  <2>5. FlightsFit'
    BY <1>2, <1>3, <2>1, <2>4 DEF IInv, GInv, GrantTypes, FlightsFit
  <2>. QED
    BY <1>2, <1>3, <2>2, <2>3, <2>5 DEF IInv, GInv, GrantFollowsScope, CallersGetTheirScope
<1>4. CASE /\ Good(f) /\ \E fresh \in BOOLEAN : grant' = [scope |-> flights[f].value, fresh |-> fresh]
           /\ flights' = [flights EXCEPT ![f].stage = "resolved"]
  <2> DEFINE new == [flights[f] EXCEPT !.stage = "resolved"]
  <2>1. /\ new \in Flight /\ new.stage = "resolved" /\ new.expected = flights[f].expected
        /\ new.value = flights[f].value /\ flights' = [flights EXCEPT ![f] = new]
    BY <1>4 DEF IInv, GInv, GrantTypes, Flight
  <2>2. flights[f].value = flights[f].expected /\ scope = flights[f].expected /\ scope \in Scope
    BY <1>4 DEF Good, IInv, BInv, BeliefTypes
  <2>3. grant' \in Grant /\ grant'.scope = scope
    BY <1>4, <2>2 DEF Grant, Scope
  <2> HIDE DEF new
  <2>. QED BY <1>1, <1>3, <2>1, <2>2, <2>3 DEF IInv
<1>5. CASE /\ flights' = [flights EXCEPT ![f] =
                  IF Waiting(f) = {} THEN IdleFlight ELSE [flights[f] EXCEPT !.stage = "rejected"]]
           /\ UNCHANGED grant
  <2> DEFINE new == IF Waiting(f) = {} THEN IdleFlight ELSE [flights[f] EXCEPT !.stage = "rejected"]
  <2>1. /\ new \in Flight /\ new.stage \in {"idle", "rejected"}
        /\ new.stage = "idle" => Waiting(f) = {}
        /\ new.stage # "idle" => new.expected = flights[f].expected
        /\ flights' = [flights EXCEPT ![f] = new]
    BY <1>5, IdleTypes DEF IInv, GInv, GrantTypes, Flight
  <2>2. grant' \in Grant /\ grant'.scope \in {NoScope, scope}
    BY <1>5 DEF IInv, GInv, GrantTypes, GrantFollowsScope
  <2> HIDE DEF new
  <2>. QED BY <1>1, <1>3, <2>1, <2>2 DEF IInv
<1>. QED BY <1>4, <1>5 DEF EndFlight

\* One who leaves was waiting; who else waits for the same flight keeps it.
LEMMA LeaveStep ==
    ASSUME IInv, NEW c \in Callers, caller[c].state = "waiting", Leave(c),
           NEW new \in Caller, caller' = [caller EXCEPT ![c] = new],
           new.state # "waiting", new.state = "granted" => new.got = new.asked
    PROVE  IInv'
<1>1. BInv'
  BY BeliefFrame DEF IInv, Leave
<1> DEFINE f == caller[c].flight
           last == Waiting(f) = {c}
           left == IF last /\ flights[f].stage \in {"resolved", "rejected"} THEN IdleFlight
                   ELSE IF last /\ f = flight THEN [flights[f] EXCEPT !.aborted = TRUE]
                   ELSE flights[f]
<1>2. f \in Flights /\ flights[f] \in Flight /\ flights[f].stage # "idle"
  BY DEF IInv, GInv, GrantTypes, FlightsFit
<1>3. /\ flights' = [flights EXCEPT ![f] = left]
      /\ flight' = IF last /\ f = flight THEN None ELSE flight
      /\ UNCHANGED <<scope, grant>>
  BY <1>2 DEF Leave, belief, IInv, GInv, GrantTypes
<1>4. /\ left \in Flight
      /\ ~last => left = flights[f]
      /\ left.stage = "idle" => last
      /\ left.stage # "idle" => /\ left.stage = flights[f].stage
                                /\ left.expected = flights[f].expected
                                /\ left.value = flights[f].value
      /\ left.stage \in {"sent", "answered"} /\ ~left.aborted => left = flights[f]
      /\ last /\ f = flight /\ left.stage \in {"sent", "answered"} => left.aborted
  BY <1>2, IdleTypes DEF Flight
<1>5. /\ \A d \in Callers : caller'[d] = IF d = c THEN new ELSE caller[d]
      /\ \A h \in Flights : flights'[h] = IF h = f THEN left ELSE flights[h]
  BY <1>3 DEF IInv, GInv, GrantTypes
<1>6. /\ ~last => \E d \in Callers : d # c /\ caller[d].state = "waiting" /\ caller[d].flight = f
      /\ last => \A d \in Callers : d # c /\ caller[d].state = "waiting" => caller[d].flight # f
  BY DEF Waiting
<1> HIDE DEF f, last, left
<1>7. GrantTypes'
  BY <1>3, <1>4 DEF IInv, GInv, GrantTypes
<1>8. OneFlight'
  <2>1. ASSUME flight' # None
        PROVE  /\ flights'[flight'].stage \in {"sent", "answered"}
               /\ flights'[flight'].expected = scope
               /\ \E d \in Callers : caller'[d].state = "waiting" /\ caller'[d].flight = flight'
    <3>1. flight' = flight /\ flight \in Flights /\ ~(last /\ f = flight)
      BY <1>3, <2>1 DEF IInv, GInv, GrantTypes
    <3>2. flights'[flight] = flights[flight]
      BY <1>4, <1>5, <3>1
    <3>3. PICK d \in Callers : caller[d].state = "waiting" /\ caller[d].flight = flight
      BY <2>1, <3>1 DEF IInv, GInv, OneFlight
    <3>4. CASE f = flight
      BY <1>5, <1>6, <2>1, <3>1, <3>2, <3>4 DEF IInv, GInv, OneFlight
    <3>5. CASE f # flight
      <4>1. d # c
        BY <3>3, <3>5 DEF f
      <4>. QED BY <1>5, <2>1, <3>1, <3>2, <3>3, <4>1 DEF IInv, GInv, OneFlight
    <3>. QED BY <3>4, <3>5
  <2>2. ASSUME NEW h \in Flights, flights'[h].stage \in {"sent", "answered"}, ~flights'[h].aborted
        PROVE  flight' = h
    <3>1. flights[h] = flights'[h]
      BY <1>4, <1>5, <2>2
    <3>2. flight = h
      BY <2>2, <3>1 DEF IInv, GInv, OneFlight
    <3>. QED BY <1>3, <1>4, <1>5, <2>2, <3>2
  <2>. QED BY <1>3, <2>1, <2>2 DEF OneFlight
<1>9. FlightsFit'
  <2>1. ASSUME NEW d \in Callers, caller'[d].state = "waiting"
        PROVE  /\ caller'[d].flight \in Flights
               /\ flights'[caller'[d].flight].stage # "idle"
               /\ flights'[caller'[d].flight].expected = caller'[d].asked
    <3>1. d # c /\ caller'[d] = caller[d]
      BY <1>5, <2>1
    <3>. QED BY <1>4, <1>5, <1>6, <2>1, <3>1 DEF IInv, GInv, FlightsFit
  <2>2. \A h \in Flights : flights'[h].stage = "resolved" => flights'[h].value = flights'[h].expected
    BY <1>4, <1>5 DEF IInv, GInv, FlightsFit
  <2>. QED BY <2>1, <2>2 DEF FlightsFit
<1>10. GrantFollowsScope' /\ CallersGetTheirScope'
  BY <1>3, <1>5 DEF IInv, GInv, GrantFollowsScope, CallersGetTheirScope
<1>. QED BY <1>1, <1>7, <1>8, <1>9, <1>10 DEF IInv, GInv

LEMMA SettleStep ==
    ASSUME IInv, NEW c \in Callers, Settle(c) \/ CallerAborts(c)
    PROVE  IInv'
<1>1. caller[c].state = "waiting" /\ Leave(c)
  BY DEF Settle, CallerAborts
<1> DEFINE new == [caller[c] EXCEPT !.state = "granted", !.flight = None,
                                    !.got = flights[caller[c].flight].value]
<1>2. CASE Refuse(c)
  BY <1>1, <1>2, IdleTypes, LeaveStep DEF Refuse
<1>3. CASE /\ flights[caller[c].flight].stage = "resolved"
           /\ caller' = [caller EXCEPT ![c].state = "granted", ![c].flight = None,
                                       ![c].got = flights[caller[c].flight].value]
  <2>1. caller[c].flight \in Flights /\ flights[caller[c].flight].value = caller[c].asked
    BY <1>1, <1>3 DEF IInv, GInv, FlightsFit
  <2>2. flights[caller[c].flight].value \in Scope
    BY <2>1 DEF IInv, GInv, GrantTypes, Flight
  <2>3. /\ new \in Caller /\ new.state = "granted" /\ new.got = new.asked
        /\ caller' = [caller EXCEPT ![c] = new]
    BY <1>3, <2>1, <2>2 DEF IInv, GInv, GrantTypes, Caller
  <2> HIDE DEF new
  <2>. QED BY <1>1, <2>3, LeaveStep
<1>. QED BY <1>2, <1>3 DEF Settle, CallerAborts

-----------------------------------------------------------------------------
(* The theorems *)

LEMMA InitHolds == Init => IInv
<1> SUFFICES ASSUME Init PROVE IInv
  OBVIOUS
<1>1. BInv
  BY IdleTypes, ClientAssumption DEF Init, BInv, BeliefTypes, DeadStayDead, LatestIsNew, Scope
<1>2. GrantTypes
  BY IdleTypes DEF Init, GrantTypes
<1>3. OneFlight /\ FlightsFit /\ GrantFollowsScope /\ CallersGetTheirScope
  BY IdleTypes
     DEF Init, OneFlight, FlightsFit, GrantFollowsScope, CallersGetTheirScope
<1>. QED BY <1>1, <1>2, <1>3 DEF IInv, GInv

LEMMA StepKeeps == IInv /\ [Next]_vars => IInv'
<1> SUFFICES ASSUME IInv, [Next]_vars PROVE IInv'
  OBVIOUS
<1>1. CASE UNCHANGED vars
  <2>1. BInv'
    BY <1>1, BeliefFrame DEF IInv, vars
  <2>. QED BY <1>1, <2>1, GrantsFrame DEF IInv, vars, belief
<1>2. CASE Next
  BY <1>2, ServerStep, AnswerMeStep, RefreshStep, EndMeStep, InvalidateStep, AnswerGrantStep,
     GrantAgesStep, RequestStep, EndFlightStep, SettleStep
     DEF Next
<1>. QED BY <1>1, <1>2

\* The page never believes in a login that it knows to be over, its grant is of the login it
\* believes in, and each caller waits for a flight of the login it asked for.
THEOREM BeliefsAgree == Spec => []IInv
BY InitHolds, StepKeeps, PTL DEF Spec

\* Each variable of the page is what the code keeps in it.
THEOREM ClientTypeCorrect == Spec => []TypeOK
<1>1. IInv => TypeOK
  BY DEF IInv, BInv, BeliefTypes, LatestIsNew, GInv, GrantTypes, OneFlight, TypeOK,
         Scope, Request, Flight, Caller
<1>. QED BY BeliefsAgree, <1>1, PTL

\* A login whose logout was acknowledged does not come back through a late answer.
THEOREM LoggedOutStaysOut == Spec => []NoRevival
<1>1. IInv => NoRevival
  BY ClientAssumption DEF IInv, BInv, BeliefTypes, GInv, GrantFollowsScope, NoRevival
<1>. QED BY BeliefsAgree, <1>1, PTL

\* The cached grant belongs to the login of the page.
THEOREM GrantOfTheLogin == Spec => []GrantFollowsScope
<1>1. IInv => GrantFollowsScope
  BY DEF IInv, GInv
<1>. QED BY BeliefsAgree, <1>1, PTL

\* Whoever shares a flight is given a grant of the login it asked for.
THEOREM CallersServedTheirLogin == Spec => []CallersGetTheirScope
<1>1. IInv => CallersGetTheirScope
  BY DEF IInv, GInv
<1>. QED BY BeliefsAgree, <1>1, PTL

\* A request for a grant that nobody waits for is being aborted.
THEOREM FlightsAreWatched == Spec => []NothingUnwatched
<1>1. IInv => NothingUnwatched
  <2> SUFFICES ASSUME IInv, NEW f \in Flights,
                      flights[f].stage \in {"sent", "answered"}, ~flights[f].aborted
               PROVE  flight = f /\ Waiting(f) # {}
    BY DEF NothingUnwatched
  <2>1. flight = f
    BY DEF IInv, GInv, OneFlight
  <2>2. f # None
    BY ClientAssumption
  <2>. QED BY <2>1, <2>2 DEF IInv, GInv, OneFlight, Waiting
<1>. QED BY BeliefsAgree, <1>1, PTL

\* The answer to what was asked before an invalidation changes nothing.
THEOREM OldAnswersIgnored == Spec => OldAnswersChangeNothing
<1>1. IInv /\ [Next]_vars =>
          [\A r \in Requests : me[r].old /\ me'[r].stage = "idle" =>
               UNCHANGED <<status, scope, grant, flight>>]_vars
  <2> SUFFICES ASSUME IInv, Next, NEW r \in Requests, me[r].old, me'[r].stage = "idle"
               PROVE  UNCHANGED <<status, scope, grant, flight>>
    OBVIOUS
  <2>1. me[r].stage # "idle" /\ inflight # r
    BY ClientAssumption, IdleTypes DEF IInv, BInv, BeliefTypes, LatestIsNew
  <2>2. me' # me /\ me' # GrowOld
    <3>1. GrowOld[r] = [me[r] EXCEPT !.old = me[r].stage # "idle"] /\ me[r] \in Request
      BY DEF GrowOld, IInv, BInv, BeliefTypes
    <3>2. GrowOld[r].stage = me[r].stage
      BY <3>1 DEF Request
    <3>. QED BY <2>1, <3>2
  <2>3. \E q \in Requests : EndMe(q) \/ Refresh(q) \/ \E a \in Answer : AnswerMe(q, a)
    BY <2>2
       DEF Next, Login, LoginEnds, LogoutAnswered, LogoutLost, InvalidatedByOther, Dispose, Invalidate,
           GrantAges, AnswerGrant, EndFlight, RequestRpcGrant, Settle, CallerAborts, Leave
  <2>4. PICK q \in Requests : EndMe(q) \/ Refresh(q) \/ \E a \in Answer : AnswerMe(q, a)
    BY <2>3
  <2>5. ASSUME Refresh(q) PROVE FALSE
    BY <2>1, <2>5 DEF Refresh, IInv, BInv, BeliefTypes, Request
  <2>6. ASSUME NEW a \in Answer, AnswerMe(q, a) PROVE FALSE
    BY <2>1, <2>6 DEF AnswerMe, IInv, BInv, BeliefTypes, Request
  <2>7. EndMe(q)
    BY <2>4, <2>5, <2>6
  <2>8. q = r
    BY <2>1, <2>7 DEF EndMe, IInv, BInv, BeliefTypes
  <2>. QED BY <2>1, <2>7, <2>8 DEF EndMe, grants
<1>. QED BY BeliefsAgree, <1>1, PTL DEF Spec, OldAnswersChangeNothing
================================================================================
