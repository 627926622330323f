------------------------------- MODULE RpcGrants -------------------------------
(***************************************************************************)
(* Short-lived grants for browser RPC, rpc-authorization.js, over the      *)
(* sessions as it sees them: sessionFromToken deletes a row it finds       *)
(* stale, with a write that may fail, and notifies; so does every          *)
(* revocation.  The gate hears a notification first and may delete stale   *)
(* rows of its own; the grants hear it next, unless they are being swept.  *)
(*                                                                         *)
(* A handler is one action.  The clock does not move within one.           *)
(***************************************************************************)
EXTENDS Integers, FiniteSets

CONSTANTS
    Tokens,     \* sessions, each with a resume scope of its own
    Grants,     \* grants are 32 random bytes: none is issued twice
    NoSession,  \* a grant that was not issued
    Ttl,        \* rpcGrantTtlMs, in ticks
    Slack,      \* a timer may fire this long before Date.now() reaches its time
    MaxGrants, MaxPerScope,
    MaxTime     \* bound: ticks of the clock

ASSUME GrantsAssumption ==
    /\ NoSession \notin Tokens
    /\ Ttl \in Nat \ {0} /\ Slack \in Nat /\ MaxTime \in Nat
    /\ MaxGrants \in Nat \ {0} /\ MaxPerScope \in 1 .. MaxGrants
    /\ IsFiniteSet(Grants)

VARIABLES
    mode,       \* "running"; "lost": the adapter stopped; "disposed"
    session,    \* of each token; "stale": there is a row, and it is no longer good
    status,     \* of each grant: "live" in the map, otherwise why its signal was aborted
    account,    \* row.token and row.scope
    expiresAt,
    timer,      \* of each grant: armed for the first or the second time
    returned,   \* grants that a client was given
    now

vars == <<mode, session, status, account, expiresAt, timer, returned, now>>

Reasons == {"revoked", "expired", "unavailable"}

TypeOK ==
    /\ mode \in {"running", "lost", "disposed"}
    /\ session \in [Tokens -> {"new", "good", "stale", "gone"}]
    /\ status \in [Grants -> {"new", "live"} \cup Reasons]
    /\ account \in [Grants -> Tokens \cup {NoSession}]
    /\ expiresAt \in [Grants -> 0 .. MaxTime]
    /\ timer \in [Grants -> {"off", "first", "second"}]
    /\ returned \in SUBSET Grants
    /\ now \in 0 .. MaxTime

Init ==
    /\ mode = "running"
    /\ session = [t \in Tokens |-> "new"]
    /\ status = [g \in Grants |-> "new"]
    /\ account = [g \in Grants |-> NoSession]
    /\ expiresAt = [g \in Grants |-> 0]
    /\ timer = [g \in Grants |-> "off"]
    /\ returned = {} /\ now = 0

-----------------------------------------------------------------------------

Live == {g \in Grants : status[g] = "live"}
Stale(S) == {t \in Tokens : S[t] = "stale"}
Without(S, T) == [t \in Tokens |-> IF t \in T THEN "gone" ELSE S[t]]

\* what a sweep makes of the grants when the sessions are S; and as it would be if it asked
\* for the time first, or for the time only
SweptByTime(S) ==
    [g \in Grants |-> IF g \notin Live THEN status[g]
                      ELSE IF expiresAt[g] <= now THEN "expired"
                      ELSE IF S[account[g]] # "good" THEN "revoked" ELSE "live"]

SweptExpired(S) ==
    [g \in Grants |-> IF g \in Live /\ expiresAt[g] <= now THEN "expired" ELSE status[g]]

Swept(S) ==
    [g \in Grants |-> IF g \notin Live THEN status[g]
                      ELSE IF S[account[g]] # "good" THEN "revoked"
                      ELSE IF expiresAt[g] <= now THEN "expired" ELSE "live"]

\* dispose(), when the grants of done were retired before; and as it would be if it only
\* stopped listening
EndedQuietly(S, done) ==
    [g \in Grants |-> IF g \in done /\ g \in Live THEN Swept(S)[g] ELSE status[g]]

Ended(S, done) ==
    [g \in Grants |-> IF g \notin Live THEN status[g]
                      ELSE IF g \in done /\ Swept(S)[g] # "live" THEN Swept(S)[g]
                      ELSE "unavailable"]

\* grants become s: retire() clears the timer
GrantsBecome(s) ==
    /\ status' = s
    /\ timer' = [g \in Grants |-> IF s[g] = "live" THEN timer[g] ELSE "off"]

\* the rows of T are deleted, one of these writes fails, and the grants of done were retired
WriteFails(S, T, done) ==
    /\ mode' = "disposed"
    /\ session' = Without(S, T)
    /\ GrantsBecome(Ended(S, done))

\* securityChanged(), once the sessions are S: the gate and the sweep delete stale rows
Notify(S) ==
    \E T \in SUBSET Stale(S) :
        \/ /\ \A g \in Live : account[g] \in Stale(S) => account[g] \in T
           /\ mode' = mode /\ session' = Without(S, T)
           /\ GrantsBecome(Swept(S))
        \/ T # {} /\ \E done \in SUBSET Live : WriteFails(S, T, done)

\* a row is deleted, by sessionFromToken or logout; the write fails, or all are told
Delete(t) == Notify(Without(session, {t})) \/ WriteFails(session, {t}, {})

Retire(g, reason) ==
    /\ GrantsBecome([status EXCEPT ![g] = reason])
    /\ UNCHANGED <<mode, session>>

-----------------------------------------------------------------------------
(* The store, as far as the grants depend on it *)

Login(t) ==
    /\ mode = "running"
    /\ session[t] = "new"
    /\ session' = [session EXCEPT ![t] = "good"]
    /\ UNCHANGED <<mode, status, account, expiresAt, timer, returned, now>>

\* time or a shorter lifetime makes a row stale: nobody is told
GrowsStale(t) ==
    /\ session[t] = "good"
    /\ session' = [session EXCEPT ![t] = "stale"]
    /\ UNCHANGED <<mode, status, account, expiresAt, timer, returned, now>>

\* auth/logout, or another request that shows a stale row
Logout(t) ==
    /\ mode = "running"
    /\ session[t] \in {"good", "stale"}
    /\ Delete(t)
    /\ UNCHANGED <<account, expiresAt, returned, now>>

ChangePassword ==
    LET rows == {t \in Tokens : session[t] \in {"good", "stale"}} IN
    /\ mode = "running"
    /\ Notify(Without(session, rows)) \/ \E T \in {{}, rows} : WriteFails(session, T, {})
    /\ UNCHANGED <<account, expiresAt, returned, now>>

\* any other change of the configuration, the tokens, the peers or the passkeys
SecurityChange ==
    /\ mode = "running"
    /\ Notify(session)
    /\ UNCHANGED <<account, expiresAt, returned, now>>

-----------------------------------------------------------------------------
(* rpc-authorization.js *)

\* no room for another grant of t, once the grants are s
Full(t, s) ==
    \/ Cardinality({g \in Grants : s[g] = "live"}) >= MaxGrants
    \/ Cardinality({g \in Grants : s[g] = "live" /\ account[g] = t}) >= MaxPerScope

Deadline == now + Ttl

\* g joins the grants s
Insert(g, t, s) ==
    /\ status' = [s EXCEPT ![g] = "live"]
    /\ timer' = [h \in Grants |-> IF h = g THEN "first"
                                  ELSE IF s[h] = "live" THEN timer[h] ELSE "off"]
    /\ account' = [account EXCEPT ![g] = t]
    /\ expiresAt' = [expiresAt EXCEPT ![g] = Deadline]

\* issueForRequest of an admitted request with a good session.  A write that fails inside
\* sweep() disposes of everything, but sweep() returns: the new grant is put into the empty
\* map before validRow() throws, and stays there until its timer.
IssueForRequest(t, g) ==
    LET stale == {u \in Stale(session) : \E h \in Live : account[h] = u} IN
    /\ mode = "running"
    /\ session[t] = "good"
    /\ status[g] = "new"
    /\ now + Ttl <= MaxTime
    /\ \/ \E T \in SUBSET Stale(session) :
          /\ stale \subseteq T /\ (stale = {} => T = {})
          /\ session' = Without(session, T)
          /\ IF Full(t, Swept(session))
             THEN /\ GrantsBecome(Swept(session))
                  /\ UNCHANGED <<account, expiresAt, returned>>
             ELSE /\ Insert(g, t, Swept(session))
                  /\ returned' = returned \cup {g}
          /\ UNCHANGED mode
       \/ \E T \in SUBSET Stale(session), done \in SUBSET Live :
          /\ stale # {} /\ T \cap stale # {}
          /\ mode' = "disposed"
          /\ session' = Without(session, T)
          /\ Insert(g, t, Ended(session, done))
          /\ UNCHANGED returned
    /\ UNCHANGED now

\* currentAccount() finds the session of g ended; a stale row is deleted, which retires g.
\* A row that is gone without a notification is provided for, and does not happen.
AccountEnded(g) ==
    /\ session[account[g]] # "good"
    /\ IF session[account[g]] = "stale" THEN Delete(account[g]) ELSE Retire(g, "revoked")

\* authorizeGrant and isCurrent() when they refuse: another peer or scope, no session, or
\* too late.  A grant that passes changes nothing.
AuthorizeGrant(g, same) ==
    /\ mode = "running"
    /\ g \in returned \cap Live
    /\ \/ ~ same /\ Retire(g, "revoked")
       \/ same /\ AccountEnded(g)
       \/ same /\ session[account[g]] = "good" /\ expiresAt[g] <= now /\ Retire(g, "expired")
    /\ UNCHANGED <<account, expiresAt, returned, now>>

\* the callback finds the account current, and the time not reached: it is armed again.
\* And as it would be if it were not.
Forget(g) ==
    /\ timer' = [timer EXCEPT ![g] = "off"]
    /\ UNCHANGED <<mode, session, status>>

Rearm(g) ==
    /\ timer' = [timer EXCEPT ![g] = "second"]
    /\ UNCHANGED <<mode, session, status>>

\* the callback of the timer.  An instance that is not running is not asked, which counts
\* as a revoked account.
TimerFires(g) ==
    /\ timer[g] # "off"
    /\ expiresAt[g] <= now + Slack
    /\ \/ mode # "running" /\ Retire(g, "revoked")
       \/ mode = "running" /\ AccountEnded(g)
       \/ /\ mode = "running" /\ session[account[g]] = "good"
          /\ IF expiresAt[g] <= now \/ timer[g] = "second"
             THEN Retire(g, "expired")
             ELSE Rearm(g)
    /\ UNCHANGED <<account, expiresAt, returned, now>>

\* the adapter stops without dispose(): the route tables of the host changed
AdapterStops ==
    /\ mode = "running"
    /\ mode' = "lost"
    /\ UNCHANGED <<session, status, account, expiresAt, timer, returned, now>>

Dispose ==
    /\ mode # "disposed"
    /\ mode' = "disposed"
    /\ GrantsBecome(Ended(session, {}))
    /\ UNCHANGED <<session, account, expiresAt, returned, now>>

Tick ==
    /\ now < MaxTime
    /\ now' = now + 1
    /\ UNCHANGED <<mode, session, status, account, expiresAt, timer, returned>>

Next ==
    \/ \E t \in Tokens :
        \/ Login(t) \/ GrowsStale(t) \/ Logout(t)
        \/ \E g \in Grants : IssueForRequest(t, g)
    \/ ChangePassword \/ SecurityChange
    \/ \E g \in Grants :
        \/ \E same \in BOOLEAN : AuthorizeGrant(g, same)
        \/ TimerFires(g)
    \/ AdapterStops \/ Dispose \/ Tick

Spec == Init /\ [][Next]_vars

\* time passes, and timers fire
FairSpec == Spec /\ WF_vars(Tick) /\ \A g \in Grants : WF_vars(TimerFires(g))

-----------------------------------------------------------------------------

\* While the instance runs, no signal outlives the session of its grant: whatever deletes
\* a row - logout, password change, a stale row met by the gate, by another grant or by a
\* timer, inside or outside a sweep - aborts the signals in the same stretch.
SignalsFollowSessions ==
    mode = "running" => \A g \in Live : session[account[g]] \in {"good", "stale"}

\* A disposed instance, also one that a failed write disposed in the middle of issuing,
\* leaves no grant in the hands of a client whose signal is not aborted.
DisposedHoldsNothing == mode = "disposed" => returned \cap Live = {}

\* The map of grants never outgrows its limits, in all and per account.
GrantsBounded ==
    /\ Cardinality(Live) <= MaxGrants
    /\ \A t \in Tokens : Cardinality({g \in Live : account[g] = t}) <= MaxPerScope

\* "expired" invites the client to ask for another grant: it is only told so while its
\* session is good.  A revoked account is never reported as a renewable expiry.
ExpiredIsRenewable ==
    [][\A g \in Grants : status'[g] = "expired" /\ status[g] = "live" =>
           session[account[g]] = "good" /\ mode = "running"]_vars

\* Every grant ends, also one whose timer fired early and one left behind by a disposal.
GrantsEnd == \A g \in Grants : status[g] = "live" ~> status[g] \in Reasons
=============================================================================
