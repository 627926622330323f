------------------------------- MODULE HostProofs -------------------------------
(***************************************************************************)
(* The plugin and its host.  The safety properties of RpcGrants, for any   *)
(* sessions, any finite set of grants, and any limits and times; that the  *)
(* guard of AdapterEpochs implements Door, and its safety properties, for  *)
(* any number of applications and of foreign patches.  The guard and       *)
(* index.js never look at the patches of fetch, so that the two halves are *)
(* proved apart.                                                           *)
(***************************************************************************)
EXTENDS RpcGrants, AdapterEpochs, FiniteSetTheorems, TLAPS

-----------------------------------------------------------------------------
(* Grants *)

SessionStates == {"new", "good", "stale", "gone"}

\* A grant that was issued has an account, and only such a grant was returned.
Issued == \A g \in Grants :
    /\ status[g] # "new" => account[g] \in Tokens
    /\ g \in returned => status[g] # "new"

\* Only grants in the map have a timer.
Timed == \A g \in Grants : timer[g] # "off" => status[g] = "live"

IInv ==
    /\ TypeOK
    /\ Issued
    /\ Timed
    /\ SignalsFollowSessions
    /\ DisposedHoldsNothing
    /\ GrantsBounded

-----------------------------------------------------------------------------
(* What a handler leaves behind that adds no grant *)

rest == <<account, expiresAt, returned, now>>

\* Fewer grants are within the limits too.
LEMMA FewerAreBounded ==
    ASSUME GrantsBounded, TypeOK, Live' \subseteq Live, account' = account
    PROVE  GrantsBounded'
<1>1. IsFiniteSet(Live)
  <2>1. Live \subseteq Grants
    BY DEF Live
  <2> QED BY <2>1, GrantsAssumption, FS_Subset
<1>2. Cardinality(Live') <= Cardinality(Live) /\ Cardinality(Live') \in Nat /\ Cardinality(Live) \in Nat
  BY <1>1, FS_Subset, FS_CardinalityType
<1>3. ASSUME NEW t \in Tokens
      PROVE  Cardinality({g \in Live' : account[g] = t}) <= MaxPerScope
  <2> DEFINE old == {g \in Live : account[g] = t}
             new == {g \in Live' : account[g] = t}
  <2>1. IsFiniteSet(old)
    <3>1. old \subseteq Live
      OBVIOUS
    <3> QED BY <3>1, <1>1, FS_Subset
  <2>2. new \subseteq old
    OBVIOUS
  <2>3. Cardinality(new) <= Cardinality(old) /\ Cardinality(new) \in Nat /\ Cardinality(old) \in Nat
    BY <2>1, <2>2, FS_Subset, FS_CardinalityType
  <2>4. Cardinality(old) <= MaxPerScope
    BY DEF GrantsBounded
  <2> HIDE DEF old, new
  <2>5. Cardinality(new) <= MaxPerScope
    BY <2>3, <2>4, GrantsAssumption
  <2> QED BY <2>5 DEF new
<1>4. Cardinality(Live') <= MaxGrants
  BY <1>2, GrantsAssumption DEF GrantsBounded
<1> QED BY <1>3, <1>4 DEF GrantsBounded

\* What sweep() and dispose() make of a grant.
LEMMA SweptGrants ==
    ASSUME TypeOK, NEW S \in [Tokens -> SessionStates], NEW done
    PROVE  /\ Swept(S) \in [Grants -> {"new", "live"} \cup Reasons]
           /\ Ended(S, done) \in [Grants -> {"new", "live"} \cup Reasons]
           /\ \A g \in Grants : /\ Swept(S)[g] = "live" => g \in Live /\ S[account[g]] = "good"
                                /\ Swept(S)[g] = "new" <=> status[g] = "new"
                                /\ Ended(S, done)[g] # "live"
                                /\ Ended(S, done)[g] = "new" <=> status[g] = "new"
BY DEF Swept, Ended, Live, TypeOK, Reasons

\* Rows are only deleted by Without.
LEMMA WithoutRows ==
    ASSUME NEW S \in [Tokens -> SessionStates], NEW T
    PROVE  /\ Without(S, T) \in [Tokens -> SessionStates]
           /\ \A t \in Tokens \ T : Without(S, T)[t] = S[t]
BY DEF Without, SessionStates

\* A grant list s in which no grant is new or revived, with its timers.
LEMMA FewerGrants ==
    ASSUME IInv, NEW s \in [Grants -> {"new", "live"} \cup Reasons], GrantsBecome(s),
           UNCHANGED rest, mode' \in {"running", "lost", "disposed"},
           session' \in [Tokens -> SessionStates],
           \A g \in Grants : /\ s[g] = "live" => g \in Live
                             /\ s[g] = "new" <=> status[g] = "new",
           mode' = "running" =>
               \A g \in Grants : s[g] = "live" => session'[account[g]] \in {"good", "stale"},
           mode' = "disposed" => \A g \in returned : s[g] # "live"
    PROVE  IInv'
<1>1. TypeOK'
  BY DEF IInv, TypeOK, GrantsBecome, rest, SessionStates
<1>2. Issued'
  BY DEF IInv, Issued, GrantsBecome, rest, Live
<1>7. Timed'
  BY DEF Timed, GrantsBecome
<1>3. Live' \subseteq Live /\ \A g \in Live' : s[g] = "live" /\ g \in Grants
  BY DEF Live, GrantsBecome
<1>4. SignalsFollowSessions'
  BY <1>3 DEF SignalsFollowSessions, rest
<1>5. DisposedHoldsNothing'
  BY <1>3 DEF DisposedHoldsNothing, rest
<1>6. GrantsBounded'
  BY <1>3, FewerAreBounded DEF IInv, rest
<1> QED BY <1>1, <1>2, <1>4, <1>5, <1>6, <1>7 DEF IInv

\* A write that fails leaves no grant.
LEMMA FailureKeeps ==
    ASSUME IInv, NEW S \in [Tokens -> SessionStates], NEW T, NEW done,
           WriteFails(S, T, done), UNCHANGED rest
    PROVE  IInv'
<1>1. session' \in [Tokens -> SessionStates] /\ mode' = "disposed"
  BY WithoutRows DEF WriteFails
<1>2. GrantsBecome(Ended(S, done))
  BY DEF WriteFails
<1>3. /\ Ended(S, done) \in [Grants -> {"new", "live"} \cup Reasons]
      /\ \A g \in Grants : /\ Ended(S, done)[g] # "live"
                           /\ Ended(S, done)[g] = "new" <=> status[g] = "new"
  BY SweptGrants DEF IInv
<1>4. returned \subseteq Grants
  BY DEF IInv, TypeOK
<1> QED BY <1>1, <1>2, <1>3, <1>4, FewerGrants

\* Whatever the sessions become, a notification ends the grants of those that ended.
LEMMA NotifyKeeps ==
    ASSUME IInv, NEW S \in [Tokens -> SessionStates], Notify(S), UNCHANGED rest
    PROVE  IInv'
<1> PICK T \in SUBSET Stale(S) :
        \/ /\ mode' = mode /\ session' = Without(S, T)
           /\ GrantsBecome(Swept(S))
        \/ \E done \in SUBSET Live : WriteFails(S, T, done)
  BY DEF Notify
<1>1. CASE \E done \in SUBSET Live : WriteFails(S, T, done)
  BY <1>1, FailureKeeps
<1>2. CASE mode' = mode /\ session' = Without(S, T) /\ GrantsBecome(Swept(S))
  <2>1. session' \in [Tokens -> SessionStates]
    BY <1>2, WithoutRows
  <2>2. \A g \in Grants : Swept(S)[g] = "live" =>
            g \in Live /\ account[g] \in Tokens /\ session'[account[g]] = "good"
    <3> SUFFICES ASSUME NEW g \in Grants, Swept(S)[g] = "live"
                 PROVE  g \in Live /\ account[g] \in Tokens /\ session'[account[g]] = "good"
      OBVIOUS
    <3>1. g \in Live /\ S[account[g]] = "good"
      BY SweptGrants DEF IInv
    <3>2. account[g] \in Tokens
      BY <3>1 DEF IInv, Issued, Live
    <3>3. account[g] \notin T
      BY <3>1, <3>2 DEF Stale
    <3> QED BY <3>1, <3>2, <3>3, <1>2, WithoutRows
  <2>3. mode' \in {"running", "lost", "disposed"} /\ mode' = mode
    BY <1>2 DEF IInv, TypeOK
  <2>4. mode' = "disposed" => \A g \in returned : Swept(S)[g] # "live"
    <3> SUFFICES ASSUME mode = "disposed", NEW g \in returned, Swept(S)[g] = "live"
                 PROVE  FALSE
      BY <2>3
    <3>1. g \in Grants
      BY DEF IInv, TypeOK
    <3>2. g \in Live
      BY <3>1, <2>2
    <3> QED BY <3>2 DEF IInv, DisposedHoldsNothing
  <2>5. \A g \in Grants : Swept(S)[g] = "new" <=> status[g] = "new"
    BY SweptGrants DEF IInv
  <2>6. Swept(S) \in [Grants -> {"new", "live"} \cup Reasons]
    BY SweptGrants DEF IInv
  <2> HIDE DEF IInv
  <2> QED BY <1>2, <2>1, <2>2, <2>3, <2>4, <2>5, <2>6, FewerGrants
<1> QED BY <1>1, <1>2

\* One row is deleted.
LEMMA DeleteKeeps ==
    ASSUME IInv, NEW t \in Tokens, Delete(t), UNCHANGED rest
    PROVE  IInv'
<1>1. session \in [Tokens -> SessionStates] /\ Without(session, {t}) \in [Tokens -> SessionStates]
  BY WithoutRows DEF IInv, TypeOK, SessionStates
<1> QED BY <1>1, NotifyKeeps, FailureKeeps DEF Delete

\* One grant is retired.
LEMMA RetireKeeps ==
    ASSUME IInv, NEW g \in Live, NEW reason \in Reasons, Retire(g, reason), UNCHANGED rest
    PROVE  IInv'
<1> DEFINE s == [status EXCEPT ![g] = reason]
<1>1. /\ s \in [Grants -> {"new", "live"} \cup Reasons]
      /\ \A h \in Grants : /\ s[h] = "live" => h \in Live
                           /\ s[h] = "new" <=> status[h] = "new"
  BY DEF IInv, TypeOK, Live, Reasons
<1>2. /\ GrantsBecome(s) /\ mode' = mode /\ session' = session
      /\ mode' \in {"running", "lost", "disposed"} /\ session' \in [Tokens -> SessionStates]
  BY DEF Retire, IInv, TypeOK, SessionStates
<1>3. mode' = "running" =>
          \A h \in Grants : s[h] = "live" => session'[account[h]] \in {"good", "stale"}
  BY <1>1, <1>2 DEF IInv, SignalsFollowSessions
<1>4. mode' = "disposed" => \A h \in returned : s[h] # "live"
  BY <1>1, <1>2 DEF IInv, DisposedHoldsNothing, TypeOK
<1> HIDE DEF s
<1> QED BY <1>1, <1>2, <1>3, <1>4, FewerGrants

\* The end of the session of a grant, found by authorizeGrant or a timer.
LEMMA AccountEndedKeeps ==
    ASSUME IInv, NEW g \in Live, AccountEnded(g), UNCHANGED rest
    PROVE  IInv'
<1>1. account[g] \in Tokens
  BY DEF IInv, Issued, Live
<1>2. "revoked" \in Reasons
  BY DEF Reasons
<1> QED BY <1>1, <1>2, DeleteKeeps, RetireKeeps DEF AccountEnded

-----------------------------------------------------------------------------
(* Issuing *)

\* The new grant is within the limits: they were asked for once the sweep was over.
LEMMA InsertIsBounded ==
    ASSUME IInv, NEW t \in Tokens, NEW g \in Grants, status[g] = "new",
           NEW s \in [Grants -> {"new", "live"} \cup Reasons],
           \A h \in Grants : s[h] = "live" => h \in Live,
           ~ Full(t, s), Insert(g, t, s)
    PROVE  GrantsBounded'
<1> DEFINE kept == {h \in Grants : s[h] = "live"}
<1>1. kept \subseteq Live /\ g \notin kept /\ IsFiniteSet(kept)
  <2>1. kept \subseteq Grants /\ kept \subseteq Live /\ g \notin kept
    BY DEF Live
  <2> QED BY <2>1, GrantsAssumption, FS_Subset
<1>2. Live' = kept \cup {g}
  BY DEF Live, Insert
<1>3. Cardinality(kept) < MaxGrants /\ Cardinality(kept) \in Nat
  BY <1>1, FS_CardinalityType, GrantsAssumption DEF Full
<1>4. Cardinality(Live') <= MaxGrants
  <2> HIDE DEF kept
  <2>1. Cardinality(kept \cup {g}) = Cardinality(kept) + 1
    BY <1>1, FS_AddElement
  <2>2. Cardinality(kept \cup {g}) <= MaxGrants
    BY <1>3, <2>1, GrantsAssumption
  <2> QED BY <1>2, <2>2
<1>5. ASSUME NEW u \in Tokens
      PROVE  Cardinality({h \in Live' : account'[h] = u}) <= MaxPerScope
  <2> DEFINE old == {h \in kept : account[h] = u}
             new == {h \in Live' : account'[h] = u}
  <2>1. IsFiniteSet(old) /\ Cardinality(old) \in Nat
    BY <1>1, FS_Subset, FS_CardinalityType
  <2>2. account' = [account EXCEPT ![g] = t] /\ account \in [Grants -> Tokens \cup {NoSession}]
    BY DEF Insert, IInv, TypeOK
  <2>3. CASE u = t
    <3>1. new = old \cup {g}
      BY <1>1, <1>2, <2>2, <2>3
    <3>2. Cardinality(old) < MaxPerScope
      <4>1. old = {h \in Grants : s[h] = "live" /\ account[h] = t}
        BY <2>3
      <4> QED BY <4>1, <2>1, GrantsAssumption DEF Full
    <3> HIDE DEF new
    <3>3. g \notin old
      BY <1>1
    <3>4. Cardinality(new) = Cardinality(old) + 1
      BY <2>1, <3>1, <3>3, FS_AddElement
    <3>5. Cardinality(new) <= MaxPerScope
      BY <2>1, <3>2, <3>4, GrantsAssumption
    <3> QED BY <3>5 DEF new
  <2>4. CASE u # t
    <3>1. new \subseteq {h \in Live : account[h] = u}
      BY <1>1, <1>2, <2>2, <2>4
    <3>2. IsFiniteSet({h \in Live : account[h] = u})
      <4>1. {h \in Live : account[h] = u} \subseteq Grants
        BY DEF Live
      <4> QED BY <4>1, GrantsAssumption, FS_Subset
    <3>3. /\ Cardinality(new) <= Cardinality({h \in Live : account[h] = u})
          /\ Cardinality(new) \in Nat
          /\ Cardinality({h \in Live : account[h] = u}) \in Nat
      BY <3>1, <3>2, FS_Subset, FS_CardinalityType
    <3>4. Cardinality({h \in Live : account[h] = u}) <= MaxPerScope
      BY DEF IInv, GrantsBounded
    <3> QED BY <3>3, <3>4, GrantsAssumption
  <2> QED BY <2>3, <2>4
<1> QED BY <1>4, <1>5 DEF GrantsBounded

\* The type of the grants after the insertion.
LEMMA InsertTypes ==
    ASSUME IInv, NEW t \in Tokens, NEW g \in Grants, status[g] = "new", now + Ttl <= MaxTime,
           NEW s \in [Grants -> {"new", "live"} \cup Reasons],
           \A h \in Grants : s[h] = "new" <=> status[h] = "new",
           Insert(g, t, s), mode' \in {"running", "lost", "disposed"},
           session' \in [Tokens -> SessionStates],
           returned' \in {returned, returned \cup {g}}, now' = now
    PROVE  TypeOK' /\ Issued' /\ Timed'
<1>1. Deadline \in 0 .. MaxTime
  BY GrantsAssumption DEF Deadline, IInv, TypeOK
<1>2. TypeOK'
  BY <1>1 DEF Insert, IInv, TypeOK, SessionStates, Reasons
<1>3. ASSUME NEW h \in Grants
      PROVE  (status'[h] # "new" => account'[h] \in Tokens) /\ (h \in returned' => status'[h] # "new")
  <2>1. CASE h = g
    BY <2>1 DEF Insert, IInv, TypeOK
  <2>2. CASE h # g
    BY <2>2 DEF Insert, IInv, TypeOK, Issued
  <2> QED BY <2>1, <2>2
<1>4. Timed'
  BY DEF Insert, Timed, IInv, TypeOK
<1> QED BY <1>2, <1>3, <1>4 DEF Issued

\* issueForRequest, whether or not a write fails inside its sweep.
LEMMA IssueKeeps ==
    ASSUME IInv, NEW t \in Tokens, NEW g \in Grants, IssueForRequest(t, g)
    PROVE  IInv'
<1> DEFINE stale == {u \in Stale(session) : \E h \in Live : account[h] = u}
<1>1. /\ mode = "running" /\ session[t] = "good" /\ status[g] = "new"
      /\ now + Ttl <= MaxTime /\ now' = now
      /\ session \in [Tokens -> SessionStates]
      /\ returned \subseteq Grants
  BY DEF IssueForRequest, IInv, TypeOK, SessionStates
<1>2. ASSUME NEW T \in SUBSET Stale(session),
             session' = Without(session, T), mode' = mode, stale \subseteq T,
             IF Full(t, Swept(session))
             THEN /\ GrantsBecome(Swept(session))
                  /\ UNCHANGED <<account, expiresAt, returned>>
             ELSE /\ Insert(g, t, Swept(session))
                  /\ returned' = returned \cup {g}
      PROVE  IInv'
  <2> DEFINE s == Swept(session)
  <2>1. /\ s \in [Grants -> {"new", "live"} \cup Reasons]
        /\ \A h \in Grants : /\ s[h] = "live" => h \in Live /\ session[account[h]] = "good"
                             /\ s[h] = "new" <=> status[h] = "new"
    BY <1>1, SweptGrants DEF IInv
  <2>2. session' \in [Tokens -> SessionStates] /\ \A u \in Tokens \ T : session'[u] = session[u]
    BY <1>1, <1>2, WithoutRows
  <2>3. \A h \in Grants : s[h] = "live" => account[h] \in Tokens /\ session'[account[h]] = "good"
    BY <2>1, <2>2 DEF IInv, Issued, Live, Stale
  <2>4. t \notin T
    BY <1>1 DEF Stale
  <2>5. CASE Full(t, s)
    <3>1. GrantsBecome(s) /\ UNCHANGED rest /\ mode' = "running"
      BY <1>1, <1>2, <2>5 DEF rest
    <3> HIDE DEF s
    <3> QED BY <2>1, <2>2, <2>3, <3>1, FewerGrants
  <2>6. CASE ~ Full(t, s)
    <3>1. Insert(g, t, s) /\ returned' = returned \cup {g} /\ mode' = "running"
      BY <1>1, <1>2, <2>6
    <3> HIDE DEF s
    <3>2. TypeOK' /\ Issued' /\ Timed'
      BY <1>1, <2>1, <2>2, <3>1, InsertTypes
    <3>3. GrantsBounded'
      BY <1>1, <2>1, <2>6, <3>1, InsertIsBounded
    <3>4. SignalsFollowSessions'
      <4> SUFFICES ASSUME NEW h \in Live' PROVE session'[account'[h]] \in {"good", "stale"}
        BY DEF SignalsFollowSessions
      <4>1. CASE h = g
        <5>1. account'[h] = t
          BY <3>1, <4>1 DEF Insert, IInv, TypeOK
        <5> QED BY <5>1, <1>1, <2>2, <2>4
      <4>2. CASE h # g
        <5>1. h \in Grants /\ s[h] = "live" /\ account'[h] = account[h]
          BY <2>1, <3>1, <4>2 DEF Insert, IInv, TypeOK, Live
        <5> QED BY <5>1, <2>3
      <4> QED BY <4>1, <4>2
    <3>5. DisposedHoldsNothing'
      BY <3>1 DEF DisposedHoldsNothing
    <3> QED BY <3>2, <3>3, <3>4, <3>5 DEF IInv
  <2> QED BY <2>5, <2>6
<1>3. ASSUME NEW T \in SUBSET Stale(session), NEW done \in SUBSET Live,
             mode' = "disposed", session' = Without(session, T),
             Insert(g, t, Ended(session, done)), returned' = returned
      PROVE  IInv'
  <2> DEFINE s == Ended(session, done)
  <2>1. /\ s \in [Grants -> {"new", "live"} \cup Reasons]
        /\ \A h \in Grants : s[h] # "live" /\ (s[h] = "new" <=> status[h] = "new")
    BY <1>1, SweptGrants DEF IInv
  <2>2. session' \in [Tokens -> SessionStates]
    BY <1>1, <1>3, WithoutRows
  <2>3. Insert(g, t, s)
    BY <1>3
  <2> HIDE DEF s
  <2>4. TypeOK' /\ Issued' /\ Timed'
    BY <1>1, <1>3, <2>1, <2>2, <2>3, InsertTypes
  <2>5. ~ Full(t, s)
    <3>1. {h \in Grants : s[h] = "live"} = {} /\ {h \in Grants : s[h] = "live" /\ account[h] = t} = {}
      BY <2>1
    <3> QED BY <3>1, FS_EmptySet, GrantsAssumption DEF Full
  <2>6. GrantsBounded'
    BY <1>1, <2>1, <2>3, <2>5, InsertIsBounded
  <2>7. Live' = {g}
    BY <2>1, <2>3 DEF Insert, Live
  <2>8. g \notin returned'
    BY <1>1, <1>3 DEF IInv, Issued
  <2>9. DisposedHoldsNothing' /\ SignalsFollowSessions'
    BY <1>3, <2>7, <2>8 DEF DisposedHoldsNothing, SignalsFollowSessions
  <2> QED BY <2>4, <2>6, <2>9 DEF IInv
<1> QED BY <1>1, <1>2, <1>3 DEF IssueForRequest

-----------------------------------------------------------------------------
(* The theorems *)

\* Steps that touch no grant, and at most turn a session from new to good to stale.
LEMMA QuietKeeps ==
    ASSUME IInv, UNCHANGED <<status, account, expiresAt, timer, returned>>,
           now' \in 0 .. MaxTime, mode' \in {mode, "lost"}, mode # "running" => mode' = mode,
           session' \in [Tokens -> SessionStates],
           \A t \in Tokens : session[t] \in {"good", "stale"} => session'[t] \in {"good", "stale"}
    PROVE  IInv'
<1>1. TypeOK' /\ Issued' /\ Timed'
  BY DEF IInv, TypeOK, Issued, SessionStates, Timed
<1>2. Live' = Live
  BY DEF Live
<1>3. GrantsBounded'
  BY <1>2 DEF IInv, GrantsBounded
<1>4. SignalsFollowSessions'
  BY <1>2 DEF IInv, SignalsFollowSessions, Issued, Live
<1>5. DisposedHoldsNothing'
  BY <1>2 DEF IInv, DisposedHoldsNothing, TypeOK
<1> QED BY <1>1, <1>3, <1>4, <1>5 DEF IInv

\* No grant at the start.
LEMMA Initially == Init => IInv
<1> SUFFICES ASSUME Init PROVE IInv
  OBVIOUS
<1>1. TypeOK /\ Issued /\ Timed /\ Live = {}
  BY GrantsAssumption DEF Init, TypeOK, Issued, Timed, Live
<1>2. \A t \in Tokens : {g \in Live : account[g] = t} = {}
  BY <1>1
<1>3. GrantsBounded
  BY <1>1, <1>2, FS_EmptySet, GrantsAssumption DEF GrantsBounded
<1> QED BY <1>1, <1>3 DEF IInv, SignalsFollowSessions, DisposedHoldsNothing

\* Every step keeps the invariant.
LEMMA Kept == IInv /\ [Next]_vars => IInv'
<1> SUFFICES ASSUME IInv, [Next]_vars PROVE IInv'
  OBVIOUS
<1>1. session \in [Tokens -> SessionStates] /\ now \in 0 .. MaxTime
      /\ mode \in {"running", "lost", "disposed"}
  BY DEF IInv, TypeOK, SessionStates
<1>2. ASSUME NEW t \in Tokens, Login(t) \/ GrowsStale(t) PROVE IInv'
  BY <1>1, <1>2, QuietKeeps DEF Login, GrowsStale, SessionStates
<1>3. ASSUME NEW t \in Tokens, Logout(t) PROVE IInv'
  BY <1>3, DeleteKeeps DEF Logout, rest
<1>4. ASSUME NEW t \in Tokens, NEW g \in Grants, IssueForRequest(t, g) PROVE IInv'
  BY <1>4, IssueKeeps
<1>5. CASE ChangePassword
  <2> DEFINE rows == {t \in Tokens : session[t] \in {"good", "stale"}}
  <2>1. Without(session, rows) \in [Tokens -> SessionStates]
    BY <1>1, WithoutRows
  <2>2. UNCHANGED rest
    BY <1>5 DEF ChangePassword, rest
  <2>3. CASE Notify(Without(session, rows))
    BY <2>1, <2>2, <2>3, NotifyKeeps
  <2>4. CASE \E T \in {{}, rows} : WriteFails(session, T, {})
    BY <1>1, <2>2, <2>4, FailureKeeps
  <2> QED BY <1>5, <2>3, <2>4 DEF ChangePassword
<1>6. CASE SecurityChange
  BY <1>1, <1>6, NotifyKeeps DEF SecurityChange, rest
<1>7. ASSUME NEW g \in Grants, NEW same \in BOOLEAN, AuthorizeGrant(g, same) PROVE IInv'
  <2>1. g \in Live /\ UNCHANGED rest
    BY <1>7 DEF AuthorizeGrant, rest
  <2>2. "revoked" \in Reasons /\ "expired" \in Reasons
    BY DEF Reasons
  <2> QED BY <1>7, <2>1, <2>2, AccountEndedKeeps, RetireKeeps DEF AuthorizeGrant
<1>8. ASSUME NEW g \in Grants, TimerFires(g) PROVE IInv'
  <2>1. g \in Live /\ UNCHANGED rest
    BY <1>8 DEF TimerFires, rest, IInv, Timed, Live
  <2>2. "revoked" \in Reasons /\ "expired" \in Reasons
    BY DEF Reasons
  <2>3. CASE Rearm(g)
    <3>1. UNCHANGED <<mode, session, status, account, expiresAt, returned, now>>
      BY <2>1, <2>3 DEF Rearm, rest
    <3>2. TypeOK' /\ Issued' /\ Timed'
      BY <2>1, <2>3, <3>1 DEF Rearm, IInv, TypeOK, Issued, Timed, Live
    <3>3. Live' = Live
      BY <3>1 DEF Live
    <3> QED BY <3>1, <3>2, <3>3
            DEF IInv, GrantsBounded, SignalsFollowSessions, DisposedHoldsNothing
  <2> QED BY <1>8, <2>1, <2>2, <2>3, AccountEndedKeeps, RetireKeeps DEF TimerFires
<1>9. CASE AdapterStops \/ Tick
  BY <1>1, <1>9, QuietKeeps, GrantsAssumption DEF AdapterStops, Tick
<1>10. CASE Dispose
  <2>1. WriteFails(session, {}, {}) /\ UNCHANGED rest
    <3>1. Without(session, {}) = session
      BY <1>1 DEF Without
    <3> QED BY <1>10, <3>1 DEF Dispose, WriteFails, rest
  <2> QED BY <1>1, <2>1, FailureKeeps
<1>11. CASE UNCHANGED vars
  BY <1>1, <1>11, QuietKeeps DEF vars
<1> QED BY <1>2, <1>3, <1>4, <1>5, <1>6, <1>7, <1>8, <1>9, <1>10, <1>11 DEF Next

\* The invariant holds of every reachable state.
THEOREM Invariance == Spec => []IInv
<1> QED BY Initially, Kept, PTL DEF Spec

\* Every variable keeps its type.
THEOREM TypeCorrect == Spec => []TypeOK
<1>1. IInv => TypeOK
  BY DEF IInv
<1> QED BY <1>1, Invariance, PTL

\* While the instance runs, the signals of a session's grants are aborted in the stretch
\* that deletes its row.
THEOREM SignalsFollow == Spec => []SignalsFollowSessions
<1>1. IInv => SignalsFollowSessions
  BY DEF IInv
<1> QED BY <1>1, Invariance, PTL

\* No client holds a grant of a disposed instance whose signal is not aborted.
THEOREM DisposalEndsGrants == Spec => []DisposedHoldsNothing
<1>1. IInv => DisposedHoldsNothing
  BY DEF IInv
<1> QED BY <1>1, Invariance, PTL

\* The grants stay within their limits, in all and per account.
THEOREM GrantsStayBounded == Spec => []GrantsBounded
<1>1. IInv => GrantsBounded
  BY DEF IInv
<1> QED BY <1>1, Invariance, PTL

-----------------------------------------------------------------------------
(* Reasons *)

\* What ExpiredIsRenewable asks of one step.
Renewable ==
    \A g \in Grants : status'[g] = "expired" /\ status[g] = "live" =>
        session[account[g]] = "good" /\ mode = "running"

\* A sweep of S, and a disposal inside one, find expired only what has a good session.
LEMMA ExpiredByTime ==
    ASSUME TypeOK, NEW S, NEW done, NEW g \in Live
    PROVE  /\ Swept(S)[g] = "expired" => S[account[g]] = "good"
           /\ Ended(S, done)[g] = "expired" => g \in done /\ S[account[g]] = "good"
BY DEF Swept, Ended, Live, TypeOK

\* Whatever the sessions become, if they include no good one that was not good before, a
\* notification reports no revoked grant as expired.
LEMMA NotifyTells ==
    ASSUME IInv, NEW S, \A t \in Tokens : S[t] = "good" => session[t] = "good",
           Notify(S), mode = "running"
    PROVE  Renewable
<1> SUFFICES ASSUME NEW g \in Grants, status'[g] = "expired", status[g] = "live"
             PROVE  session[account[g]] = "good"
  BY DEF Renewable
<1>1. g \in Live /\ account[g] \in Tokens
  BY DEF Live, IInv, Issued
<1>2. \/ status' = Swept(S)
      \/ \E done \in SUBSET Live : status' = Ended(S, done)
  BY DEF Notify, WriteFails, GrantsBecome
<1>3. S[account[g]] = "good"
  BY <1>1, <1>2, ExpiredByTime DEF IInv
<1> QED BY <1>1, <1>3

\* A write that fails outside a sweep aborts all signals for the same reason.
LEMMA FailureTells ==
    ASSUME IInv, NEW S, NEW T, WriteFails(S, T, {})
    PROVE  Renewable
<1> SUFFICES ASSUME NEW g \in Grants, status'[g] = "expired", status[g] = "live"
             PROVE  FALSE
  BY DEF Renewable
<1>1. g \in Live /\ status' = Ended(S, {})
  BY DEF Live, WriteFails, GrantsBecome
<1> QED BY <1>1, ExpiredByTime DEF IInv

\* No session becomes good by deleting rows.
LEMMA DeletionsOnly ==
    ASSUME NEW T
    PROVE  \A t \in Tokens : Without(session, T)[t] = "good" => session[t] = "good"
BY DEF Without

\* The session of a grant was found ended.
LEMMA AccountEndedTells ==
    ASSUME IInv, NEW g \in Live, AccountEnded(g), mode = "running"
    PROVE  Renewable
<1>1. CASE Delete(account[g])
  BY <1>1, NotifyTells, FailureTells, DeletionsOnly DEF Delete
<1>2. CASE Retire(g, "revoked")
  BY <1>2 DEF Retire, GrantsBecome, Renewable, Live, IInv, TypeOK
<1> QED BY <1>1, <1>2 DEF AccountEnded

\* Only a grant of a good session is told that it expired.
LEMMA Told == IInv /\ [Next]_vars => Renewable
<1> SUFFICES ASSUME IInv, [Next]_vars PROVE Renewable
  OBVIOUS
<1>1. CASE status' = status
  BY <1>1 DEF Renewable
<1>2. ASSUME NEW t \in Tokens, Logout(t) PROVE Renewable
  BY <1>2, NotifyTells, FailureTells, DeletionsOnly DEF Logout, Delete
<1>3. ASSUME NEW t \in Tokens, NEW g \in Grants, IssueForRequest(t, g) PROVE Renewable
  <2> SUFFICES ASSUME NEW h \in Grants, status'[h] = "expired", status[h] = "live"
               PROVE  session[account[h]] = "good"
    BY <1>3 DEF Renewable, IssueForRequest
  <2>1. h \in Live /\ h # g
    BY <1>3 DEF Live, IssueForRequest
  <2>2. \/ status'[h] = Swept(session)[h]
        \/ \E done \in SUBSET Live : status'[h] = Ended(session, done)[h]
    <3>1. /\ Swept(session) \in [Grants -> {"new", "live"} \cup Reasons]
          /\ \A done : Ended(session, done) \in [Grants -> {"new", "live"} \cup Reasons]
      BY SweptGrants DEF IInv, TypeOK, SessionStates
    <3> QED BY <1>3, <2>1, <3>1 DEF IssueForRequest, Insert, GrantsBecome
  <2> QED BY <2>1, <2>2, ExpiredByTime DEF IInv
<1>4. CASE ChangePassword
  BY <1>4, NotifyTells, FailureTells, DeletionsOnly DEF ChangePassword
<1>5. CASE SecurityChange
  BY <1>5, NotifyTells DEF SecurityChange
<1>6. ASSUME NEW g \in Live, Retire(g, "revoked") PROVE Renewable
  BY <1>6 DEF Retire, GrantsBecome, Renewable, Live, IInv, TypeOK
<1>7. ASSUME NEW g \in Live, Retire(g, "expired"), session[account[g]] = "good", mode = "running"
      PROVE  Renewable
  BY <1>7 DEF Retire, GrantsBecome, Renewable, Live, IInv, TypeOK
<1>8. ASSUME NEW g \in Grants, NEW same \in BOOLEAN, AuthorizeGrant(g, same) PROVE Renewable
  BY <1>6, <1>7, <1>8, AccountEndedTells DEF AuthorizeGrant
<1>9. ASSUME NEW g \in Grants, TimerFires(g) PROVE Renewable
  <2>1. g \in Live
    BY <1>9 DEF TimerFires, IInv, Timed, Live
  <2>2. CASE Rearm(g)
    BY <1>1, <2>2 DEF Rearm
  <2> QED BY <1>6, <1>7, <1>9, <2>1, <2>2, AccountEndedTells DEF TimerFires
<1>10. CASE Dispose
  <2>1. ASSUME NEW g \in Grants, status'[g] = "expired", status[g] = "live" PROVE FALSE
    <3>1. g \in Live /\ status' = Ended(session, {})
      BY <1>10, <2>1 DEF Live, Dispose, GrantsBecome
    <3> QED BY <2>1, <3>1, ExpiredByTime DEF IInv
  <2> QED BY <2>1 DEF Renewable
<1>11. CASE (\E t \in Tokens : Login(t) \/ GrowsStale(t)) \/ AdapterStops \/ Tick \/ UNCHANGED vars
  BY <1>1, <1>11 DEF Login, GrowsStale, AdapterStops, Tick, vars
<1> QED BY <1>2, <1>3, <1>4, <1>5, <1>8, <1>9, <1>10, <1>11 DEF Next

\* A revoked account is never reported as an expiry that the client may renew.
THEOREM ExpiryIsRenewable == Spec => ExpiredIsRenewable
<1>1. IInv /\ [Next]_vars => [Renewable]_vars
  BY Told
<1>2. ExpiredIsRenewable <=> [][Renewable]_vars
  BY DEF ExpiredIsRenewable, Renewable
<1> QED BY <1>1, <1>2, Invariance, PTL DEF Spec

-----------------------------------------------------------------------------
(* Applications that come and go *)

Guard == [installed : BOOLEAN, owner : Instances \cup {Nobody},
          gate : Instances \cup {Nobody}, ready : BOOLEAN, intact : BOOLEAN]
Inst == [applied : BOOLEAN, disposed : BOOLEAN,
         store : {"none", "live", "retired"}, gate : {"none", "live", "disposed"},
         rpc : BOOLEAN, route : BOOLEAN]

\* The guard is ready exactly while it has a gate, and then its owner's.
GuardOK ==
    /\ guard \in Guard /\ inst \in [Instances -> Inst]
    /\ guard.owner = guard.gate
    /\ guard.ready <=> guard.gate # Nobody
    /\ guard.ready => guard.installed

\* The application that serves was applied and is not over.
ServingIsUp == guard.gate # Nobody => inst[guard.gate].applied /\ ~inst[guard.gate].disposed

\* The inductive invariant of the guard.
GInv == GuardOK /\ ServingIsUp /\ OneLiveStore

\* The inductive invariant of the patch: who injects holds the installation.
FInv ==
    /\ chain \in Seq(Instances \cup {Foreign})
    /\ installation \in Instances \cup {Nobody}
    /\ active = {installation} \ {Nobody}

-----------------------------------------------------------------------------
(* The guard *)

LEMMA RowTypes ==
    /\ Undone \in Inst /\ Up \in Inst /\ Down \in Inst /\ Leftover \in Inst /\ New \in Inst
    /\ [Undone EXCEPT !.store = "retired"] \in Inst
    /\ Undone.store = "none" /\ Up.store = "live" /\ Down.store = "retired"
    /\ Leftover.store = "retired" /\ [Undone EXCEPT !.store = "retired"].store = "retired"
    /\ New.store = "none" /\ ~New.applied /\ ~New.disposed
    /\ Undone.applied /\ Up.applied /\ ~Up.disposed /\ Down.applied /\ Leftover.applied
    /\ Undone.disposed /\ Down.disposed /\ Leftover.disposed
    /\ [Undone EXCEPT !.store = "retired"].applied /\ [Undone EXCEPT !.store = "retired"].disposed
BY DEF Undone, Up, Down, Leftover, New, Inst

\* guard.stop() leaves a guard without an owner.
LEMMA ClosedType ==
    ASSUME NEW g \in Guard
    PROVE  /\ Closed(g) \in Guard /\ Closed(g).gate = Nobody /\ Closed(g).owner = Nobody
           /\ ~Closed(g).ready /\ Closed(g).installed = g.installed /\ Closed(g).intact = g.intact
BY DEF Closed, Guard

\* Disposing of the gate retires one store, and changes no other application.
LEMMA DisposedType ==
    ASSUME NEW S \in [Instances -> Inst], NEW g \in Instances \cup {Nobody}
    PROVE  /\ Disposed(S, g) \in [Instances -> Inst]
           /\ \A j \in Instances :
                 /\ Disposed(S, g)[j].applied = S[j].applied
                 /\ Disposed(S, g)[j].disposed = S[j].disposed
                 /\ j # g => Disposed(S, g)[j] = S[j]
                 /\ j = g => Disposed(S, g)[j].store = "retired"
<1>1. CASE g = Nobody
  BY <1>1, AdapterAssumption DEF Disposed
<1>2. CASE g \in Instances
  <2> DEFINE row == [S[g] EXCEPT !.gate = "disposed", !.store = "retired"]
  <2>1. /\ row \in Inst /\ row.store = "retired" /\ row.applied = S[g].applied
        /\ row.disposed = S[g].disposed
    BY <1>2 DEF Inst
  <2>2. Disposed(S, g) = [S EXCEPT ![g] = row]
    BY <1>2, AdapterAssumption DEF Disposed
  <2> HIDE DEF row
  <2>. QED BY <1>2, <2>1, <2>2
<1>. QED BY <1>1, <1>2

\* The guard is closed, its gate is disposed of, and at most an application that is not the one
\* that serves gets a row with a store that is not live.
LEMMA Closes ==
    ASSUME GInv, NEW g \in Guard, guard' = Closed(g), g.installed \in {guard.installed, TRUE},
           inst' \in [Instances -> Inst],
           \A j \in Instances : inst'[j] = Disposed(inst, guard.gate)[j] \/ inst'[j].store # "live"
    PROVE  GInv'
<1>1. /\ guard' \in Guard /\ guard'.gate = Nobody /\ guard'.owner = Nobody /\ ~guard'.ready
  BY ClosedType
<1>2. ASSUME NEW j \in Instances PROVE inst'[j].store # "live"
  <2>1. Disposed(inst, guard.gate)[j].store # "live"
    BY DisposedType DEF GInv, GuardOK, OneLiveStore, Guard
  <2>. QED BY <2>1
<1>. QED BY <1>1, <1>2, AdapterAssumption DEF GInv, GuardOK, ServingIsUp, OneLiveStore

LEMMA GInit == EpochsInit => GInv
BY RowTypes, AdapterAssumption DEF EpochsInit, GInv, GuardOK, ServingIsUp, OneLiveStore, Guard

\* dispose() of an application: its own guard is closed, another one is left alone.
LEMMA DisposeStep ==
    ASSUME GInv, NEW i \in Instances, DisposeApplication(i)
    PROVE  GInv'
<1>1. inst' \in [Instances -> Inst] /\ \A j \in Instances : inst'[j] = IF j = i THEN Down ELSE inst[j]
  BY RowTypes DEF DisposeApplication, GInv, GuardOK
<1>2. CASE guard.owner = i
  <2>1. guard.gate = i /\ guard' = Closed(guard) /\ guard \in Guard
    BY <1>2 DEF DisposeApplication, GInv, GuardOK
  <2>2. \A j \in Instances : inst'[j] = Disposed(inst, guard.gate)[j] \/ inst'[j].store # "live"
    <3>1. inst'[i].store # "live"
      BY <1>1, RowTypes
    <3>2. inst \in [Instances -> Inst] /\ guard.gate \in Instances \cup {Nobody}
      BY <2>1 DEF GInv, GuardOK
    <3>3. ASSUME NEW j \in Instances, j # i PROVE inst'[j] = Disposed(inst, guard.gate)[j]
      BY <1>1, <2>1, <3>2, <3>3, DisposedType
    <3>. QED BY <3>1, <3>3
  <2>. QED BY <1>1, <2>1, <2>2, Closes
<1>3. CASE guard.owner # i
  <2>1. guard' = guard /\ guard.gate # i
    BY <1>3 DEF DisposeApplication, GInv, GuardOK
  <2>. QED BY <1>1, <2>1, RowTypes DEF GInv, GuardOK, ServingIsUp, OneLiveStore, Guard
<1>. QED BY <1>2, <1>3

LEMMA ApplyStep ==
    ASSUME GInv, NEW i \in Instances, NEW outbound \in BOOLEAN, Apply(i, outbound)
    PROVE  GInv'
<1>1. /\ guard' \in Guard /\ guard'.gate = i /\ guard'.owner = i /\ guard'.ready /\ guard'.installed
  BY DEF Apply, GInv, GuardOK, Guard
<1>2. inst' = [Disposed(inst, guard.gate) EXCEPT ![i] = Up]
  BY DEF Apply
<1>3. guard.gate \in Instances \cup {Nobody}
  BY DEF GInv, GuardOK, Guard
<1>4. /\ inst' \in [Instances -> Inst] /\ inst'[i] = Up
      /\ \A j \in Instances \ {i} : inst'[j] = Disposed(inst, guard.gate)[j]
  BY <1>2, <1>3, DisposedType, RowTypes DEF GInv, GuardOK
<1>5. ASSUME NEW j \in Instances \ {i} PROVE inst'[j].store # "live"
  BY <1>3, <1>4, DisposedType DEF GInv, GuardOK, OneLiveStore
<1>. QED BY <1>1, <1>4, <1>5, RowTypes, AdapterAssumption DEF GInv, GuardOK, ServingIsUp, OneLiveStore

\* An application that is refused or fails.
LEMMA RefusedStep ==
    ASSUME GInv, NEW i \in Instances, Refused(i) \/ ApplyFails(i)
    PROVE  GInv'
<1>1. PICK row \in {Undone, [Undone EXCEPT !.store = "retired"], Down, Leftover} :
         inst' = [Disposed(inst, guard.gate) EXCEPT ![i] = row]
  BY DEF Refused, ApplyFails
<1>2. row \in Inst /\ row.store # "live"
  BY RowTypes
<1>3. guard \in Guard /\ guard.gate \in Instances \cup {Nobody}
  BY DEF GInv, GuardOK, Guard
<1>4. /\ inst' \in [Instances -> Inst]
      /\ \A j \in Instances : inst'[j] = Disposed(inst, guard.gate)[j] \/ inst'[j].store # "live"
  BY <1>1, <1>2, <1>3, DisposedType DEF GInv, GuardOK
<1>5. PICK b \in BOOLEAN : guard' = [Closed(guard) EXCEPT !.installed = @ \/ b]
  BY ClosedType, <1>3 DEF Refused, ApplyFails, Closed, Guard
<1> DEFINE g == [guard EXCEPT !.installed = @ \/ b]
<1>6. g \in Guard /\ g.installed \in {guard.installed, TRUE}
  BY <1>3, <1>5 DEF Guard
<1>7. guard' = Closed(g)
  BY <1>3, <1>5 DEF Closed, Guard
<1> HIDE DEF g
<1>. QED BY <1>4, <1>6, <1>7, Closes

\* The guard notices changed routes or a route it cannot wrap.
LEMMA StopStep ==
    ASSUME GInv, Stop
    PROVE  GInv'
<1>1. guard \in Guard /\ guard.gate \in Instances \cup {Nobody}
  BY DEF GInv, GuardOK, Guard
<1>. QED BY <1>1, DisposedType, Closes DEF Stop, GInv, GuardOK

LEMMA AlreadyActiveStep ==
    ASSUME GInv, NEW i \in Instances, AlreadyActive(i)
    PROVE  GInv'
<1>1. /\ inst' \in [Instances -> Inst] /\ guard' = guard
      /\ \A j \in Instances : inst'[j] = IF j = i THEN Undone ELSE inst[j]
  BY RowTypes DEF AlreadyActive, GInv, GuardOK
<1>2. guard.gate # i /\ inst[i].store # "live"
  BY AdapterAssumption DEF AlreadyActive, GInv, ServingIsUp, OneLiveStore
<1>. QED BY <1>1, <1>2, RowTypes DEF GInv, GuardOK, ServingIsUp, OneLiveStore, Guard

LEMMA TamperStep ==
    ASSUME GInv, Tamper
    PROVE  GInv'
<1>1. /\ guard' \in Guard /\ guard'.gate = guard.gate /\ guard'.owner = guard.owner
      /\ guard'.ready = guard.ready /\ guard'.installed = guard.installed
  BY DEF Tamper, GInv, GuardOK, Guard
<1>2. inst' = inst
  BY DEF Tamper
<1>. QED BY <1>1, <1>2 DEF GInv, GuardOK, ServingIsUp, OneLiveStore

LEMMA GStep == GInv /\ [EpochsNext]_epochs => GInv'
<1> SUFFICES ASSUME GInv, [EpochsNext]_epochs PROVE GInv'
  OBVIOUS
<1>1. CASE Detect \/ AdapterFailure
  BY <1>1, StopStep DEF Detect, AdapterFailure
<1>2. CASE UNCHANGED <<guard, inst>>
  BY <1>2 DEF GInv, GuardOK, ServingIsUp, OneLiveStore
<1>3. CASE ForeignPatch \/ ForeignRestore \/ UNCHANGED epochs
  BY <1>2, <1>3 DEF ForeignPatch, ForeignRestore, epochs
<1>. QED
  BY <1>1, <1>3, TamperStep, RefusedStep, AlreadyActiveStep, DisposeStep, ApplyStep DEF EpochsNext

-----------------------------------------------------------------------------
(* The patch of fetch *)

LEMMA FInit == EpochsInit => FInv
BY AdapterAssumption DEF EpochsInit, FInv

\* A sequence without its last element.
LEMMA ButLast ==
    ASSUME NEW S, NEW s \in Seq(S), Len(s) >= 1
    PROVE  /\ Len(SubSeq(s, 1, Len(s) - 1)) = Len(s) - 1
           /\ \A k \in 1 .. Len(s) - 1 : SubSeq(s, 1, Len(s) - 1)[k] = s[k]
<1>1. Len(s) \in Nat
  OBVIOUS
<1>. QED BY <1>1

\* A patch goes on top, once at a time.
LEMMA InstallStep ==
    ASSUME FInv, NEW i \in Instances, Install(i)
    PROVE  FInv'
<1>1. CASE installation # Nobody
  BY <1>1 DEF Install, FInv, fetch
<1>2. CASE installation = Nobody
  <2>1. /\ chain' = Append(chain, i) /\ active' = active \cup {i} /\ installation' = i
    BY <1>2 DEF Install
  <2>2. active = {}
    BY <1>2 DEF FInv
  <2>. QED BY <2>1, <2>2, AdapterAssumption DEF FInv
<1>. QED BY <1>1, <1>2

\* restore() takes the top layer off, or leaves a buried one that no longer injects.
LEMMA RestoreStep ==
    ASSUME FInv, NEW i \in Instances, Restore(i)
    PROVE  FInv'
<1>1. CASE i \notin active
  BY <1>1 DEF Restore, FInv, fetch
<1>2. CASE i \in active
  <2>1. installation = i /\ active' = active \ {i} /\ installation' = Nobody
    BY <1>2 DEF Restore, FInv
  <2>2. chain' \in Seq(Instances \cup {Foreign})
    <3>1. chain \in Seq(Instances \cup {Foreign})
      BY DEF FInv
    <3>2. CASE chain # <<>> /\ chain[Len(chain)] = i
      <4>1. chain' = SubSeq(chain, 1, Len(chain) - 1)
        BY <1>2, <3>2 DEF Restore
      <4>. QED BY <3>1, <4>1
    <3>3. CASE ~(chain # <<>> /\ chain[Len(chain)] = i)
      BY <1>2, <3>1, <3>3 DEF Restore
    <3>. QED BY <3>2, <3>3
  <2>. QED BY <2>1, <2>2 DEF FInv
<1>. QED BY <1>1, <1>2

LEMMA FStep == FInv /\ [EpochsNext]_epochs => FInv'
<1> SUFFICES ASSUME FInv, [EpochsNext]_epochs PROVE FInv'
  OBVIOUS
<1>1. CASE UNCHANGED fetch
  BY <1>1 DEF FInv, fetch
<1>2. CASE ForeignPatch
  BY <1>2 DEF ForeignPatch, FInv
<1>3. CASE ForeignRestore
  <2>1. PICK k \in 1 .. Len(chain) : chain' = SubSeq(chain, 1, k - 1)
    BY <1>3 DEF ForeignRestore, ForeignLayers
  <2>2. chain' \in Seq(Instances \cup {Foreign})
    BY <2>1 DEF FInv
  <2>. QED BY <1>3, <2>2 DEF ForeignRestore, FInv
<1>4. ASSUME NEW i \in Instances, DisposeApplication(i) PROVE FInv'
  BY <1>4, RestoreStep DEF DisposeApplication
<1>5. ASSUME NEW i \in Instances, NEW outbound \in BOOLEAN, Apply(i, outbound) PROVE FInv'
  BY <1>1, <1>5, InstallStep DEF Apply
<1>6. ASSUME NEW i \in Instances, Refused(i) \/ AlreadyActive(i) \/ ApplyFails(i) PROVE FInv'
  BY <1>1, <1>6 DEF Refused, AlreadyActive, ApplyFails
<1>7. CASE Detect \/ AdapterFailure \/ Tamper
  BY <1>1, <1>7 DEF Detect, AdapterFailure, Tamper
<1>8. CASE UNCHANGED epochs
  BY <1>1, <1>8 DEF epochs, fetch
<1>. QED BY <1>2, <1>3, <1>4, <1>5, <1>6, <1>7, <1>8 DEF EpochsNext

-----------------------------------------------------------------------------
(* The theorems *)

LEMMA GuardHolds == EpochsSpec => []GInv
BY GInit, GStep, PTL DEF EpochsSpec

LEMMA FetchHolds == EpochsSpec => []FInv
BY FInit, FStep, PTL DEF EpochsSpec

\* The types of the guard, of the applications and of the patches, of index.js, dsh-adapter.js and
\* outbound-fetch.js.
THEOREM AdapterTypeCorrect == EpochsSpec => []EpochsTypeOK
<1>1. GInv /\ FInv => EpochsTypeOK
  BY AdapterAssumption DEF GInv, GuardOK, FInv, EpochsTypeOK, Guard, Inst
<1>. QED BY <1>1, GuardHolds, FetchHolds, PTL

\* Only the application that serves has a live store, and one at a time injects tokens, for any number
\* of applications that come, fail, are refused and go, however the patches of others lie between.
THEOREM OneApplicationServes == EpochsSpec => []OneServes
<1>0. GInv => OneLiveStore
  BY DEF GInv
<1>1. FInv => OneInjects
  <2> SUFFICES ASSUME FInv PROVE Cardinality(active) <= 1
    BY DEF OneInjects
  <2>1. CASE installation = Nobody
    <3>1. active = {}
      BY <2>1 DEF FInv
    <3>2. Cardinality({}) = 0
      BY FS_EmptySet
    <3>. QED BY <3>1, <3>2
  <2>2. CASE installation # Nobody
    <3>1. active = {installation}
      BY <2>2 DEF FInv
    <3>2. Cardinality({installation}) = 1
      BY FS_Singleton
    <3>. QED BY <3>1, <3>2
  <2>. QED BY <2>1, <2>2
<1>. QED BY <1>0, <1>1, GuardHolds, FetchHolds, PTL DEF OneServes

\* An application that goes leaves the guard and the stores of others alone unless it serves, and the
\* patches of others in any case.
THEOREM DisposalIsHarmless == EpochsSpec => OthersUnharmed
<1>1. ASSUME GInv, EpochsNext, NEW i \in Instances, inst[i].applied, ~inst[i].disposed,
             inst'[i].disposed, guard.gate # i
      PROVE  guard' = guard /\ inst' = [inst EXCEPT ![i] = inst'[i]]
  <2>1. inst \in [Instances -> Inst] /\ guard.gate \in Instances \cup {Nobody}
    BY <1>1 DEF GInv, GuardOK, Guard
  <2>2. Disposed(inst, guard.gate)[i] = inst[i]
    BY <1>1, <2>1, DisposedType
  <2>3. ASSUME NEW j \in Instances, NEW row, j # i,
               inst' = [Disposed(inst, guard.gate) EXCEPT ![j] = row]
        PROVE  FALSE
    <3>1. inst'[i] = inst[i]
      BY <2>1, <2>2, <2>3, DisposedType
    <3>. QED BY <1>1, <3>1
  <2>4. ASSUME NEW j \in Instances, Refused(j) \/ ApplyFails(j) \/ \E outbound \in BOOLEAN : Apply(j, outbound)
        PROVE  FALSE
    <3>1. j # i
      BY <1>1, <2>4 DEF Refused, ApplyFails, Apply
    <3>2. \E row : inst' = [Disposed(inst, guard.gate) EXCEPT ![j] = row]
      BY <2>4 DEF Refused, ApplyFails, Apply
    <3>. QED BY <2>3, <3>1, <3>2
  <2>5. ASSUME NEW j \in Instances, AlreadyActive(j) PROVE FALSE
    BY <1>1, <2>1, <2>5 DEF AlreadyActive
  <2>6. ASSUME NEW j \in Instances, DisposeApplication(j)
        PROVE  guard' = guard /\ inst' = [inst EXCEPT ![i] = inst'[i]]
    <3>1. j = i
      BY <1>1, <2>1, <2>6 DEF DisposeApplication
    <3>2. guard.owner # i
      BY <1>1 DEF GInv, GuardOK
    <3>. QED BY <2>1, <2>6, <3>1, <3>2 DEF DisposeApplication
  <2>7. CASE Detect \/ AdapterFailure
    BY <1>1, <2>2, <2>7 DEF Detect, AdapterFailure, Stop
  <2>8. CASE Tamper \/ ForeignPatch \/ ForeignRestore
    BY <1>1, <2>8 DEF Tamper, ForeignPatch, ForeignRestore
  <2>. QED BY <1>1, <2>4, <2>5, <2>6, <2>7, <2>8 DEF EpochsNext
<1>2. ASSUME FInv, EpochsNext, NEW i \in active, i \notin active'
      PROVE  ForeignLayers' = ForeignLayers
  <2>1. i = installation /\ active = {i} /\ i \in Instances
    BY <1>2 DEF FInv
  <2>2. ASSUME NEW j \in Instances, DisposeApplication(j) PROVE ForeignLayers' = ForeignLayers
    <3>1. Restore(j) /\ j = i
      BY <1>2, <2>1, <2>2 DEF DisposeApplication, Restore, fetch
    <3>2. chain \in Seq(Instances \cup {Foreign}) /\ i # Foreign
      BY <1>2, <2>1, AdapterAssumption DEF FInv
    <3>3. CASE chain # <<>> /\ chain[Len(chain)] = i
      <4>1. chain' = SubSeq(chain, 1, Len(chain) - 1)
        BY <1>2, <3>1, <3>3 DEF Restore
      <4>2. Len(chain) \in Nat /\ Len(chain) >= 1
        BY <3>2, <3>3
      <4>3. /\ Len(chain') = Len(chain) - 1
            /\ \A k \in 1 .. Len(chain) - 1 : chain'[k] = chain[k]
        BY <3>2, <4>1, <4>2, ButLast
      <4>4. ASSUME NEW k PROVE k \in ForeignLayers' <=> k \in ForeignLayers
        BY <3>2, <3>3, <4>2, <4>3 DEF ForeignLayers
      <4>. QED BY <4>4 DEF ForeignLayers
    <3>4. CASE ~(chain # <<>> /\ chain[Len(chain)] = i)
      BY <1>2, <3>1, <3>4 DEF Restore, ForeignLayers
    <3>. QED BY <3>3, <3>4
  <2>3. ASSUME NEW j \in Instances, NEW outbound \in BOOLEAN, Apply(j, outbound) PROVE FALSE
    BY <1>2, <2>3 DEF Apply, Install, fetch
  <2>4. ASSUME NEW j \in Instances, Refused(j) \/ AlreadyActive(j) \/ ApplyFails(j) PROVE FALSE
    BY <1>2, <2>4 DEF Refused, AlreadyActive, ApplyFails, fetch
  <2>5. CASE Detect \/ AdapterFailure \/ Tamper \/ ForeignPatch \/ ForeignRestore
    BY <1>2, <2>5 DEF Detect, AdapterFailure, Tamper, ForeignPatch, ForeignRestore, fetch
  <2>. QED BY <1>2, <2>2, <2>3, <2>4, <2>5 DEF EpochsNext
<1>3. GInv /\ FInv /\ [EpochsNext]_epochs => [RetiredIsHarmless /\ ForeignPatchesStay]_epochs
  BY <1>1, <1>2 DEF RetiredIsHarmless, ForeignPatchesStay
<1>. QED BY <1>3, GuardHolds, FetchHolds, PTL DEF EpochsSpec, OthersUnharmed

-----------------------------------------------------------------------------
(* The refinement *)

applied == {i \in Instances : inst[i].applied}

\* Every step of the plugin is a step of the door, or none.
LEMMA DoorStep == GInv /\ [EpochsNext]_epochs => [DoorSpec!Next]_(DoorSpec!vars)
<1> SUFFICES ASSUME GInv, [EpochsNext]_epochs PROVE [DoorSpec!Next]_(DoorSpec!vars)
  OBVIOUS
<1> USE DEF DoorSpec!Next, DoorSpec!vars, DoorSpec!Admit, DoorSpec!Refuse, DoorSpec!Close
<1>1. inst \in [Instances -> Inst] /\ guard \in Guard /\ guard.gate \in Instances \cup {Nobody}
  BY DEF GInv, GuardOK, Guard
<1>2. ASSUME NEW i \in Instances, NEW row \in Inst, row.applied,
             inst' = [Disposed(inst, guard.gate) EXCEPT ![i] = row]
      PROVE  applied' = applied \cup {i}
  BY <1>1, <1>2, DisposedType DEF applied
<1>3. CASE Detect \/ AdapterFailure
  <2>1. applied' = applied
    BY <1>1, <1>3, DisposedType DEF applied, Detect, AdapterFailure, Stop
  <2>2. guard'.gate = Nobody /\ guard'.installed = guard.installed
    BY <1>1, <1>3, ClosedType DEF Detect, AdapterFailure, Stop
  <2>. QED BY <2>1, <2>2 DEF applied
<1>4. CASE Tamper
  <2>1. guard'.gate = guard.gate /\ guard'.installed = guard.installed /\ inst' = inst
    BY <1>1, <1>4 DEF Tamper, Guard
  <2>. QED BY <2>1
<1>5. CASE UNCHANGED <<guard, inst>>
  BY <1>5
<1>6. ASSUME NEW i \in Instances, NEW outbound \in BOOLEAN, Apply(i, outbound)
      PROVE  DoorSpec!Admit(i)
  <2>1. applied' = applied \cup {i}
    BY <1>2, <1>6, RowTypes DEF Apply
  <2>2. guard'.gate = i /\ guard'.installed /\ ~inst[i].applied
    BY <1>1, <1>6 DEF Apply, Guard
  <2>. QED BY <1>1, <1>6, <2>1, <2>2 DEF applied, Apply, Guard
<1>7. ASSUME NEW i \in Instances, Refused(i) \/ ApplyFails(i)
      PROVE  DoorSpec!Refuse(i)
  <2>1. applied' = applied \cup {i} /\ ~inst[i].applied
    BY <1>2, <1>7, RowTypes DEF Refused, ApplyFails
  <2>2. guard'.gate = Nobody /\ guard'.installed \in {guard.installed, TRUE}
    BY <1>1, <1>7, ClosedType DEF Refused, ApplyFails, Guard
  <2>. QED BY <2>1, <2>2 DEF applied
<1>8. ASSUME NEW i \in Instances, AlreadyActive(i)
      PROVE  DoorSpec!Refuse(i)
  <2>1. applied' = applied \cup {i} /\ ~inst[i].applied /\ guard' = guard
    BY <1>1, <1>8, RowTypes DEF AlreadyActive, applied
  <2>. QED BY <2>1 DEF applied
<1>9. ASSUME NEW i \in Instances, DisposeApplication(i)
      PROVE  [DoorSpec!Close]_(DoorSpec!vars)
  <2>1. applied' = applied
    BY <1>1, <1>9, RowTypes DEF DisposeApplication, applied
  <2>2. guard' = guard \/ (guard'.gate = Nobody /\ guard'.installed = guard.installed)
    BY <1>1, <1>9, ClosedType DEF DisposeApplication
  <2>. QED BY <2>1, <2>2 DEF applied
<1>. QED
  BY <1>3, <1>4, <1>5, <1>6, <1>7, <1>8, <1>9 DEF EpochsNext, epochs, ForeignPatch, ForeignRestore

\* The guard and the applications implement Door: once there the guard stays, one application at a
\* time passes it, and none that was closed or refused.
THEOREM AdapterImplementsDoor == EpochsSpec => ImplementsDoor
<1>1. EpochsInit => DoorSpec!Init
  BY RowTypes DEF EpochsInit, DoorSpec!Init
<1>. QED BY <1>1, DoorStep, GuardHolds, PTL DEF EpochsSpec, ImplementsDoor, DoorSpec!Spec
================================================================================
