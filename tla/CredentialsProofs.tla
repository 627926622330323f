---------------------------- MODULE CredentialsProofs ---------------------------
(***************************************************************************)
(* The ways in besides the password, for any requests, keys, tokens and    *)
(* bounds.  The three parts share no variable and are proved apart, from   *)
(* an invariant of each.                                                   *)
(***************************************************************************)
EXTENDS Credentials, FiniteSetTheorems, SequenceTheorems, WellFoundedInduction, TLAPS

(***************************************************************************)
(* Pairing.  What each of a handler's writes leaves is sound, so that it   *)
(* may stop after any of them.                                             *)
(***************************************************************************)

Ticks == 0 .. MaxTime + Ttl

\* codes and tokens of the codes that wait are distinct, and the tokens are new
CodesStand(d, given, gone) ==
    /\ IsFiniteSet(d.codes) /\ Cardinality(d.codes) <= MaxCodes
    /\ \A c, e \in d.codes : c.code = e.code \/ c.token = e.token => c = e
    /\ \A c \in d.codes : c.token \notin d.peers \cup given \cup gone

\* whoever was given a token is a peer until the removal
PeersStand(d, given, gone) == given \subseteq d.peers \cup gone /\ gone \cap d.peers = {}

\* the window has counted each failure that was answered in it, and no other window is to come
WindowStands(d, failed, t) ==
    /\ failed[d.attempts.resetAt] <= d.attempts.count
    /\ \A w \in Ticks : failed[w] > 0 /\ w > t => w = d.attempts.resetAt

Stands(d, given, gone, failed, t) ==
    d \in Pairs!Files /\ CodesStand(d, given, gone) /\ PeersStand(d, given, gone) /\ WindowStands(d, failed, t)

PairInv ==
    /\ Stands(pairMem, handed, pairRemoved, failures, now) /\ pairDisk = pairMem
    /\ running \in BOOLEAN /\ now \in 0 .. MaxTime
    /\ limiter \in [Ips -> Pairs!Window] /\ waiting \in [Requests -> Ips \cup {NoIp}]
    /\ handed \in SUBSET Tokens /\ pairRemoved \in SUBSET Tokens
    /\ answers \subseteq handed /\ outbound \subseteq handed
    /\ failures \in [Ticks -> Nat] /\ \A w \in Ticks : failures[w] <= MaxAttempts

LEMMA CodesCounted ==
    ASSUME NEW S, IsFiniteSet(S), \A c, e \in S : c.code = e.code => c = e
    PROVE  Cardinality({c.code : c \in S}) = Cardinality(S)
<1> DEFINE T == {c.code : c \in S}
           f == [c \in S |-> c.code]
<1>1. f \in [S -> T] /\ \A c, e \in S : f[c] = f[e] => c = e
  OBVIOUS
<1>2. \A t \in T : \E c \in S : f[c] = t
  OBVIOUS
<1>3. f \in Bijection(S, T)
  BY <1>1, <1>2, Zenon DEF Bijection, Injection, Surjection, IsInjective
<1>4. ExistsBijection(S, T)
  BY <1>3 DEF ExistsBijection
<1> HIDE DEF T
<1> QED BY <1>4, FS_Bijection DEF T

LEMMA SameCount ==
    ASSUME NEW S
    PROVE  Pairs!Cardinality(S) = Cardinality(S)
BY DEF Pairs!Cardinality, Cardinality

\* What the run asks of pairing, from the invariant.
LEMMA PairInvImplies ==
    ASSUME PairInv
    PROVE  /\ Pairs!TypeOK /\ Pairs!CodesAreSpent /\ Pairs!TokensAreHonoured
           /\ Pairs!RemovedStaysRemoved /\ Pairs!GuessesBounded
<1>1. Cardinality({c.code : c \in pairMem.codes}) = Cardinality(pairMem.codes)
  BY CodesCounted DEF PairInv, Stands, CodesStand
<1>2. Pairs!TypeOK
  <2>1. pairMem \in Pairs!Files /\ pairDisk \in Pairs!Files /\ Cardinality(pairMem.codes) <= MaxCodes
    BY DEF PairInv, Stands, CodesStand
  <2>2. answers \in SUBSET Tokens /\ outbound \in SUBSET Tokens
    BY DEF PairInv
  <2>3. failures \in [0 .. MaxTime + Ttl -> Nat]
    BY DEF PairInv, Ticks
  <2> QED BY <1>1, <2>1, <2>2, <2>3, SameCount DEF Pairs!TypeOK, PairInv
<1>3. Pairs!CodesAreSpent
  BY DEF Pairs!CodesAreSpent, PairInv, Stands, CodesStand
<1>4. Pairs!TokensAreHonoured /\ Pairs!RemovedStaysRemoved
  BY DEF Pairs!TokensAreHonoured, Pairs!RemovedStaysRemoved, PairInv, Stands, PeersStand
<1>5. Pairs!GuessesBounded
  BY DEF Pairs!GuessesBounded, PairInv
<1> QED BY <1>2, <1>3, <1>4, <1>5

LEMMA PairInit ==
    ASSUME Pairs!Init
    PROVE  PairInv
<1> USE CredentialsAssumption
<1>1. pairMem \in Pairs!Files
  BY DEF Pairs!Init, Pairs!Files, Pairs!Window, Pairs!NoWindow
<1>2. CodesStand(pairMem, handed, pairRemoved)
  BY FS_EmptySet DEF Pairs!Init, CodesStand
<1>3. PeersStand(pairMem, handed, pairRemoved)
  BY DEF Pairs!Init, PeersStand
<1>4. WindowStands(pairMem, failures, now)
  BY DEF Pairs!Init, WindowStands, Ticks, Pairs!NoWindow
<1>5. limiter \in [Ips -> Pairs!Window]
  BY DEF Pairs!Init, Pairs!Window, Pairs!NoWindow
<1>6. failures \in [Ticks -> Nat] /\ \A w \in Ticks : failures[w] <= MaxAttempts
  BY DEF Pairs!Init, Ticks
<1> QED BY <1>1, <1>2, <1>3, <1>4, <1>5, <1>6 DEF Pairs!Init, PairInv, Stands

\* The instance stops with any of the contents that stand.
LEMMA StopsSoundly ==
    ASSUME PairInv, NEW writes, Pairs!Stops(writes), handed' = handed, failures' = failures,
           pairRemoved' \in SUBSET Tokens,
           \A k \in 1 .. Len(writes) : pairDisk' = writes[k] => Stands(writes[k], handed, pairRemoved', failures, now)
    PROVE  PairInv'
<1> USE CredentialsAssumption
<1>1. Stands(pairDisk', handed, pairRemoved', failures, now)
  BY DEF Pairs!Stops
<1>2. pairMem' = pairDisk' /\ running' = FALSE /\ now' = now /\ answers' = answers /\ outbound' = outbound
  BY DEF Pairs!Stops, Pairs!remote
<1>3. Stands(pairMem', handed', pairRemoved', failures', now')
  BY <1>1, <1>2
<1>4. limiter' \in [Ips -> Pairs!Window]
  BY DEF Pairs!Stops, Pairs!Window, Pairs!NoWindow
<1>5. waiting' \in [Requests -> Ips \cup {NoIp}]
  BY DEF Pairs!Stops
<1>6. handed' \in SUBSET Tokens /\ answers' \subseteq handed' /\ outbound' \subseteq handed' /\ now' \in 0 .. MaxTime
  BY <1>2 DEF PairInv
<1>7. failures' \in [Ticks -> Nat] /\ \A w \in Ticks : failures'[w] <= MaxAttempts
  BY DEF PairInv
<1>8. (pairDisk = pairMem)' /\ (running \in BOOLEAN)' /\ pairRemoved' \in SUBSET Tokens
  BY <1>2
<1>9. Stands(pairMem, handed, pairRemoved, failures, now)'
  BY <1>3 DEF Stands, CodesStand, PeersStand, WindowStands, Ticks, Pairs!Files, Pairs!Window, Pairs!Code
<1> QED BY <1>4, <1>5, <1>6, <1>7, <1>8, <1>9 DEF PairInv, Ticks, Pairs!Window

\* What a handler leaves in memory and files stands for what was answered by then.
LEMMA CompletesSoundly ==
    ASSUME PairInv, pairDisk' = pairMem',
           Stands(pairMem', handed', pairRemoved', failures', now'),
           running' \in BOOLEAN, now' \in 0 .. MaxTime,
           limiter' \in [Ips -> Pairs!Window], waiting' \in [Requests -> Ips \cup {NoIp}],
           handed' \in SUBSET Tokens, pairRemoved' \in SUBSET Tokens,
           answers' \subseteq handed', outbound' \subseteq handed',
           failures' \in [Ticks -> Nat], \A w \in Ticks : failures'[w] <= MaxAttempts
    PROVE  PairInv'
<1>1. Stands(pairMem, handed, pairRemoved, failures, now)'
  BY DEF Stands, CodesStand, PeersStand, WindowStands, Ticks, Pairs!Files, Pairs!Window, Pairs!Code
<1> QED BY <1>1 DEF PairInv, Ticks, Pairs!Window

LEMMA CodesReplaced ==
    ASSUME NEW m \in Pairs!Files, NEW C
    PROVE  [m EXCEPT !.codes = C] = [codes |-> C, attempts |-> m.attempts, peers |-> m.peers]
BY DEF Pairs!Files

LEMMA PrunedStands ==
    ASSUME PairInv
    PROVE  Stands(Pairs!Pruned, handed, pairRemoved, failures, now)
<1> DEFINE C == {c \in pairMem.codes : c.expiresAt > now}
<1>1. pairMem \in [codes : SUBSET Pairs!Code, attempts : Pairs!Window, peers : SUBSET Tokens]
  BY DEF PairInv, Stands, Pairs!Files
<1>2. Pairs!Pruned = [codes |-> C, attempts |-> pairMem.attempts, peers |-> pairMem.peers]
  <2>1. Pairs!Pruned = [pairMem EXCEPT !.codes = C]
    BY Zenon DEF Pairs!Pruned
  <2>2. pairMem \in Pairs!Files
    BY DEF PairInv, Stands
  <2> HIDE DEF C
  <2> QED BY <2>1, <2>2, CodesReplaced
<1>3. C \subseteq pairMem.codes /\ C \subseteq Pairs!Code
  BY <1>1
<1> HIDE DEF C
<1>4. Pairs!Pruned \in Pairs!Files
  BY <1>1, <1>2, <1>3 DEF Pairs!Files
<1>5. IsFiniteSet(C) /\ Cardinality(C) <= MaxCodes
  <2>1. IsFiniteSet(pairMem.codes) /\ Cardinality(pairMem.codes) <= MaxCodes
    BY DEF PairInv, Stands, CodesStand
  <2>2. IsFiniteSet(C) /\ Cardinality(C) <= Cardinality(pairMem.codes)
    BY <1>3, <2>1, FS_Subset
  <2> QED BY <2>1, <2>2, FS_CardinalityType, CredentialsAssumption
<1>6. CodesStand(Pairs!Pruned, handed, pairRemoved)
  BY <1>2, <1>3, <1>5 DEF PairInv, Stands, CodesStand
<1>7. PeersStand(Pairs!Pruned, handed, pairRemoved)
  BY <1>2 DEF PairInv, Stands, PeersStand
<1>8. WindowStands(Pairs!Pruned, failures, now)
  BY <1>2 DEF PairInv, Stands, WindowStands
<1> QED BY <1>4, <1>6, <1>7, <1>8 DEF Stands

\* Pruned as a record
LEMMA PrunedFields ==
    ASSUME PairInv
    PROVE  /\ Pairs!Pruned = [codes |-> Pairs!Pruned.codes, attempts |-> pairMem.attempts, peers |-> pairMem.peers]
           /\ Pairs!Pruned.codes \subseteq pairMem.codes
BY DEF PairInv, Stands, Pairs!Files, Pairs!Pruned

\* The window of attempts at this moment stands as the one in memory does; a failure that is
\* counted in it leaves each window at the limit or below.
LEMMA AttemptsStand ==
    ASSUME PairInv
    PROVE  /\ Pairs!Attempts \in Pairs!Window
           /\ failures[Pairs!Attempts.resetAt] <= Pairs!Attempts.count
           /\ \A w \in Ticks : failures[w] > 0 /\ w > now => w = Pairs!Attempts.resetAt
           /\ Pairs!Attempts.count > 0 => Pairs!Attempts = pairMem.attempts
<1> USE CredentialsAssumption
<1>1. /\ pairMem.attempts \in [count : Nat, resetAt : Ticks]
      /\ now \in 0 .. MaxTime /\ failures \in [Ticks -> Nat]
      /\ WindowStands(pairMem, failures, now)
  BY DEF PairInv, Stands, Pairs!Files, Pairs!Window, Ticks
<1>2. CASE pairMem.attempts.resetAt <= now
  <2>1. Pairs!Attempts = [count |-> 0, resetAt |-> now + Ttl]
    BY <1>2 DEF Pairs!Attempts
  <2>2. now + Ttl \in Ticks /\ now + Ttl > now
    BY <1>1 DEF Ticks
  <2>3. \A w \in Ticks : w > now => failures[w] = 0
    BY <1>1, <1>2 DEF WindowStands, Ticks
  <2> QED BY <2>1, <2>2, <2>3 DEF Pairs!Window, Ticks
<1>3. CASE ~ (pairMem.attempts.resetAt <= now)
  <2>1. Pairs!Attempts = pairMem.attempts
    BY <1>3 DEF Pairs!Attempts
  <2> QED BY <1>1, <2>1 DEF Pairs!Window, WindowStands, Ticks
<1> QED BY <1>2, <1>3

LEMMA CreateSound ==
    ASSUME PairInv, NEW t \in Tokens, NEW code \in Codes, Pairs!CreatePairingCode(t, code)
    PROVE  PairInv'
<1> USE CredentialsAssumption
<1> DEFINE row == [code |-> code, token |-> t, expiresAt |-> now + Ttl]
           added == [Pairs!Pruned EXCEPT !.codes = @ \cup {row}]
           writes == IF Pairs!Full THEN <<pairDisk, Pairs!Pruned>> ELSE <<pairDisk, Pairs!Pruned, added>>
<1>1. Stands(pairDisk, handed, pairRemoved, failures, now) /\ Stands(Pairs!Pruned, handed, pairRemoved, failures, now)
  BY PrunedStands DEF PairInv
<1>2. ASSUME ~ Pairs!Full PROVE Stands(added, handed, pairRemoved, failures, now)
  <2>1. row \in Pairs!Code
    BY DEF Pairs!Code, PairInv
  <2>2. added = [codes |-> Pairs!Pruned.codes \cup {row}, attempts |-> pairMem.attempts, peers |-> pairMem.peers]
    <3>1. Pairs!Pruned \in Pairs!Files /\ Pairs!Pruned.attempts = pairMem.attempts /\ Pairs!Pruned.peers = pairMem.peers
      BY <1>1, PrunedFields DEF Stands
    <3> HIDE DEF row
    <3> QED BY <3>1, CodesReplaced
  <2>3. /\ t \notin handed \cup pairMem.peers \cup pairRemoved \cup {c.token : c \in pairMem.codes}
        /\ code \notin {c.code : c \in Pairs!Pruned.codes}
    BY <1>2 DEF Pairs!CreatePairingCode
  <2>4. row.token = t /\ row.code = code
    OBVIOUS
  <2> HIDE DEF row, added, writes
  <2>5. Pairs!Pruned.codes \subseteq pairMem.codes
    BY PrunedFields
  <2>6. added \in Pairs!Files
    <3>1. Pairs!Pruned.codes \in SUBSET Pairs!Code /\ pairMem.attempts \in Pairs!Window /\ pairMem.peers \in SUBSET Tokens
      BY <1>1 DEF PairInv, Stands, Pairs!Files
    <3> QED BY <2>1, <2>2, <3>1 DEF Pairs!Files
  <2>7. IsFiniteSet(added.codes) /\ Cardinality(added.codes) <= MaxCodes
    <3>1. IsFiniteSet(Pairs!Pruned.codes) /\ Cardinality(Pairs!Pruned.codes) < MaxCodes
      <4>1. IsFiniteSet(Pairs!Pruned.codes)
        BY <1>1 DEF Stands, CodesStand
      <4>2. ~ (Cardinality(Pairs!Pruned.codes) >= MaxCodes)
        BY <1>2, SameCount DEF Pairs!Full
      <4> QED BY <4>1, <4>2, FS_CardinalityType
    <3>2. /\ IsFiniteSet(Pairs!Pruned.codes \cup {row})
          /\ Cardinality(Pairs!Pruned.codes \cup {row}) <= Cardinality(Pairs!Pruned.codes) + 1
      <4>1. Cardinality(Pairs!Pruned.codes) \in Nat
        BY <3>1, FS_CardinalityType
      <4>2. /\ IsFiniteSet(Pairs!Pruned.codes \cup {row})
            /\ Cardinality(Pairs!Pruned.codes \cup {row}) =
                 IF row \in Pairs!Pruned.codes THEN Cardinality(Pairs!Pruned.codes)
                 ELSE Cardinality(Pairs!Pruned.codes) + 1
        BY <3>1, FS_AddElement
      <4> QED BY <4>1, <4>2
    <3>3. Cardinality(Pairs!Pruned.codes) \in Nat /\ Cardinality(Pairs!Pruned.codes \cup {row}) \in Nat
      BY <3>1, <3>2, FS_CardinalityType
    <3> QED BY <2>2, <3>1, <3>2, <3>3
  <2>8. \A c, e \in added.codes : c.code = e.code \/ c.token = e.token => c = e
    <3>1. \A c \in Pairs!Pruned.codes : c.code # row.code /\ c.token # row.token
      BY <2>3, <2>4, <2>5
    <3>2. \A c, e \in Pairs!Pruned.codes : c.code = e.code \/ c.token = e.token => c = e
      BY <1>1 DEF Stands, CodesStand
    <3>3. added.codes = Pairs!Pruned.codes \cup {row}
      BY <2>2
    <3> QED BY <3>1, <3>2, <3>3
  <2>9. \A c \in added.codes : c.token \notin added.peers \cup handed \cup pairRemoved
    <3>1. added.codes = Pairs!Pruned.codes \cup {row} /\ added.peers = pairMem.peers
      BY <2>2
    <3>2. \A c \in Pairs!Pruned.codes : c.token \notin pairMem.peers \cup handed \cup pairRemoved
      BY <2>5 DEF PairInv, Stands, CodesStand
    <3> QED BY <2>3, <2>4, <3>1, <3>2
  <2>10. CodesStand(added, handed, pairRemoved)
    BY <2>7, <2>8, <2>9 DEF CodesStand
  <2>11. PeersStand(added, handed, pairRemoved) /\ WindowStands(added, failures, now)
    BY <2>2 DEF PairInv, Stands, PeersStand, WindowStands
  <2> QED BY <2>6, <2>10, <2>11 DEF Stands
<1>3. \A k \in 1 .. Len(writes) : Stands(writes[k], handed, pairRemoved, failures, now)
  <2> HIDE DEF added
  <2>1. CASE Pairs!Full
    <3>1. writes = <<pairDisk, Pairs!Pruned>>
      BY <2>1
    <3> HIDE DEF writes
    <3> QED BY <1>1, <3>1
  <2>2. CASE ~ Pairs!Full
    <3>1. writes = <<pairDisk, Pairs!Pruned, added>>
      BY <2>2
    <3> HIDE DEF writes
    <3> QED BY <1>1, <1>2, <2>2, <3>1
  <2> QED BY <2>1, <2>2
<1>4. \/ /\ pairDisk' = writes[Len(writes)] /\ pairMem' = writes[Len(writes)]
         /\ UNCHANGED <<running, limiter, waiting, answers, outbound, handed, pairRemoved, failures, now>>
      \/ Pairs!Stops(writes) /\ UNCHANGED <<handed, pairRemoved, failures>>
  BY DEF Pairs!CreatePairingCode, Pairs!Completes, Pairs!remote, Pairs!history
<1>5. Len(writes) \in 1 .. Len(writes)
  OBVIOUS
<1> HIDE DEF writes
<1>6. CASE Pairs!Stops(writes) /\ UNCHANGED <<handed, pairRemoved, failures>>
  <2>1. pairRemoved' \in SUBSET Tokens
    BY <1>6 DEF PairInv
  <2> QED BY <1>3, <1>6, <2>1, StopsSoundly
<1>7. CASE /\ pairDisk' = writes[Len(writes)] /\ pairMem' = writes[Len(writes)]
           /\ UNCHANGED <<running, limiter, waiting, answers, outbound, handed, pairRemoved, failures, now>>
  <2>1. Stands(pairMem', handed, pairRemoved, failures, now)
    BY <1>3, <1>5, <1>7
  <2>2. Stands(pairMem', handed', pairRemoved', failures', now') /\ pairDisk' = pairMem'
    BY <1>7, <2>1
  <2> HIDE DEF row
  <2> QED BY <1>7, <2>2, CompletesSoundly DEF PairInv
<1> QED BY <1>4, <1>6, <1>7

LEMMA FieldsOf ==
    ASSUME NEW d, NEW C, NEW a, NEW P, d = [codes |-> C, attempts |-> a, peers |-> P]
    PROVE  d.codes = C /\ d.attempts = a /\ d.peers = P
OBVIOUS

LEMMA WindowReplaced ==
    ASSUME NEW d, NEW e, NEW g, NEW gone, NEW failed, NEW failed2, NEW t, NEW a \in Pairs!Window,
           Stands(d, g, gone, failed, t),
           e = [codes |-> d.codes, attempts |-> a, peers |-> d.peers], WindowStands(e, failed2, t)
    PROVE  Stands(e, g, gone, failed2, t)
<1>1. e \in Pairs!Files
  BY DEF Stands, Pairs!Files
<1>2. CodesStand(e, g, gone)
  BY DEF Stands, CodesStand
<1>3. PeersStand(e, g, gone)
  BY DEF Stands, PeersStand
<1> QED BY <1>1, <1>2, <1>3 DEF Stands

LEMMA LimiterTyped ==
    ASSUME PairInv, NEW ip, Pairs!RecordPairFailure(ip)
    PROVE  limiter' \in [Ips -> Pairs!Window]
<1> USE CredentialsAssumption
<1>1. now + Ttl \in Ticks /\ 0 \in Ticks
  BY DEF PairInv, Ticks
<1>2. ASSUME NEW i \in Ips PROVE limiter'[i] \in Pairs!Window
  <2>1. limiter[i] \in [count : Nat, resetAt : Ticks]
    BY <1>2 DEF PairInv, Pairs!Window, Ticks
  <2>2. [limiter[i] EXCEPT !.count = @ + 1] \in [count : Nat, resetAt : Ticks]
    BY <2>1
  <2>3. [count |-> 1, resetAt |-> now + Ttl] \in [count : Nat, resetAt : Ticks]
    BY <1>1
  <2>4. Pairs!NoWindow \in [count : Nat, resetAt : Ticks]
    BY <1>1 DEF Pairs!NoWindow
  <2>5. limiter'[i] \in {limiter[i], [limiter[i] EXCEPT !.count = @ + 1],
                         [count |-> 1, resetAt |-> now + Ttl], Pairs!NoWindow}
    BY <1>2 DEF Pairs!RecordPairFailure
  <2> QED BY <2>1, <2>2, <2>3, <2>4, <2>5 DEF Pairs!Window, Ticks
<1> QED BY <1>2 DEF Pairs!RecordPairFailure

\* What claims write.
LEMMA SavedCodesStand ==
    ASSUME PairInv
    PROVE  [Pairs!Pruned EXCEPT !.attempts = pairDisk.attempts] = Pairs!Pruned
<1>1. Pairs!Pruned \in Pairs!Files /\ pairDisk.attempts = Pairs!Pruned.attempts
  BY PrunedStands, PrunedFields DEF PairInv, Stands
<1> QED BY <1>1 DEF Pairs!Files

LEMMA CountedStands ==
    ASSUME PairInv, NEW counted,
           counted = [Pairs!Pruned EXCEPT !.attempts = [Pairs!Attempts EXCEPT !.count = @ + 1]]
    PROVE  /\ counted = [codes |-> Pairs!Pruned.codes, peers |-> Pairs!Pruned.peers,
                         attempts |-> [count |-> Pairs!Attempts.count + 1, resetAt |-> Pairs!Attempts.resetAt]]
           /\ Stands(counted, handed, pairRemoved, failures, now)
<1> DEFINE a == [count |-> Pairs!Attempts.count + 1, resetAt |-> Pairs!Attempts.resetAt]
<1>1. Pairs!Attempts \in [count : Nat, resetAt : 0 .. MaxTime + Ttl]
  BY AttemptsStand DEF Pairs!Window
<1>2. a = [Pairs!Attempts EXCEPT !.count = @ + 1] /\ a \in Pairs!Window
  BY <1>1 DEF Pairs!Window
<1> HIDE DEF a
<1>3. Stands(Pairs!Pruned, handed, pairRemoved, failures, now) /\ Pairs!Pruned \in Pairs!Files
  BY PrunedStands DEF Stands
<1>4. counted = [Pairs!Pruned EXCEPT !.attempts = a]
  BY <1>2
<1>5. counted = [codes |-> Pairs!Pruned.codes, attempts |-> a, peers |-> Pairs!Pruned.peers]
  BY <1>3, <1>4 DEF Pairs!Files
<1>6. failures \in [Ticks -> Nat] /\ a.resetAt \in Ticks
  BY <1>2 DEF PairInv, Pairs!Window, Ticks
<1>7. WindowStands(counted, failures, now)
  <2>1. a.count = Pairs!Attempts.count + 1 /\ a.resetAt = Pairs!Attempts.resetAt
    BY DEF a
  <2>2. counted.attempts = a
    BY <1>5
  <2> QED BY <1>1, <1>6, <2>1, <2>2, AttemptsStand DEF WindowStands
<1>8. Stands(counted, handed, pairRemoved, failures, now)
  BY <1>2, <1>3, <1>5, <1>7, WindowReplaced
<1> QED BY <1>5, <1>8 DEF a

\* The code goes, then the peer comes; with it the token may have been answered.
LEMMA TakenStands ==
    ASSUME PairInv, NEW row \in Pairs!Pruned.codes, NEW taken, NEW admitted,
           taken = [Pairs!Pruned EXCEPT !.codes = @ \ {row}, !.attempts = Pairs!Attempts],
           admitted = [taken EXCEPT !.peers = @ \cup {row.token}]
    PROVE  /\ Stands(taken, handed, pairRemoved, failures, now)
           /\ Stands(admitted, handed, pairRemoved, failures, now)
           /\ Stands(admitted, handed \cup {row.token}, pairRemoved, failures, now)
           /\ row.token \in Tokens
<1> DEFINE C == Pairs!Pruned.codes \ {row}
<1>1. Stands(Pairs!Pruned, handed, pairRemoved, failures, now) /\ Pairs!Pruned \in Pairs!Files
  BY PrunedStands DEF Stands
<1>2. taken = [codes |-> C, attempts |-> Pairs!Attempts, peers |-> Pairs!Pruned.peers]
  BY <1>1 DEF Pairs!Files
<1>3. admitted = [codes |-> C, attempts |-> Pairs!Attempts, peers |-> Pairs!Pruned.peers \cup {row.token}]
  BY <1>2
<1>4. row \in Pairs!Code /\ C \subseteq Pairs!Code /\ Pairs!Pruned.peers \subseteq Tokens /\ C \subseteq Pairs!Pruned.codes
  BY <1>1 DEF Pairs!Files
<1>5. row.token \in Tokens
  BY <1>4 DEF Pairs!Code
<1>6. taken \in Pairs!Files /\ admitted \in Pairs!Files
  BY <1>2, <1>3, <1>4, <1>5, AttemptsStand DEF Pairs!Files
<1>7. IsFiniteSet(C) /\ Cardinality(C) <= MaxCodes
  <2>1. IsFiniteSet(Pairs!Pruned.codes) /\ Cardinality(Pairs!Pruned.codes) <= MaxCodes
    BY <1>1 DEF Stands, CodesStand
  <2> HIDE DEF C
  <2>2. IsFiniteSet(C) /\ Cardinality(C) <= Cardinality(Pairs!Pruned.codes)
    BY <1>4, <2>1, FS_Subset
  <2> QED BY <2>1, <2>2, FS_CardinalityType, CredentialsAssumption
<1>8. \A c \in C : c.token # row.token
  BY <1>1 DEF Stands, CodesStand
<1> HIDE DEF C
<1>9. row.token \notin handed \cup pairRemoved \cup Pairs!Pruned.peers
  BY <1>1 DEF Stands, CodesStand
<1>10. /\ \A c, e \in C : c.code = e.code \/ c.token = e.token => c = e
       /\ \A c \in C : c.token \notin Pairs!Pruned.peers \cup handed \cup pairRemoved
  BY <1>1, <1>4 DEF Stands, CodesStand
<1>11. CodesStand(taken, handed, pairRemoved) /\ PeersStand(taken, handed, pairRemoved)
  <2>1. taken.codes = C /\ taken.peers = Pairs!Pruned.peers
    BY <1>2, FieldsOf
  <2> QED BY <1>1, <1>7, <1>10, <2>1 DEF Stands, CodesStand, PeersStand
<1>14. CodesStand(admitted, handed, pairRemoved) /\ CodesStand(admitted, handed \cup {row.token}, pairRemoved)
  <2>1. admitted.codes = C /\ admitted.peers = Pairs!Pruned.peers \cup {row.token}
    BY ONLY <1>3, FieldsOf
  <2>2. \A c \in C : c.token \notin Pairs!Pruned.peers \cup {row.token} \cup handed \cup pairRemoved
    BY <1>8, <1>10
  <2> QED BY <1>7, <1>10, <2>1, <2>2 DEF CodesStand
<1>12. PeersStand(admitted, handed, pairRemoved) /\ PeersStand(admitted, handed \cup {row.token}, pairRemoved)
  BY <1>1, <1>3, <1>9 DEF Stands, PeersStand
<1>13. WindowStands(taken, failures, now) /\ WindowStands(admitted, failures, now)
  BY <1>2, <1>3, AttemptsStand DEF WindowStands
<1> QED BY <1>5, <1>6, <1>11, <1>12, <1>13, <1>14 DEF Stands

LEMMA FailedClaimSound ==
    ASSUME PairInv, NEW r \in Requests, NEW counted,
           counted = [Pairs!Pruned EXCEPT !.attempts = [Pairs!Attempts EXCEPT !.count = @ + 1]],
           Pairs!Attempts.count < MaxAttempts,
           pairMem' = counted, pairDisk' = counted,
           failures' = [failures EXCEPT ![counted.attempts.resetAt] = @ + 1],
           Pairs!RecordPairFailure(waiting[r]), waiting' = [waiting EXCEPT ![r] = NoIp],
           UNCHANGED <<running, answers, outbound, handed, pairRemoved, now>>
    PROVE  PairInv'
<1> USE CredentialsAssumption
<1>1. /\ counted = [codes |-> Pairs!Pruned.codes, peers |-> Pairs!Pruned.peers,
                    attempts |-> [count |-> Pairs!Attempts.count + 1, resetAt |-> Pairs!Attempts.resetAt]]
      /\ Stands(counted, handed, pairRemoved, failures, now)
  BY CountedStands
<1>2. Pairs!Attempts.count \in Nat /\ Pairs!Attempts.resetAt \in Ticks
  BY AttemptsStand DEF Pairs!Window, Ticks
<1> DEFINE w0 == Pairs!Attempts.resetAt
<1>3. failures \in [Ticks -> Nat] /\ failures' = [failures EXCEPT ![w0] = @ + 1]
  <2>1. counted.attempts.resetAt = w0
    BY <1>1
  <2> HIDE DEF w0
  <2> QED BY <2>1 DEF PairInv
<1> HIDE DEF w0
<1>4. /\ failures' \in [Ticks -> Nat] /\ failures'[w0] = failures[w0] + 1
      /\ \A w \in Ticks : w # w0 => failures'[w] = failures[w]
  BY <1>2, <1>3 DEF w0
<1>5. failures[w0] <= Pairs!Attempts.count
  BY AttemptsStand DEF w0
<1>6. failures'[w0] <= MaxAttempts
  BY <1>2, <1>3, <1>4, <1>5 DEF w0
<1>7. \A w \in Ticks : failures'[w] <= MaxAttempts
  BY <1>4, <1>6 DEF PairInv
<1>8. WindowStands(counted, failures', now)
  <2>1. counted.attempts.resetAt = w0 /\ counted.attempts.count = Pairs!Attempts.count + 1
    BY <1>1 DEF w0
  <2>2. failures'[w0] <= Pairs!Attempts.count + 1
    BY <1>2, <1>3, <1>4, <1>5 DEF w0
  <2>3. \A w \in Ticks : failures'[w] > 0 /\ w > now => w = w0
    BY <1>4, AttemptsStand DEF w0
  <2> QED BY <2>1, <2>2, <2>3 DEF WindowStands
<1>9. Stands(counted, handed, pairRemoved, failures', now)
  BY <1>1, <1>8 DEF Stands
<1>10. Stands(pairMem', handed', pairRemoved', failures', now')
  BY <1>9
<1>11. limiter' \in [Ips -> Pairs!Window]
  BY LimiterTyped
<1>12. waiting' \in [Requests -> Ips \cup {NoIp}]
  BY DEF PairInv
<1>13. /\ running' \in BOOLEAN /\ now' \in 0 .. MaxTime /\ pairDisk' = pairMem'
       /\ handed' \in SUBSET Tokens /\ pairRemoved' \in SUBSET Tokens
       /\ answers' \subseteq handed' /\ outbound' \subseteq handed'
  BY DEF PairInv
<1> QED BY <1>4, <1>7, <1>10, <1>11, <1>12, <1>13, CompletesSoundly

LEMMA LimitedClaimSound ==
    ASSUME PairInv, NEW r \in Requests, Pairs!Attempts.count >= MaxAttempts,
           pairMem' = [Pairs!Pruned EXCEPT !.attempts = Pairs!Attempts],
           pairDisk' = [Pairs!Pruned EXCEPT !.attempts = pairDisk.attempts],
           Pairs!RecordPairFailure(waiting[r]), waiting' = [waiting EXCEPT ![r] = NoIp],
           UNCHANGED <<running, answers, outbound, handed, pairRemoved, failures, now>>
    PROVE  PairInv'
<1> USE CredentialsAssumption
<1>1. Pairs!Attempts = pairMem.attempts
  BY AttemptsStand DEF Pairs!Window
<1>2. pairDisk' = Pairs!Pruned /\ pairMem' = Pairs!Pruned
  <2>1. pairDisk' = Pairs!Pruned
    BY SavedCodesStand
  <2>2. pairDisk = pairMem
    BY DEF PairInv
  <2>3. pairMem' = [Pairs!Pruned EXCEPT !.attempts = pairDisk.attempts]
    BY <1>1, <2>2
  <2> QED BY <2>1, <2>3
<1>3. Stands(pairMem', handed', pairRemoved', failures', now')
  BY <1>2, PrunedStands
<1>4. limiter' \in [Ips -> Pairs!Window]
  BY LimiterTyped
<1>5. waiting' \in [Requests -> Ips \cup {NoIp}]
  BY DEF PairInv
<1>6. /\ running' \in BOOLEAN /\ now' \in 0 .. MaxTime /\ pairDisk' = pairMem'
      /\ handed' \in SUBSET Tokens /\ pairRemoved' \in SUBSET Tokens
      /\ answers' \subseteq handed' /\ outbound' \subseteq handed'
      /\ failures' \in [Ticks -> Nat] /\ \A w \in Ticks : failures'[w] <= MaxAttempts
  BY <1>2 DEF PairInv
<1> QED BY <1>3, <1>4, <1>5, <1>6, CompletesSoundly

LEMMA ClaimSound ==
    ASSUME PairInv, NEW r \in Requests, NEW code \in Codes, Pairs!Claim(r, code)
    PROVE  PairInv'
<1> USE CredentialsAssumption
<1> DEFINE counted == [Pairs!Pruned EXCEPT !.attempts = [Pairs!Attempts EXCEPT !.count = @ + 1]]
           kept == [Pairs!Pruned EXCEPT !.attempts = pairDisk.attempts]
           known == {c \in Pairs!Pruned.codes : c.code = code}
           taken(row) == [Pairs!Pruned EXCEPT !.codes = @ \ {row}, !.attempts = Pairs!Attempts]
           admitted(row) == [taken(row) EXCEPT !.peers = @ \cup {row.token}]
           Limited == /\ pairMem' = [Pairs!Pruned EXCEPT !.attempts = Pairs!Attempts]
                      /\ pairDisk' = kept
                      /\ UNCHANGED <<running, failures>>
           Failed == /\ pairMem' = counted /\ pairDisk' = counted /\ UNCHANGED running
                     /\ failures' = [failures EXCEPT ![pairMem'.attempts.resetAt] = @ + 1]
           Answered == /\ Pairs!RecordPairFailure(waiting[r])
                       /\ waiting' = [waiting EXCEPT ![r] = NoIp]
                       /\ UNCHANGED <<answers, outbound, handed, pairRemoved, now>>
<1>1. \/ Pairs!Attempts.count >= MaxAttempts /\ Limited /\ Answered
      \/ ~ (Pairs!Attempts.count >= MaxAttempts) /\ Failed /\ Answered
      \/ Pairs!Stops(<<pairDisk, kept, counted>>) /\ UNCHANGED <<handed, pairRemoved, failures>>
      \/ \E row \in known :
            \/ /\ pairDisk' = admitted(row) /\ pairMem' = admitted(row) /\ UNCHANGED running
               /\ handed' = handed \cup {row.token} /\ answers' = answers \cup {row.token}
               /\ waiting' = [waiting EXCEPT ![r] = NoIp]
               /\ UNCHANGED <<limiter, outbound, pairRemoved, failures, now>>
            \/ /\ Pairs!Stops(<<pairDisk, Pairs!Pruned, taken(row), admitted(row)>>)
               /\ UNCHANGED <<handed, pairRemoved, failures>>
  BY DEF Pairs!Claim, Pairs!Completes, Pairs!FailedClaim, Pairs!SuccessfulClaim, Pairs!remote, Pairs!history
<1>2. /\ Stands(pairDisk, handed, pairRemoved, failures, now)
      /\ Stands(Pairs!Pruned, handed, pairRemoved, failures, now)
  BY PrunedStands DEF PairInv
<1>3. kept = Pairs!Pruned
  BY SavedCodesStand
<1>4. CASE Pairs!Attempts.count >= MaxAttempts /\ Limited /\ Answered
  BY <1>4, LimitedClaimSound
<1>5. CASE ~ (Pairs!Attempts.count >= MaxAttempts) /\ Failed /\ Answered
  <2>1. Pairs!Attempts.count < MaxAttempts
    BY <1>5, AttemptsStand DEF Pairs!Window
  <2> HIDE DEF counted
  <2>2. failures' = [failures EXCEPT ![counted.attempts.resetAt] = @ + 1]
    BY <1>5
  <2> QED BY <1>5, <2>1, <2>2, FailedClaimSound DEF counted
<1>6. CASE Pairs!Stops(<<pairDisk, kept, counted>>) /\ UNCHANGED <<handed, pairRemoved, failures>>
  <2>1. Stands(counted, handed, pairRemoved, failures, now)
    BY CountedStands
  <2> DEFINE writes == <<pairDisk, kept, counted>>
  <2> HIDE DEF counted, kept
  <2>2. \A k \in 1 .. Len(writes) : Stands(writes[k], handed, pairRemoved, failures, now)
    BY <1>2, <1>3, <2>1
  <2>3. pairRemoved' \in SUBSET Tokens
    BY <1>6 DEF PairInv
  <2> HIDE DEF writes
  <2> QED BY <1>6, <2>2, <2>3, StopsSoundly DEF writes
<1>7. ASSUME NEW row \in known,
             /\ pairDisk' = admitted(row) /\ pairMem' = admitted(row) /\ UNCHANGED running
             /\ handed' = handed \cup {row.token} /\ answers' = answers \cup {row.token}
             /\ waiting' = [waiting EXCEPT ![r] = NoIp]
             /\ UNCHANGED <<limiter, outbound, pairRemoved, failures, now>>
      PROVE  PairInv'
  <2>1. /\ Stands(admitted(row), handed \cup {row.token}, pairRemoved, failures, now) /\ row.token \in Tokens
    BY TakenStands
  <2> HIDE DEF admitted, known
  <2>2. Stands(pairMem', handed', pairRemoved', failures', now')
    BY <1>7, <2>1
  <2>3. waiting' \in [Requests -> Ips \cup {NoIp}] /\ limiter' \in [Ips -> Pairs!Window]
    BY <1>7 DEF PairInv
  <2>4. /\ running' \in BOOLEAN /\ now' \in 0 .. MaxTime /\ pairDisk' = pairMem'
        /\ handed' \in SUBSET Tokens /\ pairRemoved' \in SUBSET Tokens
        /\ answers' \subseteq handed' /\ outbound' \subseteq handed'
        /\ failures' \in [Ticks -> Nat] /\ \A w \in Ticks : failures'[w] <= MaxAttempts
    BY <1>7, <2>1 DEF PairInv
  <2> QED BY <2>2, <2>3, <2>4, CompletesSoundly
<1>8. ASSUME NEW row \in known, Pairs!Stops(<<pairDisk, Pairs!Pruned, taken(row), admitted(row)>>),
             UNCHANGED <<handed, pairRemoved, failures>>
      PROVE  PairInv'
  <2>1. /\ Stands(taken(row), handed, pairRemoved, failures, now)
        /\ Stands(admitted(row), handed, pairRemoved, failures, now)
    BY TakenStands
  <2> DEFINE writes == <<pairDisk, Pairs!Pruned, taken(row), admitted(row)>>
  <2> HIDE DEF taken, admitted, known
  <2>2. \A k \in 1 .. Len(writes) : Stands(writes[k], handed, pairRemoved, failures, now)
    BY <1>2, <2>1
  <2>3. pairRemoved' \in SUBSET Tokens
    BY <1>8 DEF PairInv
  <2> HIDE DEF writes
  <2> QED BY <1>8, <2>2, <2>3, StopsSoundly DEF writes
<1> QED BY <1>1, <1>4, <1>5, <1>6, <1>7, <1>8

LEMMA RemovePeerSound ==
    ASSUME PairInv, NEW t \in Tokens, Pairs!RemovePeer(t)
    PROVE  PairInv'
<1> DEFINE without == [pairDisk EXCEPT !.peers = Pairs!WithoutPeer(t)]
           writes == <<pairDisk, without>>
<1>1. t \in pairMem.peers /\ pairMem = pairDisk
  BY DEF Pairs!RemovePeer, PairInv
<1>2. Stands(pairDisk, handed, pairRemoved, failures, now) /\ pairDisk \in Pairs!Files
  BY DEF PairInv, Stands
<1>3. without = [codes |-> pairDisk.codes, attempts |-> pairDisk.attempts, peers |-> pairDisk.peers \ {t}]
  BY <1>1, <1>2 DEF Pairs!Files, Pairs!WithoutPeer
<1>4. Stands(without, handed, pairRemoved \cup {t}, failures, now)
  <2> HIDE DEF without, writes
  <2>1. without \in Pairs!Files
    BY <1>2, <1>3 DEF Pairs!Files
  <2>2. /\ without.codes = pairDisk.codes /\ without.attempts = pairDisk.attempts
        /\ without.peers = pairDisk.peers \ {t}
    BY <1>3, FieldsOf
  <2>3. CodesStand(without, handed, pairRemoved \cup {t})
    BY <1>1, <1>2, <2>2 DEF Stands, CodesStand
  <2>4. PeersStand(without, handed, pairRemoved \cup {t})
    BY <1>2, <2>2 DEF Stands, PeersStand
  <2>5. WindowStands(without, failures, now)
    BY <1>2, <2>2 DEF Stands, WindowStands
  <2> QED BY <2>1, <2>3, <2>4, <2>5 DEF Stands
<1>5. \/ /\ pairDisk' = without /\ pairMem' = without /\ pairRemoved' = pairRemoved \cup {t}
         /\ UNCHANGED <<running, limiter, waiting, answers, outbound, handed, failures, now>>
      \/ /\ Pairs!Stops(writes)
         /\ pairRemoved' = IF t \in pairDisk'.peers THEN pairRemoved ELSE pairRemoved \cup {t}
         /\ UNCHANGED <<handed, failures>>
  <2>1. [pairMem EXCEPT !.peers = Pairs!WithoutPeer(t)] = without
    BY <1>1
  <2> QED BY <2>1 DEF Pairs!RemovePeer, Pairs!Completes, Pairs!remote
<1>6. t \notin without.peers
  BY <1>3
<1> HIDE DEF without
<1>7. CASE /\ pairDisk' = without /\ pairMem' = without /\ pairRemoved' = pairRemoved \cup {t}
           /\ UNCHANGED <<running, limiter, waiting, answers, outbound, handed, failures, now>>
  <2>1. Stands(pairMem', handed', pairRemoved', failures', now')
    BY <1>4, <1>7
  <2>2. /\ running' \in BOOLEAN /\ now' \in 0 .. MaxTime /\ pairDisk' = pairMem'
        /\ handed' \in SUBSET Tokens /\ pairRemoved' \in SUBSET Tokens
        /\ answers' \subseteq handed' /\ outbound' \subseteq handed'
        /\ failures' \in [Ticks -> Nat] /\ \A w \in Ticks : failures'[w] <= MaxAttempts
        /\ limiter' \in [Ips -> Pairs!Window] /\ waiting' \in [Requests -> Ips \cup {NoIp}]
    BY <1>7 DEF PairInv
  <2> QED BY <2>1, <2>2, CompletesSoundly
<1>8. CASE /\ Pairs!Stops(writes)
           /\ pairRemoved' = IF t \in pairDisk'.peers THEN pairRemoved ELSE pairRemoved \cup {t}
           /\ UNCHANGED <<handed, failures>>
  <2>1. pairDisk' = pairDisk => pairRemoved' = pairRemoved
    BY <1>1, <1>8
  <2>2. pairDisk' = without => pairRemoved' = pairRemoved \cup {t}
    BY <1>6, <1>8
  <2>3. \A k \in 1 .. Len(writes) : pairDisk' = writes[k] => Stands(writes[k], handed, pairRemoved', failures, now)
    BY <1>2, <1>4, <2>1, <2>2
  <2>4. pairRemoved' \in SUBSET Tokens
    BY <1>8 DEF PairInv
  <2> HIDE DEF writes
  <2> QED BY <1>8, <2>3, <2>4, StopsSoundly
<1> QED BY <1>5, <1>7, <1>8

LEMMA PairStopSound ==
    ASSUME PairInv, Pairs!Stop
    PROVE  PairInv'
<1> DEFINE writes == <<pairDisk>>
<1>1. Pairs!Stops(writes) /\ UNCHANGED <<handed, pairRemoved, failures>>
  BY DEF Pairs!Stop, Pairs!history
<1>2. \A k \in 1 .. Len(writes) : Stands(writes[k], handed, pairRemoved, failures, now)
  BY DEF PairInv
<1>3. pairRemoved' \in SUBSET Tokens
  BY <1>1 DEF PairInv
<1> HIDE DEF writes
<1> QED BY <1>1, <1>2, <1>3, StopsSoundly

\* What changes neither files nor history.
LEMMA FilesAtRest ==
    ASSUME PairInv, UNCHANGED <<pairMem, pairDisk, handed, pairRemoved, failures>>,
           running' \in BOOLEAN, now' \in 0 .. MaxTime, now <= now', UNCHANGED limiter,
           waiting' \in [Requests -> Ips \cup {NoIp}],
           answers' \subseteq handed, outbound' \subseteq handed
    PROVE  PairInv'
<1> USE CredentialsAssumption
<1>1. WindowStands(pairMem, failures, now')
  <2>1. now \in Int /\ now' \in Int /\ Ticks \subseteq Int
    BY DEF PairInv, Ticks
  <2> QED BY <2>1 DEF PairInv, Stands, WindowStands
<1>2. Stands(pairMem', handed', pairRemoved', failures', now')
  BY <1>1 DEF PairInv, Stands
<1>3. /\ pairDisk' = pairMem' /\ limiter' \in [Ips -> Pairs!Window]
      /\ handed' \in SUBSET Tokens /\ pairRemoved' \in SUBSET Tokens
      /\ answers' \subseteq handed' /\ outbound' \subseteq handed'
      /\ failures' \in [Ticks -> Nat] /\ \A w \in Ticks : failures'[w] <= MaxAttempts
  BY DEF PairInv
<1> QED BY <1>2, <1>3, CompletesSoundly

LEMMA PairStep ==
    ASSUME PairInv, Pairs!Next
    PROVE  PairInv'
<1> USE CredentialsAssumption
<1>1. ASSUME NEW t \in Tokens, NEW code \in Codes, Pairs!CreatePairingCode(t, code)
      PROVE  PairInv'
  BY <1>1, CreateSound
<1>2. ASSUME NEW t \in Tokens, Pairs!RemovePeer(t) PROVE PairInv'
  BY <1>2, RemovePeerSound
<1>3. ASSUME NEW t \in Tokens, Pairs!Connected(t) \/ Pairs!AnswerLost(t)
      PROVE  PairInv'
  <2>1. /\ UNCHANGED <<running, pairMem, pairDisk, limiter, waiting, handed, pairRemoved, failures, now>>
        /\ answers' \subseteq handed /\ outbound' \subseteq handed
    BY <1>3 DEF Pairs!Connected, Pairs!AnswerLost, Pairs!history, PairInv
  <2>2. running' \in BOOLEAN /\ now' \in 0 .. MaxTime /\ now <= now' /\ waiting' \in [Requests -> Ips \cup {NoIp}]
    BY <2>1 DEF PairInv
  <2> QED BY <2>1, <2>2, FilesAtRest
<1>4. ASSUME NEW r \in Requests, \/ \E ip \in Ips : Pairs!BeginPair(r, ip)
                                 \/ Pairs!PairAborted(r)
      PROVE  PairInv'
  <2>1. /\ UNCHANGED <<running, pairMem, pairDisk, limiter, answers, outbound, handed, pairRemoved, failures, now>>
        /\ waiting' \in [Requests -> Ips \cup {NoIp}]
    BY <1>4 DEF Pairs!BeginPair, Pairs!PairAborted, Pairs!remote, Pairs!history, PairInv
  <2>2. /\ running' \in BOOLEAN /\ now' \in 0 .. MaxTime /\ now <= now'
        /\ answers' \subseteq handed /\ outbound' \subseteq handed
    BY <2>1 DEF PairInv
  <2> QED BY <2>1, <2>2, FilesAtRest
<1>5. ASSUME NEW r \in Requests, NEW code \in Codes, Pairs!Claim(r, code)
      PROVE  PairInv'
  BY <1>5, ClaimSound
<1>6. CASE Pairs!Stop
  BY <1>6, PairStopSound
<1>7. CASE Pairs!Restart \/ Pairs!Tick
  <2>1. /\ UNCHANGED <<pairMem, pairDisk, limiter, waiting, answers, outbound, handed, pairRemoved, failures>>
        /\ running' \in BOOLEAN /\ now' \in 0 .. MaxTime /\ now <= now'
    <3>1. now \in 0 .. MaxTime /\ running \in BOOLEAN
      BY DEF PairInv
    <3>2. UNCHANGED <<pairMem, pairDisk, limiter, waiting, answers, outbound, handed, pairRemoved, failures>>
      BY <1>7 DEF Pairs!Restart, Pairs!Tick, Pairs!remote, Pairs!history
    <3>3. CASE Pairs!Restart
      BY <3>1, <3>2, <3>3 DEF Pairs!Restart
    <3>4. CASE Pairs!Tick
      BY <3>1, <3>2, <3>4 DEF Pairs!Tick
    <3> QED BY <1>7, <3>3, <3>4
  <2>2. waiting' \in [Requests -> Ips \cup {NoIp}] /\ answers' \subseteq handed /\ outbound' \subseteq handed
    BY <2>1 DEF PairInv
  <2> QED BY <2>1, <2>2, FilesAtRest
<1> QED BY <1>1, <1>2, <1>3, <1>4, <1>5, <1>6, <1>7 DEF Pairs!Next

LEMMA PairRest ==
    ASSUME PairInv, UNCHANGED pairing
    PROVE  PairInv'
<1>1. /\ UNCHANGED <<pairMem, pairDisk, limiter, waiting, answers, outbound, handed, pairRemoved, failures>>
      /\ running' \in BOOLEAN /\ now' \in 0 .. MaxTime /\ now <= now'
      /\ waiting' \in [Requests -> Ips \cup {NoIp}] /\ answers' \subseteq handed /\ outbound' \subseteq handed
  BY CredentialsAssumption DEF pairing, PairInv
<1> QED BY <1>1, FilesAtRest

(***************************************************************************)
(* Keys.  The filter of deleteKey() goes through the file line by line, so *)
(* what it leaves is found by induction up to the length of the file.      *)
(***************************************************************************)

LEMMA LeastElement ==
    ASSUME NEW T \in SUBSET Nat, T # {}
    PROVE  \E m \in T : \A n \in T : m <= n
<1> DEFINE R == OpToRel(<, Nat)
<1>1. IsWellFoundedOn(R, Nat)
  BY NatLessThanWellFounded
<1>2. \A x, y \in Nat : x < y => <<x, y>> \in R
  BY DEF OpToRel
<1> HIDE DEF R
<1>3. PICK m \in T : \A y \in T : ~ (<<y, m>> \in R)
  BY <1>1, WFMin
<1>4. \A y \in T : ~ (y < m)
  BY <1>2, <1>3
<1> QED BY <1>3, <1>4

LEMMA InductionUpTo ==
    ASSUME NEW N \in Nat, NEW T, 0 \in T, \A n \in 0 .. N - 1 : n \in T => n + 1 \in T
    PROVE  \A n \in 0 .. N : n \in T
<1> SUFFICES ASSUME NEW k \in 0 .. N, k \notin T PROVE FALSE
  OBVIOUS
<1> DEFINE Out == {n \in 0 .. N : n \notin T}
<1>1. PICK m \in Out : \A n \in Out : m <= n
  <2>1. Out \in SUBSET Nat /\ Out # {}
    OBVIOUS
  <2> HIDE DEF Out
  <2> QED BY <2>1, LeastElement
<1>2. m # 0 /\ m - 1 \in 0 .. N - 1
  BY <1>1
<1>3. m - 1 \in T
  BY <1>1, <1>2
<1>4. m - 1 + 1 \in T
  BY <1>2, <1>3
<1> QED BY <1>1, <1>4

\* some function starts with a and goes on with E, up to N
Unrolls(N, S, a, E) ==
    \E h \in [0 .. N -> S] : h[0] = a /\ \A n \in 1 .. N : h[n] = E[<<h[n - 1], n>>]

LEMMA RecursionUpTo ==
    ASSUME NEW N \in Nat, NEW S, NEW a \in S, NEW E \in [S \X (1 .. N) -> S]
    PROVE  Unrolls(N, S, a, E)
<1> DEFINE Upto(k) == \E h \in [0 .. k -> S] :
                         h[0] = a /\ \A n \in 1 .. k : h[n] = E[<<h[n - 1], n>>]
           T == {k \in 0 .. N : Upto(k)}
<1>1. Upto(0)
  <2> DEFINE h == [n \in 0 .. 0 |-> a]
  <2>1. h \in [0 .. 0 -> S] /\ h[0] = a
    OBVIOUS
  <2> HIDE DEF h
  <2> QED BY <2>1
<1>2. ASSUME NEW k \in 0 .. N - 1, Upto(k) PROVE Upto(k + 1)
  <2>1. PICK g \in [0 .. k -> S] :
            g[0] = a /\ \A n \in 1 .. k : g[n] = E[<<g[n - 1], n>>]
    BY <1>2
  <2> DEFINE h == [n \in 0 .. k + 1 |-> IF n = k + 1 THEN E[<<g[k], k + 1>>] ELSE g[n]]
  <2>2. <<g[k], k + 1>> \in S \X (1 .. N)
    BY <2>1
  <2>3. h \in [0 .. k + 1 -> S]
    BY <2>1, <2>2
  <2>4. /\ h[k + 1] = E[<<g[k], k + 1>>]
        /\ \A n \in 0 .. k : h[n] = g[n]
    OBVIOUS
  <2> HIDE DEF h
  <2>5. h[0] = a
    BY <2>1, <2>4
  <2>6. ASSUME NEW n \in 1 .. k + 1 PROVE h[n] = E[<<h[n - 1], n>>]
    <3>1. CASE n = k + 1
      BY <2>4, <3>1
    <3>2. CASE n # k + 1
      <4>1. n \in 1 .. k /\ n - 1 \in 0 .. k
        BY <3>2
      <4> QED BY <2>1, <2>4, <4>1
    <3> QED BY <3>1, <3>2
  <2> QED BY <2>3, <2>5, <2>6
<1> HIDE DEF Upto
<1>3. \A n \in 0 .. N : n \in T
  <2>1. 0 \in T
    BY <1>1
  <2>2. \A n \in 0 .. N - 1 : n \in T => n + 1 \in T
    BY <1>2
  <2> HIDE DEF T
  <2> QED BY <2>1, <2>2, InductionUpTo
<1>4. Upto(N)
  BY <1>3
<1> QED BY <1>4 DEF Upto, Unrolls

KeyCount == 1 .. MaxKeyChal
Distinct(s) == \A i, j \in DOMAIN s : s[i] = s[j] => i = j
KeyNames(s) == {s[i].key : i \in 1 .. Len(s)}

\* h[n] is what the filter keeps of the first n lines
KeepsOthers(k, h) ==
    /\ h[0] = <<>>
    /\ \A n \in 0 .. Len(file) - 1 :
          h[n + 1] = IF file[n + 1].key = k THEN h[n] ELSE Append(h[n], file[n + 1])

FilterSteps(k) ==
    \E h \in [0 .. Len(file) -> Seq(SshKeys!Line)] : KeepsOthers(k, h) /\ SshKeys!Without(k) = h[Len(file)]

LEMMA WithoutSteps ==
    ASSUME file \in Seq(SshKeys!Line), NEW k
    PROVE  FilterSteps(k)
<1> DEFINE N == Len(file)
           S == SshKeys!Line
           Step(x, n) == IF file[n].key = k THEN x ELSE Append(x, file[n])
           E == [p \in Seq(S) \X (1 .. N) |-> Step(p[1], p[2])]
           Unfolds(h) == h = [n \in 0 .. N |-> IF n = 0 THEN <<>> ELSE Step(h[n - 1], n)]
<1> HIDE DEF S
<1>0. N \in Nat /\ <<>> \in Seq(S)
  BY LenProperties, EmptySeq
<1>1. \A x \in Seq(S), n \in 1 .. N : Step(x, n) \in Seq(S)
  BY ElementOfSeq, AppendProperties DEF S
<1>2. E \in [Seq(S) \X (1 .. N) -> Seq(S)] /\ \A x \in Seq(S), n \in 1 .. N : E[<<x, n>>] = Step(x, n)
  <2> HIDE DEF Step, N
  <2> QED BY <1>1
<1>3. \E h : Unfolds(h)
  <2> DEFINE T == Seq(S)
             a == <<>>
  <2> HIDE DEF N, E, T, a, Step
  <2>1. Unrolls(N, T, a, E)
    <3>1. a \in T /\ E \in [T \X (1 .. N) -> T]
      BY <1>0, <1>2 DEF T, a
    <3> QED BY <1>0, <3>1, RecursionUpTo
  <2>2. PICK h \in [0 .. N -> T] : h[0] = a /\ \A n \in 1 .. N : h[n] = E[<<h[n - 1], n>>]
    BY <2>1 DEF Unrolls
  <2>3. \A n \in 1 .. N : h[n] = Step(h[n - 1], n)
    <3> SUFFICES ASSUME NEW n \in 1 .. N PROVE h[n] = Step(h[n - 1], n)
      OBVIOUS
    <3>1. n - 1 \in 0 .. N
      BY <1>0
    <3>2. h[n - 1] \in Seq(S)
      BY <3>1 DEF T
    <3> QED BY <1>2, <2>2, <3>2
  <2>4. Unfolds(h)
    BY <1>0, <2>2, <2>3 DEF a
  <2> QED BY <2>4
<1>4. PICK h : Unfolds(h) /\ SshKeys!Without(k) = h[N]
  BY <1>3, Zenon DEF SshKeys!Without
<1>5. h[0] = <<>> /\ \A n \in 1 .. N : h[n] = Step(h[n - 1], n)
  <2> HIDE DEF N, Step
  <2> QED BY <1>0, <1>4
<1>6. DOMAIN h = 0 .. N /\ h = [n \in 0 .. N |-> h[n]]
  BY <1>4
<1> DEFINE P == {n \in 0 .. N : h[n] \in Seq(S)}
<1>7. \A n \in 0 .. N : n \in P
  <2> HIDE DEF N, Step
  <2>1. 0 \in P
    <3>1. h[0] \in Seq(S)
      BY <1>0, <1>5, Zenon
    <3> QED BY <1>0, <3>1
  <2>2. \A n \in 0 .. N - 1 : n \in P => n + 1 \in P
    BY <1>0, <1>1, <1>5
  <2> HIDE DEF P
  <2> QED BY <1>0, <2>1, <2>2, InductionUpTo
<1>8. h \in [0 .. N -> Seq(S)]
  BY <1>6, <1>7
<1>9. KeepsOthers(k, h)
  <2> SUFFICES ASSUME NEW n \in 0 .. N - 1 PROVE h[n + 1] = Step(h[n], n + 1)
    BY <1>5 DEF KeepsOthers
  <2>1. n + 1 \in 1 .. N /\ n + 1 - 1 = n
    BY <1>0
  <2> HIDE DEF Step, N
  <2> QED BY <1>5, <2>1
<1> QED BY <1>4, <1>8, <1>9 DEF FilterSteps, S

\* s is the first n lines without those of key k, in their order
IsRest(s, k, n) ==
    /\ Len(s) <= n
    /\ \A j \in 1 .. Len(s) : \E m \in 1 .. n : s[j] = file[m] /\ file[m].key # k
    /\ \A m \in 1 .. n : file[m].key # k => \E j \in 1 .. Len(s) : s[j] = file[m]
    /\ Distinct(file) => Distinct(s)

\* What deleteKey() writes is the file without the lines of the key, all of them.
LEMMA WithoutIsRest ==
    ASSUME file \in Seq(SshKeys!Line), NEW k
    PROVE  SshKeys!Without(k) \in Seq(SshKeys!Line) /\ IsRest(SshKeys!Without(k), k, Len(file))
<1> DEFINE S == SshKeys!Line
           N == Len(file)
<1>1. PICK h \in [0 .. N -> Seq(S)] : KeepsOthers(k, h) /\ SshKeys!Without(k) = h[N]
  BY WithoutSteps DEF FilterSteps
<1> HIDE DEF S
<1>2. N \in Nat /\ DOMAIN file = 1 .. N /\ \A n \in 1 .. N : file[n] \in S
  BY LenProperties, ElementOfSeq DEF S
<1> DEFINE P == {n \in 0 .. N : IsRest(h[n], k, n)}
<1>3. \A n \in 0 .. N : n \in P
  <2>1. 0 \in P
    <3>1. h[0] = <<>> /\ Len(<<>>) = 0 /\ DOMAIN <<>> = {}
      BY <1>1, EmptySeq DEF KeepsOthers
    <3>2. IsRest(h[0], k, 0)
      BY <3>1 DEF IsRest, Distinct
    <3> QED BY <1>2, <3>2
  <2>2. ASSUME NEW n \in 0 .. N - 1, n \in P PROVE n + 1 \in P
    <3>1. n \in 0 .. N /\ n + 1 \in 1 .. N
      BY <1>2
    <3> DEFINE s == h[n]
               line == file[n + 1]
    <3>2. s \in Seq(S) /\ Len(s) \in Nat /\ DOMAIN s = 1 .. Len(s) /\ IsRest(s, k, n)
      BY <1>1, <2>2, <3>1, LenProperties
    <3>3. h[n + 1] = IF line.key = k THEN s ELSE Append(s, line)
      BY <1>1 DEF KeepsOthers
    <3> HIDE DEF s, line
    <3>4. CASE line.key = k
      <4>1. h[n + 1] = s
        BY <3>3, <3>4
      <4>2. \A m \in 1 .. n + 1 : file[m].key # k => m \in 1 .. n
        BY <3>1, <3>4 DEF line
      <4>3. \A m \in 1 .. n : m \in 1 .. n + 1
        BY <3>1
      <4>4. IsRest(s, k, n + 1)
        BY <3>1, <3>2, <4>2, <4>3 DEF IsRest
      <4> QED BY <3>1, <4>1, <4>4
    <3>5. CASE line.key # k
      <4>1. h[n + 1] = Append(s, line) /\ line \in S
        BY <1>2, <3>1, <3>3, <3>5 DEF line
      <4>2. /\ Len(Append(s, line)) = Len(s) + 1
            /\ \A j \in 1 .. Len(s) : Append(s, line)[j] = s[j]
            /\ Append(s, line)[Len(s) + 1] = line
            /\ DOMAIN Append(s, line) = 1 .. Len(s) + 1
        BY <3>2, <4>1, AppendProperties, LenProperties
      <4> DEFINE u == Append(s, line)
      <4> HIDE DEF u
      <4>3. Len(u) <= n + 1
        BY <3>1, <3>2, <4>2 DEF IsRest, u
      <4>4. \A j \in 1 .. Len(u) : \E m \in 1 .. n + 1 : u[j] = file[m] /\ file[m].key # k
        <5> SUFFICES ASSUME NEW j \in 1 .. Len(s) + 1
                     PROVE  \E m \in 1 .. n + 1 : u[j] = file[m] /\ file[m].key # k
          BY <4>2 DEF u
        <5>1. CASE j = Len(s) + 1
          <6>1. u[j] = file[n + 1] /\ file[n + 1].key # k /\ n + 1 \in 1 .. n + 1
            BY <3>1, <3>5, <4>2, <5>1 DEF u, line
          <6> QED BY <6>1
        <5>2. CASE j # Len(s) + 1
          <6>0. Len(s) \in Nat
            BY <3>2
          <6>1. j \in 1 .. Len(s)
            BY <5>2, <6>0
          <6>2. PICK m \in 1 .. n : s[j] = file[m] /\ file[m].key # k
            BY <3>2, <6>1 DEF IsRest
          <6>3. m \in 1 .. n + 1 /\ u[j] = s[j]
            BY <3>1, <4>2, <6>1 DEF u
          <6> QED BY <6>2, <6>3
        <5> QED BY <5>1, <5>2
      <4>5. \A m \in 1 .. n + 1 : file[m].key # k => \E j \in 1 .. Len(u) : u[j] = file[m]
        <5> SUFFICES ASSUME NEW m \in 1 .. n + 1, file[m].key # k
                     PROVE  \E j \in 1 .. Len(u) : u[j] = file[m]
          OBVIOUS
        <5>1. CASE m = n + 1
          <6>1. Len(s) + 1 \in 1 .. Len(u) /\ u[Len(s) + 1] = file[m]
            BY <3>2, <4>2, <5>1 DEF u, line
          <6> QED BY <6>1
        <5>2. CASE m # n + 1
          <6>1. m \in 1 .. n
            BY <3>1, <5>2
          <6>2. PICK j \in 1 .. Len(s) : s[j] = file[m]
            BY <3>2, <6>1 DEF IsRest
          <6>3. j \in 1 .. Len(u) /\ u[j] = s[j]
            BY <3>2, <4>2 DEF u
          <6> QED BY <6>2, <6>3
        <5> QED BY <5>1, <5>2
      <4>6. ASSUME Distinct(file) PROVE Distinct(u)
        <5>1. Distinct(s)
          BY <3>2, <4>6 DEF IsRest
        <5>2. \A j \in 1 .. Len(s) : s[j] # line
          <6> SUFFICES ASSUME NEW j \in 1 .. Len(s) PROVE s[j] # line
            OBVIOUS
          <6>1. PICK m \in 1 .. n : s[j] = file[m]
            BY <3>2 DEF IsRest
          <6>2. m \in DOMAIN file /\ n + 1 \in DOMAIN file /\ m # n + 1
            BY <1>2, <3>1
          <6> QED BY <4>6, <6>1, <6>2 DEF Distinct, line
        <5>3. \A j \in DOMAIN u : j \in 1 .. Len(s) \/ j = Len(s) + 1
          BY <3>2, <4>2 DEF u
        <5>4. /\ \A j \in 1 .. Len(s) : u[j] = s[j] /\ u[Len(s) + 1] = line
              /\ \A i, j \in 1 .. Len(s) : s[i] = s[j] => i = j
          BY <3>2, <4>2, <5>1 DEF u, Distinct
        <5> QED BY <5>2, <5>3, <5>4 DEF Distinct
      <4>7. IsRest(u, k, n + 1)
        BY <4>3, <4>4, <4>5, <4>6 DEF IsRest
      <4>8. h[n + 1] = u
        BY <4>1 DEF u
      <4> QED BY <3>1, <4>7, <4>8
    <3> QED BY <3>4, <3>5
  <2> HIDE DEF P
  <2> QED BY <1>2, <2>1, <2>2, InductionUpTo
<1>4. N \in 0 .. N
  BY <1>2
<1> QED BY <1>1, <1>3, <1>4 DEF S

KeyInv ==
    /\ enabled \in BOOLEAN /\ torn \in BOOLEAN
    /\ issued \in 0 .. MaxKeyChal /\ pending \in SUBSET (1 .. issued)
    /\ file \in Seq(SshKeys!Line) /\ Len(file) <= MaxLines
    /\ keyReq \in [Requests -> SshKeys!Waits]
    /\ DOMAIN logins = KeyCount
    /\ \A c \in KeyCount :
        /\ logins[c] \in Seq(Keys) /\ Len(logins[c]) <= 1
        /\ Len(logins[c]) = 0 \/ (c <= issued /\ c \notin pending)
    /\ keyAdded \in SUBSET Keys /\ revoked \in SUBSET Keys
    /\ KeyNames(file) \cap revoked = {}
    /\ ~ torn => Distinct(file) /\ KeyNames(file) = keyAdded

LEMMA FileTyped ==
    ASSUME NEW s \in Seq(SshKeys!Line), Len(s) <= MaxLines
    PROVE  s \in UNION {[1 .. n -> SshKeys!Line] : n \in 0 .. MaxLines}
<1>1. Len(s) \in 0 .. MaxLines /\ s \in [1 .. Len(s) -> SshKeys!Line]
  BY LenProperties, CredentialsAssumption
<1> QED BY <1>1

LEMMA KeyInvImplies ==
    ASSUME KeyInv
    PROVE  SshKeys!TypeOK /\ SshKeys!ChallengeOnce /\ SshKeys!RevokedStaysOut /\ SshKeys!FileFollowsAnswers
<1>1. SshKeys!KeysOf(file) = KeyNames(file)
  <2>1. file \in Seq(SshKeys!Line)
    BY DEF KeyInv
  <2>2. DOMAIN file = 1 .. Len(file)
    BY <2>1, LenProperties
  <2> QED BY <2>2 DEF SshKeys!KeysOf, KeyNames
<1>2. SshKeys!TypeOK
  <2>1. file \in UNION {[1 .. n -> SshKeys!Line] : n \in 0 .. MaxLines}
    BY FileTyped DEF KeyInv
  <2>2. ~ torn => SshKeys!IsInjective(file)
    BY DEF KeyInv, Distinct, SshKeys!IsInjective
  <2> QED BY <2>1, <2>2 DEF KeyInv, SshKeys!TypeOK, SshKeys!Chals, KeyCount
<1>3. SshKeys!ChallengeOnce
  BY DEF KeyInv, SshKeys!ChallengeOnce, SshKeys!Chals, KeyCount
<1> QED BY <1>1, <1>2, <1>3 DEF KeyInv, SshKeys!RevokedStaysOut, SshKeys!FileFollowsAnswers

LEMMA KeyInit ==
    ASSUME SshKeys!Init
    PROVE  KeyInv
<1> USE CredentialsAssumption
<1>1. file = <<>> /\ file \in Seq(SshKeys!Line) /\ Len(file) = 0 /\ DOMAIN file = {}
  BY EmptySeq DEF SshKeys!Init
<1>2. KeyNames(file) = {} /\ Distinct(file)
  BY <1>1 DEF KeyNames, Distinct
<1>3. \A c \in KeyCount : logins[c] = <<>>
  BY DEF SshKeys!Init, SshKeys!Chals, KeyCount
<1>4. <<>> \in Seq(Keys) /\ Len(<<>>) = 0
  BY EmptySeq
<1>5. \A c \in KeyCount : logins[c] \in Seq(Keys) /\ Len(logins[c]) = 0
  BY <1>3, <1>4
<1>6. DOMAIN logins = KeyCount /\ issued \in 0 .. MaxKeyChal /\ pending \in SUBSET (1 .. issued)
  BY DEF SshKeys!Init, SshKeys!Chals, KeyCount
<1>7. keyReq \in [Requests -> SshKeys!Waits]
  BY DEF SshKeys!Init, SshKeys!Waits, SshKeys!Idle
<1>8. enabled \in BOOLEAN /\ torn = FALSE /\ keyAdded = {} /\ revoked = {}
  BY DEF SshKeys!Init
<1>9. Len(file) <= MaxLines
  BY <1>1
<1>10. \A c \in KeyCount : Len(logins[c]) <= 1
  BY <1>5
<1>11. \A c \in KeyCount : Len(logins[c]) = 0 \/ (c <= issued /\ c \notin pending)
  BY <1>5, Zenon
<1>12. KeyNames(file) \cap revoked = {} /\ (~ torn => Distinct(file) /\ KeyNames(file) = keyAdded)
  BY <1>2, <1>8
<1>13. keyAdded \in SUBSET Keys /\ revoked \in SUBSET Keys /\ enabled \in BOOLEAN /\ torn \in BOOLEAN
  BY <1>8
<1>14. \A c \in KeyCount : logins[c] \in Seq(Keys)
  BY <1>5
<1> QED BY <1>1, <1>6, <1>7, <1>9, <1>10, <1>11, <1>12, <1>13, <1>14, Zenon DEF KeyInv

\* A broken write leaves lines of these keys, as many or fewer.
LEMMA BrokenFile ==
    ASSUME NEW lines \in Seq(SshKeys!Line), SshKeys!SaveBroken(lines)
    PROVE  /\ file' \in Seq(SshKeys!Line) /\ Len(file') <= Len(lines) /\ torn' = TRUE
           /\ KeyNames(file') \subseteq KeyNames(lines)
<1>1. PICK n \in 0 .. Len(lines), w \in Comments :
          file' = [i \in 1 .. n |-> IF i = n THEN [lines[i] EXCEPT !.comment = w] ELSE lines[i]]
  BY DEF SshKeys!SaveBroken
<1>2. Len(lines) \in Nat /\ n \in Nat
  BY LenProperties
<1>3. \A i \in 1 .. n : i \in 1 .. Len(lines) /\ lines[i] \in [key : Keys, comment : Comments]
  <2> SUFFICES ASSUME NEW i \in 1 .. n
               PROVE  i \in 1 .. Len(lines) /\ lines[i] \in [key : Keys, comment : Comments]
    OBVIOUS
  <2>1. i \in 1 .. Len(lines)
    BY <1>2
  <2>2. lines[i] \in SshKeys!Line
    BY <2>1, ElementOfSeq
  <2> QED BY <2>1, <2>2 DEF SshKeys!Line
<1>4. \A i \in 1 .. n : file'[i] \in [key : Keys, comment : Comments] /\ file'[i].key = lines[i].key
  <2> SUFFICES ASSUME NEW i \in 1 .. n
               PROVE  file'[i] \in [key : Keys, comment : Comments] /\ file'[i].key = lines[i].key
    OBVIOUS
  <2>1. [lines[i] EXCEPT !.comment = w] = [key |-> lines[i].key, comment |-> w]
    BY <1>3
  <2>2. lines[i].key \in Keys
    BY <1>3
  <2>3. file'[i] = IF i = n THEN [key |-> lines[i].key, comment |-> w] ELSE lines[i]
    BY <1>1, <2>1
  <2> QED BY <1>3, <2>2, <2>3
<1>5. file' \in [1 .. n -> SshKeys!Line]
  BY <1>1, <1>4 DEF SshKeys!Line
<1>6. file' \in Seq(SshKeys!Line) /\ Len(file') = n
  BY <1>2, <1>5, IsASeq, LenProperties
<1>7. KeyNames(file') \subseteq KeyNames(lines)
  BY <1>3, <1>4, <1>6 DEF KeyNames
<1> QED BY <1>2, <1>6, <1>7 DEF SshKeys!SaveBroken

LEMMA WithLineKeeps ==
    ASSUME file \in Seq(SshKeys!Line), NEW line \in SshKeys!Line
    PROVE  /\ SshKeys!WithLine(line) \in Seq(SshKeys!Line)
           /\ KeyNames(SshKeys!WithLine(line)) = KeyNames(file) \cup {line.key}
           /\ Distinct(file) => Distinct(SshKeys!WithLine(line))
<1>1. DOMAIN file = 1 .. Len(file) /\ Len(file) \in Nat
  BY LenProperties
<1>2. SshKeys!Contains(file, line) <=> \E i \in 1 .. Len(file) : file[i] = line
  BY DEF SshKeys!Contains
<1>3. CASE SshKeys!Contains(file, line)
  <2>1. SshKeys!WithLine(line) = file
    BY <1>3 DEF SshKeys!WithLine
  <2>2. line.key \in KeyNames(file)
    BY <1>2, <1>3 DEF KeyNames
  <2> QED BY <2>1, <2>2
<1>4. CASE ~ SshKeys!Contains(file, line)
  <2> DEFINE u == Append(file, line)
  <2>1. SshKeys!WithLine(line) = u
    BY <1>4 DEF SshKeys!WithLine
  <2>2. /\ u \in Seq(SshKeys!Line) /\ Len(u) = Len(file) + 1 /\ DOMAIN u = 1 .. Len(file) + 1
        /\ \A j \in 1 .. Len(file) : u[j] = file[j] /\ u[Len(file) + 1] = line
    BY <1>1, AppendProperties, LenProperties
  <2>3. u[Len(file) + 1] = line
    BY AppendProperties
  <2> HIDE DEF u
  <2>4. \A j \in 1 .. Len(file) + 1 : j \in 1 .. Len(file) \/ j = Len(file) + 1
    BY <1>1
  <2>5. \A j \in 1 .. Len(file) : j \in 1 .. Len(file) + 1
    BY <1>1
  <2>6. Len(file) + 1 \in 1 .. Len(file) + 1
    BY <1>1
  <2>7. KeyNames(u) = KeyNames(file) \cup {line.key}
    BY <2>2, <2>3, <2>4, <2>5, <2>6 DEF KeyNames
  <2>8. Distinct(file) => Distinct(u)
    BY <1>1, <1>2, <1>4, <2>2, <2>3, <2>4 DEF Distinct
  <2> QED BY <2>1, <2>2, <2>7, <2>8
<1> QED BY <1>3, <1>4

LEMMA WithoutKeeps ==
    ASSUME file \in Seq(SshKeys!Line), NEW k
    PROVE  /\ SshKeys!Without(k) \in Seq(SshKeys!Line) /\ Len(SshKeys!Without(k)) <= Len(file)
           /\ KeyNames(SshKeys!Without(k)) = KeyNames(file) \ {k}
           /\ Distinct(file) => Distinct(SshKeys!Without(k))
<1>1. SshKeys!Without(k) \in Seq(SshKeys!Line) /\ IsRest(SshKeys!Without(k), k, Len(file))
  BY WithoutIsRest
<1> DEFINE s == SshKeys!Without(k)
<1> HIDE DEF s
<1>2. IsRest(s, k, Len(file))
  BY <1>1 DEF s
<1>3. KeyNames(s) \subseteq KeyNames(file) \ {k}
  <2> SUFFICES ASSUME NEW j \in 1 .. Len(s) PROVE s[j].key \in KeyNames(file) \ {k}
    BY DEF KeyNames
  <2>1. PICK m \in 1 .. Len(file) : s[j] = file[m] /\ file[m].key # k
    BY <1>2 DEF IsRest
  <2> QED BY <2>1 DEF KeyNames
<1>4. KeyNames(file) \ {k} \subseteq KeyNames(s)
  BY <1>2 DEF IsRest, KeyNames
<1> QED BY <1>1, <1>2, <1>3, <1>4 DEF s, IsRest

\* What the keys' actions may do with the file, what was answered of it and the flag.
LEMMA FileKept ==
    ASSUME KeyInv, UNCHANGED <<file, torn, keyAdded, revoked>>,
           enabled' \in BOOLEAN, issued' \in 0 .. MaxKeyChal, pending' \in SUBSET (1 .. issued'),
           keyReq' \in [Requests -> SshKeys!Waits], DOMAIN logins' = KeyCount,
           \A c \in KeyCount :
              /\ logins'[c] \in Seq(Keys) /\ Len(logins'[c]) <= 1
              /\ Len(logins'[c]) = 0 \/ (c <= issued' /\ c \notin pending')
    PROVE  KeyInv'
BY DEF KeyInv, Distinct, KeyNames, KeyCount, SshKeys!Line, SshKeys!Waits

LEMMA ChalsKept ==
    ASSUME KeyInv, issued' = issued, pending' \subseteq pending, logins' = logins
    PROVE  /\ issued' \in 0 .. MaxKeyChal /\ pending' \in SUBSET (1 .. issued') /\ DOMAIN logins' = KeyCount
           /\ \A c \in KeyCount :
                /\ logins'[c] \in Seq(Keys) /\ Len(logins'[c]) <= 1
                /\ Len(logins'[c]) = 0 \/ (c <= issued' /\ c \notin pending')
BY DEF KeyInv

\* What the changes of the file need.
LEMMA FileChanged ==
    ASSUME KeyInv, UNCHANGED <<enabled, issued, pending, logins>>,
           keyReq' \in [Requests -> SshKeys!Waits], torn' \in BOOLEAN,
           file' \in Seq(SshKeys!Line), Len(file') <= MaxLines,
           keyAdded' \in SUBSET Keys, revoked' \in SUBSET Keys,
           KeyNames(file') \cap revoked' = {},
           ~ torn' => Distinct(file') /\ KeyNames(file') = keyAdded'
    PROVE  KeyInv'
BY DEF KeyInv, Distinct, KeyNames, KeyCount, SshKeys!Line, SshKeys!Waits

LEMMA WaitsEnded ==
    ASSUME KeyInv, NEW r, keyReq' = SshKeys!Ended(r)
    PROVE  keyReq' \in [Requests -> SshKeys!Waits]
BY DEF KeyInv, SshKeys!Ended, SshKeys!Idle, SshKeys!Waits

LEMMA VerifySound ==
    ASSUME KeyInv, NEW r \in Requests, NEW c \in 1 .. issued, NEW k \in Keys, SshKeys!Verify(r, c, k)
    PROVE  KeyInv'
<1>1. keyReq' \in [Requests -> SshKeys!Waits]
  BY WaitsEnded DEF SshKeys!Verify
<1>2. UNCHANGED <<file, torn, keyAdded, revoked, enabled, issued>>
  BY DEF SshKeys!Verify
<1>3. enabled' \in BOOLEAN
  BY <1>2 DEF KeyInv
<1>4. CASE logins' = logins /\ pending' \subseteq pending
  BY <1>1, <1>2, <1>3, <1>4, ChalsKept, FileKept
<1>5. CASE /\ c \in pending /\ pending' = pending \ {c}
           /\ logins' = [logins EXCEPT ![c] = Append(@, k)]
  <2>1. c \in KeyCount /\ Len(logins[c]) = 0 /\ logins[c] \in Seq(Keys)
    BY <1>5, CredentialsAssumption DEF KeyInv, KeyCount
  <2>2. Append(logins[c], k) \in Seq(Keys) /\ Len(Append(logins[c], k)) = 1
    BY <2>1, AppendProperties
  <2>3. /\ DOMAIN logins' = KeyCount /\ logins'[c] = Append(logins[c], k)
        /\ \A d \in KeyCount : d # c => logins'[d] = logins[d]
    BY <1>5, <2>1 DEF KeyInv
  <2>4. issued' \in 0 .. MaxKeyChal /\ pending' \in SUBSET (1 .. issued')
    BY <1>2, <1>5 DEF KeyInv
  <2>5. c <= issued' /\ c \notin pending'
    BY <1>2, <1>5, CredentialsAssumption DEF KeyInv
  <2>6. ASSUME NEW d \in KeyCount
        PROVE  /\ logins'[d] \in Seq(Keys) /\ Len(logins'[d]) <= 1
               /\ Len(logins'[d]) = 0 \/ (d <= issued' /\ d \notin pending')
    <3>1. CASE d = c
      BY <2>2, <2>3, <2>5, <3>1
    <3>2. CASE d # c
      BY <1>2, <1>5, <2>3, <3>2 DEF KeyInv
    <3> QED BY <3>1, <3>2
  <2> QED BY <1>1, <1>2, <1>3, <2>3, <2>4, <2>6, FileKept
<1>6. (logins' = logins /\ pending' \subseteq pending)
      \/ (c \in pending /\ pending' = pending \ {c} /\ logins' = [logins EXCEPT ![c] = Append(@, k)])
  BY DEF SshKeys!Verify, SshKeys!Consumed
<1> QED BY <1>4, <1>5, <1>6

LEMMA AddKeySound ==
    ASSUME KeyInv, NEW r \in Requests, NEW line \in SshKeys!Line, SshKeys!AddKey(r, line)
    PROVE  KeyInv'
<1>1. /\ SshKeys!WithLine(line) \in Seq(SshKeys!Line) /\ Len(SshKeys!WithLine(line)) <= MaxLines
      /\ KeyNames(SshKeys!WithLine(line)) = KeyNames(file) \cup {line.key}
      /\ Distinct(file) => Distinct(SshKeys!WithLine(line))
  BY WithLineKeeps DEF KeyInv, SshKeys!AddKey
<1>2. keyReq' \in [Requests -> SshKeys!Waits] /\ UNCHANGED <<enabled, issued, pending, logins>>
  BY WaitsEnded DEF SshKeys!AddKey
<1>3. line.key \in Keys
  BY DEF SshKeys!Line
<1>4. revoked' = revoked \ {line.key} /\ revoked' \in SUBSET Keys
  BY DEF SshKeys!AddKey, KeyInv
<1>5. CASE SshKeys!SaveAll(SshKeys!WithLine(line)) /\ keyAdded' = keyAdded \cup {line.key}
  <2>1. file' = SshKeys!WithLine(line) /\ torn' = torn
    BY <1>5 DEF SshKeys!SaveAll
  <2>2. torn' \in BOOLEAN /\ file' \in Seq(SshKeys!Line) /\ Len(file') <= MaxLines /\ keyAdded' \in SUBSET Keys
    BY <1>1, <1>3, <1>5, <2>1 DEF KeyInv
  <2>3. KeyNames(file') \cap revoked' = {}
    BY <1>1, <1>4, <2>1 DEF KeyInv
  <2>4. ~ torn' => Distinct(file') /\ KeyNames(file') = keyAdded'
    BY <1>1, <1>5, <2>1 DEF KeyInv
  <2> QED BY <1>2, <1>4, <2>2, <2>3, <2>4, FileChanged
<1>6. CASE SshKeys!SaveBroken(SshKeys!WithLine(line)) /\ UNCHANGED keyAdded
  <2>1. /\ file' \in Seq(SshKeys!Line) /\ Len(file') <= Len(SshKeys!WithLine(line)) /\ torn' = TRUE
        /\ KeyNames(file') \subseteq KeyNames(SshKeys!WithLine(line))
    BY <1>1, <1>6, BrokenFile
  <2>2. Len(file') <= MaxLines
    BY <1>1, <2>1, LenProperties, CredentialsAssumption
  <2>3. KeyNames(file') \cap revoked' = {}
    BY <1>1, <1>4, <2>1 DEF KeyInv
  <2>4. keyAdded' \in SUBSET Keys /\ torn' \in BOOLEAN
    BY <1>6, <2>1 DEF KeyInv
  <2> QED BY <1>2, <1>4, <2>1, <2>2, <2>3, <2>4, FileChanged
<1> QED BY <1>5, <1>6 DEF SshKeys!AddKey

LEMMA DeleteKeySound ==
    ASSUME KeyInv, NEW k \in Keys, SshKeys!DeleteKey(k)
    PROVE  KeyInv'
<1>0. file \in Seq(SshKeys!Line) /\ Len(file) <= MaxLines
  BY DEF KeyInv
<1>1. /\ SshKeys!Without(k) \in Seq(SshKeys!Line) /\ Len(SshKeys!Without(k)) <= Len(file)
      /\ KeyNames(SshKeys!Without(k)) = KeyNames(file) \ {k}
      /\ Distinct(file) => Distinct(SshKeys!Without(k))
  BY <1>0, WithoutKeeps
<1>2. UNCHANGED <<enabled, issued, pending, keyReq, logins>>
  BY DEF SshKeys!DeleteKey
<1>3. keyAdded' = keyAdded \ {k} /\ keyAdded' \in SUBSET Keys /\ keyReq' \in [Requests -> SshKeys!Waits]
  BY DEF SshKeys!DeleteKey, KeyInv
<1>4. Len(SshKeys!Without(k)) <= MaxLines
  BY <1>0, <1>1, LenProperties, CredentialsAssumption
<1>5. CASE SshKeys!SaveAll(SshKeys!Without(k)) /\ revoked' = revoked \cup {k}
  <2>1. file' = SshKeys!Without(k) /\ torn' = torn
    BY <1>5 DEF SshKeys!SaveAll
  <2>2. torn' \in BOOLEAN /\ file' \in Seq(SshKeys!Line) /\ Len(file') <= MaxLines /\ revoked' \in SUBSET Keys
    BY <1>1, <1>4, <1>5, <2>1 DEF KeyInv
  <2>3. KeyNames(file') \cap revoked' = {}
    BY <1>1, <1>5, <2>1 DEF KeyInv
  <2>4. ~ torn' => Distinct(file') /\ KeyNames(file') = keyAdded'
    BY <1>1, <1>3, <2>1 DEF KeyInv
  <2> QED BY <1>2, <1>3, <2>2, <2>3, <2>4, FileChanged
<1>6. CASE SshKeys!SaveBroken(SshKeys!Without(k)) /\ UNCHANGED revoked
  <2>1. /\ file' \in Seq(SshKeys!Line) /\ Len(file') <= Len(SshKeys!Without(k)) /\ torn' = TRUE
        /\ KeyNames(file') \subseteq KeyNames(SshKeys!Without(k))
    BY <1>1, <1>6, BrokenFile
  <2>2. Len(file') <= MaxLines
    BY <1>1, <1>4, <2>1, LenProperties, CredentialsAssumption
  <2>3. KeyNames(file') \cap revoked' = {}
    BY <1>1, <1>6, <2>1 DEF KeyInv
  <2>4. revoked' \in SUBSET Keys /\ torn' \in BOOLEAN
    BY <1>6, <2>1 DEF KeyInv
  <2> QED BY <1>2, <1>3, <2>1, <2>2, <2>3, <2>4, FileChanged
<1> QED BY <1>5, <1>6 DEF SshKeys!DeleteKey

LEMMA KeyStep ==
    ASSUME KeyInv, SshKeys!Next
    PROVE  KeyInv'
<1> USE CredentialsAssumption
<1>1. CASE SshKeys!Issue
  <2>1. /\ UNCHANGED <<enabled, file, torn, keyAdded, revoked, keyReq, logins>>
        /\ issued' = issued + 1 /\ pending' = pending \cup {issued'} /\ issued < MaxKeyChal
    BY <1>1 DEF SshKeys!Issue, SshKeys!history
  <2>2. issued \in Nat /\ issued' \in 0 .. MaxKeyChal /\ pending' \in SUBSET (1 .. issued')
    BY <2>1 DEF KeyInv
  <2>3. \A c \in KeyCount : Len(logins[c]) = 0 \/ (c <= issued' /\ c \notin pending')
    <3> SUFFICES ASSUME NEW c \in KeyCount, Len(logins[c]) # 0 PROVE c <= issued' /\ c \notin pending'
      OBVIOUS
    <3>1. c \in Nat /\ c <= issued /\ c \notin pending
      BY DEF KeyInv, KeyCount
    <3> QED BY <2>1, <2>2, <3>1
  <2>4. DOMAIN logins' = KeyCount /\ enabled' \in BOOLEAN /\ keyReq' \in [Requests -> SshKeys!Waits]
    BY <2>1 DEF KeyInv
  <2>5. \A c \in KeyCount : logins'[c] \in Seq(Keys) /\ Len(logins'[c]) <= 1
    BY <2>1 DEF KeyInv
  <2> QED BY <2>1, <2>2, <2>3, <2>4, <2>5, FileKept
<1>2. ASSUME NEW c \in SshKeys!Chals, SshKeys!Expire(c) PROVE KeyInv'
  <2>1. UNCHANGED <<enabled, issued, file, keyReq, torn, logins, keyAdded, revoked>> /\ pending' \subseteq pending
    BY <1>2 DEF SshKeys!Expire, SshKeys!history
  <2>2. enabled' \in BOOLEAN /\ keyReq' \in [Requests -> SshKeys!Waits]
    BY <2>1 DEF KeyInv
  <2> QED BY <2>1, <2>2, ChalsKept, FileKept
<1>3. ASSUME NEW r \in Requests, \/ \E kind \in {"verify", "add"} : SshKeys!Begin(r, kind)
                                 \/ SshKeys!Refused(r) \/ SshKeys!Outdated(r)
      PROVE  KeyInv'
  <2>1. UNCHANGED <<enabled, issued, pending, file, torn, logins, keyAdded, revoked>>
    BY <1>3 DEF SshKeys!Begin, SshKeys!Refused, SshKeys!Outdated, SshKeys!history
  <2>2. keyReq' \in [Requests -> SshKeys!Waits]
    <3>1. keyReq \in [Requests -> [kind : {"idle", "verify", "add"}, fresh : BOOLEAN]]
      BY DEF KeyInv, SshKeys!Waits
    <3>2. ASSUME NEW kind \in {"verify", "add"}, SshKeys!Begin(r, kind)
          PROVE  keyReq' \in [Requests -> [kind : {"idle", "verify", "add"}, fresh : BOOLEAN]]
      BY <3>1, <3>2 DEF SshKeys!Begin
    <3>3. ASSUME SshKeys!Outdated(r)
          PROVE  keyReq' \in [Requests -> [kind : {"idle", "verify", "add"}, fresh : BOOLEAN]]
      BY <3>1, <3>3 DEF SshKeys!Outdated
    <3>4. ASSUME SshKeys!Refused(r) PROVE keyReq' \in [Requests -> SshKeys!Waits]
      BY <3>4, WaitsEnded DEF SshKeys!Refused
    <3> QED BY <1>3, <3>2, <3>3, <3>4 DEF SshKeys!Waits
  <2>3. enabled' \in BOOLEAN
    BY <2>1 DEF KeyInv
  <2> QED BY <2>1, <2>2, <2>3, ChalsKept, FileKept
<1>4. ASSUME NEW on \in BOOLEAN, SshKeys!SetEnabled(on) PROVE KeyInv'
  <2>1. UNCHANGED <<issued, pending, file, keyReq, torn, logins, keyAdded, revoked>> /\ enabled' \in BOOLEAN
    BY <1>4 DEF SshKeys!SetEnabled, SshKeys!history
  <2>2. keyReq' \in [Requests -> SshKeys!Waits]
    BY <2>1 DEF KeyInv
  <2> QED BY <2>1, <2>2, ChalsKept, FileKept
<1>5. CASE SshKeys!Restart
  <2>1. UNCHANGED <<enabled, issued, file, torn, logins, keyAdded, revoked>> /\ pending' \subseteq pending
    BY <1>5 DEF SshKeys!Restart, SshKeys!history
  <2>2. enabled' \in BOOLEAN /\ keyReq' \in [Requests -> SshKeys!Waits]
    BY <1>5, <2>1 DEF KeyInv, SshKeys!Restart, SshKeys!Idle, SshKeys!Waits
  <2> QED BY <2>1, <2>2, ChalsKept, FileKept
<1> QED BY <1>1, <1>2, <1>3, <1>4, <1>5, VerifySound, AddKeySound, DeleteKeySound DEF SshKeys!Next

LEMMA KeyRest ==
    ASSUME KeyInv, UNCHANGED keys
    PROVE  KeyInv'
<1>1. UNCHANGED <<enabled, issued, pending, file, keyReq, torn, logins, keyAdded, revoked>>
  BY DEF keys
<1>2. enabled' \in BOOLEAN /\ keyReq' \in [Requests -> SshKeys!Waits] /\ pending' \subseteq pending
  BY <1>1 DEF KeyInv
<1> QED BY <1>1, <1>2, ChalsKept, FileKept

(***************************************************************************)
(* Passkeys.  A challenge that let in or added is in no file and nobody    *)
(* holds it, so that it cannot do so again.                                *)
(***************************************************************************)

Kinds == {"login", "register"}
PasskeyChals == 1 .. MaxPasskeyChal

\* a request that has taken its challenge, or is about to log in with it
Holding(q) == q.phase = "verify" \/ (q.phase = "stored" /\ q.kind = "login")

Absent(c, d) == \A kind \in Kinds : d.chal[kind] # c
Free(c, rs) == \A r \in Requests : Holding(rs[r]) => rs[r].expected # c
Spent(c, m, d, rs) == Absent(c, m) /\ Absent(c, d) /\ Free(c, rs)

\* a challenge was generated for its kind and is not older than the newest that was answered
DataStands(d, kinds, new) ==
    \A kind \in Kinds : d.chal[kind] # 0 =>
        /\ d.chal[kind] \in 1 .. Len(kinds) /\ kinds[d.chal[kind]] = kind
        /\ d.chal[kind] >= new[kind]

\* what a request shows was generated, for its credential if it registers one
Shows(q, kinds, mk) ==
    q.phase \in {"body", "verify", "stored"} =>
        /\ q.cred \in Creds /\ q.chal \in 1 .. Len(kinds)
        /\ q.kind = "register" => mk[q.cred] = q.chal

\* what a request holds is out of memory, and out of the file once the login was saved
Holds(q, kinds, m, d) ==
    /\ Holding(q) => /\ q.expected \in 1 .. Len(kinds) /\ kinds[q.expected] = q.kind
                     /\ Absent(q.expected, m)
    /\ q.phase = "stored" /\ q.kind = "login" => q.chal = q.expected /\ Absent(q.expected, d)

Stored(q, d, gone) == q.phase = "stored" /\ q.kind = "register" => q.cred \in d.creds \cup gone

RequestStands(q, kinds, mk, m, d, gone) == Shows(q, kinds, mk) /\ Holds(q, kinds, m, d) /\ Stored(q, d, gone)

\* no two requests hold the same
Exclusive(rs) ==
    \A r, s \in Requests : Holding(rs[r]) /\ Holding(rs[s]) /\ rs[r].expected = rs[s].expected => r = s

UsedOnce(s, c, kinds, m, d, rs) == Len(s) = 0 \/ (Len(s) = 1 /\ c \in 1 .. Len(kinds) /\ Spent(c, m, d, rs))

MadeOnce(k, mk, m, d, rs) == mk[k] # 0 /\ Spent(mk[k], m, d, rs)

PassTyped ==
    /\ usable \in BOOLEAN /\ passMem \in Passes!Data /\ passDisk \in Passes!Data
    /\ usable => passMem.creds = passDisk.creds
    /\ passReq \in [Requests -> Passes!Request]
    /\ kindOf \in Seq(Kinds) /\ Len(kindOf) <= MaxPasskeyChal
    /\ made \in [Creds -> PasskeyChals \cup {0}] /\ newest \in [Kinds -> PasskeyChals \cup {0}]
    /\ \A k \in Creds : made[k] <= Len(kindOf)
    /\ \A kind \in Kinds : newest[kind] <= Len(kindOf)
    /\ DOMAIN used = PasskeyChals /\ \A c \in PasskeyChals : used[c] \in Seq(Creds)
    /\ passAdded \in SUBSET Creds /\ passRemoved \in SUBSET Creds

PassInv ==
    /\ PassTyped
    /\ DataStands(passMem, kindOf, newest) /\ DataStands(passDisk, kindOf, newest)
    /\ \A r \in Requests : RequestStands(passReq[r], kindOf, made, passMem, passDisk, passRemoved)
    /\ Exclusive(passReq)
    /\ \A c \in PasskeyChals : UsedOnce(used[c], c, kindOf, passMem, passDisk, passReq)
    /\ \A k \in passDisk.creds \cup passRemoved : MadeOnce(k, made, passMem, passDisk, passReq)
    /\ passAdded \ passRemoved \subseteq passDisk.creds
    /\ passRemoved \cap (passMem.creds \cup passDisk.creds) = {}

LEMMA PassInvImplies ==
    ASSUME PassInv
    PROVE  Passes!TypeOK /\ Passes!ChallengeOnce /\ Passes!NewestOnly /\ Passes!AnswersLast
<1> USE CredentialsAssumption
<1>1. kindOf \in UNION {[1 .. n -> Passes!Kinds] : n \in 0 .. MaxPasskeyChal}
  <2>1. kindOf \in Seq(Passes!Kinds) /\ Len(kindOf) <= MaxPasskeyChal
    BY DEF PassInv, PassTyped, Kinds, Passes!Kinds
  <2>2. Len(kindOf) \in 0 .. MaxPasskeyChal /\ kindOf \in [1 .. Len(kindOf) -> Passes!Kinds]
    BY <2>1, LenProperties
  <2> QED BY <2>2
<1>2. Passes!TypeOK
  BY <1>1 DEF PassInv, PassTyped, Passes!TypeOK, Passes!Kinds, Kinds, Passes!Chals, PasskeyChals, Passes!NoChal
<1>3. Passes!ChallengeOnce
  <2>1. \A c \in PasskeyChals : Len(used[c]) = 0 \/ Len(used[c]) = 1
    BY DEF PassInv, UsedOnce
  <2>2. \A n : n = 0 \/ n = 1 => n <= 1
    OBVIOUS
  <2>3. \A c \in PasskeyChals : Len(used[c]) <= 1
    BY <2>1, <2>2
  <2> QED BY <2>3 DEF Passes!ChallengeOnce, Passes!Chals, PasskeyChals
<1>4. Passes!NewestOnly
  BY DEF PassInv, DataStands, Passes!NewestOnly, Passes!Kinds, Kinds, Passes!NoChal
<1>5. Passes!AnswersLast
  BY DEF PassInv, Passes!AnswersLast
<1> QED BY <1>2, <1>3, <1>4, <1>5

LEMMA IdleStands ==
    ASSUME NEW q, q.phase \in {"idle", "options"}, NEW kinds, NEW mk, NEW m, NEW d, NEW gone
    PROVE  RequestStands(q, kinds, mk, m, d, gone) /\ ~ Holding(q)
BY DEF RequestStands, Shows, Holds, Stored, Holding

LEMMA PassInit ==
    ASSUME Passes!Init
    PROVE  PassInv
<1> USE CredentialsAssumption DEF Passes!Init
<1>1. passMem = [creds |-> {}, chal |-> [kind \in Kinds |-> 0]] /\ passDisk = passMem
  BY DEF Passes!Kinds, Kinds, Passes!NoChal
<1>2. passMem \in Passes!Data
  BY <1>1 DEF Passes!Data, Passes!Kinds, Kinds, Passes!NoChal
<1>3. \A r \in Requests : passReq[r] = Passes!Idle
  OBVIOUS
<1>4. Passes!Idle \in Passes!Request /\ Passes!Idle.phase = "idle"
  BY DEF Passes!Idle, Passes!Request, Passes!Kinds, Passes!NoChal
<1>5. kindOf = <<>> /\ kindOf \in Seq(Kinds) /\ Len(kindOf) = 0
  BY EmptySeq
<1>6. \A c \in PasskeyChals : used[c] = <<>> /\ used[c] \in Seq(Creds) /\ Len(used[c]) = 0
  BY EmptySeq DEF Passes!Chals, PasskeyChals
<1>7. made \in [Creds -> PasskeyChals \cup {0}] /\ newest \in [Kinds -> PasskeyChals \cup {0}]
  BY DEF Passes!NoChal, Passes!Kinds, Kinds
<1>8. \A k \in Creds : made[k] = 0
  BY DEF Passes!NoChal
<1>9. \A kind \in Kinds : newest[kind] = 0 /\ passMem.chal[kind] = 0
  BY <1>1 DEF Passes!NoChal, Passes!Kinds, Kinds
<1>10. DOMAIN used = PasskeyChals /\ passReq \in [Requests -> Passes!Request]
  BY <1>4 DEF Passes!Chals, PasskeyChals
<1>11. PassTyped
  BY <1>1, <1>2, <1>5, <1>6, <1>7, <1>8, <1>9, <1>10 DEF PassTyped
<1>12. DataStands(passMem, kindOf, newest) /\ DataStands(passDisk, kindOf, newest)
  BY <1>1, <1>9 DEF DataStands
<1>13. \A r \in Requests : RequestStands(passReq[r], kindOf, made, passMem, passDisk, passRemoved) /\ ~ Holding(passReq[r])
  BY <1>3, <1>4, IdleStands
<1>14. Exclusive(passReq)
  BY <1>13 DEF Exclusive
<1>15. \A c \in PasskeyChals : UsedOnce(used[c], c, kindOf, passMem, passDisk, passReq)
  BY <1>6 DEF UsedOnce
<1>16. passDisk.creds = {} /\ passMem.creds = {} /\ passAdded = {} /\ passRemoved = {}
  BY <1>1
<1> QED BY <1>11, <1>12, <1>13, <1>14, <1>15, <1>16 DEF PassInv

\* A store whose challenges are old ones, none, or just generated.
MovesTo(m, d, kinds, m2, d2, kinds2) ==
    /\ Len(kinds) \in Nat /\ Len(kinds2) \in Nat /\ Len(kinds) <= Len(kinds2)
    /\ \A c \in 1 .. Len(kinds) : kinds2[c] = kinds[c]
    /\ \A kind \in Kinds :
          /\ m2.chal[kind] \in {m.chal[kind], 0, Len(kinds) + 1}
          /\ d2.chal[kind] \in {d.chal[kind], m2.chal[kind], 0}

LEMMA StoreMoves ==
    ASSUME NEW m, NEW d, NEW m2, NEW d2, NEW kinds, NEW kinds2, MovesTo(m, d, kinds, m2, d2, kinds2)
    PROVE  /\ \A q : Holds(q, kinds, m, d) => Holds(q, kinds2, m2, d2)
           /\ \A c \in 1 .. Len(kinds) : Absent(c, m) => Absent(c, m2)
           /\ \A c \in 1 .. Len(kinds) : Absent(c, m) /\ Absent(c, d) => Absent(c, d2)
<1>1. \A c \in 1 .. Len(kinds) : c # 0 /\ c # Len(kinds) + 1
  BY DEF MovesTo
<1>2. \A c \in 1 .. Len(kinds) : Absent(c, m) => Absent(c, m2)
  BY <1>1 DEF Absent, MovesTo
<1>3. \A c \in 1 .. Len(kinds) : Absent(c, m) /\ Absent(c, d) => Absent(c, d2)
  BY <1>1, <1>2 DEF Absent, MovesTo
<1>4. ASSUME NEW q, Holds(q, kinds, m, d) PROVE Holds(q, kinds2, m2, d2)
  <2>1. CASE Holding(q)
    <3>1. q.expected \in 1 .. Len(kinds) /\ kinds[q.expected] = q.kind /\ Absent(q.expected, m)
      BY <1>4, <2>1 DEF Holds
    <3>2. q.expected \in 1 .. Len(kinds2) /\ kinds2[q.expected] = q.kind /\ Absent(q.expected, m2)
      BY <1>2, <3>1 DEF MovesTo
    <3>3. q.phase = "stored" /\ q.kind = "login" => q.chal = q.expected /\ Absent(q.expected, d2)
      BY <1>3, <1>4, <3>1 DEF Holds
    <3> QED BY <3>2, <3>3 DEF Holds
  <2>2. CASE ~ Holding(q)
    BY <2>2 DEF Holds, Holding
  <2> QED BY <2>1, <2>2
<1> QED BY <1>2, <1>3, <1>4

\* The invariant again, part by part.
LEMMA PassAgain ==
    ASSUME PassTyped',
           DataStands(passMem', kindOf', newest'), DataStands(passDisk', kindOf', newest'),
           \A r \in Requests : RequestStands(passReq'[r], kindOf', made', passMem', passDisk', passRemoved'),
           Exclusive(passReq'),
           \A c \in PasskeyChals : UsedOnce(used'[c], c, kindOf', passMem', passDisk', passReq'),
           \A k \in passDisk'.creds \cup passRemoved' : MadeOnce(k, made', passMem', passDisk', passReq'),
           passAdded' \ passRemoved' \subseteq passDisk'.creds,
           passRemoved' \cap (passMem'.creds \cup passDisk'.creds) = {}
    PROVE  PassInv'
<1>1. (\A r \in Requests : RequestStands(passReq[r], kindOf, made, passMem, passDisk, passRemoved))'
  BY DEF RequestStands, Shows, Holds, Stored, Absent, Holding, Kinds
<1>2. (\A c \in PasskeyChals : UsedOnce(used[c], c, kindOf, passMem, passDisk, passReq))'
  BY DEF UsedOnce, Spent, Absent, Free, Holding, Kinds, PasskeyChals
<1>3. (\A k \in passDisk.creds \cup passRemoved : MadeOnce(k, made, passMem, passDisk, passReq))'
  BY DEF MadeOnce, Spent, Absent, Free, Holding, Kinds
<1>4. (DataStands(passMem, kindOf, newest) /\ DataStands(passDisk, kindOf, newest))'
  BY DEF DataStands, Kinds
<1>5. Exclusive(passReq)'
  BY DEF Exclusive, Holding
<1> QED BY <1>1, <1>2, <1>3, <1>4, <1>5 DEF PassInv

\* What the steps but the reload of the file have in common.
LEMMA PassMoves ==
    ASSUME PassInv, PassTyped',
           Len(kindOf) <= Len(kindOf'), \A c \in 1 .. Len(kindOf) : kindOf'[c] = kindOf[c],
           \A k \in Creds : made[k] # 0 => made'[k] = made[k],
           \A kind \in Kinds :
              /\ passMem'.chal[kind] \in {passMem.chal[kind], 0, Len(kindOf) + 1}
              /\ passDisk'.chal[kind] \in {passDisk.chal[kind], passMem'.chal[kind], 0},
           DataStands(passMem', kindOf', newest'), DataStands(passDisk', kindOf', newest'),
           passDisk.creds \cup passRemoved \subseteq passDisk'.creds \cup passRemoved',
           \A r \in Requests :
              passReq'[r] = passReq[r] \/ RequestStands(passReq'[r], kindOf', made', passMem', passDisk', passRemoved'),
           Exclusive(passReq'),
           \A c \in 1 .. Len(kindOf) : Absent(c, passMem) /\ Free(c, passReq) => Free(c, passReq'),
           \A c \in PasskeyChals :
              used'[c] = used[c] \/ UsedOnce(used'[c], c, kindOf', passMem', passDisk', passReq'),
           \A k \in passDisk'.creds \cup passRemoved' :
              k \in passDisk.creds \cup passRemoved \/ MadeOnce(k, made', passMem', passDisk', passReq'),
           passAdded' \ passRemoved' \subseteq passDisk'.creds,
           passRemoved' \cap (passMem'.creds \cup passDisk'.creds) = {}
    PROVE  PassInv'
<1>1. Len(kindOf) \in Nat /\ Len(kindOf') \in Nat
  <2>1. kindOf \in Seq(Kinds) /\ kindOf' \in Seq(Kinds)
    BY DEF PassInv, PassTyped, Kinds
  <2> QED BY <2>1, LenProperties
<1>2. /\ \A q : Holds(q, kindOf, passMem, passDisk) => Holds(q, kindOf', passMem', passDisk')
      /\ \A c \in 1 .. Len(kindOf) : Absent(c, passMem) => Absent(c, passMem')
      /\ \A c \in 1 .. Len(kindOf) : Absent(c, passMem) /\ Absent(c, passDisk) => Absent(c, passDisk')
  <2>1. MovesTo(passMem, passDisk, kindOf, passMem', passDisk', kindOf')
    BY <1>1 DEF MovesTo
  <2> QED BY <2>1, StoreMoves
<1>3. \A c \in 1 .. Len(kindOf) :
         Spent(c, passMem, passDisk, passReq) => Spent(c, passMem', passDisk', passReq')
  BY <1>2 DEF Spent
<1>4. ASSUME NEW r \in Requests
      PROVE  RequestStands(passReq'[r], kindOf', made', passMem', passDisk', passRemoved')
  <2>1. CASE passReq'[r] = passReq[r]
    <3> DEFINE q == passReq[r]
    <3>1. RequestStands(q, kindOf, made, passMem, passDisk, passRemoved)
      BY DEF PassInv
    <3> HIDE DEF q
    <3>2. Shows(q, kindOf', made')
      <4>1. ASSUME q.phase \in {"body", "verify", "stored"}
            PROVE  /\ q.cred \in Creds /\ q.chal \in 1 .. Len(kindOf)
                   /\ q.kind = "register" => made[q.cred] = q.chal
        BY <3>1, <4>1 DEF RequestStands, Shows
      <4>2. \A c \in 1 .. Len(kindOf) : c # 0 /\ c \in 1 .. Len(kindOf')
        BY <1>1
      <4> QED BY <4>1, <4>2 DEF Shows
    <3>3. Holds(q, kindOf', passMem', passDisk')
      BY <1>2, <3>1 DEF RequestStands
    <3>4. Stored(q, passDisk', passRemoved')
      BY <3>1 DEF RequestStands, Stored
    <3> QED BY <2>1, <3>2, <3>3, <3>4 DEF RequestStands, q
  <2>2. CASE passReq'[r] # passReq[r]
    BY <2>2
  <2> QED BY <2>1, <2>2
<1>5. ASSUME NEW c \in PasskeyChals
      PROVE  UsedOnce(used'[c], c, kindOf', passMem', passDisk', passReq')
  <2>1. CASE used'[c] = used[c]
    <3>1. UsedOnce(used[c], c, kindOf, passMem, passDisk, passReq)
      BY DEF PassInv
    <3>2. c \in 1 .. Len(kindOf) => c \in 1 .. Len(kindOf')
      BY <1>1
    <3> QED BY <1>3, <2>1, <3>1, <3>2 DEF UsedOnce
  <2>2. CASE used'[c] # used[c]
    BY <2>2
  <2> QED BY <2>1, <2>2
<1>6. ASSUME NEW k \in passDisk'.creds \cup passRemoved'
      PROVE  MadeOnce(k, made', passMem', passDisk', passReq')
  <2>1. CASE k \in passDisk.creds \cup passRemoved
    <3>1. MadeOnce(k, made, passMem, passDisk, passReq) /\ k \in Creds
      BY <2>1 DEF PassInv, PassTyped, Passes!Data
    <3>2. made[k] \in PasskeyChals \cup {0} /\ made[k] <= Len(kindOf) /\ made[k] # 0
      BY <3>1 DEF PassInv, PassTyped, MadeOnce
    <3>3. made[k] \in 1 .. Len(kindOf) /\ made'[k] = made[k]
      BY <1>1, <3>1, <3>2, CredentialsAssumption DEF PasskeyChals
    <3> QED BY <1>3, <3>1, <3>3 DEF MadeOnce
  <2>2. CASE k \notin passDisk.creds \cup passRemoved
    BY <1>6, <2>2
  <2> QED BY <2>1, <2>2
<1> QED BY <1>4, <1>5, <1>6, PassAgain

\* Requests that end, or go on with what they hold, hold no more than before.
LEMMA HoldersShrink ==
    ASSUME NEW rs, NEW rs2, Exclusive(rs),
           \A r \in Requests : Holding(rs2[r]) => Holding(rs[r]) /\ rs2[r].expected = rs[r].expected
    PROVE  Exclusive(rs2) /\ \A c : Free(c, rs) => Free(c, rs2)
<1>1. Exclusive(rs2)
  BY DEF Exclusive
<1>2. \A c : Free(c, rs) => Free(c, rs2)
  BY DEF Free
<1> QED BY <1>1, <1>2

\* The store is as before, and so is what was answered.
LEMMA StoreRests ==
    ASSUME PassInv, UNCHANGED <<usable, passMem, passDisk, kindOf, newest, passRemoved>>,
           passReq' \in [Requests -> Passes!Request],
           made' \in [Creds -> PasskeyChals \cup {0}], \A k \in Creds : made'[k] <= Len(kindOf),
           \A k \in Creds : made[k] # 0 => made'[k] = made[k],
           \A r \in Requests :
              passReq'[r] = passReq[r] \/ RequestStands(passReq'[r], kindOf, made', passMem, passDisk, passRemoved),
           \A r \in Requests :
              Holding(passReq'[r]) => Holding(passReq[r]) /\ passReq'[r].expected = passReq[r].expected,
           DOMAIN used' = PasskeyChals,
           \A c \in PasskeyChals : /\ used'[c] \in Seq(Creds)
                                   /\ \/ used'[c] = used[c]
                                      \/ UsedOnce(used'[c], c, kindOf, passMem, passDisk, passReq'),
           passAdded' \in SUBSET Creds, passAdded' \ passRemoved \subseteq passDisk.creds
    PROVE  PassInv'
<1>1. PassTyped'
  BY DEF PassInv, PassTyped, Kinds, PasskeyChals, Passes!Data, Passes!Request, Passes!Kinds, Passes!Chals, Passes!NoChal
<1>2. Exclusive(passReq') /\ \A c : Free(c, passReq) => Free(c, passReq')
  BY HoldersShrink DEF PassInv
<1>3. Len(kindOf) <= Len(kindOf') /\ \A c \in 1 .. Len(kindOf) : kindOf'[c] = kindOf[c]
  <2>1. Len(kindOf) \in Nat
    BY LenProperties DEF PassInv, PassTyped
  <2> QED BY <2>1
<1>4. DataStands(passMem', kindOf', newest') /\ DataStands(passDisk', kindOf', newest')
  BY DEF PassInv
<1>5. \A kind \in Kinds :
         /\ passMem'.chal[kind] \in {passMem.chal[kind], 0, Len(kindOf) + 1}
         /\ passDisk'.chal[kind] \in {passDisk.chal[kind], passMem'.chal[kind], 0}
  OBVIOUS
<1>6. passRemoved' \cap (passMem'.creds \cup passDisk'.creds) = {}
  BY DEF PassInv
<1>7. \A r \in Requests :
         passReq'[r] = passReq[r] \/ RequestStands(passReq'[r], kindOf', made', passMem', passDisk', passRemoved')
  OBVIOUS
<1>8. \A c \in PasskeyChals :
         used'[c] = used[c] \/ UsedOnce(used'[c], c, kindOf', passMem', passDisk', passReq')
  OBVIOUS
<1>9. /\ passDisk.creds \cup passRemoved \subseteq passDisk'.creds \cup passRemoved'
      /\ \A k \in passDisk'.creds \cup passRemoved' :
            k \in passDisk.creds \cup passRemoved \/ MadeOnce(k, made', passMem', passDisk', passReq')
      /\ passAdded' \ passRemoved' \subseteq passDisk'.creds
  OBVIOUS
<1> QED BY <1>1, <1>2, <1>3, <1>4, <1>5, <1>6, <1>7, <1>8, <1>9, PassMoves

LEMMA RequestTyped ==
    ASSUME PassInv, NEW r \in Requests
    PROVE  /\ passReq[r].phase \in {"idle", "options", "body", "verify", "stored"}
           /\ passReq[r].kind \in Kinds /\ passReq[r].cred \in Creds \cup {NoCred}
           /\ passReq[r].chal \in PasskeyChals \cup {0} /\ passReq[r].expected \in PasskeyChals \cup {0}
           /\ passReq[r] = [phase |-> passReq[r].phase, kind |-> passReq[r].kind, cred |-> passReq[r].cred,
                            chal |-> passReq[r].chal, expected |-> passReq[r].expected, fresh |-> passReq[r].fresh]
           /\ passReq[r].fresh \in BOOLEAN
BY DEF PassInv, PassTyped, Passes!Request, Passes!Kinds, Kinds, Passes!Chals, PasskeyChals, Passes!NoChal

\* One request changes.
ReqMoves(r, q) ==
    /\ passReq' \in [Requests -> Passes!Request] /\ passReq'[r] = q
    /\ \A s \in Requests : s # r => passReq'[s] = passReq[s]

LEMMA RequestMoves ==
    ASSUME PassInv, NEW r \in Requests, NEW q \in Passes!Request, passReq' = [passReq EXCEPT ![r] = q]
    PROVE  ReqMoves(r, q)
BY DEF PassInv, PassTyped, ReqMoves

LEMMA RequestEnds ==
    ASSUME PassInv, NEW r \in Requests, passReq' = Passes!Ended(r)
    PROVE  ReqMoves(r, Passes!Idle)
<1>1. Passes!Idle \in Passes!Request
  BY DEF Passes!Idle, Passes!Request, Passes!Kinds, Passes!NoChal
<1> QED BY <1>1, RequestMoves DEF Passes!Ended

\* A request that ends stands and holds nothing.
LEMMA EndedStands ==
    ASSUME PassInv, NEW r \in Requests, ReqMoves(r, Passes!Idle)
    PROVE  /\ \A kinds, mk, m, d, gone : \A s \in Requests :
                 passReq'[s] = passReq[s] \/ RequestStands(passReq'[s], kinds, mk, m, d, gone)
           /\ \A s \in Requests :
                 Holding(passReq'[s]) => Holding(passReq[s]) /\ passReq'[s].expected = passReq[s].expected
           /\ ~ Holding(passReq'[r])
<1>1. passReq'[r].phase = "idle"
  BY DEF ReqMoves, Passes!Idle
<1>2. ~ Holding(passReq'[r])
  BY <1>1 DEF Holding
<1>3. \A s \in Requests : s # r => passReq'[s] = passReq[s]
  BY DEF ReqMoves
<1>4. \A kinds, mk, m, d, gone : RequestStands(passReq'[r], kinds, mk, m, d, gone)
  BY <1>1, IdleStands
<1> QED BY <1>2, <1>3, <1>4

LEMMA MadeStays ==
    ASSUME PassInv, made' = made, used' = used, passAdded' = passAdded, passRemoved' = passRemoved
    PROVE  /\ made' \in [Creds -> PasskeyChals \cup {0}] /\ \A k \in Creds : made'[k] <= Len(kindOf)
           /\ \A k \in Creds : made[k] # 0 => made'[k] = made[k]
           /\ DOMAIN used' = PasskeyChals /\ \A c \in PasskeyChals : used'[c] \in Seq(Creds) /\ used'[c] = used[c]
           /\ passAdded' \in SUBSET Creds /\ passAdded' \ passRemoved \subseteq passDisk.creds
BY DEF PassInv, PassTyped

LEMMA BeginOptionsSound ==
    ASSUME PassInv, NEW r \in Requests, NEW kind \in Passes!Kinds, Passes!BeginOptions(r, kind)
    PROVE  PassInv'
<1> DEFINE q == [Passes!Idle EXCEPT !.phase = "options", !.kind = kind, !.fresh = TRUE]
<1>1. q \in Passes!Request
  BY DEF Passes!Idle, Passes!Request, Passes!NoChal
<1>2. passReq' = [passReq EXCEPT ![r] = q]
  BY DEF Passes!BeginOptions
<1>3. q.phase = "options"
  BY DEF Passes!Idle
<1> HIDE DEF q
<1>4. ReqMoves(r, q)
  BY <1>1, <1>2, RequestMoves
<1>5. UNCHANGED <<usable, passMem, passDisk, kindOf, made, newest, used, passAdded, passRemoved>>
  BY DEF Passes!BeginOptions, Passes!history
<1>6. \A s \in Requests :
         passReq'[s] = passReq[s] \/ RequestStands(passReq'[s], kindOf, made', passMem, passDisk, passRemoved)
  BY <1>3, <1>4, IdleStands DEF ReqMoves
<1>7. \A s \in Requests :
         Holding(passReq'[s]) => Holding(passReq[s]) /\ passReq'[s].expected = passReq[s].expected
  BY <1>3, <1>4 DEF ReqMoves, Holding
<1>8. passReq' \in [Requests -> Passes!Request]
  BY <1>4 DEF ReqMoves
<1> QED BY <1>5, <1>6, <1>7, <1>8, MadeStays, StoreRests

LEMMA BeginVerifySound ==
    ASSUME PassInv, NEW r \in Requests, NEW c \in Passes!Chals, NEW k \in Creds, Passes!BeginVerify(r, c, k)
    PROVE  PassInv'
<1> DEFINE q == [Passes!Idle EXCEPT !.phase = "body", !.kind = kindOf[c],
                                    !.cred = k, !.chal = c, !.fresh = TRUE]
<1>0. kindOf \in Seq(Kinds) /\ DOMAIN kindOf = 1 .. Len(kindOf) /\ Len(kindOf) \in Nat
  BY LenProperties DEF PassInv, PassTyped
<1>1. c \in 1 .. Len(kindOf) /\ kindOf[c] \in Kinds /\ c \in PasskeyChals
  BY <1>0, ElementOfSeq DEF Passes!BeginVerify, Passes!Chals, PasskeyChals
<1>2. q \in Passes!Request
  BY <1>1 DEF Passes!Idle, Passes!Request, Passes!NoChal, Passes!Kinds, Kinds
<1>3. passReq' = [passReq EXCEPT ![r] = q]
  BY DEF Passes!BeginVerify
<1>4. q.phase = "body" /\ q.kind = kindOf[c] /\ q.cred = k /\ q.chal = c
  BY DEF Passes!Idle
<1> HIDE DEF q
<1>5. ReqMoves(r, q)
  BY <1>2, <1>3, RequestMoves
<1>6. UNCHANGED <<usable, passMem, passDisk, kindOf, newest, used, passAdded, passRemoved>>
  BY DEF Passes!BeginVerify, Passes!history
<1>7. /\ made' \in [Creds -> PasskeyChals \cup {0}] /\ \A j \in Creds : made'[j] <= Len(kindOf)
      /\ \A j \in Creds : made[j] # 0 => made'[j] = made[j]
      /\ kindOf[c] = "register" => made'[k] = c
  <2>0. /\ made \in [Creds -> PasskeyChals \cup {0}] /\ \A j \in Creds : made[j] <= Len(kindOf)
        /\ c <= Len(kindOf)
    BY <1>0, <1>1 DEF PassInv, PassTyped
  <2>1. CASE kindOf[c] = "register"
    <3>1. made[k] \in {0, c} /\ made' = [made EXCEPT ![k] = c]
      BY <2>1 DEF Passes!BeginVerify, Passes!NoChal
    <3> QED BY <1>1, <2>0, <3>1
  <2>2. CASE kindOf[c] # "register"
    <3>1. made' = made
      BY <2>2 DEF Passes!BeginVerify
    <3> QED BY <2>0, <2>2, <3>1
  <2> QED BY <2>1, <2>2
<1>8. RequestStands(q, kindOf, made', passMem, passDisk, passRemoved) /\ ~ Holding(q)
  BY <1>1, <1>4, <1>7 DEF RequestStands, Shows, Holds, Stored, Holding
<1>9. \A s \in Requests :
         passReq'[s] = passReq[s] \/ RequestStands(passReq'[s], kindOf, made', passMem, passDisk, passRemoved)
  BY <1>5, <1>8 DEF ReqMoves
<1>10. \A s \in Requests :
         Holding(passReq'[s]) => Holding(passReq[s]) /\ passReq'[s].expected = passReq[s].expected
  BY <1>5, <1>8 DEF ReqMoves
<1>11. passReq' \in [Requests -> Passes!Request]
  BY <1>5 DEF ReqMoves
<1>12. /\ DOMAIN used' = PasskeyChals /\ \A j \in PasskeyChals : used'[j] \in Seq(Creds) /\ used'[j] = used[j]
       /\ passAdded' \in SUBSET Creds /\ passAdded' \ passRemoved \subseteq passDisk.creds
  BY <1>6 DEF PassInv, PassTyped
<1> QED BY <1>6, <1>7, <1>9, <1>10, <1>11, <1>12, StoreRests

LEMMA RefusedSound ==
    ASSUME PassInv, NEW r \in Requests, Passes!Refused(r)
    PROVE  PassInv'
<1>1. ReqMoves(r, Passes!Idle)
  BY RequestEnds DEF Passes!Refused
<1>2. UNCHANGED <<usable, passMem, passDisk, kindOf, made, newest, used, passAdded, passRemoved>>
  BY DEF Passes!Refused, Passes!history
<1>3. /\ \A s \in Requests :
            passReq'[s] = passReq[s] \/ RequestStands(passReq'[s], kindOf, made', passMem, passDisk, passRemoved)
      /\ \A s \in Requests :
            Holding(passReq'[s]) => Holding(passReq[s]) /\ passReq'[s].expected = passReq[s].expected
  BY <1>1, EndedStands
<1>4. passReq' \in [Requests -> Passes!Request]
  BY <1>1 DEF ReqMoves
<1> QED BY <1>2, <1>3, <1>4, MadeStays, StoreRests

LEMMA OutdatedSound ==
    ASSUME PassInv, NEW r \in Requests, Passes!Outdated(r)
    PROVE  PassInv'
<1> DEFINE q == [passReq[r] EXCEPT !.fresh = FALSE]
           p == passReq[r]
<1>1. /\ p.phase \in {"idle", "options", "body", "verify", "stored"} /\ p.kind \in Kinds
      /\ p.cred \in Creds \cup {NoCred} /\ p.chal \in PasskeyChals \cup {0} /\ p.expected \in PasskeyChals \cup {0}
      /\ p = [phase |-> p.phase, kind |-> p.kind, cred |-> p.cred,
              chal |-> p.chal, expected |-> p.expected, fresh |-> p.fresh]
  BY RequestTyped
<1>2. /\ RequestStands(p, kindOf, made, passMem, passDisk, passRemoved)
  BY DEF PassInv
<1>3. passReq' = [passReq EXCEPT ![r] = q]
  BY DEF Passes!Outdated
<1> HIDE DEF p
<1>4. q = [p EXCEPT !.fresh = FALSE]
  BY DEF p
<1> HIDE DEF q
<1>5. /\ q.phase = p.phase /\ q.kind = p.kind /\ q.cred = p.cred /\ q.chal = p.chal /\ q.expected = p.expected
      /\ q = [phase |-> p.phase, kind |-> p.kind, cred |-> p.cred, chal |-> p.chal, expected |-> p.expected, fresh |-> FALSE]
  BY <1>1, <1>4
<1>6. q \in Passes!Request
  BY <1>1, <1>5 DEF Passes!Request, Passes!Kinds, Kinds, Passes!Chals, PasskeyChals, Passes!NoChal
<1>7. RequestStands(q, kindOf, made, passMem, passDisk, passRemoved) /\ (Holding(q) <=> Holding(p))
  BY <1>2, <1>5 DEF RequestStands, Shows, Holds, Stored, Holding
<1>8. ReqMoves(r, q)
  BY <1>3, <1>6, RequestMoves
<1>9. UNCHANGED <<usable, passMem, passDisk, kindOf, made, newest, used, passAdded, passRemoved>>
  BY DEF Passes!Outdated, Passes!history
<1>10. \A s \in Requests :
         passReq'[s] = passReq[s] \/ RequestStands(passReq'[s], kindOf, made', passMem, passDisk, passRemoved)
  BY <1>7, <1>8, <1>9 DEF ReqMoves
<1>11. \A s \in Requests :
         Holding(passReq'[s]) => Holding(passReq[s]) /\ passReq'[s].expected = passReq[s].expected
  BY <1>5, <1>7, <1>8 DEF ReqMoves, p
<1>12. passReq' \in [Requests -> Passes!Request]
  BY <1>8 DEF ReqMoves
<1> QED BY <1>9, <1>10, <1>11, <1>12, MadeStays, StoreRests

\* A challenge that a request holds has let nobody in and added nothing.
LEMMA HeldIsUnused ==
    ASSUME PassInv, NEW r \in Requests, Holding(passReq[r])
    PROVE  /\ Len(used[passReq[r].expected]) = 0 /\ passReq[r].expected \in PasskeyChals
           /\ passReq[r].expected \in 1 .. Len(kindOf) /\ Absent(passReq[r].expected, passMem)
           /\ \A k \in passDisk.creds \cup passRemoved : made[k] # passReq[r].expected
<1> DEFINE c == passReq[r].expected
<1>1. Holds(passReq[r], kindOf, passMem, passDisk)
  BY DEF PassInv, RequestStands
<1>2. c \in 1 .. Len(kindOf) /\ Absent(c, passMem)
  BY <1>1 DEF Holds
<1>3. c \in PasskeyChals
  <2>1. Len(kindOf) \in Nat /\ Len(kindOf) <= MaxPasskeyChal
    BY LenProperties DEF PassInv, PassTyped
  <2> HIDE DEF c
  <2> QED BY <1>2, <2>1, CredentialsAssumption DEF PasskeyChals
<1>4. ~ Spent(c, passMem, passDisk, passReq)
  BY DEF Spent, Free
<1> HIDE DEF c
<1>5. Len(used[c]) = 0
  BY <1>3, <1>4 DEF PassInv, UsedOnce
<1>6. \A k \in passDisk.creds \cup passRemoved : made[k] # c
  BY <1>4 DEF PassInv, MadeOnce
<1> QED BY <1>2, <1>3, <1>5, <1>6 DEF c

\* The use of a challenge is its first.
LEMMA FirstUse ==
    ASSUME PassInv, NEW c \in PasskeyChals, Len(used[c]) = 0, NEW k \in Creds,
           used' = [used EXCEPT ![c] = Append(@, k)]
    PROVE  /\ DOMAIN used' = PasskeyChals /\ Len(used'[c]) = 1 /\ used'[c][1] = k
           /\ \A b \in PasskeyChals : used'[b] \in Seq(Creds) /\ (b # c => used'[b] = used[b])
<1>1. DOMAIN used = PasskeyChals /\ \A b \in PasskeyChals : used[b] \in Seq(Creds)
  BY DEF PassInv, PassTyped
<1>2. /\ Append(used[c], k) \in Seq(Creds) /\ Len(Append(used[c], k)) = Len(used[c]) + 1
      /\ Append(used[c], k)[Len(used[c]) + 1] = k
  BY <1>1, AppendProperties
<1>3. /\ Len(Append(used[c], k)) = 1 /\ Append(used[c], k)[1] = k
  BY <1>2
<1>4. /\ DOMAIN used' = PasskeyChals /\ used'[c] = Append(used[c], k)
      /\ \A b \in PasskeyChals : b # c => used'[b] = used[b]
  BY <1>1
<1> QED BY <1>1, <1>2, <1>3, <1>4

LEMMA LoginsFromUse ==
    ASSUME NEW c \in PasskeyChals, NEW k, k \notin passRemoved, Len(used'[c]) = 1, used'[c][1] = k,
           \A b \in PasskeyChals : used[b] \in Seq(Creds) /\ (b # c => used'[b] = used[b])
    PROVE  Passes!LoginsAreStored
<1> SUFFICES ASSUME NEW b \in PasskeyChals, Len(used'[b]) > Len(used[b])
             PROVE  used'[b][Len(used'[b])] \notin passRemoved
  BY DEF Passes!LoginsAreStored, Passes!Chals, PasskeyChals
<1>1. Len(used[b]) \in Nat
  BY LenProperties
<1>2. b = c
  BY <1>1
<1> QED BY <1>2

LEMMA RegistrationAnsweredSound ==
    ASSUME PassInv, NEW r \in Requests, Passes!RegistrationAnswered(r)
    PROVE  PassInv'
<1>1. ReqMoves(r, Passes!Idle)
  BY RequestEnds DEF Passes!RegistrationAnswered
<1>2. UNCHANGED <<usable, passMem, passDisk, kindOf, made, newest, used, passRemoved>>
  BY DEF Passes!RegistrationAnswered
<1>3. /\ \A s \in Requests :
            passReq'[s] = passReq[s] \/ RequestStands(passReq'[s], kindOf, made', passMem, passDisk, passRemoved)
      /\ \A s \in Requests :
            Holding(passReq'[s]) => Holding(passReq[s]) /\ passReq'[s].expected = passReq[s].expected
  BY <1>1, EndedStands
<1>4. passReq' \in [Requests -> Passes!Request]
  BY <1>1 DEF ReqMoves
<1>5. passReq[r].cred \in Creds /\ passReq[r].cred \in passDisk.creds \cup passRemoved
  <2>1. RequestStands(passReq[r], kindOf, made, passMem, passDisk, passRemoved)
    BY DEF PassInv
  <2> QED BY <2>1 DEF RequestStands, Shows, Stored, Passes!RegistrationAnswered
<1>6. passAdded' \in SUBSET Creds /\ passAdded' \ passRemoved \subseteq passDisk.creds
  BY <1>5 DEF PassInv, PassTyped, Passes!RegistrationAnswered
<1>7. /\ made' \in [Creds -> PasskeyChals \cup {0}] /\ \A k \in Creds : made'[k] <= Len(kindOf)
      /\ \A k \in Creds : made[k] # 0 => made'[k] = made[k]
      /\ DOMAIN used' = PasskeyChals /\ \A c \in PasskeyChals : used'[c] \in Seq(Creds) /\ used'[c] = used[c]
  BY <1>2 DEF PassInv, PassTyped
<1> QED BY <1>2, <1>3, <1>4, <1>6, <1>7, StoreRests

\* A login with a credential that is stored at that moment.
LEMMA LoginAnsweredSound ==
    ASSUME PassInv, NEW r \in Requests, Passes!LoginAnswered(r)
    PROVE  PassInv' /\ Passes!LoginsAreStored
<1> DEFINE c == passReq[r].expected
           k == passReq[r].cred
<1>1. ReqMoves(r, Passes!Idle)
  BY RequestEnds DEF Passes!LoginAnswered
<1>2. UNCHANGED <<usable, passMem, passDisk, kindOf, made, newest, passAdded, passRemoved>>
  BY DEF Passes!LoginAnswered
<1>3. Holding(passReq[r]) /\ passReq[r].phase = "stored" /\ passReq[r].kind = "login"
  BY DEF Passes!LoginAnswered, Holding
<1>4. passReq[r].chal = c /\ Absent(c, passDisk) /\ k \in Creds
  <2>1. RequestStands(passReq[r], kindOf, made, passMem, passDisk, passRemoved)
    BY DEF PassInv
  <2> QED BY <1>3, <2>1 DEF RequestStands, Shows, Holds
<1>5. k \in passMem.creds /\ used' = [used EXCEPT ![c] = Append(@, k)]
  BY <1>4 DEF Passes!LoginAnswered, Passes!StillStored
<1>6. Len(used[c]) = 0 /\ c \in PasskeyChals /\ c \in 1 .. Len(kindOf) /\ Absent(c, passMem)
  BY <1>3, HeldIsUnused
<1>7. Free(c, passReq')
  <2>1. \A s \in Requests : s # r /\ Holding(passReq[s]) => passReq[s].expected # c
    BY <1>3 DEF PassInv, Exclusive
  <2>2. /\ \A s \in Requests : s # r => passReq'[s] = passReq[s]
        /\ ~ Holding(passReq'[r])
    BY <1>1, EndedStands DEF ReqMoves
  <2> HIDE DEF c
  <2> QED BY <2>1, <2>2 DEF Free
<1> HIDE DEF c, k
<1>8. /\ DOMAIN used' = PasskeyChals /\ Len(used'[c]) = 1 /\ used'[c][1] = k
      /\ \A b \in PasskeyChals : used'[b] \in Seq(Creds) /\ (b # c => used'[b] = used[b])
  BY <1>4, <1>5, <1>6, FirstUse
<1>9. UsedOnce(used'[c], c, kindOf, passMem, passDisk, passReq')
  BY <1>4, <1>6, <1>7, <1>8 DEF UsedOnce, Spent
<1>10. \A b \in PasskeyChals : /\ used'[b] \in Seq(Creds)
                               /\ \/ used'[b] = used[b]
                                  \/ UsedOnce(used'[b], b, kindOf, passMem, passDisk, passReq')
  BY <1>8, <1>9
<1>11. /\ \A s \in Requests :
            passReq'[s] = passReq[s] \/ RequestStands(passReq'[s], kindOf, made', passMem, passDisk, passRemoved)
       /\ \A s \in Requests :
            Holding(passReq'[s]) => Holding(passReq[s]) /\ passReq'[s].expected = passReq[s].expected
       /\ passReq' \in [Requests -> Passes!Request]
  BY <1>1, EndedStands DEF ReqMoves
<1>12. /\ made' \in [Creds -> PasskeyChals \cup {0}] /\ \A j \in Creds : made'[j] <= Len(kindOf)
       /\ \A j \in Creds : made[j] # 0 => made'[j] = made[j]
       /\ passAdded' \in SUBSET Creds /\ passAdded' \ passRemoved \subseteq passDisk.creds
  BY <1>2 DEF PassInv, PassTyped
<1>13. PassInv'
  BY <1>2, <1>8, <1>10, <1>11, <1>12, StoreRests
<1>14. k \notin passRemoved
  BY <1>5 DEF PassInv
<1>15. Passes!LoginsAreStored
  <2>1. \A b \in PasskeyChals : used[b] \in Seq(Creds)
    BY DEF PassInv, PassTyped
  <2> QED BY <1>6, <1>8, <1>14, <2>1, LoginsFromUse
<1> QED BY <1>13, <1>15

\* The store changes, but no challenge is generated.
LEMMA StoreSettles ==
    ASSUME PassInv, UNCHANGED <<kindOf, made, newest>>,
           passMem' \in Passes!Data, passDisk' \in Passes!Data, usable' \in BOOLEAN,
           usable' => passMem'.creds = passDisk'.creds,
           \A kind \in Kinds :
              /\ passMem'.chal[kind] \in {passMem.chal[kind], 0}
              /\ passDisk'.chal[kind] \in {passDisk.chal[kind], passMem'.chal[kind], 0},
           passReq' \in [Requests -> Passes!Request],
           \A r \in Requests :
              passReq'[r] = passReq[r] \/ RequestStands(passReq'[r], kindOf, made, passMem', passDisk', passRemoved'),
           Exclusive(passReq'),
           \A c \in 1 .. Len(kindOf) : Absent(c, passMem) /\ Free(c, passReq) => Free(c, passReq'),
           DOMAIN used' = PasskeyChals,
           \A c \in PasskeyChals : /\ used'[c] \in Seq(Creds)
                                   /\ \/ used'[c] = used[c]
                                      \/ UsedOnce(used'[c], c, kindOf, passMem', passDisk', passReq'),
           passDisk.creds \cup passRemoved \subseteq passDisk'.creds \cup passRemoved',
           \A k \in passDisk'.creds \cup passRemoved' :
              k \in passDisk.creds \cup passRemoved \/ MadeOnce(k, made, passMem', passDisk', passReq'),
           passAdded' \in SUBSET Creds, passRemoved' \in SUBSET Creds,
           passAdded' \ passRemoved' \subseteq passDisk'.creds,
           passRemoved' \cap (passMem'.creds \cup passDisk'.creds) = {}
    PROVE  PassInv'
<1>1. PassTyped'
  BY DEF PassInv, PassTyped, Kinds, PasskeyChals, Passes!Data, Passes!Request, Passes!Kinds, Passes!Chals, Passes!NoChal
<1>2. Len(kindOf) <= Len(kindOf') /\ \A c \in 1 .. Len(kindOf) : kindOf'[c] = kindOf[c]
  <2>1. Len(kindOf) \in Nat
    BY LenProperties DEF PassInv, PassTyped
  <2> QED BY <2>1
<1>3. DataStands(passMem', kindOf', newest') /\ DataStands(passDisk', kindOf', newest')
  <2>1. DataStands(passMem, kindOf, newest) /\ DataStands(passDisk, kindOf, newest)
    BY DEF PassInv
  <2>2. DataStands(passMem', kindOf, newest)
    BY <2>1 DEF DataStands
  <2>3. DataStands(passDisk', kindOf, newest)
    BY <2>1, <2>2 DEF DataStands
  <2> QED BY <2>2, <2>3
<1>4. \A kind \in Kinds :
         /\ passMem'.chal[kind] \in {passMem.chal[kind], 0, Len(kindOf) + 1}
         /\ passDisk'.chal[kind] \in {passDisk.chal[kind], passMem'.chal[kind], 0}
  OBVIOUS
<1>5. \A k \in Creds : made[k] # 0 => made'[k] = made[k]
  OBVIOUS
<1>6. \A r \in Requests :
         passReq'[r] = passReq[r] \/ RequestStands(passReq'[r], kindOf', made', passMem', passDisk', passRemoved')
  OBVIOUS
<1>7. \A c \in PasskeyChals :
         used'[c] = used[c] \/ UsedOnce(used'[c], c, kindOf', passMem', passDisk', passReq')
  OBVIOUS
<1>8. \A k \in passDisk'.creds \cup passRemoved' :
         k \in passDisk.creds \cup passRemoved \/ MadeOnce(k, made', passMem', passDisk', passReq')
  OBVIOUS
<1> QED BY <1>1, <1>2, <1>3, <1>4, <1>5, <1>6, <1>7, <1>8, PassMoves

\* The history at rest.
LEMMA HistoryRests ==
    ASSUME PassInv, UNCHANGED <<used, passAdded>>
    PROVE  /\ DOMAIN used' = PasskeyChals /\ \A c \in PasskeyChals : used'[c] \in Seq(Creds) /\ used'[c] = used[c]
           /\ passAdded' \in SUBSET Creds
BY DEF PassInv, PassTyped

WithChal(d, kind, c) == [d EXCEPT !.chal[kind] = c]

LEMMA ChallengeSet ==
    ASSUME NEW d \in Passes!Data, NEW kind \in Kinds, NEW c \in PasskeyChals \cup {0},
           NEW d2, d2 = WithChal(d, kind, c)
    PROVE  /\ d2 \in Passes!Data /\ d2.creds = d.creds /\ d2.chal[kind] = c
           /\ \A k \in Kinds : k # kind => d2.chal[k] = d.chal[k]
<1>1. d = [creds |-> d.creds, chal |-> d.chal] /\ d.creds \in SUBSET Creds /\ d.chal \in [Kinds -> PasskeyChals \cup {0}]
  BY DEF Passes!Data, Passes!Kinds, Kinds, Passes!Chals, PasskeyChals, Passes!NoChal
<1>2. [d.chal EXCEPT ![kind] = c] \in [Kinds -> PasskeyChals \cup {0}]
  BY <1>1
<1>3. d2.creds = d.creds /\ d2.chal = [d.chal EXCEPT ![kind] = c]
  BY <1>1 DEF WithChal
<1>4. d2 = [creds |-> d.creds, chal |-> [d.chal EXCEPT ![kind] = c]]
  BY <1>1 DEF WithChal
<1>5. d2 \in Passes!Data
  BY <1>1, <1>2, <1>4 DEF Passes!Data, Passes!Kinds, Kinds, Passes!Chals, PasskeyChals, Passes!NoChal
<1> QED BY <1>1, <1>3, <1>5

LEMMA TakeChallengeSound ==
    ASSUME PassInv, NEW r \in Requests, Passes!TakeChallenge(r)
    PROVE  PassInv'
<1> DEFINE p == passReq[r]
           kind == p.kind
           c == passMem.chal[kind]
           q == [p EXCEPT !.phase = "verify", !.expected = c]
<1>1. /\ p.phase = "body" /\ kind \in Kinds /\ p \in Passes!Request
      /\ p = [phase |-> p.phase, kind |-> p.kind, cred |-> p.cred,
              chal |-> p.chal, expected |-> p.expected, fresh |-> p.fresh]
      /\ RequestStands(p, kindOf, made, passMem, passDisk, passRemoved)
  BY RequestTyped DEF Passes!TakeChallenge, PassInv, PassTyped
<1>2. UNCHANGED <<usable, passDisk, kindOf, made, newest, used, passAdded, passRemoved>>
  BY DEF Passes!TakeChallenge, Passes!history
<1>3. passMem \in Passes!Data /\ passMem' = WithChal(passMem, kind, 0)
  BY DEF WithChal, Passes!TakeChallenge, Passes!Taken, Passes!NoChal, PassInv, PassTyped
<1>4. (passReq' = [passReq EXCEPT ![r] = q] /\ c # 0) \/ passReq' = Passes!Ended(r)
  BY DEF Passes!TakeChallenge, Passes!NoChal, PassInv, PassTyped
<1>5. c \in PasskeyChals \cup {0} /\ (c # 0 => c \in 1 .. Len(kindOf) /\ kindOf[c] = kind)
  <2>1. DataStands(passMem, kindOf, newest) /\ passMem.chal \in [Kinds -> PasskeyChals \cup {0}]
    BY DEF PassInv, PassTyped, Passes!Data, Passes!Kinds, Kinds, Passes!Chals, PasskeyChals, Passes!NoChal
  <2> QED BY <1>1, <2>1 DEF DataStands
<1> HIDE DEF p
<1>6. /\ q.phase = "verify" /\ q.kind = p.kind /\ q.cred = p.cred /\ q.chal = p.chal /\ q.expected = c
      /\ q \in Passes!Request
  BY <1>1, <1>5 DEF Passes!Request, Passes!Chals, PasskeyChals, Passes!NoChal
<1> HIDE DEF q, c, kind
<1>7. /\ passMem' \in Passes!Data /\ passMem'.creds = passMem.creds /\ passMem'.chal[kind] = 0
      /\ \A k \in Kinds : k # kind => passMem'.chal[k] = passMem.chal[k]
  BY <1>1, <1>3, ChallengeSet
<1>8. /\ passDisk' \in Passes!Data /\ usable' \in BOOLEAN /\ (usable' => passMem'.creds = passDisk'.creds)
      /\ passRemoved' \in SUBSET Creds
  BY <1>2, <1>7 DEF PassInv, PassTyped
<1>9. /\ \A k \in Kinds : /\ passMem'.chal[k] \in {passMem.chal[k], 0}
                          /\ passDisk'.chal[k] \in {passDisk.chal[k], passMem'.chal[k], 0}
      /\ passDisk.creds \cup passRemoved \subseteq passDisk'.creds \cup passRemoved'
      /\ \A k \in passDisk'.creds \cup passRemoved' : k \in passDisk.creds \cup passRemoved
  BY <1>2, <1>7
<1>10. /\ passAdded' \ passRemoved' \subseteq passDisk'.creds
       /\ passRemoved' \cap (passMem'.creds \cup passDisk'.creds) = {}
  BY <1>2, <1>7 DEF PassInv
<1>11. /\ passReq' \in [Requests -> Passes!Request]
       /\ \A s \in Requests :
            passReq'[s] = passReq[s] \/ RequestStands(passReq'[s], kindOf, made, passMem', passDisk', passRemoved')
       /\ Exclusive(passReq')
       /\ \A b \in 1 .. Len(kindOf) : Absent(b, passMem) /\ Free(b, passReq) => Free(b, passReq')
  <2>1. CASE passReq' = [passReq EXCEPT ![r] = q] /\ c # 0
    <3>1. ReqMoves(r, q)
      BY <1>6, <2>1, RequestMoves
    <3>2. Holding(q) /\ q.expected = c /\ c \in 1 .. Len(kindOf) /\ kindOf[c] = q.kind
      BY <1>5, <1>6, <2>1 DEF Holding, kind
    <3>3. Absent(c, passMem')
      <4>1. \A k \in Kinds : passMem.chal[k] = c => k = kind
        <5>1. DataStands(passMem, kindOf, newest)
          BY DEF PassInv
        <5> QED BY <1>5, <2>1, <5>1 DEF DataStands
      <4> QED BY <1>7, <2>1, <4>1 DEF Absent
    <3>4. RequestStands(q, kindOf, made, passMem', passDisk', passRemoved')
      <4>1. Shows(q, kindOf, made)
        BY <1>1, <1>6 DEF RequestStands, Shows
      <4>2. Holds(q, kindOf, passMem', passDisk') /\ Stored(q, passDisk', passRemoved')
        BY <1>6, <3>2, <3>3 DEF Holds, Stored
      <4> QED BY <4>1, <4>2 DEF RequestStands
    <3>5. \A s \in Requests : Holding(passReq[s]) => passReq[s].expected # c
      <4> SUFFICES ASSUME NEW s \in Requests, Holding(passReq[s]) PROVE passReq[s].expected # c
        OBVIOUS
      <4>1. Absent(passReq[s].expected, passMem)
        BY HeldIsUnused
      <4> QED BY <1>1, <4>1 DEF Absent, c
    <3>6. Exclusive(passReq')
      BY <3>1, <3>2, <3>5 DEF PassInv, Exclusive, ReqMoves
    <3>7. ASSUME NEW b, Absent(b, passMem), Free(b, passReq) PROVE Free(b, passReq')
      <4>1. b # c
        BY <1>1, <3>7 DEF Absent, c
      <4> QED BY <3>1, <3>2, <3>7, <4>1 DEF Free, ReqMoves
    <3>8. \A s \in Requests :
            passReq'[s] = passReq[s] \/ RequestStands(passReq'[s], kindOf, made, passMem', passDisk', passRemoved')
      BY <3>1, <3>4 DEF ReqMoves
    <3> QED BY <3>1, <3>6, <3>7, <3>8 DEF ReqMoves
  <2>2. CASE passReq' = Passes!Ended(r)
    <3>1. ReqMoves(r, Passes!Idle)
      BY <2>2, RequestEnds
    <3>2. /\ \A s \in Requests :
               passReq'[s] = passReq[s] \/ RequestStands(passReq'[s], kindOf, made, passMem', passDisk', passRemoved')
          /\ \A s \in Requests :
               Holding(passReq'[s]) => Holding(passReq[s]) /\ passReq'[s].expected = passReq[s].expected
      BY <3>1, EndedStands
    <3>3. Exclusive(passReq') /\ \A b : Free(b, passReq) => Free(b, passReq')
      BY <3>2, HoldersShrink DEF PassInv
    <3> QED BY <3>1, <3>2, <3>3 DEF ReqMoves
  <2> QED BY <1>4, <2>1, <2>2
<1>12. /\ DOMAIN used' = PasskeyChals /\ passAdded' \in SUBSET Creds
       /\ \A b \in PasskeyChals : used'[b] \in Seq(Creds) /\ used'[b] = used[b]
  BY <1>2, HistoryRests
<1> QED BY <1>2, <1>7, <1>8, <1>9, <1>10, <1>11, <1>12, StoreSettles

\* A request whose data was saved.
LEMMA PhaseMoves ==
    ASSUME PassInv, NEW r \in Requests, passReq' = [passReq EXCEPT ![r].phase = "stored"]
    PROVE  /\ passReq' \in [Requests -> Passes!Request]
           /\ \A s \in Requests : s # r => passReq'[s] = passReq[s]
           /\ passReq'[r].phase = "stored" /\ passReq'[r].kind = passReq[r].kind
           /\ passReq'[r].cred = passReq[r].cred /\ passReq'[r].chal = passReq[r].chal
           /\ passReq'[r].expected = passReq[r].expected
<1> DEFINE p == passReq[r]
           q == [p EXCEPT !.phase = "stored"]
<1>1. /\ p.phase \in {"idle", "options", "body", "verify", "stored"} /\ p.kind \in Kinds
      /\ p.cred \in Creds \cup {NoCred} /\ p.chal \in PasskeyChals \cup {0} /\ p.expected \in PasskeyChals \cup {0}
      /\ p = [phase |-> p.phase, kind |-> p.kind, cred |-> p.cred,
              chal |-> p.chal, expected |-> p.expected, fresh |-> p.fresh]
      /\ p.fresh \in BOOLEAN
  BY RequestTyped
<1>2. passReq' = [passReq EXCEPT ![r] = q]
  OBVIOUS
<1> HIDE DEF p
<1>3. /\ q.phase = "stored" /\ q.kind = p.kind /\ q.cred = p.cred /\ q.chal = p.chal /\ q.expected = p.expected
      /\ q = [phase |-> "stored", kind |-> p.kind, cred |-> p.cred,
              chal |-> p.chal, expected |-> p.expected, fresh |-> p.fresh]
  BY <1>1
<1>4. q \in Passes!Request
  BY <1>1, <1>3 DEF Passes!Request, Passes!Kinds, Kinds, Passes!Chals, PasskeyChals, Passes!NoChal
<1> HIDE DEF q
<1>5. ReqMoves(r, q)
  BY <1>2, <1>4, RequestMoves
<1> QED BY <1>3, <1>5 DEF ReqMoves, p

LEMMA LoginVerifiedSound ==
    ASSUME PassInv, NEW r \in Requests, Passes!LoginVerified(r)
    PROVE  PassInv'
<1> DEFINE p == passReq[r]
<1>1. /\ p.phase = "verify" /\ p.kind = "login" /\ p.chal = p.expected /\ usable
      /\ RequestStands(p, kindOf, made, passMem, passDisk, passRemoved)
  BY DEF Passes!LoginVerified, Passes!Admitted, PassInv
<1>2. UNCHANGED <<passMem, kindOf, made, newest, used, passAdded, passRemoved>>
  BY DEF Passes!LoginVerified, Passes!history
<1>3. \/ passDisk' = passMem /\ usable' = usable /\ passReq' = [passReq EXCEPT ![r].phase = "stored"]
      \/ passDisk' \in {passDisk, passMem} /\ usable' = FALSE /\ passReq' = Passes!Ended(r)
  BY DEF Passes!LoginVerified, Passes!Saved, Passes!SaveFails
<1>4. passMem \in Passes!Data /\ passDisk \in Passes!Data /\ passMem.creds = passDisk.creds /\ passRemoved \in SUBSET Creds
  BY <1>1 DEF PassInv, PassTyped
<1>5. Holding(p) /\ p.expected \in 1 .. Len(kindOf) /\ kindOf[p.expected] = p.kind /\ Absent(p.expected, passMem)
  BY <1>1 DEF RequestStands, Holds, Holding
<1>6. /\ passMem' \in Passes!Data /\ passDisk' \in Passes!Data /\ usable' \in BOOLEAN
      /\ passMem'.creds = passDisk'.creds /\ passRemoved' \in SUBSET Creds /\ passDisk'.creds = passDisk.creds
  BY <1>1, <1>2, <1>3, <1>4
<1>7. /\ \A k \in Kinds : /\ passMem'.chal[k] \in {passMem.chal[k], 0}
                          /\ passDisk'.chal[k] \in {passDisk.chal[k], passMem'.chal[k], 0}
      /\ passDisk.creds \cup passRemoved \subseteq passDisk'.creds \cup passRemoved'
      /\ \A k \in passDisk'.creds \cup passRemoved' : k \in passDisk.creds \cup passRemoved
  BY <1>2, <1>3, <1>6
<1>8. /\ passAdded' \ passRemoved' \subseteq passDisk'.creds
      /\ passRemoved' \cap (passMem'.creds \cup passDisk'.creds) = {}
  BY <1>2, <1>6 DEF PassInv
<1>9. /\ passReq' \in [Requests -> Passes!Request]
      /\ \A s \in Requests :
           passReq'[s] = passReq[s] \/ RequestStands(passReq'[s], kindOf, made, passMem', passDisk', passRemoved')
      /\ \A s \in Requests :
           Holding(passReq'[s]) => Holding(passReq[s]) /\ passReq'[s].expected = passReq[s].expected
  <2>1. CASE passReq' = [passReq EXCEPT ![r].phase = "stored"] /\ passDisk' = passMem
    <3> DEFINE q == passReq'[r]
    <3>1. /\ passReq' \in [Requests -> Passes!Request]
          /\ \A s \in Requests : s # r => passReq'[s] = passReq[s]
          /\ q.phase = "stored" /\ q.kind = p.kind /\ q.cred = p.cred /\ q.chal = p.chal /\ q.expected = p.expected
      BY <2>1, PhaseMoves
    <3> HIDE DEF q, p
    <3>2. Shows(q, kindOf, made)
      BY <1>1, <3>1 DEF RequestStands, Shows
    <3>3. Holds(q, kindOf, passMem', passDisk') /\ Stored(q, passDisk', passRemoved')
      BY <1>1, <1>2, <1>5, <2>1, <3>1 DEF Holds, Stored
    <3>4. RequestStands(q, kindOf, made, passMem', passDisk', passRemoved')
      BY <3>2, <3>3 DEF RequestStands
    <3> QED BY <1>5, <3>1, <3>4 DEF q, p
  <2>2. CASE passReq' = Passes!Ended(r)
    <3>1. ReqMoves(r, Passes!Idle)
      BY <2>2, RequestEnds
    <3> QED BY <3>1, EndedStands DEF ReqMoves
  <2> QED BY <1>3, <2>1, <2>2
<1>10. Exclusive(passReq') /\ \A b : Free(b, passReq) => Free(b, passReq')
  BY <1>9, HoldersShrink DEF PassInv
<1>11. /\ DOMAIN used' = PasskeyChals /\ passAdded' \in SUBSET Creds
       /\ \A b \in PasskeyChals : used'[b] \in Seq(Creds) /\ used'[b] = used[b]
  BY <1>2, HistoryRests
<1> HIDE DEF p
<1> QED BY <1>2, <1>6, <1>7, <1>8, <1>9, <1>10, <1>11, StoreSettles

LEMMA RegistrationVerifiedSound ==
    ASSUME PassInv, NEW r \in Requests, Passes!RegistrationVerified(r)
    PROVE  PassInv' /\ Passes!LoginsAreStored
<1> DEFINE p == passReq[r]
           k == p.cred
           c == p.expected
<1>1. /\ p.phase = "verify" /\ p.kind = "register" /\ p.chal = c /\ usable
      /\ RequestStands(p, kindOf, made, passMem, passDisk, passRemoved)
  BY DEF Passes!RegistrationVerified, Passes!Admitted, PassInv
<1>2. UNCHANGED <<kindOf, made, newest, passAdded, passRemoved>>
  BY DEF Passes!RegistrationVerified
<1>3. \/ /\ passDisk' = passMem' /\ usable' = usable /\ passReq' = [passReq EXCEPT ![r].phase = "stored"]
         /\ used' = [used EXCEPT ![c] = Append(@, k)]
      \/ passDisk' \in {passDisk, passMem'} /\ usable' = FALSE /\ passReq' = Passes!Ended(r) /\ used' = used
  BY <1>1 DEF Passes!RegistrationVerified, Passes!Saved, Passes!SaveFails
<1>4. /\ passMem \in Passes!Data /\ passDisk \in Passes!Data /\ passMem.creds = passDisk.creds
      /\ passRemoved \in SUBSET Creds
  BY <1>1 DEF PassInv, PassTyped
<1>5. Holding(p) /\ k \in Creds /\ made[k] = c
  BY <1>1 DEF RequestStands, Shows, Holding
<1>6. /\ Len(used[c]) = 0 /\ c \in PasskeyChals /\ c \in 1 .. Len(kindOf) /\ Absent(c, passMem)
      /\ \A j \in passDisk.creds \cup passRemoved : made[j] # c
  BY <1>5, HeldIsUnused
<1>7. k \notin passRemoved
  BY <1>5, <1>6
<1>8. passMem' \in Passes!Data /\ passMem'.creds = passMem.creds \cup {k} /\ passMem'.chal = passMem.chal
  <2>1. passMem' = [passMem EXCEPT !.creds = @ \cup {k}]
    BY DEF Passes!RegistrationVerified, Passes!AddCredential
  <2> HIDE DEF k
  <2> QED BY <1>4, <1>5, <2>1 DEF Passes!Data
<1>9. /\ passDisk' \in Passes!Data /\ usable' \in BOOLEAN /\ (usable' => passMem'.creds = passDisk'.creds)
      /\ passRemoved' \in SUBSET Creds
      /\ passDisk' \in {passDisk, passMem'}
  BY <1>1, <1>2, <1>3, <1>4, <1>8
<1> HIDE DEF k, c
<1>10. /\ \A j \in Kinds : /\ passMem'.chal[j] \in {passMem.chal[j], 0}
                           /\ passDisk'.chal[j] \in {passDisk.chal[j], passMem'.chal[j], 0}
       /\ passDisk.creds \cup passRemoved \subseteq passDisk'.creds \cup passRemoved'
       /\ \A j \in passDisk'.creds \cup passRemoved' :
             j \in passDisk.creds \cup passRemoved \/ (j = k /\ passDisk' = passMem')
  BY <1>2, <1>4, <1>8, <1>9
<1>11. /\ passAdded' \ passRemoved' \subseteq passDisk'.creds
       /\ passRemoved' \cap (passMem'.creds \cup passDisk'.creds) = {}
  BY <1>2, <1>4, <1>7, <1>8, <1>9 DEF PassInv
<1>12. /\ passReq' \in [Requests -> Passes!Request]
       /\ \A s \in Requests :
            passReq'[s] = passReq[s] \/ RequestStands(passReq'[s], kindOf, made, passMem', passDisk', passRemoved')
       /\ \A s \in Requests :
            Holding(passReq'[s]) => Holding(passReq[s]) /\ passReq'[s].expected = passReq[s].expected
       /\ ~ Holding(passReq'[r]) /\ \A s \in Requests : s # r => passReq'[s] = passReq[s]
  <2>1. CASE passReq' = [passReq EXCEPT ![r].phase = "stored"] /\ passDisk' = passMem'
    <3> DEFINE q == passReq'[r]
    <3>1. /\ passReq' \in [Requests -> Passes!Request]
          /\ \A s \in Requests : s # r => passReq'[s] = passReq[s]
          /\ q.phase = "stored" /\ q.kind = p.kind /\ q.cred = p.cred /\ q.chal = p.chal /\ q.expected = p.expected
      BY <2>1, PhaseMoves
    <3> HIDE DEF q
    <3>2. Shows(q, kindOf, made)
      BY <1>1, <3>1 DEF RequestStands, Shows
    <3>3. ~ Holding(q) /\ Holds(q, kindOf, passMem', passDisk')
      BY <1>1, <3>1 DEF Holds, Holding
    <3>4. Stored(q, passDisk', passRemoved')
      BY <1>8, <2>1, <3>1 DEF Stored, k
    <3>5. RequestStands(q, kindOf, made, passMem', passDisk', passRemoved')
      BY <3>2, <3>3, <3>4 DEF RequestStands
    <3> QED BY <3>1, <3>3, <3>5 DEF q
  <2>2. CASE passReq' = Passes!Ended(r)
    <3>1. ReqMoves(r, Passes!Idle)
      BY <2>2, RequestEnds
    <3> QED BY <3>1, EndedStands DEF ReqMoves
  <2> QED BY <1>3, <2>1, <2>2
<1>13. Exclusive(passReq') /\ \A b : Free(b, passReq) => Free(b, passReq')
  BY <1>12, HoldersShrink DEF PassInv
<1>14. Free(c, passReq')
  <2>1. \A s \in Requests : s # r /\ Holding(passReq[s]) => passReq[s].expected # c
    BY <1>5 DEF PassInv, Exclusive, c
  <2> QED BY <1>12, <2>1 DEF Free
<1>15. Absent(c, passMem') /\ (passDisk' = passMem' => Spent(c, passMem', passDisk', passReq'))
  BY <1>6, <1>8, <1>14 DEF Absent, Spent
<1>16. \A j \in passDisk'.creds \cup passRemoved' :
          j \in passDisk.creds \cup passRemoved \/ MadeOnce(j, made, passMem', passDisk', passReq')
  <2>1. passDisk' = passMem' => MadeOnce(k, made, passMem', passDisk', passReq')
    BY <1>5, <1>6, <1>15 DEF MadeOnce, PasskeyChals
  <2> QED BY <1>10, <2>1
<1>17. /\ DOMAIN used' = PasskeyChals
       /\ \A b \in PasskeyChals :
            /\ used'[b] \in Seq(Creds)
            /\ used'[b] = used[b] \/ UsedOnce(used'[b], b, kindOf, passMem', passDisk', passReq')
       /\ Passes!LoginsAreStored
  <2>0. DOMAIN used = PasskeyChals /\ \A b \in PasskeyChals : used[b] \in Seq(Creds)
    BY DEF PassInv, PassTyped
  <2>1. CASE used' = [used EXCEPT ![c] = Append(@, k)] /\ passDisk' = passMem'
    <3>1. /\ DOMAIN used' = PasskeyChals /\ Len(used'[c]) = 1 /\ used'[c][1] = k
          /\ \A b \in PasskeyChals : used'[b] \in Seq(Creds) /\ (b # c => used'[b] = used[b])
      BY <1>5, <1>6, <2>1, FirstUse
    <3>2. UsedOnce(used'[c], c, kindOf, passMem', passDisk', passReq')
      BY <1>6, <1>15, <2>1, <3>1 DEF UsedOnce
    <3>3. Passes!LoginsAreStored
      BY <1>6, <1>7, <2>0, <3>1, LoginsFromUse
    <3> QED BY <3>1, <3>2, <3>3
  <2>2. CASE used' = used
    <3>1. Passes!LoginsAreStored
      BY <2>0, <2>2, LenProperties DEF Passes!LoginsAreStored, Passes!Chals, PasskeyChals
    <3> QED BY <2>0, <2>2, <3>1
  <2> QED BY <1>3, <2>1, <2>2
<1>18. passAdded' \in SUBSET Creds
  BY <1>2 DEF PassInv, PassTyped
<1> HIDE DEF p
<1>19. PassInv'
  BY <1>2, <1>8, <1>9, <1>10, <1>11, <1>12, <1>13, <1>16, <1>17, <1>18, StoreSettles
<1> QED BY <1>17, <1>19

LEMMA RemoveCredentialSound ==
    ASSUME PassInv, NEW k \in Creds, Passes!RemoveCredential(k)
    PROVE  PassInv'
<1>1. usable /\ k \in passMem.creds
  BY DEF Passes!RemoveCredential
<1>2. UNCHANGED <<passReq, kindOf, made, newest, used, passAdded>>
  BY DEF Passes!RemoveCredential
<1>3. /\ \/ passDisk' = passMem' /\ usable' = usable
         \/ passDisk' \in {passDisk, passMem'} /\ usable' = FALSE
      /\ passRemoved' = IF k \in passDisk'.creds THEN passRemoved ELSE passRemoved \cup {k}
  BY DEF Passes!RemoveCredential, Passes!Saved, Passes!SaveFails
<1>4. /\ passMem \in Passes!Data /\ passDisk \in Passes!Data /\ passMem.creds = passDisk.creds
      /\ passRemoved \in SUBSET Creds
  BY <1>1 DEF PassInv, PassTyped
<1>5. passMem' \in Passes!Data /\ passMem'.creds = passMem.creds \ {k} /\ passMem'.chal = passMem.chal
  <2>1. passMem' = [passMem EXCEPT !.creds = @ \ {k}]
    BY DEF Passes!RemoveCredential
  <2> QED BY <1>4, <2>1 DEF Passes!Data
<1>6. /\ passDisk' \in Passes!Data /\ usable' \in BOOLEAN /\ (usable' => passMem'.creds = passDisk'.creds)
      /\ passRemoved' \in SUBSET Creds /\ passDisk' \in {passDisk, passMem'}
  BY <1>1, <1>3, <1>4, <1>5
<1>7. \A j \in Kinds : /\ passMem'.chal[j] \in {passMem.chal[j], 0}
                       /\ passDisk'.chal[j] \in {passDisk.chal[j], passMem'.chal[j], 0}
  BY <1>5, <1>6
<1>8. passDisk'.creds \cup passRemoved' = passDisk.creds \cup passRemoved
  BY <1>1, <1>3, <1>4, <1>5, <1>6
<1>9. /\ passAdded' \ passRemoved' \subseteq passDisk'.creds
      /\ passRemoved' \cap (passMem'.creds \cup passDisk'.creds) = {}
  BY <1>1, <1>2, <1>3, <1>4, <1>5, <1>6 DEF PassInv
<1>10. /\ passReq' \in [Requests -> Passes!Request]
       /\ \A s \in Requests : passReq'[s] = passReq[s]
       /\ Exclusive(passReq') /\ \A b : Free(b, passReq) => Free(b, passReq')
  BY <1>2 DEF PassInv, PassTyped
<1>11. /\ DOMAIN used' = PasskeyChals /\ passAdded' \in SUBSET Creds
       /\ \A b \in PasskeyChals : used'[b] \in Seq(Creds) /\ used'[b] = used[b]
  BY <1>2, HistoryRests
<1>12. /\ passDisk.creds \cup passRemoved \subseteq passDisk'.creds \cup passRemoved'
       /\ \A j \in passDisk'.creds \cup passRemoved' : j \in passDisk.creds \cup passRemoved
  BY <1>8
<1> QED BY <1>2, <1>5, <1>6, <1>7, <1>9, <1>10, <1>11, <1>12, StoreSettles

\* A challenge expires where it is kept.
WithoutChal(d, c) == [d EXCEPT !.chal = [kind \in Passes!Kinds |-> IF @[kind] = c THEN 0 ELSE @[kind]]]

LEMMA ChallengeGone ==
    ASSUME NEW d \in Passes!Data, NEW c, NEW d2, d2 = WithoutChal(d, c)
    PROVE  /\ d2 \in Passes!Data /\ d2.creds = d.creds
           /\ \A kind \in Kinds : d2.chal[kind] \in {d.chal[kind], 0}
<1> DEFINE f == [kind \in Passes!Kinds |-> IF d.chal[kind] = c THEN 0 ELSE d.chal[kind]]
<1>1. d = [creds |-> d.creds, chal |-> d.chal] /\ d.creds \in SUBSET Creds /\ d.chal \in [Kinds -> PasskeyChals \cup {0}]
  BY DEF Passes!Data, Passes!Kinds, Kinds, Passes!Chals, PasskeyChals, Passes!NoChal
<1>2. f \in [Kinds -> PasskeyChals \cup {0}] /\ \A kind \in Kinds : f[kind] \in {d.chal[kind], 0}
  BY <1>1 DEF Passes!Kinds, Kinds
<1>3. d2 = [d EXCEPT !.chal = f]
  BY DEF WithoutChal
<1> HIDE DEF f
<1>4. d2 = [creds |-> d.creds, chal |-> f]
  BY <1>1, <1>3
<1>5. d2.creds = d.creds /\ d2.chal = f
  BY <1>4
<1>6. d2 \in Passes!Data
  BY <1>1, <1>2, <1>4 DEF Passes!Data, Passes!Kinds, Kinds, Passes!Chals, PasskeyChals, Passes!NoChal
<1> QED BY <1>2, <1>5, <1>6

LEMMA ExpireSound ==
    ASSUME PassInv, NEW c \in Passes!Chals, Passes!Expire(c)
    PROVE  PassInv'
<1>1. UNCHANGED <<usable, passReq, kindOf, made, newest, used, passAdded, passRemoved>>
  BY DEF Passes!Expire, Passes!history
<1>2. passMem \in Passes!Data /\ passDisk \in Passes!Data
  BY DEF PassInv, PassTyped
<1>0. passMem' = WithoutChal(passMem, c) /\ passDisk' = WithoutChal(passDisk, c)
  BY DEF Passes!Expire, Passes!NoChal, WithoutChal
<1>3. /\ passMem' \in Passes!Data /\ passMem'.creds = passMem.creds
      /\ \A kind \in Kinds : passMem'.chal[kind] \in {passMem.chal[kind], 0}
  BY <1>0, <1>2, ChallengeGone
<1>4. /\ passDisk' \in Passes!Data /\ passDisk'.creds = passDisk.creds
      /\ \A kind \in Kinds : passDisk'.chal[kind] \in {passDisk.chal[kind], 0}
  BY <1>0, <1>2, ChallengeGone
<1>5. /\ usable' \in BOOLEAN /\ (usable' => passMem'.creds = passDisk'.creds) /\ passRemoved' \in SUBSET Creds
  BY <1>1, <1>3, <1>4 DEF PassInv, PassTyped
<1>6. /\ passDisk.creds \cup passRemoved \subseteq passDisk'.creds \cup passRemoved'
      /\ \A j \in passDisk'.creds \cup passRemoved' : j \in passDisk.creds \cup passRemoved
      /\ \A kind \in Kinds : /\ passMem'.chal[kind] \in {passMem.chal[kind], 0}
                             /\ passDisk'.chal[kind] \in {passDisk.chal[kind], passMem'.chal[kind], 0}
  BY <1>1, <1>3, <1>4
<1>7. /\ passAdded' \ passRemoved' \subseteq passDisk'.creds
      /\ passRemoved' \cap (passMem'.creds \cup passDisk'.creds) = {}
  BY <1>1, <1>3, <1>4 DEF PassInv
<1>8. /\ passReq' \in [Requests -> Passes!Request]
      /\ \A s \in Requests : passReq'[s] = passReq[s]
      /\ Exclusive(passReq') /\ \A b : Free(b, passReq) => Free(b, passReq')
  BY <1>1 DEF PassInv, PassTyped
<1>9. /\ DOMAIN used' = PasskeyChals /\ passAdded' \in SUBSET Creds
      /\ \A b \in PasskeyChals : used'[b] \in Seq(Creds) /\ used'[b] = used[b]
  BY <1>1, HistoryRests
<1> QED BY <1>1, <1>3, <1>4, <1>5, <1>6, <1>7, <1>8, <1>9, StoreSettles

\* The file is read again, and nobody holds anything.
LEMMA ReloadSound ==
    ASSUME PassInv, Passes!Reload
    PROVE  PassInv'
<1>1. /\ passMem' = passDisk /\ passDisk' = passDisk /\ usable' = TRUE
      /\ passReq' = [r \in Requests |-> Passes!Idle]
      /\ UNCHANGED <<kindOf, made, newest, used, passAdded, passRemoved>>
  BY DEF Passes!Reload, Passes!history
<1>2. Passes!Idle \in Passes!Request /\ Passes!Idle.phase = "idle"
  BY DEF Passes!Idle, Passes!Request, Passes!Kinds, Passes!NoChal
<1>3. passReq' \in [Requests -> Passes!Request] /\ \A r \in Requests : passReq'[r].phase = "idle"
  BY <1>1, <1>2
<1>4. PassTyped'
  BY <1>1, <1>3 DEF PassInv, PassTyped, Kinds, PasskeyChals, Passes!Data, Passes!Request, Passes!Kinds,
                    Passes!Chals, Passes!NoChal
<1>5. \A r \in Requests : ~ Holding(passReq'[r])
  BY <1>3 DEF Holding
<1>6. \A r \in Requests : RequestStands(passReq'[r], kindOf', made', passMem', passDisk', passRemoved')
  BY <1>3, IdleStands
<1>7. \A c : Free(c, passReq')
  BY <1>5 DEF Free
<1>8. \A c : Spent(c, passMem, passDisk, passReq) => Spent(c, passMem', passDisk', passReq')
  BY <1>1, <1>7 DEF Spent
<1>9. \A c \in PasskeyChals : UsedOnce(used'[c], c, kindOf', passMem', passDisk', passReq')
  <2>1. \A c \in PasskeyChals : UsedOnce(used[c], c, kindOf, passMem, passDisk, passReq)
    BY DEF PassInv
  <2> QED BY <1>1, <1>8, <2>1 DEF UsedOnce
<1>10. \A k \in passDisk'.creds \cup passRemoved' : MadeOnce(k, made', passMem', passDisk', passReq')
  <2>1. \A k \in passDisk.creds \cup passRemoved : MadeOnce(k, made, passMem, passDisk, passReq)
    BY DEF PassInv
  <2> QED BY <1>1, <1>8, <2>1 DEF MadeOnce
<1>11. Exclusive(passReq')
  BY <1>5 DEF Exclusive
<1>12. DataStands(passMem', kindOf', newest') /\ DataStands(passDisk', kindOf', newest')
  BY <1>1 DEF PassInv
<1>13. passAdded' \ passRemoved' \subseteq passDisk'.creds /\ passRemoved' \cap (passMem'.creds \cup passDisk'.creds) = {}
  BY <1>1 DEF PassInv
<1> QED BY <1>4, <1>6, <1>9, <1>10, <1>11, <1>12, <1>13, PassAgain

\* The challenge that is generated is newer than all.
LEMMA OptionsReadySound ==
    ASSUME PassInv, NEW r \in Requests, Passes!OptionsReady(r)
    PROVE  PassInv'
<1> DEFINE kind == passReq[r].kind
           n == Len(kindOf)
<1>1. kind \in Kinds /\ usable /\ n < MaxPasskeyChal
  BY RequestTyped DEF Passes!OptionsReady, Passes!Admitted
<1>2. /\ passMem \in Passes!Data /\ passDisk \in Passes!Data /\ passMem.creds = passDisk.creds
      /\ kindOf \in Seq(Kinds) /\ n \in Nat /\ newest \in [Kinds -> PasskeyChals \cup {0}]
      /\ \A j \in Kinds : newest[j] <= n
  BY <1>1, LenProperties DEF PassInv, PassTyped
<1>3. UNCHANGED <<made, used, passAdded, passRemoved>> /\ ReqMoves(r, Passes!Idle)
  BY RequestEnds DEF Passes!OptionsReady
<1>4. /\ kindOf' \in Seq(Kinds) /\ Len(kindOf') = n + 1 /\ kindOf'[n + 1] = kind
      /\ \A c \in 1 .. n : kindOf'[c] = kindOf[c]
  BY <1>1, <1>2, AppendProperties DEF Passes!OptionsReady
<1>5. passMem' = WithChal(passMem, kind, n + 1)
  BY <1>4 DEF Passes!OptionsReady, Passes!SetChallenge, WithChal
<1>6. \/ passDisk' = passMem' /\ usable' = usable /\ newest' = [newest EXCEPT ![kind] = n + 1]
      \/ passDisk' \in {passDisk, passMem'} /\ usable' = FALSE /\ newest' = newest
  BY <1>4 DEF Passes!OptionsReady, Passes!SetChallenge, Passes!Saved, Passes!SaveFails
<1>7. n + 1 \in PasskeyChals
  BY <1>1, <1>2, CredentialsAssumption DEF PasskeyChals
<1> HIDE DEF kind, n
<1>8. /\ passMem' \in Passes!Data /\ passMem'.creds = passMem.creds /\ passMem'.chal[kind] = n + 1
      /\ \A j \in Kinds : j # kind => passMem'.chal[j] = passMem.chal[j]
  BY <1>1, <1>2, <1>5, <1>7, ChallengeSet
<1>9. /\ passDisk' \in Passes!Data /\ usable' \in BOOLEAN /\ passDisk'.creds = passMem'.creds
      /\ passDisk'.creds = passDisk.creds /\ passDisk' \in {passDisk, passMem'}
  BY <1>1, <1>2, <1>6, <1>8
<1>10. /\ newest' \in [Kinds -> PasskeyChals \cup {0}] /\ \A j \in Kinds : newest'[j] <= n + 1
       /\ \A j \in Kinds : newest'[j] = newest[j] \/ (j = kind /\ newest'[j] = n + 1 /\ passDisk' = passMem')
  <2>0. \A j \in Kinds : newest[j] \in Nat /\ newest[j] <= n
    BY <1>2, CredentialsAssumption DEF PasskeyChals
  <2>1. CASE newest' = newest
    <3>1. \A j \in Kinds : newest'[j] <= n + 1
      BY <1>2, <2>0, <2>1
    <3> QED BY <1>2, <2>1, <3>1
  <2>2. CASE passDisk' = passMem' /\ newest' = [newest EXCEPT ![kind] = n + 1]
    <3>1. newest' \in [Kinds -> PasskeyChals \cup {0}]
      BY <1>1, <1>2, <1>7, <2>2
    <3>2. newest'[kind] = n + 1 /\ \A j \in Kinds : j # kind => newest'[j] = newest[j]
      BY <1>1, <1>2, <2>2
    <3>3. \A j \in Kinds : newest'[j] <= n + 1
      BY <1>2, <2>0, <3>2
    <3> QED BY <2>2, <3>1, <3>2, <3>3
  <2> QED BY <1>6, <2>1, <2>2
<1>11. \A k \in Creds : made'[k] <= n + 1
  <2>1. \A k \in Creds : made[k] <= n /\ made[k] \in PasskeyChals \cup {0}
    BY DEF PassInv, PassTyped, n
  <2> QED BY <1>2, <1>3, <2>1, CredentialsAssumption DEF PasskeyChals
<1>12. PassTyped'
  <2>1. Len(kindOf') <= MaxPasskeyChal
    BY <1>1, <1>2, <1>4, CredentialsAssumption DEF n
  <2>2. passReq' \in [Requests -> Passes!Request]
    BY <1>3 DEF ReqMoves
  <2>3. /\ made' \in [Creds -> PasskeyChals \cup {0}] /\ DOMAIN used' = PasskeyChals
        /\ \A c \in PasskeyChals : used'[c] \in Seq(Creds)
        /\ passAdded' \in SUBSET Creds /\ passRemoved' \in SUBSET Creds
    BY <1>3 DEF PassInv, PassTyped
  <2> QED BY <1>4, <1>8, <1>9, <1>10, <1>11, <2>1, <2>2, <2>3
          DEF PassTyped, Kinds, PasskeyChals, Passes!Data, Passes!Request, Passes!Kinds, Passes!Chals, Passes!NoChal
<1>13. DataStands(passMem', kindOf', newest') /\ DataStands(passDisk', kindOf', newest')
  <2>1. DataStands(passMem, kindOf, newest) /\ DataStands(passDisk, kindOf, newest)
    BY DEF PassInv
  <2>2. DataStands(passMem', kindOf', newest')
    <3> SUFFICES ASSUME NEW j \in Kinds, passMem'.chal[j] # 0
                 PROVE  /\ passMem'.chal[j] \in 1 .. Len(kindOf') /\ kindOf'[passMem'.chal[j]] = j
                        /\ passMem'.chal[j] >= newest'[j]
      BY DEF DataStands
    <3>1. CASE j = kind
      BY <1>2, <1>4, <1>8, <1>10, <3>1
    <3>2. CASE j # kind
      <4>1. passMem'.chal[j] = passMem.chal[j] /\ newest'[j] = newest[j]
        BY <1>8, <1>10, <3>2
      <4>2. /\ passMem.chal[j] \in 1 .. n /\ kindOf[passMem.chal[j]] = j /\ passMem.chal[j] >= newest[j]
        BY <2>1, <4>1 DEF DataStands, n
      <4> QED BY <1>2, <1>4, <4>1, <4>2
    <3> QED BY <3>1, <3>2
  <2>3. CASE passDisk' = passMem'
    BY <2>2, <2>3
  <2>4. CASE passDisk' = passDisk /\ passDisk' # passMem'
    <3> SUFFICES ASSUME NEW j \in Kinds, passDisk.chal[j] # 0
                 PROVE  /\ passDisk.chal[j] \in 1 .. Len(kindOf') /\ kindOf'[passDisk.chal[j]] = j
                        /\ passDisk.chal[j] >= newest'[j]
      BY <2>2, <2>4 DEF DataStands
    <3>1. newest'[j] = newest[j]
      BY <1>10, <2>4
    <3>2. /\ passDisk.chal[j] \in 1 .. n /\ kindOf[passDisk.chal[j]] = j /\ passDisk.chal[j] >= newest[j]
      BY <2>1 DEF DataStands, n
    <3> QED BY <1>2, <1>4, <3>1, <3>2
  <2> QED BY <1>9, <2>2, <2>3, <2>4
<1>14. Len(kindOf) <= Len(kindOf') /\ \A c \in 1 .. Len(kindOf) : kindOf'[c] = kindOf[c]
  BY <1>2, <1>4 DEF n
<1>15. \A j \in Kinds : /\ passMem'.chal[j] \in {passMem.chal[j], 0, Len(kindOf) + 1}
                        /\ passDisk'.chal[j] \in {passDisk.chal[j], passMem'.chal[j], 0}
  BY <1>8, <1>9 DEF n
<1>16. /\ \A s \in Requests :
            passReq'[s] = passReq[s] \/ RequestStands(passReq'[s], kindOf', made', passMem', passDisk', passRemoved')
       /\ \A s \in Requests :
            Holding(passReq'[s]) => Holding(passReq[s]) /\ passReq'[s].expected = passReq[s].expected
  BY <1>3, EndedStands
<1>17. Exclusive(passReq') /\ \A b : Free(b, passReq) => Free(b, passReq')
  BY <1>16, HoldersShrink DEF PassInv
<1>18. /\ passDisk.creds \cup passRemoved \subseteq passDisk'.creds \cup passRemoved'
       /\ \A k \in passDisk'.creds \cup passRemoved' : k \in passDisk.creds \cup passRemoved
       /\ passAdded' \ passRemoved' \subseteq passDisk'.creds
       /\ passRemoved' \cap (passMem'.creds \cup passDisk'.creds) = {}
  BY <1>2, <1>3, <1>8, <1>9 DEF PassInv
<1>19. \A c \in PasskeyChals : used'[c] = used[c]
  BY <1>3
<1>20. \A k \in Creds : made[k] # 0 => made'[k] = made[k]
  BY <1>3
<1> QED BY <1>12, <1>13, <1>14, <1>15, <1>16, <1>17, <1>18, <1>19, <1>20, PassMoves

\* A step that lets nobody in and adds nothing.
LEMMA NoLogin ==
    ASSUME PassInv, UNCHANGED used
    PROVE  Passes!LoginsAreStored
<1>1. \A c \in PasskeyChals : Len(used[c]) \in Nat
  BY LenProperties DEF PassInv, PassTyped
<1> QED BY <1>1 DEF Passes!LoginsAreStored, Passes!Chals, PasskeyChals

LEMMA PassStep ==
    ASSUME PassInv, Passes!Next
    PROVE  PassInv' /\ Passes!LoginsAreStored
<1>1. ASSUME NEW r \in Requests, \E kind \in Passes!Kinds : Passes!BeginOptions(r, kind)
      PROVE  PassInv' /\ UNCHANGED used
  <2>1. PICK kind \in Passes!Kinds : Passes!BeginOptions(r, kind)
    BY <1>1
  <2>2. UNCHANGED used
    BY <2>1 DEF Passes!BeginOptions, Passes!history
  <2> QED BY <2>1, <2>2, BeginOptionsSound
<1>2. ASSUME NEW r \in Requests, \E c \in Passes!Chals, k \in Creds : Passes!BeginVerify(r, c, k)
      PROVE  PassInv' /\ UNCHANGED used
  <2>1. PICK c \in Passes!Chals, k \in Creds : Passes!BeginVerify(r, c, k)
    BY <1>2
  <2>2. UNCHANGED used
    BY <2>1 DEF Passes!BeginVerify, Passes!history
  <2> QED BY <2>1, <2>2, BeginVerifySound
<1>3. ASSUME NEW r \in Requests, Passes!OptionsReady(r)
      PROVE  PassInv' /\ UNCHANGED used
  BY <1>3, OptionsReadySound DEF Passes!OptionsReady
<1>4. ASSUME NEW r \in Requests, Passes!TakeChallenge(r)
      PROVE  PassInv' /\ UNCHANGED used
  BY <1>4, TakeChallengeSound DEF Passes!TakeChallenge, Passes!history
<1>5. ASSUME NEW r \in Requests, Passes!LoginVerified(r)
      PROVE  PassInv' /\ UNCHANGED used
  BY <1>5, LoginVerifiedSound DEF Passes!LoginVerified, Passes!history
<1>6. ASSUME NEW r \in Requests, Passes!LoginAnswered(r) \/ Passes!RegistrationVerified(r)
      PROVE  PassInv' /\ Passes!LoginsAreStored
  BY <1>6, LoginAnsweredSound, RegistrationVerifiedSound
<1>7. ASSUME NEW r \in Requests, Passes!RegistrationAnswered(r)
      PROVE  PassInv' /\ UNCHANGED used
  BY <1>7, RegistrationAnsweredSound DEF Passes!RegistrationAnswered
<1>8. ASSUME NEW r \in Requests, Passes!Refused(r) \/ Passes!Outdated(r)
      PROVE  PassInv' /\ UNCHANGED used
  BY <1>8, RefusedSound, OutdatedSound DEF Passes!Refused, Passes!Outdated, Passes!history
<1>9. ASSUME NEW k \in Creds, Passes!RemoveCredential(k)
      PROVE  PassInv' /\ UNCHANGED used
  BY <1>9, RemoveCredentialSound DEF Passes!RemoveCredential
<1>10. ASSUME NEW c \in Passes!Chals, Passes!Expire(c)
       PROVE  PassInv' /\ UNCHANGED used
  BY <1>10, ExpireSound DEF Passes!Expire, Passes!history
<1>11. CASE Passes!Reload
  BY <1>11, ReloadSound, NoLogin DEF Passes!Reload, Passes!history
<1> QED
  BY <1>1, <1>2, <1>3, <1>4, <1>5, <1>6, <1>7, <1>8, <1>9, <1>10, <1>11, NoLogin DEF Passes!Next

LEMMA PassRest ==
    ASSUME PassInv, UNCHANGED passkeys
    PROVE  PassInv' /\ Passes!LoginsAreStored
<1>1. UNCHANGED <<usable, passMem, passDisk, passReq, kindOf, made, newest, used, passAdded, passRemoved>>
  BY DEF passkeys
<1>2. /\ passReq' \in [Requests -> Passes!Request] /\ made' \in [Creds -> PasskeyChals \cup {0}]
      /\ \A k \in Creds : made'[k] <= Len(kindOf)
      /\ DOMAIN used' = PasskeyChals /\ \A c \in PasskeyChals : used'[c] \in Seq(Creds)
      /\ passAdded' \in SUBSET Creds
  BY <1>1 DEF PassInv, PassTyped
<1>3. passAdded' \ passRemoved \subseteq passDisk.creds
  BY <1>1 DEF PassInv
<1>4. /\ \A r \in Requests : passReq'[r] = passReq[r]
      /\ \A k \in Creds : made'[k] = made[k]
      /\ \A c \in PasskeyChals : used'[c] = used[c]
  BY <1>1
<1>5. PassInv'
  BY <1>1, <1>2, <1>3, <1>4, StoreRests
<1> QED BY <1>1, <1>5, NoLogin

(***************************************************************************)
(* All of them.                                                            *)
(***************************************************************************)

CredInv == PairInv /\ PassInv /\ KeyInv

LEMMA CredInit == Init => CredInv
BY PairInit, PassInit, KeyInit DEF Init, CredInv

LEMMA CredStep ==
    ASSUME CredInv, [Next]_<<atWork, pairing, passkeys, keys>>
    PROVE  CredInv' /\ Passes!LoginsAreStored
<1> USE DEF CredInv
<1>1. CASE Pairs!Next /\ UNCHANGED <<passkeys, keys>>
  <2>1. UNCHANGED passkeys /\ UNCHANGED keys
    BY <1>1
  <2> QED BY <1>1, <2>1, PairStep, PassRest, KeyRest
<1>2. CASE Passes!Next /\ UNCHANGED <<pairing, keys>>
  <2>1. UNCHANGED pairing /\ UNCHANGED keys
    BY <1>2
  <2> QED BY <1>2, <2>1, PairRest, PassStep, KeyRest
<1>3. CASE SshKeys!Next /\ UNCHANGED <<pairing, passkeys>>
  <2>1. UNCHANGED pairing /\ UNCHANGED passkeys
    BY <1>3
  <2> QED BY <1>3, <2>1, PairRest, PassRest, KeyStep
<1>4. CASE UNCHANGED <<atWork, pairing, passkeys, keys>>
  <2>1. UNCHANGED pairing /\ UNCHANGED passkeys /\ UNCHANGED keys
    BY <1>4
  <2> QED BY <2>1, PairRest, PassRest, KeyRest
<1> QED BY <1>1, <1>2, <1>3, <1>4 DEF Next

LEMMA CredInvariant == Spec => []CredInv
<1>1. CredInv /\ [Next]_<<atWork, pairing, passkeys, keys>> => CredInv'
  BY CredStep
<1> QED BY CredInit, <1>1, PTL DEF Spec

\* A pairing code admits one peer, and a challenge of a passkey or a key lets in or adds once:
\* claimPairingCode() of lib/peers.js spends the code before it stores the peer, takeChallenge() of
\* lib/passkey-store.js takes the challenge before the signature is verified, and consume() of
\* lib/key-auth.js deletes it whatever the signature.
THEOREM SecretsAreSpent == Spec => []SecretsServeOnce
<1>1. CredInv => SecretsServeOnce
  BY PairInvImplies, PassInvImplies, KeyInvImplies DEF CredInv, SecretsServeOnce
<1> QED BY <1>1, CredInvariant, PTL

\* What was answered lasts in the files of peers, passkeys and keys: no crash, failed write or
\* other request takes back a token that was given out or a passkey that was registered, and unless
\* a write broke the key file holds the keys whose additions were answered and no others.
THEOREM AnswersAreKept == Spec => []AnswersLast
<1>1. CredInv => AnswersLast
  BY PairInvImplies, PassInvImplies, KeyInvImplies DEF CredInv, AnswersLast
<1> QED BY <1>1, CredInvariant, PTL

\* The limits hold over crashes and new instances: the failures in a window, the codes that wait,
\* the lines of the key file.
THEOREM LimitsAreKept == Spec => []LimitsHold
<1>1. CredInv => LimitsHold
  BY PairInvImplies, PassInvImplies, KeyInvImplies DEF CredInv, LimitsHold
<1> QED BY <1>1, CredInvariant, PTL

\* What was removed stays out: removePeer() of lib/peers.js, the DELETE of a key in api.js and
\* removeCredential() of lib/passkey-store.js are final, the last also for a login that had read
\* the passkey before.
THEOREM RemovalsAreFinal == Spec => RemovedStaysOut
<1>1. CredInv => Pairs!RemovedStaysRemoved /\ SshKeys!RevokedStaysOut
  BY PairInvImplies, KeyInvImplies DEF CredInv
<1>2. CredInv /\ [Next]_<<atWork, pairing, passkeys, keys>> => Passes!LoginsAreStored
  BY CredStep
<1> QED BY <1>1, <1>2, CredInvariant, PTL DEF Spec, RemovedStaysOut
================================================================================
