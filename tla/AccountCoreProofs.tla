--------------------------- MODULE AccountCoreProofs ---------------------------
(***************************************************************************)
(* The safety properties of AccountCore, for any sets of clients, tokens,  *)
(* lifetimes and patches and any bounds.                                   *)
(***************************************************************************)
EXTENDS AccountCore, TLAPS

\* TypeOK, for what one write of the store may change, and for the rest.
StoreType ==
    /\ mode \in {"running", "stopped", "down"}
    /\ step \in {"turn", "hash", "wipe", "patch"}
    /\ job \in SUBSET PutReq
    /\ cfg \in Config
    /\ held \in SUBSET Tokens
    /\ bearers \in SUBSET Bearers
    /\ disk \in Disk
    /\ open \in SUBSET Conn

OtherType ==
    /\ epoch \in Epochs
    /\ seen \in [Tokens -> Times]
    /\ row \in [Tokens -> Row]
    /\ native \in SUBSET Clients
    /\ puts \in SUBSET PutReq
    /\ logins \in SUBSET LoginReq
    /\ now \in Times
    /\ ended \in SUBSET Tokens

\* A stopped or dead instance has no socket and is in the middle of nothing.
Quiet == mode # "running" => step = "turn" /\ open = {}

\* OpenConnsStand also holds inside PUT config, except between its first two writes.
ConnsStand ==
    step # "wipe" =>
        \A conn \in open :
            /\ mode = "running"
            /\ conn.client \notin cfg.deny
            /\ \/ conn.bearer \in bearers
               \/ conn.session \in held /\ row[conn.session].authVersion = cfg.passwordHash

\* Rows exist for issued tokens only, and were last seen in the past.
Issued ==
    /\ \A t \in held \cup disk.held \cup ended : row[t].authVersion # 0
    /\ \A t \in Tokens : seen[t] <= now

DiskPast == \A t \in Tokens : disk.seen[t] <= now

\* Where PUT config stands between its writes.
Writing ==
    /\ \A r \in puts : r.body.password => r.hash < MaxHash
    /\ step = "hash" => cfg.passwordHash < MaxHash
    /\ step = "patch" => \A r \in job : r.body.password => held = {}

\* No login outlives the process; one of this instance was checked against a hash in force
\* since it began.
Checked ==
    /\ mode = "down" => logins = {}
    /\ \A r \in logins :
           /\ r.epoch <= epoch
           /\ mode = "running" /\ r.epoch = epoch =>
                  /\ r.hash <= cfg.passwordHash
                  /\ r.stage = "verifying" => r.checked \in r.hash .. cfg.passwordHash

IInv ==
    /\ TypeOK
    /\ Quiet
    /\ ConnsStand
    /\ FilesAgree
    /\ RevokedForGood
    /\ Issued
    /\ DiskPast
    /\ Writing
    /\ Checked

-----------------------------------------------------------------------------
(* The two ways in which a write of the store ends *)

\* What holds of the store whether the write succeeded or not.
StoreOK == StoreType /\ Quiet /\ ConnsStand /\ FilesAgree /\ DiskPast

\* TypeOK in its two parts.
LEMMA TypeSplit == TypeOK <=> StoreType /\ OtherType
BY DEF TypeOK, StoreType, OtherType

\* A failed write stops the instance, with any memory and any files.
LEMMA Failed ==
    ASSUME TypeOK,
           NEW h \in SUBSET Tokens, NEW c \in Config, NEW b \in SUBSET Bearers, NEW d \in Disk,
           \A t \in Tokens : d.seen[t] <= now,
           now' = now, StorageFailure(h, c, b, d)
    PROVE  /\ StoreOK'
           /\ mode' = "stopped" /\ step' = "turn" /\ job' = {}
           /\ held' = h /\ cfg' = c /\ disk' = d
<1>1. /\ mode' = "stopped" /\ step' = "turn" /\ job' = {} /\ open' = {}
      /\ held' = h /\ cfg' = c /\ bearers' = b /\ disk' = d
  BY DEF StorageFailure, Stop
<1>2. StoreType'
  BY <1>1 DEF StoreType
<1>3. Quiet' /\ ConnsStand' /\ FilesAgree' /\ DiskPast'
  BY <1>1 DEF Quiet, ConnsStand, FilesAgree, DiskPast
<1> QED BY <1>1, <1>2, <1>3 DEF StoreOK

\* securityChanged() over files that agree with memory leaves them in agreement, keeps
\* only sockets that stand, and adds no session.
LEMMA Notified ==
    ASSUME TypeOK, mode = "running", UNCHANGED <<row, now>>, seen' \in [Tokens -> Times],
           NEW h \in SUBSET Tokens, NEW c \in Config, NEW b \in SUBSET Bearers, NEW d \in Disk,
           NEW s \in {"turn", "hash", "wipe", "patch"},
           d.cfg = c, d.held = h, d.bearers = b, \A t \in h : d.seen[t] <= seen'[t],
           \A t \in Tokens : d.seen[t] <= now /\ seen'[t] <= now,
           Notify(h, c, b, d, s)
    PROVE  /\ StoreOK'
           /\ cfg' = c
           /\ held' \subseteq h /\ disk'.held \subseteq h
           /\ \/ mode' = "running" /\ step' = s /\ (s # "turn" => job' = job)
              \/ mode' = "stopped" /\ step' = "turn"
<1> DEFINE dead == DeadRows(h, c)
<1>0. dead \subseteq h
  BY DEF DeadRows
<1>1. CASE /\ held' = h \ dead /\ cfg' = c /\ bearers' = b
           /\ disk' = IF dead = {} THEN d ELSE [d EXCEPT !.held = h \ dead, !.seen = seen']
           /\ open' = {conn \in open : Allowed(conn, h, c, b)}
           /\ Proceed(s)
  <2> DEFINE e == [d EXCEPT !.held = h \ dead, !.seen = seen']
  <2>1. /\ e \in Disk /\ e.cfg = c /\ e.held = h \ dead /\ e.bearers = b /\ e.seen = seen'
    BY <1>0 DEF Disk
  <2>2. /\ disk' \in Disk /\ disk'.cfg = c /\ disk'.held = h \ dead /\ disk'.bearers = b
        /\ \A t \in h : disk'.seen[t] <= seen'[t]
        /\ \A t \in Tokens : disk'.seen[t] <= now
    <3>1. CASE dead = {}
      BY <1>1, <3>1
    <3>2. CASE dead # {}
      <4>1. disk' = e
        BY <1>1, <3>2
      <4>2. \A t \in h : seen'[t] <= seen'[t]
        BY DEF Times
      <4> QED BY <4>1, <4>2, <2>1
    <3> QED BY <3>1, <3>2
  <2>3. mode' = "running" /\ step' = s /\ job' = IF s = "turn" THEN {} ELSE job
    BY <1>1 DEF Proceed
  <2>4. StoreType'
    <3>1. open' \in SUBSET Conn /\ job' \in SUBSET PutReq
      BY <1>1, <2>3 DEF TypeOK
    <3> QED BY <1>0, <1>1, <2>2, <2>3, <3>1 DEF StoreType
  <2>5. ConnsStand'
    <3> SUFFICES ASSUME NEW conn \in open'
                 PROVE  /\ conn.client \notin c.deny
                        /\ \/ conn.bearer \in b
                           \/ /\ conn.session \in h \ dead
                              /\ row[conn.session].authVersion = c.passwordHash
      BY <1>1, <2>3 DEF ConnsStand
    <3>1. conn \in open /\ Allowed(conn, h, c, b)
      BY <1>1
    <3>2. conn.session \in h /\ Live(conn.session, h, c) => conn.session \notin dead
      BY DEF DeadRows
    <3> QED BY <3>1, <3>2 DEF Allowed, Authenticated, Live
  <2>6. Quiet' /\ FilesAgree' /\ DiskPast'
    BY <1>0, <1>1, <2>2, <2>3 DEF Quiet, FilesAgree, DiskPast
  <2> QED BY <1>0, <1>1, <2>2, <2>3, <2>4, <2>5, <2>6 DEF StoreOK
<1>2. ASSUME NEW gone \in SUBSET dead,
             StorageFailure(h \ dead, c, b,
                            IF gone = {} THEN d ELSE [d EXCEPT !.held = h \ gone, !.seen = seen'])
      PROVE  /\ StoreOK'
             /\ cfg' = c
             /\ held' \subseteq h /\ disk'.held \subseteq h
             /\ mode' = "stopped" /\ step' = "turn"
  <2> DEFINE f == IF gone = {} THEN d ELSE [d EXCEPT !.held = h \ gone, !.seen = seen']
  <2>1. h \ dead \in SUBSET Tokens
    OBVIOUS
  <2>2. f \in Disk /\ f.held \subseteq h /\ \A t \in Tokens : f.seen[t] <= now
    <3>1. CASE gone = {}
      BY <3>1
    <3>2. CASE gone # {}
      BY <3>2 DEF Disk
    <3> QED BY <3>1, <3>2
  <2>3. StorageFailure(h \ dead, c, b, f)
    BY <1>2
  <2> HIDE DEF dead, f
  <2>4. StoreOK' /\ mode' = "stopped" /\ step' = "turn" /\ held' = h \ dead /\ cfg' = c /\ disk' = f
    BY <2>1, <2>2, <2>3, Failed
  <2> QED BY <2>2, <2>4
<1> QED BY <1>1, <1>2 DEF Notify

\* A session row that is deleted is gone from memory and, if the instance goes on, from
\* the files; nothing is added.
LEMMA Removed ==
    ASSUME IInv, mode = "running", step = "turn", UNCHANGED <<row, now, seen>>,
           NEW t \in Tokens, RemoveSession(t)
    PROVE  /\ StoreOK'
           /\ cfg' = cfg
           /\ held' \subseteq held \ {t} /\ disk'.held \subseteq disk.held
           /\ \/ mode' = "running" /\ t \notin disk'.held
              \/ mode' = "stopped"
           /\ step' = "turn"
<1> DEFINE h == held \ {t}
<1>0. TypeOK /\ FilesAgree
  BY DEF IInv
<1> DEFINE d == DiskWithState(h)
<1>1. /\ d \in Disk /\ d.cfg = cfg /\ d.held = h /\ d.bearers = bearers
      /\ \A u \in h : d.seen[u] <= seen'[u]
      /\ \A u \in Tokens : d.seen[u] <= now /\ disk.seen[u] <= now /\ seen'[u] <= now
  <2>1. d = [disk EXCEPT !.held = h, !.seen = seen']
    BY DEF DiskWithState
  <2>2. \A u \in h : seen'[u] <= seen'[u]
    BY <1>0 DEF TypeOK, Times
  <2>3. \A u \in Tokens : seen[u] <= now /\ disk.seen[u] <= now
    BY DEF IInv, Issued, DiskPast
  <2> QED BY <1>0, <2>1, <2>2, <2>3 DEF TypeOK, Disk, FilesAgree
<1>2. h \in SUBSET Tokens /\ cfg \in Config /\ bearers \in SUBSET Bearers /\ disk \in Disk
      /\ seen' \in [Tokens -> Times]
  BY <1>0 DEF TypeOK
<1>3. CASE Notify(h, cfg, bearers, d, "turn")
  <2> HIDE DEF d
  <2>1. /\ StoreOK' /\ cfg' = cfg /\ held' \subseteq h /\ disk'.held \subseteq h
        /\ \/ mode' = "running" /\ step' = "turn"
           \/ mode' = "stopped" /\ step' = "turn"
    BY <1>0, <1>1, <1>2, <1>3, Notified
  <2> QED BY <1>0, <2>1 DEF FilesAgree
<1>4. CASE StorageFailure(h, cfg, bearers, disk)
  BY <1>0, <1>1, <1>2, <1>4, Failed
<1> QED BY <1>3, <1>4 DEF RemoveSession

-----------------------------------------------------------------------------
(* Every action keeps the invariant.  For one that writes the store, StoreOK' and what    *)
(* may be in the store come from the lemmas above; the other parts follow from them.      *)

\* A write that adds no session, from which no step but "hash" may follow.
LEMMA Shrunk ==
    ASSUME IInv, mode = "running", StoreOK', mode' # "down",
           UNCHANGED <<epoch, row, native, logins, now>>,
           seen' \in [Tokens -> Times], \A t \in Tokens : seen'[t] <= now,
           puts' \subseteq puts,
           held' \subseteq held, disk'.held \subseteq disk.held,
           cfg.passwordHash <= cfg'.passwordHash,
           step' # "hash", step' = "patch" => held' = {},
           ended \subseteq ended', ended' \subseteq Tokens,
           \A t \in ended' \ ended : /\ row[t].authVersion # 0
                                     /\ t \notin disk'.held /\ t \notin held'
    PROVE  IInv'
<1>1. TypeOK'
  <2>1. OtherType'
    BY TypeSplit DEF IInv, OtherType
  <2> QED BY <2>1 DEF StoreOK, TypeOK, StoreType, OtherType
<1>2. RevokedForGood'
  BY DEF IInv, RevokedForGood, FilesAgree
<1>3. Issued'
  BY DEF IInv, Issued
<1>4. Writing'
  BY DEF IInv, Writing
<1>5. Checked'
  <2>1. ASSUME NEW r \in logins, r.stage = "verifying", r.checked \in r.hash .. cfg.passwordHash
        PROVE  r.checked \in r.hash .. cfg'.passwordHash
    BY <1>1, <2>1 DEF IInv, TypeOK, Config, Hashes, LoginReq
  <2>2. ASSUME NEW r \in logins, r.hash <= cfg.passwordHash
        PROVE  r.hash <= cfg'.passwordHash
    BY <1>1, <2>2 DEF IInv, TypeOK, Config, Hashes, LoginReq
  <2> QED BY <2>1, <2>2 DEF IInv, Checked
<1> QED BY <1>1, <1>2, <1>3, <1>4, <1>5 DEF IInv, StoreOK

\* The facts of the invariant that the lemmas ask for, in one place.
LEMMA StoreFacts ==
    ASSUME IInv
    PROVE  /\ TypeOK /\ FilesAgree
           /\ held \in SUBSET Tokens /\ cfg \in Config /\ bearers \in SUBSET Bearers
           /\ disk \in Disk /\ seen \in [Tokens -> Times] /\ ended \subseteq Tokens
           /\ now \in Nat /\ cfg.passwordHash \in Nat
           /\ \A t \in Tokens : seen[t] <= now /\ disk.seen[t] <= now
           /\ mode = "running" => /\ disk.cfg = cfg /\ disk.held = held /\ disk.bearers = bearers
                                  /\ \A t \in held : disk.seen[t] <= seen[t]
BY BoundsAssumption DEF IInv, TypeOK, FilesAgree, Issued, DiskPast, Times, Config, Hashes

\* A touch keeps lastSeenAt in its range and moves none backward.
LEMMA Touched ==
    ASSUME IInv, NEW t \in Tokens, Touch(t)
    PROVE  /\ seen' \in [Tokens -> Times]
           /\ \A u \in Tokens : seen'[u] <= now /\ seen[u] <= seen'[u]
BY BoundsAssumption DEF IInv, TypeOK, Issued, Touch, Times

\* A touch moves lastSeenAt away from what the file says, and only forward.
LEMMA TouchedLater ==
    ASSUME IInv, mode = "running", NEW t \in Tokens, Touch(t)
    PROVE  \A u \in held : disk.seen[u] <= seen'[u]
<1> SUFFICES ASSUME NEW u \in held PROVE disk.seen[u] <= seen'[u]
  OBVIOUS
<1>1. disk.seen[u] \in Int /\ seen[u] \in Int /\ seen'[u] \in Int
  BY StoreFacts, Touched, BoundsAssumption DEF Disk, Times
<1> QED BY <1>1, StoreFacts, Touched

\* RecheckTimer keeps the invariant.
LEMMA RecheckStep ==
    ASSUME IInv, RecheckTimer
    PROVE  IInv'
<1>1. mode = "running" /\ Notify(held, cfg, bearers, disk, "turn")
      /\ UNCHANGED <<epoch, seen, row, native, puts, logins, now, ended>>
  BY DEF RecheckTimer, Idle
<1>2. /\ StoreOK' /\ cfg' = cfg /\ held' \subseteq held /\ disk'.held \subseteq held
      /\ step' = "turn" /\ mode' # "down"
  BY <1>1, StoreFacts, Notified
<1> QED BY <1>1, <1>2, StoreFacts, Shrunk

\* PurgeDead keeps the invariant.
LEMMA PurgeDeadStep ==
    ASSUME IInv, NEW client \in Clients, NEW t \in Tokens, PurgeDead(client, t)
    PROVE  IInv'
<1>1. mode = "running" /\ step = "turn" /\ RemoveSession(t)
      /\ UNCHANGED <<epoch, seen, row, native, puts, logins, now, ended>>
  BY DEF PurgeDead, Idle
<1> QED BY <1>1, StoreFacts, Removed, Shrunk

\* Logout keeps the invariant.
LEMMA LogoutStep ==
    ASSUME IInv, NEW client \in Clients, NEW t \in Tokens, Logout(client, t)
    PROVE  IInv'
<1>1. mode = "running" /\ step = "turn" /\ RemoveSession(t) /\ t \in held
      /\ ended' = (IF mode' = "running" THEN ended \cup {t} ELSE ended)
      /\ UNCHANGED <<epoch, seen, row, native, puts, logins, now>>
  BY DEF Logout, Idle
<1>2. row[t].authVersion # 0
  BY <1>1 DEF IInv, Issued
<1> QED BY <1>1, <1>2, StoreFacts, Removed, Shrunk

\* RevokeBearer keeps the invariant.
LEMMA RevokeBearerStep ==
    ASSUME IInv, NEW client \in Clients, NEW t \in Tokens, NEW k \in Bearers,
           RevokeBearer(client, t, k)
    PROVE  IInv'
<1> DEFINE b == bearers \ {k}
           d == [disk EXCEPT !.bearers = b]
<1>1. /\ mode = "running" /\ Touch(t)
      /\ \/ Notify(held, cfg, b, d, "turn")
         \/ StorageFailure(held, cfg, b, disk)
      /\ UNCHANGED <<epoch, row, native, puts, logins, now, ended>>
  BY DEF RevokeBearer, Idle
<1>2. /\ b \in SUBSET Bearers /\ d \in Disk /\ d.cfg = cfg /\ d.held = held /\ d.bearers = b
      /\ \A u \in held : d.seen[u] <= seen'[u]
      /\ \A u \in Tokens : d.seen[u] <= now
  <2>1. d \in Disk /\ d.cfg = cfg /\ d.held = held /\ d.bearers = b /\ d.seen = disk.seen
    BY <1>1, StoreFacts DEF Disk
  <2>2. \A u \in held : disk.seen[u] <= seen'[u]
    BY <1>1, TouchedLater
  <2> QED BY <2>1, <2>2, StoreFacts
<1> HIDE DEF b, d
<1>3. /\ StoreOK' /\ cfg' = cfg /\ held' \subseteq held /\ disk'.held \subseteq held
      /\ step' = "turn" /\ mode' # "down"
  <2>1. CASE Notify(held, cfg, b, d, "turn")
    BY <1>1, <1>2, <2>1, StoreFacts, Touched, Notified
  <2>2. CASE StorageFailure(held, cfg, b, disk)
    BY <1>1, <1>2, <2>2, StoreFacts, Failed
  <2> QED BY <1>1, <2>1, <2>2
<1> QED BY <1>1, <1>3, StoreFacts, Touched, Shrunk

\* DecideVisitor keeps the invariant.
LEMMA DecideVisitorStep ==
    ASSUME IInv, NEW client \in Clients, NEW t \in Tokens, NEW target \in Clients,
           NEW list \in {"allow", "deny"}, DecideVisitor(client, t, target, list)
    PROVE  IInv'
<1> DEFINE c == Listed(cfg, target, list)
           d == [disk EXCEPT !.cfg = c]
<1>1. /\ mode = "running" /\ Touch(t)
      /\ \/ Notify(held, c, bearers, d, "turn")
         \/ StorageFailure(held, c, bearers, disk)
      /\ UNCHANGED <<epoch, row, native, puts, logins, now, ended>>
  BY DEF DecideVisitor, Idle
<1>2. c \in Config /\ c.passwordHash = cfg.passwordHash
  BY StoreFacts DEF Listed, Config
<1>3. /\ d \in Disk /\ d.cfg = c /\ d.held = held /\ d.bearers = bearers
      /\ \A u \in held : d.seen[u] <= seen'[u]
      /\ \A u \in Tokens : d.seen[u] <= now
  <2>1. d \in Disk /\ d.cfg = c /\ d.held = held /\ d.bearers = bearers /\ d.seen = disk.seen
    BY <1>1, <1>2, StoreFacts DEF Disk
  <2> QED BY <1>1, <2>1, StoreFacts, TouchedLater
<1> HIDE DEF c, d
<1>4. /\ StoreOK' /\ cfg' = c /\ held' \subseteq held /\ disk'.held \subseteq held
      /\ step' = "turn" /\ mode' # "down"
  <2>1. CASE Notify(held, c, bearers, d, "turn")
    BY <1>1, <1>2, <1>3, <2>1, StoreFacts, Touched, Notified
  <2>2. CASE StorageFailure(held, c, bearers, disk)
    BY <1>1, <1>2, <2>2, StoreFacts, Failed
  <2> QED BY <1>1, <2>1, <2>2
<1> QED BY <1>1, <1>2, <1>4, StoreFacts, Touched, Shrunk

\* SaveHash keeps the invariant.
LEMMA SaveHashStep ==
    ASSUME IInv, SaveHash
    PROVE  IInv'
<1> DEFINE c == [cfg EXCEPT !.passwordHash = @ + 1]
<1>1. /\ step = "hash" /\ mode = "running"
      /\ \/ /\ cfg' = c /\ disk' = [disk EXCEPT !.cfg = c]
            /\ mode' = mode /\ step' = "wipe" /\ job' = job
            /\ UNCHANGED <<held, bearers, open>>
         \/ StorageFailure(held, c, bearers, disk)
      /\ UNCHANGED <<epoch, seen, row, native, puts, logins, now, ended>>
  BY DEF SaveHash, Proceed, IInv, Quiet
<1>2. c \in Config /\ c.passwordHash = cfg.passwordHash + 1
  BY <1>1, StoreFacts, BoundsAssumption DEF IInv, Writing, Config, Hashes
<1> HIDE DEF c
<1>3. /\ StoreOK' /\ cfg' = c /\ held' = held /\ disk'.held = disk.held
      /\ step' # "hash" /\ step' # "patch" /\ mode' # "down"
  <2>1. CASE StorageFailure(held, c, bearers, disk)
    BY <1>1, <1>2, <2>1, StoreFacts, Failed
  <2>2. CASE /\ cfg' = c /\ disk' = [disk EXCEPT !.cfg = c]
             /\ mode' = mode /\ step' = "wipe" /\ job' = job
             /\ UNCHANGED <<held, bearers, open>>
    <3>1. /\ disk' \in Disk /\ disk'.cfg = c /\ disk'.held = disk.held
          /\ disk'.seen = disk.seen /\ disk'.bearers = disk.bearers
      BY <1>2, <2>2, StoreFacts DEF Disk
    <3>2. StoreType'
      BY <1>1, <1>2, <2>2, <3>1 DEF IInv, TypeOK, StoreType
    <3>3. Quiet' /\ ConnsStand' /\ FilesAgree' /\ DiskPast'
      BY <1>1, <2>2, <3>1, StoreFacts DEF Quiet, ConnsStand, FilesAgree, DiskPast
    <3> QED BY <1>1, <2>2, <3>1, <3>2, <3>3 DEF StoreOK
  <2> QED BY <1>1, <2>1, <2>2
<1> QED BY <1>1, <1>2, <1>3, StoreFacts, Shrunk

\* WipeSessions keeps the invariant.
LEMMA WipeSessionsStep ==
    ASSUME IInv, WipeSessions
    PROVE  IInv'
<1> DEFINE d == DiskWithState({})
<1>1. /\ mode = "running"
      /\ \/ Notify({}, cfg, bearers, d, "patch")
         \/ StorageFailure({}, cfg, bearers, disk)
      /\ UNCHANGED <<epoch, seen, row, native, puts, logins, now, ended>>
  BY DEF WipeSessions, IInv, Quiet
<1>2. /\ d \in Disk /\ d.cfg = cfg /\ d.held = {} /\ d.bearers = bearers
      /\ {} \in SUBSET Tokens /\ \A u \in Tokens : d.seen[u] <= now
  BY <1>1, StoreFacts DEF DiskWithState, Disk
<1> HIDE DEF d
<1>3. /\ StoreOK' /\ cfg' = cfg /\ held' = {} /\ disk'.held \subseteq disk.held
      /\ step' # "hash" /\ mode' # "down"
  <2>1. CASE Notify({}, cfg, bearers, d, "patch")
    BY <1>1, <1>2, <2>1, StoreFacts, Notified
  <2>2. CASE StorageFailure({}, cfg, bearers, disk)
    BY <1>1, <1>2, <2>2, StoreFacts, Failed
  <2> QED BY <1>1, <2>1, <2>2
<1> QED BY <1>1, <1>3, StoreFacts, Shrunk

\* RefusePut keeps the invariant.
LEMMA RefusePutStep ==
    ASSUME IInv, NEW r \in puts, RefusePut(r)
    PROVE  IInv'
<1>1. /\ step = "turn" /\ puts' = puts \ {r}
      /\ UNCHANGED <<epoch, seen, row, native, logins, now, ended>>
      /\ \/ mode = "running" /\ RemoveSession(r.token)
         \/ UNCHANGED <<mode, step, job, cfg, held, bearers, disk, open>>
  BY DEF RefusePut, Idle
<1>2. r.token \in Tokens
  BY DEF IInv, TypeOK, PutReq
<1>3. CASE mode = "running" /\ RemoveSession(r.token)
  BY <1>1, <1>2, <1>3, StoreFacts, Removed, Shrunk
<1>4. CASE UNCHANGED <<mode, step, job, cfg, held, bearers, disk, open>>
  <2>1. TypeOK' /\ Quiet' /\ ConnsStand' /\ FilesAgree' /\ DiskPast'
    BY <1>1, <1>4 DEF IInv, TypeOK, Quiet, ConnsStand, FilesAgree, DiskPast
  <2> QED BY <1>1, <1>4, <2>1 DEF IInv, RevokedForGood, Issued, Writing, Checked
<1> QED BY <1>1, <1>3, <1>4

\* ApplyPatch keeps the invariant.
LEMMA ApplyPatchStep ==
    ASSUME IInv, ApplyPatch
    PROVE  IInv'
<1> PICK r \in job :
        LET c == Patched(cfg, r.body) IN
        /\ step = "patch"
        /\ UNCHANGED seen
        /\ \/ /\ Notify(held, c, bearers, [disk EXCEPT !.cfg = c], "turn")
              /\ ended' = IF r.body.password
                          THEN ended \cup {t \in Tokens : row[t].authVersion \in 1 .. r.hash}
                          ELSE ended
           \/ /\ StorageFailure(held, c, bearers, disk)
              /\ UNCHANGED ended
        /\ UNCHANGED <<epoch, row, native, puts, logins, now>>
  BY DEF ApplyPatch
<1> DEFINE c == Patched(cfg, r.body)
           d == [disk EXCEPT !.cfg = c]
           revoked == {t \in Tokens : row[t].authVersion \in 1 .. r.hash}
<1>1. mode = "running" /\ step = "patch"
  BY DEF IInv, Quiet
<1>2. c \in Config /\ c.passwordHash = cfg.passwordHash
  <2>1. r.body \in Patch
    BY PatchesAssumption DEF IInv, TypeOK, PutReq
  <2> QED BY <2>1, StoreFacts DEF Patched, Config, Patch
<1>3. /\ d \in Disk /\ d.cfg = c /\ d.held = held /\ d.bearers = bearers
      /\ \A u \in held : d.seen[u] <= seen'[u]
      /\ \A u \in Tokens : d.seen[u] <= now
  <2>1. d \in Disk /\ d.cfg = c /\ d.held = held /\ d.bearers = bearers /\ d.seen = disk.seen
    BY <1>1, <1>2, StoreFacts DEF Disk
  <2> QED BY <1>1, <2>1, StoreFacts
<1>4. r.body.password => held = {} /\ disk.held = {}
  BY <1>1, StoreFacts DEF IInv, Writing
<1>5. \A t \in revoked : row[t].authVersion # 0
  OBVIOUS
<1>6. ended' = ended \/ (r.body.password /\ ended' = ended \cup revoked)
  OBVIOUS
<1>7. Notify(held, c, bearers, d, "turn") \/ StorageFailure(held, c, bearers, disk)
  OBVIOUS
<1> HIDE DEF c, d
<1>8. /\ StoreOK' /\ cfg' = c /\ held' \subseteq held /\ disk'.held \subseteq disk.held
      /\ step' = "turn" /\ mode' # "down"
  <2>1. CASE Notify(held, c, bearers, d, "turn")
    BY <1>1, <1>2, <1>3, <2>1, StoreFacts, Notified
  <2>2. CASE StorageFailure(held, c, bearers, disk)
    BY <1>2, <2>2, StoreFacts, Failed
  <2> QED BY <1>7, <2>1, <2>2
<1>9. /\ ended \subseteq ended' /\ ended' \subseteq Tokens
      /\ \A t \in ended' \ ended : row[t].authVersion # 0 /\ t \notin disk'.held /\ t \notin held'
  <2>1. CASE ended' = ended
    BY <2>1, StoreFacts
  <2>2. CASE r.body.password /\ ended' = ended \cup revoked
    <3>1. held' = {} /\ disk'.held = {}
      BY <1>4, <1>8, <2>2
    <3> QED BY <1>5, <2>2, <3>1, StoreFacts
  <2> QED BY <1>6, <2>1, <2>2
<1> QED BY <1>1, <1>2, <1>8, <1>9, StoreFacts, Shrunk

\* A session that is issued is new, bound to the current password, and in the files.
LEMMA Granted ==
    ASSUME IInv, mode = "running", step = "turn", NEW client \in Clients, IssueSession(client),
           puts' = puts, logins' \subseteq logins
    PROVE  /\ IInv'
           /\ \A t \in Tokens : row'[t] # row[t] => row'[t].authVersion = cfg.passwordHash
<1> PICK t \in Tokens :
        /\ row[t].authVersion = 0
        /\ \/ /\ held' = held \cup {t}
              /\ seen' = [seen EXCEPT ![t] = now]
              /\ row' = [row EXCEPT ![t] = NewRow]
              /\ disk' = DiskWithState(held \cup {t})
              /\ native' = native \cup {client}
              /\ UNCHANGED <<mode, step, job, cfg, bearers, open>>
           \/ /\ UNCHANGED <<seen, row, native>>
              /\ \E d \in {disk, DiskWithState(held)} : StorageFailure(held, cfg, bearers, d)
        /\ UNCHANGED <<epoch, now, ended>>
  BY DEF IssueSession
<1>1. ASSUME NEW d \in {disk, DiskWithState(held)}, StorageFailure(held, cfg, bearers, d),
             UNCHANGED <<seen, row, native>>
      PROVE  /\ IInv'
             /\ \A u \in Tokens : row'[u] # row[u] => row'[u].authVersion = cfg.passwordHash
  <2>0. d \in Disk /\ d.held = held /\ \A u \in Tokens : d.seen[u] <= now
    BY <1>1, StoreFacts DEF DiskWithState, Disk
  <2>1. /\ StoreOK' /\ held' = held /\ cfg' = cfg /\ disk'.held = held
        /\ mode' = "stopped" /\ step' = "turn"
    BY <1>1, <2>0, StoreFacts, Failed
  <2>2. TypeOK'
    <3>1. OtherType'
      BY <1>1 DEF IInv, TypeOK, OtherType
    <3> QED BY <2>1, <3>1 DEF StoreOK, TypeOK, StoreType, OtherType
  <2> QED BY <1>1, <2>1, <2>2 DEF IInv, StoreOK, RevokedForGood, Issued, Writing, Checked
<1>2. CASE /\ held' = held \cup {t}
           /\ seen' = [seen EXCEPT ![t] = now]
           /\ row' = [row EXCEPT ![t] = NewRow]
           /\ disk' = DiskWithState(held \cup {t})
           /\ native' = native \cup {client}
           /\ UNCHANGED <<mode, step, job, cfg, bearers, open>>
  <2>1. NewRow \in Row /\ NewRow.authVersion = cfg.passwordHash /\ NewRow.authVersion # 0
    BY BoundsAssumption DEF IInv, TypeOK, NewRow, Row, Config, Hashes
  <2>2. /\ seen' \in [Tokens -> Times] /\ row' \in [Tokens -> Row] /\ row'[t] = NewRow
        /\ \A u \in Tokens : (u # t => row'[u] = row[u]) /\ seen'[u] <= now
    BY <1>2, <2>1, BoundsAssumption DEF IInv, TypeOK, Issued, Times
  <2>3. /\ disk' \in Disk /\ disk'.cfg = cfg /\ disk'.held = held \cup {t}
        /\ disk'.bearers = bearers /\ disk'.seen = seen'
    BY <1>2, <2>2, StoreFacts DEF DiskWithState, Disk
  <2>4. TypeOK'
    BY <1>2, <2>2, <2>3 DEF IInv, TypeOK
  <2>5. t \notin held /\ t \notin ended
    BY DEF IInv, Issued
  <2>6. ConnsStand'
    BY <1>2, <2>2, <2>5 DEF IInv, ConnsStand
  <2>7. Quiet' /\ FilesAgree' /\ DiskPast'
    <3>1. \A u \in held' : seen'[u] <= seen'[u]
      BY <2>4 DEF TypeOK, Times
    <3> QED BY <1>2, <2>2, <2>3, <3>1 DEF IInv, Quiet, FilesAgree, DiskPast
  <2>8. RevokedForGood' /\ Issued'
    BY <1>2, <2>1, <2>2, <2>3, <2>5, StoreFacts DEF IInv, RevokedForGood, Issued
  <2>9. Writing' /\ Checked'
    BY <1>2 DEF IInv, Writing, Checked
  <2> QED BY <2>1, <2>2, <2>4, <2>6, <2>7, <2>8, <2>9 DEF IInv
<1> QED BY <1>1, <1>2

\* OpenConn keeps the invariant.
LEMMA OpenConnStep ==
    ASSUME IInv, NEW client \in Clients, NEW t \in Tokens \cup {NoToken},
           NEW b \in Bearers \cup {NoBearer}, OpenConn(client, t, b)
    PROVE  IInv'
<1> USE DEF OpenConn, Idle
<1>0. /\ seen' \in [Tokens -> Times]
      /\ \A u \in Tokens : seen'[u] <= now
      /\ \A u \in held : disk.seen[u] <= seen'[u]
  <2>1. CASE t \in held
    BY <2>1, Touched, TouchedLater, StoreFacts
  <2>2. CASE t \notin held
    BY <2>2, StoreFacts
  <2> QED BY <2>1, <2>2
<1>1. CASE StorageFailure(held, cfg, bearers, disk)
  <2>1. StoreOK' /\ mode' = "stopped" /\ step' = "turn" /\ held' = held /\ cfg' = cfg /\ disk' = disk
    BY <1>1, StoreFacts, Failed
  <2> QED BY <1>0, <2>1, StoreFacts, Shrunk
<1>2. CASE /\ open' = open \cup {[client |-> client, session |-> t, bearer |-> b]}
           /\ UNCHANGED <<mode, step, job, cfg, held, bearers, disk>>
  <2>1. TypeOK'
    BY <1>0, <1>2 DEF IInv, TypeOK, Conn
  <2>2. Quiet' /\ ConnsStand'
    BY <1>2 DEF IInv, Quiet, ConnsStand, Authenticated, Live
  <2>3. FilesAgree' /\ RevokedForGood' /\ Issued' /\ DiskPast'
    BY <1>0, <1>2, StoreFacts DEF IInv, FilesAgree, RevokedForGood, Issued, DiskPast
  <2>4. Writing' /\ Checked'
    BY <1>2 DEF IInv, Writing, Checked
  <2> QED BY <2>1, <2>2, <2>3, <2>4 DEF IInv
<1> QED BY <1>1, <1>2

\* AuthMe keeps the invariant.
LEMMA AuthMeStep ==
    ASSUME IInv, NEW client \in Clients, NEW t \in Tokens, AuthMe(client, t)
    PROVE  IInv'
<1> USE DEF AuthMe, Idle
<1>0. /\ seen' \in [Tokens -> Times]
      /\ \A u \in Tokens : seen'[u] <= now
      /\ \A u \in held : disk.seen[u] <= seen'[u]
  BY Touched, TouchedLater
<1>1. TypeOK'
  BY <1>0 DEF IInv, TypeOK
<1>2. Quiet' /\ ConnsStand' /\ FilesAgree'
  BY <1>0 DEF IInv, Quiet, ConnsStand, FilesAgree
<1>3. RevokedForGood' /\ Issued' /\ DiskPast'
  BY <1>0, StoreFacts DEF IInv, RevokedForGood, Issued, DiskPast
<1>4. Writing' /\ Checked'
  BY DEF IInv, Writing, Checked
<1> QED BY <1>1, <1>2, <1>3, <1>4 DEF IInv

\* CloseConn keeps the invariant.
LEMMA CloseConnStep ==
    ASSUME IInv, NEW conn \in open, CloseConn(conn)
    PROVE  IInv'
<1> USE DEF CloseConn, Idle
<1>1. TypeOK'
  BY BoundsAssumption DEF IInv, TypeOK
<1>2. Quiet' /\ ConnsStand' /\ FilesAgree'
  BY DEF IInv, Quiet, ConnsStand, FilesAgree
<1>3. RevokedForGood' /\ Issued' /\ DiskPast'
  BY StoreFacts DEF IInv, RevokedForGood, Issued, DiskPast
<1>4. Writing'
  BY DEF IInv, Writing
<1>5. Checked'
  BY StoreFacts DEF IInv, Checked
<1> QED BY <1>1, <1>2, <1>3, <1>4, <1>5 DEF IInv

\* RestoreNative keeps the invariant.
LEMMA RestoreNativeStep ==
    ASSUME IInv, NEW client \in Clients, NEW t \in Tokens, RestoreNative(client, t)
    PROVE  IInv'
<1> USE DEF RestoreNative, Idle
<1>1. TypeOK'
  BY BoundsAssumption DEF IInv, TypeOK
<1>2. Quiet' /\ ConnsStand' /\ FilesAgree'
  BY DEF IInv, Quiet, ConnsStand, FilesAgree
<1>3. RevokedForGood' /\ Issued' /\ DiskPast'
  BY StoreFacts DEF IInv, RevokedForGood, Issued, DiskPast
<1>4. Writing'
  BY DEF IInv, Writing
<1>5. Checked'
  BY StoreFacts DEF IInv, Checked
<1> QED BY <1>1, <1>2, <1>3, <1>4, <1>5 DEF IInv

\* StartPut keeps the invariant.
LEMMA StartPutStep ==
    ASSUME IInv, NEW client \in Clients, NEW t \in Tokens, NEW body \in Patches, StartPut(client, t, body)
    PROVE  IInv'
<1> USE DEF StartPut, Idle
<1>0. /\ seen' \in [Tokens -> Times]
      /\ \A u \in Tokens : seen'[u] <= now /\ seen[u] <= seen'[u]
  BY Touched
<1>1. TypeOK'
  BY <1>0, BoundsAssumption DEF IInv, TypeOK, PutReq, Config, Times, Hashes
<1>2. Quiet' /\ ConnsStand' /\ FilesAgree'
  <2>1. Quiet' /\ ConnsStand'
    BY DEF IInv, Quiet, ConnsStand
  <2>2. \A u \in held : disk.seen[u] <= seen'[u]
    BY TouchedLater
  <2> QED BY <2>1, <2>2 DEF IInv, FilesAgree
<1>3. RevokedForGood' /\ Issued' /\ DiskPast'
  BY <1>0, StoreFacts DEF IInv, RevokedForGood, Issued, DiskPast
<1>4. Writing'
  BY DEF IInv, Writing
<1>5. Checked'
  BY StoreFacts DEF IInv, Checked
<1> QED BY <1>1, <1>2, <1>3, <1>4, <1>5 DEF IInv

\* BeginPut keeps the invariant.
LEMMA BeginPutStep ==
    ASSUME IInv, NEW r \in puts, BeginPut(r)
    PROVE  IInv'
<1> USE DEF BeginPut, Idle, StillAuthorized, StillCurrent
<1>1. TypeOK'
  BY BoundsAssumption DEF IInv, TypeOK
<1>2. Quiet' /\ ConnsStand' /\ FilesAgree'
  BY DEF IInv, Quiet, ConnsStand, FilesAgree
<1>3. RevokedForGood' /\ Issued' /\ DiskPast'
  BY StoreFacts DEF IInv, RevokedForGood, Issued, DiskPast
<1>4. Writing'
  BY DEF IInv, Writing
<1>5. Checked'
  BY StoreFacts DEF IInv, Checked
<1> QED BY <1>1, <1>2, <1>3, <1>4, <1>5 DEF IInv

\* StartLogin keeps the invariant.
LEMMA StartLoginStep ==
    ASSUME IInv, NEW client \in Clients, NEW password \in Hashes, StartLogin(client, password)
    PROVE  IInv'
<1> USE DEF StartLogin, Idle, memory
<1>1. TypeOK'
  BY BoundsAssumption DEF IInv, TypeOK, LoginReq, Config, Hashes
<1>2. Quiet' /\ ConnsStand' /\ FilesAgree'
  BY DEF IInv, Quiet, ConnsStand, FilesAgree
<1>3. RevokedForGood' /\ Issued' /\ DiskPast'
  BY StoreFacts DEF IInv, RevokedForGood, Issued, DiskPast
<1>4. Writing'
  BY DEF IInv, Writing
<1>5. Checked'
  <2> SUFFICES ASSUME NEW r \in logins' \ logins
               PROVE  r.epoch = epoch /\ r.hash = cfg.passwordHash /\ r.stage = "body"
    BY StoreFacts, BoundsAssumption DEF IInv, Checked, TypeOK, Epochs
  <2> QED OBVIOUS
<1> QED BY <1>1, <1>2, <1>3, <1>4, <1>5 DEF IInv

\* QueueLogin keeps the invariant.
LEMMA QueueLoginStep ==
    ASSUME IInv, NEW r \in logins, QueueLogin(r)
    PROVE  IInv'
<1> USE DEF QueueLogin, Idle, LoginMoves, memory
<1>1. TypeOK'
  BY BoundsAssumption DEF IInv, TypeOK, LoginReq
<1>2. Quiet' /\ ConnsStand' /\ FilesAgree'
  BY DEF IInv, Quiet, ConnsStand, FilesAgree
<1>3. RevokedForGood' /\ Issued' /\ DiskPast'
  BY StoreFacts DEF IInv, RevokedForGood, Issued, DiskPast
<1>4. Writing'
  BY DEF IInv, Writing
<1>5. Checked'
  <2>1. [r EXCEPT !.stage = "queued"].stage = "queued"
        /\ [r EXCEPT !.stage = "queued"].hash = r.hash
        /\ [r EXCEPT !.stage = "queued"].epoch = r.epoch
    BY DEF IInv, TypeOK, LoginReq
  <2> QED BY <2>1 DEF IInv, Checked
<1> QED BY <1>1, <1>2, <1>3, <1>4, <1>5 DEF IInv

\* VerifyLogin keeps the invariant.
LEMMA VerifyLoginStep ==
    ASSUME IInv, NEW r \in logins, VerifyLogin(r)
    PROVE  IInv'
<1> USE DEF VerifyLogin, LoginMoves, memory
<1> DEFINE s == [r EXCEPT !.stage = "verifying", !.checked = cfg.passwordHash]
<1>0. /\ s \in LoginReq /\ s.epoch = r.epoch /\ s.hash = r.hash /\ s.checked = cfg.passwordHash
      /\ logins' = (logins \ {r}) \cup {s}
  <2>1. r \in LoginReq /\ cfg.passwordHash \in 0 .. MaxHash
    BY BoundsAssumption DEF IInv, TypeOK, Config, Hashes
  <2> QED BY <2>1 DEF LoginReq
<1> HIDE DEF s
<1>1. TypeOK'
  BY <1>0 DEF IInv, TypeOK
<1>2. Quiet' /\ ConnsStand' /\ FilesAgree'
  BY DEF IInv, Quiet, ConnsStand, FilesAgree
<1>3. RevokedForGood' /\ Issued' /\ DiskPast'
  BY StoreFacts DEF IInv, RevokedForGood, Issued, DiskPast
<1>4. Writing'
  BY DEF IInv, Writing
<1>5. Checked'
  <2>1. r.hash \in Int /\ cfg.passwordHash \in Int
    BY DEF IInv, TypeOK, LoginReq, Config, Hashes
  <2> QED BY <1>0, <2>1 DEF IInv, Checked
<1> QED BY <1>1, <1>2, <1>3, <1>4, <1>5 DEF IInv

\* DenyLogin keeps the invariant.
LEMMA DenyLoginStep ==
    ASSUME IInv, NEW r \in logins, DenyLogin(r)
    PROVE  IInv'
<1> USE DEF DenyLogin, Idle
<1>1. CASE StorageFailure(held, cfg, bearers, disk)
  <2>1. /\ StoreOK' /\ mode' = "stopped" /\ step' = "turn"
        /\ held' = held /\ cfg' = cfg /\ disk' = disk
    BY <1>1, StoreFacts, Failed
  <2>2. TypeOK'
    BY <2>1 DEF IInv, StoreOK, TypeOK, StoreType
  <2> QED BY <2>1, <2>2 DEF IInv, StoreOK, RevokedForGood, Issued, Writing, Checked
<1>2. CASE /\ disk' = DiskWithState(held) \/ disk' = disk
           /\ UNCHANGED <<mode, step, job, cfg, held, bearers, open>>
  <2>1. /\ disk' \in Disk /\ disk'.cfg = cfg /\ disk'.held = held /\ disk'.bearers = bearers
        /\ disk'.seen \in {disk.seen, seen}
    BY <1>2, StoreFacts DEF DiskWithState, Disk
  <2>2. TypeOK'
    BY <1>2, <2>1 DEF IInv, TypeOK
  <2>3. \A u \in held : seen[u] <= seen[u]
    BY StoreFacts, BoundsAssumption DEF Times
  <2>4. Quiet' /\ ConnsStand' /\ FilesAgree' /\ DiskPast'
    BY <1>2, <2>1, <2>3, StoreFacts DEF IInv, Quiet, ConnsStand, FilesAgree, DiskPast
  <2>5. RevokedForGood' /\ Issued'
    BY <1>2, <2>1, StoreFacts DEF IInv, RevokedForGood, Issued
  <2>6. Writing' /\ Checked'
    BY <1>2 DEF IInv, Writing, Checked
  <2> QED BY <2>2, <2>4, <2>5, <2>6 DEF IInv
<1> QED BY <1>1, <1>2

\* RefuseLogin keeps the invariant.
LEMMA RefuseLoginStep ==
    ASSUME IInv, NEW r \in logins, RefuseLogin(r)
    PROVE  IInv'
<1> USE DEF RefuseLogin, memory
<1>1. TypeOK'
  BY BoundsAssumption DEF IInv, TypeOK
<1>2. Quiet' /\ ConnsStand' /\ FilesAgree'
  BY DEF IInv, Quiet, ConnsStand, FilesAgree
<1>3. RevokedForGood' /\ Issued' /\ DiskPast'
  BY StoreFacts DEF IInv, RevokedForGood, Issued, DiskPast
<1>4. Writing'
  BY DEF IInv, Writing
<1>5. Checked'
  BY StoreFacts DEF IInv, Checked
<1> QED BY <1>1, <1>2, <1>3, <1>4, <1>5 DEF IInv

\* Tick keeps the invariant.
LEMMA TickStep ==
    ASSUME IInv, Tick
    PROVE  IInv'
<1> USE DEF Tick, memory
<1>1. TypeOK'
  BY BoundsAssumption DEF IInv, TypeOK, Times
<1>2. Quiet' /\ ConnsStand' /\ FilesAgree'
  BY DEF IInv, Quiet, ConnsStand, FilesAgree
<1>3. RevokedForGood' /\ Issued' /\ DiskPast'
  <2>1. \A t \in Tokens : seen[t] \in Int /\ disk.seen[t] \in Int
    BY BoundsAssumption, StoreFacts DEF Disk, Times
  <2> QED BY <2>1, StoreFacts DEF IInv, RevokedForGood, Issued, DiskPast
<1>4. Writing'
  BY DEF IInv, Writing
<1>5. Checked'
  BY StoreFacts DEF IInv, Checked
<1> QED BY <1>1, <1>2, <1>3, <1>4, <1>5 DEF IInv

\* NativeEnds keeps the invariant.
LEMMA NativeEndsStep ==
    ASSUME IInv, NEW client \in Clients, NativeEnds(client)
    PROVE  IInv'
<1> USE DEF NativeEnds, memory
<1>1. TypeOK'
  BY BoundsAssumption DEF IInv, TypeOK
<1>2. Quiet' /\ ConnsStand' /\ FilesAgree'
  BY DEF IInv, Quiet, ConnsStand, FilesAgree
<1>3. RevokedForGood' /\ Issued' /\ DiskPast'
  BY StoreFacts DEF IInv, RevokedForGood, Issued, DiskPast
<1>4. Writing'
  BY DEF IInv, Writing
<1>5. Checked'
  BY StoreFacts DEF IInv, Checked
<1> QED BY <1>1, <1>2, <1>3, <1>4, <1>5 DEF IInv

\* Dispose keeps the invariant.
LEMMA DisposeStep ==
    ASSUME IInv, Dispose
    PROVE  IInv'
<1> USE DEF Dispose, Stop, Idle, memory
<1>1. TypeOK'
  BY BoundsAssumption DEF IInv, TypeOK
<1>2. Quiet' /\ ConnsStand' /\ FilesAgree'
  BY DEF IInv, Quiet, ConnsStand, FilesAgree
<1>3. RevokedForGood' /\ Issued' /\ DiskPast'
  BY StoreFacts DEF IInv, RevokedForGood, Issued, DiskPast
<1>4. Writing'
  BY DEF IInv, Writing
<1>5. Checked'
  BY StoreFacts DEF IInv, Checked
<1> QED BY <1>1, <1>2, <1>3, <1>4, <1>5 DEF IInv

\* Reapply keeps the invariant.
LEMMA ReapplyStep ==
    ASSUME IInv, Reapply
    PROVE  IInv'
<1> USE DEF Reapply, Load
<1>1. TypeOK'
  BY BoundsAssumption DEF IInv, TypeOK, Epochs, Disk
<1>2. Quiet' /\ ConnsStand' /\ FilesAgree'
  <2>1. \A t \in Tokens : disk.seen[t] <= disk.seen[t]
    BY StoreFacts, BoundsAssumption DEF Disk, Times
  <2> QED BY <2>1, StoreFacts DEF IInv, Quiet, ConnsStand, FilesAgree, Disk
<1>3. RevokedForGood' /\ Issued' /\ DiskPast'
  BY StoreFacts DEF IInv, RevokedForGood, Issued, DiskPast
<1>4. Writing'
  BY DEF IInv, Writing, Quiet
<1>5. Checked'
  BY BoundsAssumption DEF IInv, Checked, TypeOK, Epochs, LoginReq
<1> QED BY <1>1, <1>2, <1>3, <1>4, <1>5 DEF IInv

\* Crash keeps the invariant.
LEMMA CrashStep ==
    ASSUME IInv, Crash
    PROVE  IInv'
<1> USE DEF Crash, memory
<1>1. TypeOK'
  BY BoundsAssumption DEF IInv, TypeOK
<1>2. Quiet' /\ ConnsStand' /\ FilesAgree'
  BY DEF IInv, Quiet, ConnsStand, FilesAgree
<1>3. RevokedForGood' /\ Issued' /\ DiskPast'
  BY StoreFacts DEF IInv, RevokedForGood, Issued, DiskPast
<1>4. Writing'
  BY DEF IInv, Writing
<1>5. Checked'
  BY StoreFacts DEF IInv, Checked
<1> QED BY <1>1, <1>2, <1>3, <1>4, <1>5 DEF IInv

\* Restart keeps the invariant.
LEMMA RestartStep ==
    ASSUME IInv, Restart
    PROVE  IInv'
<1> USE DEF Restart, Load
<1>1. TypeOK'
  BY BoundsAssumption DEF IInv, TypeOK, Epochs, Disk
<1>2. Quiet' /\ ConnsStand' /\ FilesAgree'
  <2>1. \A t \in Tokens : disk.seen[t] <= disk.seen[t]
    BY StoreFacts, BoundsAssumption DEF Disk, Times
  <2> QED BY <2>1, StoreFacts DEF IInv, Quiet, ConnsStand, FilesAgree, Disk
<1>3. RevokedForGood' /\ Issued' /\ DiskPast'
  BY StoreFacts DEF IInv, RevokedForGood, Issued, DiskPast
<1>4. Writing'
  BY DEF IInv, Writing, Quiet
<1>5. Checked'
  BY StoreFacts DEF IInv, Checked
<1> QED BY <1>1, <1>2, <1>3, <1>4, <1>5 DEF IInv

-----------------------------------------------------------------------------

\* The files that the process starts from agree with memory, and nothing is open or waiting.
LEMMA Initial == Init => IInv
<1> SUFFICES ASSUME Init PROVE IInv
  OBVIOUS
<1>1. /\ cfg \in Config /\ disk = [cfg |-> cfg, held |-> {}, seen |-> seen, bearers |-> Bearers]
      /\ 0 \in Times /\ seen = [t \in Tokens |-> 0] /\ now = 0 /\ held = {} /\ bearers = Bearers
  BY BoundsAssumption DEF Init, Times
<1>2. TypeOK
  BY <1>1, BoundsAssumption DEF Init, TypeOK, Disk, Row, Epochs
<1> QED BY <1>1, <1>2 DEF Init, IInv, Quiet, ConnsStand, FilesAgree, RevokedForGood, Issued,
                          DiskPast, Writing, Checked

\* One step of each action, by the lemmas above.
LEMMA Inductive == IInv /\ [Next]_vars => IInv'
<1> SUFFICES ASSUME IInv, [Next]_vars PROVE IInv'
  OBVIOUS
<1>1. CASE Requests
  <2>1. ASSUME NEW client \in Clients, WhitelistGrant(client) PROVE IInv'
    BY <2>1, Granted DEF WhitelistGrant, Idle
  <2>2. ASSUME NEW client \in Clients, NEW password \in Hashes, StartLogin(client, password)
        PROVE  IInv'
    BY <2>2, StartLoginStep
  <2>3. ASSUME NEW client \in Clients, NEW t \in Tokens, PurgeDead(client, t) PROVE IInv'
    BY <2>3, PurgeDeadStep
  <2>4. ASSUME NEW client \in Clients, NEW t \in Tokens, Logout(client, t) PROVE IInv'
    BY <2>4, LogoutStep
  <2>5. ASSUME NEW client \in Clients, NEW t \in Tokens, RestoreNative(client, t) PROVE IInv'
    BY <2>5, RestoreNativeStep
  <2>6. ASSUME NEW client \in Clients, NEW t \in Tokens, NEW b \in Bearers,
               RevokeBearer(client, t, b)
        PROVE  IInv'
    BY <2>6, RevokeBearerStep
  <2>7. ASSUME NEW client \in Clients, NEW t \in Tokens, NEW body \in Patches,
               StartPut(client, t, body)
        PROVE  IInv'
    BY <2>7, StartPutStep
  <2>8. ASSUME NEW client \in Clients, NEW t \in Tokens \cup {NoToken},
               NEW b \in Bearers \cup {NoBearer}, OpenConn(client, t, b)
        PROVE  IInv'
    BY <2>8, OpenConnStep
  <2>9. ASSUME NEW conn \in open, CloseConn(conn) PROVE IInv'
    BY <2>9, CloseConnStep
  <2>10. ASSUME NEW client \in Clients, NEW t \in Tokens, AuthMe(client, t) PROVE IInv'
    BY <2>10, AuthMeStep
  <2>11. ASSUME NEW client \in Clients, NEW t \in Tokens, NEW target \in Clients,
                NEW list \in {"allow", "deny"}, DecideVisitor(client, t, target, list)
         PROVE  IInv'
    BY <2>11, DecideVisitorStep
  <2> QED BY <1>1, <2>1, <2>2, <2>3, <2>4, <2>5, <2>6, <2>7, <2>8, <2>9, <2>10, <2>11 DEF Requests
<1>2. CASE Resumptions
  <2>1. ASSUME NEW r \in puts, BeginPut(r) PROVE IInv'
    BY <2>1, BeginPutStep
  <2>2. ASSUME NEW r \in puts, RefusePut(r) PROVE IInv'
    BY <2>2, RefusePutStep
  <2>3. ASSUME NEW r \in logins, QueueLogin(r) PROVE IInv'
    BY <2>3, QueueLoginStep
  <2>4. ASSUME NEW r \in logins, VerifyLogin(r) PROVE IInv'
    BY <2>4, VerifyLoginStep
  <2>5. ASSUME NEW r \in logins, GrantLogin(r) PROVE IInv'
    <3>1. r.client \in Clients
      BY DEF IInv, TypeOK, LoginReq
    <3> QED BY <2>5, <3>1, Granted DEF GrantLogin, Idle
  <2>6. ASSUME NEW r \in logins, RefuseLogin(r) PROVE IInv'
    BY <2>6, RefuseLoginStep
  <2>7. ASSUME NEW r \in logins, DenyLogin(r) PROVE IInv'
    BY <2>7, DenyLoginStep
  <2> QED BY <1>2, <2>1, <2>2, <2>3, <2>4, <2>5, <2>6, <2>7 DEF Resumptions
<1>3. CASE Synchronous
  BY <1>3, SaveHashStep, WipeSessionsStep, ApplyPatchStep DEF Synchronous
<1>4. CASE Environment
  <2>1. ASSUME NEW client \in native, NativeEnds(client) PROVE IInv'
    <3>1. client \in Clients
      BY DEF IInv, TypeOK
    <3> QED BY <2>1, <3>1, NativeEndsStep
  <2> QED BY <1>4, <2>1, RecheckStep, TickStep, DisposeStep, ReapplyStep, CrashStep, RestartStep
          DEF Environment
<1>5. CASE UNCHANGED vars
  BY <1>5 DEF vars, IInv, TypeOK, Quiet, ConnsStand, FilesAgree, RevokedForGood, Issued,
              DiskPast, Writing, Checked
<1> QED BY <1>1, <1>2, <1>3, <1>4, <1>5 DEF Next

\* The inductive invariant holds in every reachable state of the store, the gate and the
\* waiting handlers.
THEOREM Invariance == Spec => []IInv
BY Initial, Inductive, PTL DEF Spec

\* The variables keep their types.
THEOREM TypeCorrect == Spec => []TypeOK
<1>1. IInv => TypeOK
  BY DEF IInv
<1> QED BY <1>1, Invariance, PTL

\* No handler ever finds an open socket whose address is denied or whose credential was
\* revoked.
THEOREM SocketsStand == Spec => []OpenConnsStand
<1>1. IInv => OpenConnsStand
  BY DEF IInv, ConnsStand, OpenConnsStand
<1> QED BY <1>1, Invariance, PTL

\* Memory and files agree after every single write.
THEOREM Durable == Spec => []FilesAgree
<1>1. IInv => FilesAgree
  BY DEF IInv
<1> QED BY <1>1, Invariance, PTL

\* An acknowledged logout or password change survives every crash and restart.
THEOREM RevocationIsFinal == Spec => []RevokedForGood
<1>1. IInv => RevokedForGood
  BY DEF IInv
<1> QED BY <1>1, Invariance, PTL

\* A failed write abandons the PUT config being executed, and starts none.
LEMMA FailureStartsNoJob ==
    ASSUME NEW h, NEW c, NEW b, NEW d, StorageFailure(h, c, b, d)
    PROVE  job' \subseteq job
BY DEF StorageFailure, Stop

\* Neither does securityChanged().
LEMMA NotifyStartsNoJob ==
    ASSUME NEW h, NEW c, NEW b, NEW d, NEW s, Notify(h, c, b, d, s)
    PROVE  job' \subseteq job
<1>1. Proceed(s) => job' \subseteq job
  BY DEF Proceed
<1>2. \A g, e : StorageFailure(g, c, b, e) => job' \subseteq job
  BY FailureStartsNoJob
<1> QED BY <1>1, <1>2 DEF Notify

\* A PUT config acts only while its session, address, password and instance still stand.
THEOREM PutsAreAuthorized == Spec => OnlyAuthorizedPuts
<1>1. IInv /\ [Next]_vars => [\A r \in job' \ job :
           /\ r.token \notin ended
           /\ r.client \notin cfg.deny
           /\ row[r.token].authVersion = cfg.passwordHash
           /\ r.epoch = epoch]_vars
  <2> SUFFICES ASSUME IInv, Next, NEW r \in job' \ job
               PROVE  /\ r.token \notin ended
                      /\ r.client \notin cfg.deny
                      /\ row[r.token].authVersion = cfg.passwordHash
                      /\ r.epoch = epoch
    OBVIOUS
  <2>1. \E q \in puts : BeginPut(q)
    <3>1. ~ (job' \subseteq job)
      OBVIOUS
    <3> SUFFICES ASSUME ~ \E q \in puts : BeginPut(q) PROVE job' \subseteq job
      BY <3>1
    <3>a. /\ \A h, c, b, d : StorageFailure(h, c, b, d) => job' \subseteq job
          /\ \A h, c, b, d, s : Notify(h, c, b, d, s) => job' \subseteq job
      BY FailureStartsNoJob, NotifyStartsNoJob
    <3>b. \A t : RemoveSession(t) => job' \subseteq job
      BY <3>a DEF RemoveSession
    <3>c. \A client : IssueSession(client) => job' \subseteq job
      BY <3>a DEF IssueSession
    <3>2. Requests => job' \subseteq job
      <4>1. \A client \in Clients : WhitelistGrant(client) => job' \subseteq job
        BY <3>c DEF WhitelistGrant
      <4>2. \A client \in Clients, t \in Tokens :
                PurgeDead(client, t) \/ Logout(client, t) => job' \subseteq job
        BY <3>b DEF PurgeDead, Logout
      <4>3. \A client \in Clients, t \in Tokens, b \in Bearers :
                RevokeBearer(client, t, b) => job' \subseteq job
        BY <3>a DEF RevokeBearer
      <4>4. \A client \in Clients, t \in Tokens, target \in Clients, list \in {"allow", "deny"} :
                DecideVisitor(client, t, target, list) => job' \subseteq job
        BY <3>a DEF DecideVisitor
      <4>5. \A client \in Clients, t \in Tokens \cup {NoToken}, b \in Bearers \cup {NoBearer} :
                OpenConn(client, t, b) => job' \subseteq job
        BY <3>a DEF OpenConn
      <4> QED BY <4>1, <4>2, <4>3, <4>4, <4>5
              DEF Requests, StartLogin, AuthMe, RestoreNative, StartPut, CloseConn
    <3>3. Resumptions => job' \subseteq job
      <4>1. \A r1 \in logins : DenyLogin(r1) => job' \subseteq job
        BY <3>a DEF DenyLogin
      <4> QED BY <3>b, <3>c, <4>1
              DEF Resumptions, RefusePut, QueueLogin, VerifyLogin, GrantLogin, RefuseLogin
    <3>4. Synchronous => job' \subseteq job
      BY <3>a DEF Synchronous, SaveHash, WipeSessions, ApplyPatch, Proceed
    <3>5. Environment => job' \subseteq job
      BY <3>a DEF Environment, RecheckTimer, Tick, NativeEnds, Dispose, Reapply, Crash, Restart,
                  Load, Stop
    <3> QED BY <3>2, <3>3, <3>4, <3>5 DEF Next
  <2>2. BeginPut(r) /\ mode = "running"
    BY <2>1 DEF BeginPut, Idle
  <2> QED BY <2>2 DEF BeginPut, StillAuthorized, StillCurrent, Live, IInv, RevokedForGood
<1> QED BY <1>1, Invariance, PTL DEF Spec, OnlyAuthorizedPuts

\* After securityChanged() an open socket carries no session, or one of the store's.
LEMMA NotifyCloses ==
    ASSUME NEW h, NEW c, NEW b, NEW d, NEW s, Notify(h, c, b, d, s), NEW conn \in open'
    PROVE  conn.session = NoToken \/ conn.session \in h
<1>1. CASE open' = {k \in open : Allowed(k, h, c, b)}
  BY <1>1 DEF Allowed, Live
<1>2. CASE open' = {}
  BY <1>2
<1>3. \A g, e : StorageFailure(g, c, b, e) => open' = {}
  BY DEF StorageFailure, Stop
<1> QED BY <1>1, <1>2, <1>3 DEF Notify

\* A step that acknowledges a logout or a password change leaves no socket with a session
\* it ends: only Logout and ApplyPatch acknowledge, and both end with securityChanged().
THEOREM RevocationReachesSockets == Spec => RevocationClosesSockets
<1>1. IInv /\ [Next]_vars => [\A conn \in open' : conn.session \notin ended' \ ended]_vars
  <2> SUFFICES ASSUME IInv, Next, NEW conn \in open', conn.session \in ended' \ ended
               PROVE  FALSE
    OBVIOUS
  <2>0. ended' # ended
    OBVIOUS
  <2>1. ASSUME NEW client \in Clients, NEW t \in Tokens, Logout(client, t) PROVE FALSE
    <3>1. conn.session = t /\ mode' = "running" /\ RemoveSession(t)
      BY <2>1 DEF Logout
    <3>2. Notify(held \ {t}, cfg, bearers, DiskWithState(held \ {t}), "turn")
      BY <3>1 DEF RemoveSession, StorageFailure, Stop
    <3> QED BY <3>1, <3>2, NotifyCloses, BoundsAssumption
  <2>2. ASSUME ApplyPatch PROVE FALSE
    <3>1. PICK r \in job :
              /\ step = "patch" /\ r.body.password
              /\ Notify(held, Patched(cfg, r.body), bearers,
                        [disk EXCEPT !.cfg = Patched(cfg, r.body)], "turn")
              /\ ended' = ended \cup {t \in Tokens : row[t].authVersion \in 1 .. r.hash}
      BY <2>0, <2>2 DEF ApplyPatch
    <3>2. held = {}
      BY <3>1 DEF IInv, Writing
    <3>3. conn.session \in Tokens
      BY <3>1
    <3> QED BY <3>1, <3>2, <3>3, NotifyCloses, BoundsAssumption
  <2>3. Requests \/ Resumptions \/ Synchronous \/ Environment
    BY DEF Next
  <2>4. CASE Requests
    <3>1. \A client \in Clients : WhitelistGrant(client) => ended' = ended
      BY DEF WhitelistGrant, IssueSession
    <3>2. \A client \in Clients, password \in Hashes : StartLogin(client, password) => ended' = ended
      BY DEF StartLogin
    <3>3. \A client \in Clients, t \in Tokens :
              PurgeDead(client, t) \/ AuthMe(client, t) \/ RestoreNative(client, t) => ended' = ended
      BY DEF PurgeDead, AuthMe, RestoreNative
    <3>4. \A client \in Clients, t \in Tokens, target \in Clients, list \in {"allow", "deny"} :
              DecideVisitor(client, t, target, list) => ended' = ended
      BY DEF DecideVisitor
    <3>5. \A client \in Clients, t \in Tokens, b \in Bearers :
              RevokeBearer(client, t, b) => ended' = ended
      BY DEF RevokeBearer
    <3>6. \A client \in Clients, t \in Tokens, body \in Patches :
              StartPut(client, t, body) => ended' = ended
      BY DEF StartPut
    <3>7. \A client \in Clients, t \in Tokens \cup {NoToken}, b \in Bearers \cup {NoBearer} :
              OpenConn(client, t, b) => ended' = ended
      BY DEF OpenConn
    <3>8. \A k \in open : CloseConn(k) => ended' = ended
      BY DEF CloseConn
    <3> QED BY <2>0, <2>1, <2>4, <3>1, <3>2, <3>3, <3>4, <3>5, <3>6, <3>7, <3>8 DEF Requests
  <2>5. CASE Resumptions
    BY <2>0, <2>5 DEF Resumptions, BeginPut, RefusePut, QueueLogin, VerifyLogin, GrantLogin,
       IssueSession, DenyLogin, RefuseLogin
  <2>6. CASE Synchronous
    BY <2>0, <2>2, <2>6 DEF Synchronous, SaveHash, WipeSessions
  <2>7. CASE Environment
    BY <2>0, <2>7 DEF Environment, RecheckTimer, Tick, NativeEnds, Dispose, Reapply, Crash,
       Restart, Load
  <2> QED BY <2>3, <2>4, <2>5, <2>6, <2>7
<1> QED BY <1>1, Invariance, PTL DEF Spec, RevocationClosesSockets

\* A session appears only for an allow-listed address, or for a login whose password matches
\* the hash in force: the verifier may have used a later hash than the one the request
\* started under, and StillCurrent then says that they are the same.
THEOREM GrantsAreProved == Spec => GrantsProvePassword
<1>1. IInv /\ [Next]_vars => [\A t \in Tokens : row'[t] # row[t] =>
           /\ row'[t].authVersion = cfg.passwordHash
           /\ \/ logins' = logins /\ \E client \in cfg.allow \ cfg.deny : client \in native'
              \/ \E r \in logins \ logins' : /\ r.password = cfg.passwordHash
                                             /\ r.client \notin cfg.deny]_vars
  <2> SUFFICES ASSUME IInv, Next, NEW t \in Tokens, row'[t] # row[t]
               PROVE  /\ row'[t].authVersion = cfg.passwordHash
                      /\ \/ /\ logins' = logins
                            /\ \E client \in cfg.allow \ cfg.deny : client \in native'
                         \/ \E r \in logins \ logins' : /\ r.password = cfg.passwordHash
                                                        /\ r.client \notin cfg.deny
    OBVIOUS
  <2>0. row' # row
    OBVIOUS
  <2>1. ASSUME NEW client \in Clients, WhitelistGrant(client)
        PROVE  /\ row'[t].authVersion = cfg.passwordHash /\ logins' = logins
               /\ client \in (cfg.allow \ cfg.deny) \cap native'
    <3>1. row'[t].authVersion = cfg.passwordHash
      BY <2>1, Granted DEF WhitelistGrant, Idle
    <3>2. client \in native'
      BY <2>0, <2>1 DEF WhitelistGrant, IssueSession
    <3> QED BY <2>1, <3>1, <3>2 DEF WhitelistGrant
  <2>2. ASSUME NEW r \in logins, GrantLogin(r)
        PROVE  /\ row'[t].authVersion = cfg.passwordHash
               /\ r \in logins \ logins' /\ r.password = cfg.passwordHash /\ r.client \notin cfg.deny
    <3>1. r.client \in Clients /\ r.checked \in Int
      BY DEF IInv, TypeOK, LoginReq
    <3>2. row'[t].authVersion = cfg.passwordHash
      BY <2>2, <3>1, Granted DEF GrantLogin, Idle
    <3>3. r.checked = cfg.passwordHash
      BY <2>2, <3>1, StoreFacts DEF GrantLogin, StillCurrent, Idle, IInv, Checked
    <3> QED BY <2>2, <3>2, <3>3 DEF GrantLogin, StillCurrent
  <2>3. CASE Requests
    <3>2. \A client \in Clients, password \in Hashes : StartLogin(client, password) => row' = row
      BY DEF StartLogin
    <3>3. \A client \in Clients, u \in Tokens :
              PurgeDead(client, u) \/ Logout(client, u) \/ AuthMe(client, u)
                  \/ RestoreNative(client, u) => row' = row
      BY DEF PurgeDead, Logout, AuthMe, RestoreNative
    <3>4. \A client \in Clients, u \in Tokens, target \in Clients, list \in {"allow", "deny"} :
              DecideVisitor(client, u, target, list) => row' = row
      BY DEF DecideVisitor
    <3>5. \A client \in Clients, u \in Tokens, b \in Bearers :
              RevokeBearer(client, u, b) => row' = row
      BY DEF RevokeBearer
    <3>6. \A client \in Clients, u \in Tokens, body \in Patches :
              StartPut(client, u, body) => row' = row
      BY DEF StartPut
    <3>7. \A client \in Clients, u \in Tokens \cup {NoToken}, b \in Bearers \cup {NoBearer} :
              OpenConn(client, u, b) => row' = row
      BY DEF OpenConn
    <3>8. \A k \in open : CloseConn(k) => row' = row
      BY DEF CloseConn
    <3>9. \E client \in Clients : WhitelistGrant(client)
      BY <2>0, <2>3, <3>2, <3>3, <3>4, <3>5, <3>6, <3>7, <3>8 DEF Requests
    <3> QED BY <2>1, <3>9
  <2>4. CASE Resumptions
    <3>1. \E r \in logins : GrantLogin(r)
      BY <2>0, <2>4 DEF Resumptions, BeginPut, RefusePut, QueueLogin, VerifyLogin, DenyLogin,
         RefuseLogin
    <3> QED BY <2>2, <3>1
  <2>5. CASE Synchronous
    BY <2>0, <2>5 DEF Synchronous, SaveHash, WipeSessions, ApplyPatch
  <2>6. CASE Environment
    BY <2>0, <2>6 DEF Environment, RecheckTimer, Tick, NativeEnds, Dispose, Reapply, Crash,
       Restart, Load
  <2> QED BY <2>3, <2>4, <2>5, <2>6 DEF Next
<1> QED BY <1>1, Invariance, PTL DEF Spec, GrantsProvePassword

-----------------------------------------------------------------------------
(***************************************************************************)
(* AccountCore implements SessionAuthority.  Every step of the code does   *)
(* one of three things to the files and the rows: it takes sessions away,  *)
(* it writes a new password, or it writes one new row.  That the second    *)
(* ends every session at once rests on one more invariant: no row is ahead *)
(* of the password.                                                        *)
(***************************************************************************)

\* Sessions may go, and their end be acknowledged.
Fewer ==
    /\ row' = row /\ ended \subseteq ended'
    /\ disk'.cfg.passwordHash = disk.cfg.passwordHash
    /\ disk'.held \subseteq disk.held

NewPassword ==
    /\ row' = row /\ ended' = ended
    /\ disk'.cfg.passwordHash = disk.cfg.passwordHash + 1

OneMore ==
    /\ ended' = ended
    /\ disk'.cfg.passwordHash = disk.cfg.passwordHash
    /\ \E t \in Tokens :
          /\ row[t].authVersion = 0
          /\ row'[t].authVersion = disk.cfg.passwordHash
          /\ \A u \in Tokens \ {t} : row'[u] = row[u]
          /\ disk'.held = disk.held \cup {t}

RowsPast == \A t \in Tokens : row[t].authVersion <= disk.cfg.passwordHash

-----------------------------------------------------------------------------
(* What a step does to the files *)

\* securityChanged() over files d leaves their configuration, and adds no session to them.
LEMMA NotifyFiles ==
    ASSUME NEW h \in SUBSET Tokens, NEW c, NEW b, NEW d \in Disk, NEW s, d.held = h,
           Notify(h, c, b, d, s)
    PROVE  disk'.cfg = d.cfg /\ disk'.held \subseteq h
<1> DEFINE dead == DeadRows(h, c)
<1>1. PICK gone \in SUBSET Tokens :
          disk' = d \/ disk' = [d EXCEPT !.held = h \ gone, !.seen = seen']
  <2>1. dead \subseteq Tokens
    BY DEF DeadRows
  <2>2. CASE disk' = IF dead = {} THEN d ELSE [d EXCEPT !.held = h \ dead, !.seen = seen']
    BY <2>1, <2>2
  <2>3. ASSUME NEW gone \in SUBSET dead,
               disk' = IF gone = {} THEN d ELSE [d EXCEPT !.held = h \ gone, !.seen = seen']
        PROVE  \E some \in SUBSET Tokens :
                  disk' = d \/ disk' = [d EXCEPT !.held = h \ some, !.seen = seen']
    BY <2>1, <2>3
  <2>. QED BY <2>2, <2>3 DEF Notify, StorageFailure
<1>. QED BY <1>1 DEF Disk

\* A write that puts d in place of the files, and is followed by the recheck, or fails.
LEMMA WriteIsFewer ==
    ASSUME IInv, mode = "running", row' = row, ended \subseteq ended',
           NEW h, NEW c, NEW b, NEW d \in Disk, NEW s,
           d.held = h, h \subseteq held, d.cfg.passwordHash = cfg.passwordHash,
           Notify(h, c, b, d, s) \/ StorageFailure(h, c, b, disk)
    PROVE  Fewer
<1>1. disk.held = held /\ disk.cfg = cfg /\ held \subseteq Tokens
  BY StoreFacts
<1>2. CASE Notify(h, c, b, d, s)
  BY <1>1, <1>2, NotifyFiles DEF Fewer
<1>3. CASE StorageFailure(h, c, b, disk)
  BY <1>3 DEF Fewer, StorageFailure
<1>. QED BY <1>2, <1>3

\* A step that leaves rows and files alone, and acknowledges nothing.
Still == row' = row /\ ended' = ended /\ disk' = disk

LEMMA StillIsFewer == IInv /\ Still => Fewer
BY DEF Still, Fewer

\* The files with other sessions.
LEMMA WithState ==
    ASSUME IInv, IInv', NEW h \in SUBSET Tokens
    PROVE  /\ DiskWithState(h) \in Disk
           /\ DiskWithState(h).held = h /\ DiskWithState(h).cfg = disk.cfg
<1>1. disk \in Disk /\ seen' \in [Tokens -> Times]
  BY DEF IInv, TypeOK
<1>. QED BY <1>1 DEF DiskWithState, Disk

\* The removal of a row.
LEMMA RemovalIsFewer ==
    ASSUME IInv, IInv', mode = "running", row' = row, ended \subseteq ended',
           NEW t, RemoveSession(t)
    PROVE  Fewer
<1> DEFINE h == held \ {t}
           d == DiskWithState(h)
<1>1. h \subseteq held /\ h \in SUBSET Tokens /\ disk.cfg = cfg
  BY StoreFacts
<1>2. d \in Disk /\ d.held = h /\ d.cfg.passwordHash = cfg.passwordHash
  BY <1>1, WithState
<1>3. Notify(h, cfg, bearers, d, "turn") \/ StorageFailure(h, cfg, bearers, disk)
  BY DEF RemoveSession
<1> HIDE DEF h, d
<1>. QED BY <1>1, <1>2, <1>3, WriteIsFewer

\* A write of the configuration or of the tokens.
LEMMA ConfigIsFewer ==
    ASSUME IInv, IInv', mode = "running", row' = row, ended \subseteq ended',
           NEW c \in Config, NEW b \in SUBSET Bearers, c.passwordHash = cfg.passwordHash,
           \/ Notify(held, c, b, [disk EXCEPT !.cfg = c], "turn")
           \/ Notify(held, cfg, b, [disk EXCEPT !.bearers = b], "turn")
           \/ StorageFailure(held, c, b, disk)
    PROVE  Fewer
<1>1. disk \in Disk /\ disk.held = held /\ disk.cfg = cfg
  BY StoreFacts
<1> DEFINE d == [disk EXCEPT !.cfg = c]
           e == [disk EXCEPT !.bearers = b]
<1>2. /\ d \in Disk /\ d.held = held /\ d.cfg.passwordHash = cfg.passwordHash
      /\ e \in Disk /\ e.held = held /\ e.cfg.passwordHash = cfg.passwordHash
  BY <1>1 DEF Disk
<1>3. \/ Notify(held, c, b, d, "turn") \/ Notify(held, cfg, b, e, "turn")
      \/ StorageFailure(held, c, b, disk)
  OBVIOUS
<1> HIDE DEF d, e
<1>. QED BY <1>1, <1>2, <1>3, WriteIsFewer

\* issueSession() adds one row, or fails after it saved what was there.
LEMMA IssueIsOneMore ==
    ASSUME IInv, IInv', mode = "running", NEW client, IssueSession(client)
    PROVE  Fewer \/ OneMore
<1> PICK t \in Tokens :
        /\ row[t].authVersion = 0
        /\ \/ /\ row' = [row EXCEPT ![t] = NewRow]
              /\ disk' = DiskWithState(held \cup {t})
           \/ /\ row' = row
              /\ \E d \in {disk, DiskWithState(held)} : StorageFailure(held, cfg, bearers, d)
        /\ ended' = ended
  BY DEF IssueSession
<1>1. disk.held = held /\ disk.cfg = cfg /\ held \in SUBSET Tokens /\ held \cup {t} \in SUBSET Tokens
  BY StoreFacts
<1>2. CASE /\ row' = [row EXCEPT ![t] = NewRow]
           /\ disk' = DiskWithState(held \cup {t})
  <2>1. row'[t] = NewRow /\ \A u \in Tokens \ {t} : row'[u] = row[u]
    BY <1>2 DEF IInv, TypeOK
  <2>2. NewRow.authVersion = cfg.passwordHash
    BY DEF NewRow
  <2>3. disk'.held = held \cup {t} /\ disk'.cfg = disk.cfg
    BY <1>1, <1>2, WithState
  <2>. QED BY <1>1, <2>1, <2>2, <2>3 DEF OneMore
<1>3. ASSUME row' = row, NEW d \in {disk, DiskWithState(held)}, StorageFailure(held, cfg, bearers, d)
      PROVE  Fewer
  BY <1>1, <1>3, WithState DEF StorageFailure, Fewer
<1>. QED BY <1>2, <1>3

-----------------------------------------------------------------------------
(* Each step is of one of the three kinds *)

LEMMA RequestFiles ==
    ASSUME IInv, IInv', Requests
    PROVE  Fewer \/ OneMore
<1>1. ASSUME NEW client \in Clients, WhitelistGrant(client)
      PROVE  Fewer \/ OneMore
  BY <1>1, IssueIsOneMore DEF WhitelistGrant, Idle
<1>2. ASSUME NEW client \in Clients, NEW t \in Tokens, PurgeDead(client, t) \/ Logout(client, t)
      PROVE  Fewer
  <2>1. mode = "running" /\ row' = row /\ ended \subseteq ended' /\ RemoveSession(t)
    BY <1>2 DEF PurgeDead, Logout, Idle
  <2>. QED BY <2>1, RemovalIsFewer
<1>3. ASSUME NEW client \in Clients, NEW t \in Tokens, NEW target \in Clients,
             NEW list \in {"allow", "deny"}, DecideVisitor(client, t, target, list)
      PROVE  Fewer
  <2> DEFINE c == Listed(cfg, target, list)
  <2>1. c \in Config /\ c.passwordHash = cfg.passwordHash /\ bearers \in SUBSET Bearers
    BY <1>3, StoreFacts DEF Listed, Config
  <2>2. /\ mode = "running" /\ row' = row /\ ended' = ended
        /\ \/ Notify(held, c, bearers, [disk EXCEPT !.cfg = c], "turn")
           \/ StorageFailure(held, c, bearers, disk)
    BY <1>3 DEF DecideVisitor, Idle
  <2> HIDE DEF c
  <2>. QED BY <2>1, <2>2, ConfigIsFewer
<1>4. ASSUME NEW client \in Clients, NEW t \in Tokens, NEW k \in Bearers, RevokeBearer(client, t, k)
      PROVE  Fewer
  <2> DEFINE b == bearers \ {k}
  <2>1. cfg \in Config /\ b \in SUBSET Bearers
    BY StoreFacts
  <2>2. /\ mode = "running" /\ row' = row /\ ended' = ended
        /\ \/ Notify(held, cfg, b, [disk EXCEPT !.bearers = b], "turn")
           \/ StorageFailure(held, cfg, b, disk)
    BY <1>4 DEF RevokeBearer, Idle
  <2> HIDE DEF b
  <2>. QED BY <2>1, <2>2, ConfigIsFewer
<1>5. ASSUME NEW client \in Clients, NEW t \in Tokens \cup {NoToken}, NEW b \in Bearers \cup {NoBearer},
             OpenConn(client, t, b)
      PROVE  Fewer
  BY <1>5 DEF OpenConn, StorageFailure, Fewer
<1>6. ASSUME NEW client \in Clients, NEW t \in Tokens,
             \/ AuthMe(client, t) \/ RestoreNative(client, t)
             \/ \E body \in Patches : StartPut(client, t, body)
      PROVE  Still
  BY <1>6 DEF AuthMe, RestoreNative, StartPut, Still
<1>7. ASSUME NEW client \in Clients, NEW password \in Hashes, StartLogin(client, password)
      PROVE  Still
  BY <1>7 DEF StartLogin, Still
<1>8. ASSUME NEW conn \in open, CloseConn(conn)
      PROVE  Still
  BY <1>8 DEF CloseConn, Still
<1>. QED
  BY <1>1, <1>2, <1>3, <1>4, <1>5, <1>6, <1>7, <1>8, StillIsFewer DEF Requests

LEMMA ResumptionFiles ==
    ASSUME IInv, IInv', Resumptions
    PROVE  Fewer \/ OneMore
<1>1. ASSUME NEW r \in puts, BeginPut(r)
      PROVE  Still
  BY <1>1 DEF BeginPut, Still
<1>2. ASSUME NEW r \in puts, RefusePut(r)
      PROVE  Fewer
  <2>1. row' = row /\ ended' = ended
        /\ (disk' = disk \/ (mode = "running" /\ RemoveSession(r.token)))
    BY <1>2 DEF RefusePut, Idle
  <2>. QED BY <2>1, RemovalIsFewer, StillIsFewer DEF Still
<1>3. ASSUME NEW r \in logins, QueueLogin(r) \/ VerifyLogin(r) \/ RefuseLogin(r)
      PROVE  Still
  BY <1>3 DEF QueueLogin, VerifyLogin, RefuseLogin, Still
<1>4. ASSUME NEW r \in logins, GrantLogin(r)
      PROVE  Fewer \/ OneMore
  BY <1>4, IssueIsOneMore DEF GrantLogin, Idle
<1>5. ASSUME NEW r \in logins, DenyLogin(r)
      PROVE  Fewer
  <2>1. /\ mode = "running" /\ row' = row /\ ended' = ended
        /\ disk' = disk \/ disk' = DiskWithState(held)
    BY <1>5 DEF DenyLogin, Idle, StorageFailure
  <2>2. held \in SUBSET Tokens /\ disk.held = held
    BY <2>1, StoreFacts
  <2>. QED BY <2>1, <2>2, WithState DEF Fewer
<1>. QED BY <1>1, <1>2, <1>3, <1>4, <1>5, StillIsFewer DEF Resumptions

LEMMA SynchronousFiles ==
    ASSUME IInv, IInv', Synchronous
    PROVE  Fewer \/ NewPassword
<1>0. mode = "running"
  BY DEF Synchronous, SaveHash, WipeSessions, ApplyPatch, IInv, Quiet
<1>1. ASSUME SaveHash
      PROVE  Fewer \/ NewPassword
  <2> DEFINE c == [cfg EXCEPT !.passwordHash = @ + 1]
  <2>1. cfg \in Config /\ disk \in Disk /\ disk.cfg = cfg
    BY <1>0, StoreFacts
  <2>2. c.passwordHash = cfg.passwordHash + 1
    BY <2>1 DEF Config
  <2>3. row' = row /\ ended' = ended /\ (disk' = [disk EXCEPT !.cfg = c] \/ disk' = disk)
    BY <1>1 DEF SaveHash, StorageFailure
  <2> HIDE DEF c
  <2>4. CASE disk' = disk
    BY <2>3, <2>4 DEF Fewer
  <2>5. CASE disk' = [disk EXCEPT !.cfg = c]
    BY <2>1, <2>2, <2>3, <2>5 DEF NewPassword, Disk
  <2>. QED BY <2>3, <2>4, <2>5
<1>2. ASSUME WipeSessions
      PROVE  Fewer
  <2> DEFINE d == DiskWithState({})
  <2>1. d \in Disk /\ d.held = {} /\ d.cfg.passwordHash = cfg.passwordHash
    BY <1>0, StoreFacts, WithState
  <2>2. /\ row' = row /\ ended' = ended
        /\ Notify({}, cfg, bearers, d, "patch") \/ StorageFailure({}, cfg, bearers, disk)
    BY <1>2 DEF WipeSessions
  <2> HIDE DEF d
  <2>. QED BY <1>0, <2>1, <2>2, WriteIsFewer
<1>3. ASSUME ApplyPatch
      PROVE  Fewer
  <2> PICK r \in job :
          /\ row' = row /\ ended \subseteq ended'
          /\ \/ Notify(held, Patched(cfg, r.body), bearers,
                       [disk EXCEPT !.cfg = Patched(cfg, r.body)], "turn")
             \/ StorageFailure(held, Patched(cfg, r.body), bearers, disk)
    BY <1>3 DEF ApplyPatch
  <2> DEFINE c == Patched(cfg, r.body)
  <2>1. r.body \in Patch
    BY PatchesAssumption DEF IInv, TypeOK, PutReq
  <2>2. c \in Config /\ c.passwordHash = cfg.passwordHash /\ bearers \in SUBSET Bearers
    BY <2>1, StoreFacts DEF Patched, Config, Patch
  <2>3. \/ Notify(held, c, bearers, [disk EXCEPT !.cfg = c], "turn")
        \/ StorageFailure(held, c, bearers, disk)
    OBVIOUS
  <2> HIDE DEF c
  <2>. QED BY <1>0, <2>2, <2>3, ConfigIsFewer
<1>. QED BY <1>1, <1>2, <1>3 DEF Synchronous

LEMMA EnvironmentFiles ==
    ASSUME IInv, IInv', Environment
    PROVE  Fewer
<1>1. CASE RecheckTimer
  <2>1. mode = "running" /\ row' = row /\ ended' = ended /\ Notify(held, cfg, bearers, disk, "turn")
    BY <1>1 DEF RecheckTimer, Idle
  <2>2. disk \in Disk /\ disk.held = held /\ disk.cfg = cfg
    BY <2>1, StoreFacts
  <2>. QED BY <2>1, <2>2, WriteIsFewer
<1>2. CASE Tick \/ Dispose \/ Reapply \/ Crash \/ Restart \/ \E client \in native : NativeEnds(client)
  BY <1>2, StillIsFewer DEF Tick, Dispose, Reapply, Crash, Restart, NativeEnds, Load, Still
<1>. QED BY <1>1, <1>2 DEF Environment

LEMMA FilesStep ==
    ASSUME IInv, IInv', [Next]_vars
    PROVE  Fewer \/ NewPassword \/ OneMore
<1>1. CASE UNCHANGED vars
  BY <1>1, StillIsFewer DEF vars, Still
<1>2. CASE Next
  BY <1>2, RequestFiles, ResumptionFiles, SynchronousFiles, EnvironmentFiles DEF Next
<1>. QED BY <1>1, <1>2

-----------------------------------------------------------------------------
(* The refinement *)

\* No row is ahead of the password.
LEMMA RowsStayPast ==
    ASSUME IInv, IInv', RowsPast, [Next]_vars
    PROVE  RowsPast'
<1>1. /\ disk.cfg.passwordHash \in Nat
      /\ \A t \in Tokens : row[t].authVersion \in Nat
  BY BoundsAssumption DEF IInv, TypeOK, Disk, Config, Hashes, Row
<1>2. CASE Fewer
  BY <1>2 DEF Fewer, RowsPast
<1>3. CASE NewPassword
  BY <1>1, <1>3 DEF NewPassword, RowsPast
<1>4. CASE OneMore
  BY <1>1, <1>4 DEF OneMore, RowsPast
<1>. QED BY <1>2, <1>3, <1>4, FilesStep

honoured == Bound(disk.held, disk.cfg)
granted == {t \in Tokens : row[t].authVersion # 0}

\* While the instance serves, its memory says what its files say.
LEMMA MemoryIsFiles ==
    ASSUME IInv
    PROVE  /\ (IF mode = "running" THEN Bound(held, cfg) ELSE Bound(disk.held, disk.cfg)) = honoured
           /\ (IF mode = "running" THEN cfg.passwordHash ELSE disk.cfg.passwordHash)
                  = disk.cfg.passwordHash
BY StoreFacts DEF honoured

\* A step of the code is a step of the account, or none.
LEMMA AuthorityStep ==
    ASSUME IInv, IInv', RowsPast, [Next]_vars
    PROVE  [Authority!Next]_(Authority!vars)
<1> DEFINE p == IF mode = "running" THEN cfg.passwordHash ELSE disk.cfg.passwordHash
           v == IF mode = "running" THEN Bound(held, cfg) ELSE Bound(disk.held, disk.cfg)
           g == {t \in Tokens : row[t].authVersion # 0}
<1>0. p = disk.cfg.passwordHash /\ v = honoured
  BY MemoryIsFiles
<1>1. p' = disk'.cfg.passwordHash /\ v' = honoured'
  BY StoreFacts DEF honoured, Bound, IInv, FilesAgree
<1>2. honoured \subseteq Tokens /\ honoured' \subseteq Tokens
  BY DEF honoured, Bound, IInv, TypeOK, Disk
<1>3. ASSUME Fewer
      PROVE  \E gone \in SUBSET Tokens, told \in SUBSET Tokens : Authority!End(gone, told)
  <2>1. honoured' \subseteq honoured
    BY <1>3 DEF Fewer, honoured, Bound
  <2>2. ended' \subseteq Tokens
    BY DEF IInv, TypeOK
  <2>3. \A t \in ended' : t \notin honoured' /\ row'[t].authVersion # 0
    BY DEF IInv, RevokedForGood, Issued, honoured, Bound
  <2>4. g' = g /\ p' = p
    BY <1>0, <1>1, <1>3 DEF Fewer
  <2> DEFINE gone == Tokens \ honoured'
             told == ended' \ ended
  <2>5. v' = v \ gone
    BY <1>0, <1>1, <1>2, <2>1
  <2>6. told \subseteq g \ v'
    BY <1>1, <1>3, <2>2, <2>3 DEF Fewer
  <2>7. ended' = ended \cup told
    BY <1>3 DEF Fewer
  <2>8. gone \in SUBSET Tokens /\ told \in SUBSET Tokens
    BY <2>2
  <2> HIDE DEF gone, told
  <2>. QED BY <2>4, <2>5, <2>6, <2>7, <2>8 DEF Authority!End
<1>4. ASSUME NewPassword
      PROVE  Authority!ChangePassword
  <2>1. \A t \in Tokens : row'[t].authVersion # disk'.cfg.passwordHash
    <3>1. disk.cfg.passwordHash \in Nat /\ \A t \in Tokens : row[t].authVersion \in Nat
      BY BoundsAssumption DEF IInv, TypeOK, Disk, Config, Hashes, Row
    <3>. QED BY <1>4, <3>1 DEF NewPassword, RowsPast
  <2>2. honoured' = {}
    BY <1>2, <2>1 DEF honoured, Bound
  <2>3. p' = p + 1 /\ v' = {} /\ g' = g /\ ended' = ended
    BY <1>0, <1>1, <1>4, <2>2 DEF NewPassword
  <2>. QED BY <2>3 DEF Authority!ChangePassword
<1>5. ASSUME OneMore
      PROVE  \E t \in Tokens : Authority!Grant(t)
  <2> PICK t \in Tokens :
          /\ row[t].authVersion = 0
          /\ row'[t].authVersion = disk.cfg.passwordHash
          /\ \A u \in Tokens \ {t} : row'[u] = row[u]
          /\ disk'.held = disk.held \cup {t}
    BY <1>5 DEF OneMore
  <2>1. disk'.cfg.passwordHash = disk.cfg.passwordHash /\ ended' = ended
        /\ disk.cfg.passwordHash # 0
    BY <1>5, BoundsAssumption DEF OneMore, IInv, TypeOK, Disk, Config, Hashes
  <2>2. honoured' = honoured \cup {t}
    BY <1>2, <2>1 DEF honoured, Bound
  <2>3. g' = g \cup {t}
    BY <2>1
  <2>4. v' = v \cup {t} /\ p' = p /\ t \notin g
    BY <1>0, <1>1, <2>1, <2>2
  <2>. QED BY <2>1, <2>3, <2>4 DEF Authority!Grant
<1>. QED BY <1>3, <1>4, <1>5, FilesStep DEF Authority!Next

\* AccountCore implements SessionAuthority: a session is granted once and ends once, and a new
\* password, although it is two writes of store.js, ends all of them in one step.
THEOREM AccountImplementsAuthority == Spec => ImplementsAuthority
<1>1. Init => Authority!Init /\ RowsPast
  BY BoundsAssumption DEF Init, Authority!Init, RowsPast, Bound, Config
<1>2. IInv /\ IInv' /\ RowsPast /\ [Next]_vars => RowsPast'
  BY RowsStayPast
<1>3. IInv /\ IInv' /\ RowsPast /\ [Next]_vars => [Authority!Next]_(Authority!vars)
  BY AuthorityStep
<1>. QED BY <1>1, <1>2, <1>3, Invariance, PTL DEF Spec, ImplementsAuthority, Authority!Spec
================================================================================
