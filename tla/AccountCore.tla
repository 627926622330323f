------------------------------ MODULE AccountCore ------------------------------
(***************************************************************************)
(* Sessions, configuration, their files and the sockets they authorize:    *)
(* store.js, the socket registry of gate.js, and the handlers of api.js    *)
(* that wait between checking an identity and using it.                    *)
(*                                                                         *)
(* JavaScript runs one handler at a time, up to its next await.  An action *)
(* is such a stretch, with one exception: PUT config writes up to three    *)
(* files synchronously, and the process may die between two of them.  Its  *)
(* stretch is split at the writes: while step # "turn" only the next part  *)
(* or a crash can happen.                                                  *)
(*                                                                         *)
(* A password hash carries a random salt, so every change yields a hash    *)
(* never seen before: hashes are numbered in order of appearance.  Session *)
(* tokens are 32 random bytes, so an issued token is never issued again.   *)
(* Files are replaced by rename: a write happens entirely or not at all.   *)
(***************************************************************************)
EXTENDS Integers, FiniteSets

CONSTANTS
    Clients,    \* browsers, each at an address of its own and with one cookie jar
    Tokens,     \* session tokens (the value of the gate cookie)
    Bearers,    \* raw API and inbound peer tokens that exist at the start
    NoToken,    \* no gate cookie
    NoBearer,   \* no Authorization header
    Ttls,       \* values of sessionMaxAgeDays, in ticks of the clock
    Patches,    \* bodies of PUT config that clients send
    MaxHash,    \* bound: password hashes that appear
    MaxTime,    \* bound: ticks of the clock
    MaxEpoch,   \* bound: times the plugin is applied again within one process
    MaxOpen,    \* bound: authorized sockets and streaming responses at once
    MaxPending  \* bound: handlers waiting at an await at once, of each kind

Hashes == 1 .. MaxHash
Times  == 0 .. MaxTime
Epochs == 0 .. MaxEpoch

ASSUME BoundsAssumption ==
    /\ MaxHash \in Nat \ {0}
    /\ MaxTime \in Nat
    /\ MaxEpoch \in Nat
    /\ Ttls \subseteq Nat \ {0}
    /\ NoToken \notin Tokens
    /\ NoBearer \notin Bearers

Config  == [passwordHash: Hashes, allow: SUBSET Clients, deny: SUBSET Clients, ttl: Ttls]
Row     == [createdAt: Times, authVersion: 0 .. MaxHash]   \* authVersion 0: not issued yet
Patch   == [password: BOOLEAN, deny: SUBSET Clients, ttl: Ttls]
Disk    == [cfg: Config, held: SUBSET Tokens, seen: [Tokens -> Times], bearers: SUBSET Bearers]
Conn    == [client: Clients, session: Tokens \cup {NoToken}, bearer: Bearers \cup {NoBearer}]
PutReq  == [client: Clients, token: Tokens, hash: Hashes, body: Patches, epoch: Epochs]
LoginReq == [client: Clients, password: Hashes, hash: Hashes, checked: 0 .. MaxHash,
             stage: {"body", "queued", "verifying"}, epoch: Epochs]

ASSUME PatchesAssumption == Patches \subseteq Patch

VARIABLES
    mode,     \* "running"; "stopped": this instance of the plugin is disposed; "down": no process
    step,     \* "turn", or the next synchronous part of the PUT config in job
    epoch,    \* which application of the plugin, within this process, is the latest
    job,      \* the PUT config being executed: at most one
    cfg,      \* store.cfg
    held,     \* the keys of state.sessions
    seen,     \* lastSeenAt of each session, in memory
    row,      \* the fields of each session row that never change
    bearers,  \* the API and peer tokens that verify
    disk,     \* config.json, state.json and the token files
    native,   \* the clients whose cookie jar holds a live official session (external)
    open,     \* gate.js active: sockets and responses still open, with their credentials
    puts,     \* PUT config handlers awaiting their body
    logins,   \* auth/login handlers awaiting their body or the verifier
    now,
    ended     \* history: tokens whose logout or password change was acknowledged

memory  == <<cfg, held, seen, bearers>>
waiting == <<puts, logins>>
vars == <<mode, step, epoch, job, cfg, held, seen, row, bearers, disk, native, open,
          puts, logins, now, ended>>

TypeOK ==
    /\ mode \in {"running", "stopped", "down"}
    /\ step \in {"turn", "hash", "wipe", "patch"}
    /\ epoch \in Epochs
    /\ job \in SUBSET PutReq
    /\ cfg \in Config
    /\ held \in SUBSET Tokens
    /\ seen \in [Tokens -> Times]
    /\ row \in [Tokens -> Row]
    /\ bearers \in SUBSET Bearers
    /\ disk \in Disk
    /\ native \in SUBSET Clients
    /\ open \in SUBSET Conn
    /\ puts \in SUBSET PutReq
    /\ logins \in SUBSET LoginReq
    /\ now \in Times
    /\ ended \in SUBSET Tokens

-----------------------------------------------------------------------------
(* Reading the store *)

Idle == mode = "running" /\ step = "turn"

\* sessionFromToken finds a row and it is good, in a store with sessions h and config c;
\* and as it would be if the row were not bound to the password
LiveAnyVersion(t, h, c) ==
    /\ t \in h
    /\ now - row[t].createdAt < c.ttl
    /\ now - seen[t] < c.ttl

Live(t, h, c) ==
    /\ t \in h
    /\ row[t].authVersion = c.passwordHash
    /\ now - row[t].createdAt < c.ttl
    /\ now - seen[t] < c.ttl

Authenticated(conn, h, c, b) ==
    /\ Live(conn.session, h, c) \/ conn.bearer \in b
    /\ conn.client \in native

\* what recheckSockets asks of a socket it keeps; and as it would be if any credential
\* that still stands were enough
AllowedByAny(conn, h, c, b) == conn.client \notin c.deny /\ Authenticated(conn, h, c, b)

Allowed(conn, h, c, b) ==
    /\ conn.client \notin c.deny
    /\ conn.session = NoToken \/ Live(conn.session, h, c)
    /\ Authenticated(conn, h, c, b)

\* rows that recheckSockets finds dead, and deletes, while it looks at the open sockets
DeadRows(h, c) ==
    {t \in h : /\ ~ Live(t, h, c)
               /\ \E conn \in open : conn.session = t /\ conn.client \notin c.deny}

-----------------------------------------------------------------------------
(* Writing the store *)

\* dispose(): the store is retired and every socket destroyed.  Handlers waiting at an
\* await stay: they belong to an epoch that is over.
Stop ==
    /\ mode' = "stopped"
    /\ step' = "turn"
    /\ job' = {}
    /\ open' = {}

\* a write fails: memory has changed to h, c, b; the files are d
StorageFailure(h, c, b, d) ==
    /\ Stop
    /\ held' = h /\ cfg' = c /\ bearers' = b /\ disk' = d

Proceed(s) ==
    /\ mode' = mode
    /\ step' = s
    /\ job' = IF s = "turn" THEN {} ELSE job

\* ... and as it would be if those deletions stayed in memory
NotifyUnsaved(h, c, b, d, s) ==
    /\ held' = h \ DeadRows(h, c) /\ cfg' = c /\ bearers' = b /\ disk' = d
    /\ open' = {conn \in open : Allowed(conn, h, c, b)}
    /\ Proceed(s)

\* recheckSockets verifies a token, which may write the time of its last use
Vouched(c, b) ==
    \E conn \in open : conn.client \notin c.deny /\ conn.session = NoToken /\ conn.bearer \in b

\* securityChanged() once the files are d: recheckSockets deletes dead rows, each with a
\* write of its own, any of which may fail; the handler then goes on at s
Notify(h, c, b, d, s) ==
    LET dead == DeadRows(h, c) IN
    \/ /\ held' = h \ dead /\ cfg' = c /\ bearers' = b
       /\ disk' = IF dead = {} THEN d ELSE [d EXCEPT !.held = h \ dead, !.seen = seen']
       /\ open' = {conn \in open : Allowed(conn, h, c, b)}
       /\ Proceed(s)
    \/ \E gone \in SUBSET dead :
       /\ gone # dead \/ Vouched(c, b)
       /\ StorageFailure(h \ dead, c, b,
                         IF gone = {} THEN d ELSE [d EXCEPT !.held = h \ gone, !.seen = seen'])

DiskWithState(h) == [disk EXCEPT !.held = h, !.seen = seen']

\* delete state.sessions[t]; saveState(); securityChanged().  And as it would be without
\* saveState().
RemoveUnsaved(t) == Notify(held \ {t}, cfg, bearers, disk, "turn")

RemoveSession(t) ==
    \/ Notify(held \ {t}, cfg, bearers, DiskWithState(held \ {t}), "turn")
    \/ StorageFailure(held \ {t}, cfg, bearers, disk)

NewRow == [createdAt |-> now, authVersion |-> cfg.passwordHash]

\* issueSession() together with the official cookie minted just before.  auth/login saves the
\* cleared lockout, with all of the state, before it comes to this.
IssueSession(client) ==
    \E t \in Tokens :
        /\ row[t].authVersion = 0
        /\ \/ /\ held' = held \cup {t}
              /\ seen' = [seen EXCEPT ![t] = now]
              /\ row' = [row EXCEPT ![t] = NewRow]
              /\ disk' = DiskWithState(held \cup {t})
              /\ native' = native \cup {client}
              /\ UNCHANGED <<mode, step, job, cfg, bearers, open>>
           \/ /\ UNCHANGED <<seen, row, native>>
              /\ \E d \in {disk, DiskWithState(held)} : StorageFailure(held, cfg, bearers, d)
        /\ UNCHANGED <<epoch, now, ended>>

Touch(t) == seen' = [seen EXCEPT ![t] = now]

-----------------------------------------------------------------------------
(* Requests answered without waiting *)

\* a request shows the cookie of a session that is no longer good
PurgeDead(client, t) ==
    /\ Idle
    /\ client \notin cfg.deny
    /\ t \in held /\ ~ Live(t, held, cfg)
    /\ UNCHANGED seen
    /\ RemoveSession(t)
    /\ UNCHANGED <<epoch, row, native, puts, logins, now, ended>>

\* auth/logout.  When a write fails the bridge is disposed too, and the answer is an error.
Logout(client, t) ==
    /\ Idle
    /\ client \notin cfg.deny
    /\ t \in held
    /\ UNCHANGED seen
    /\ RemoveSession(t)
    /\ ended' = IF mode' = "running" THEN ended \cup {t} ELSE ended
    /\ UNCHANGED <<epoch, row, native, puts, logins, now>>

\* wrapUpgradeHandler, and the tracked responses of wrapHttpHandler.  A request that shows
\* a dead row deletes it first (PurgeDead) and goes on without a session.
OpenConn(client, t, b) ==
    LET conn == [client |-> client, session |-> t, bearer |-> b] IN
    /\ Idle
    /\ client \notin cfg.deny
    /\ t \in held => Live(t, held, cfg)
    /\ Authenticated(conn, held, cfg, bearers)
    /\ conn \notin open /\ Cardinality(open) < MaxOpen
    /\ \/ /\ open' = open \cup {conn}
          /\ UNCHANGED <<mode, step, job, cfg, held, bearers, disk>>
       \/ t \notin held /\ StorageFailure(held, cfg, bearers, disk)  \* last use of the token
    /\ IF t \in held THEN Touch(t) ELSE UNCHANGED seen
    /\ UNCHANGED <<epoch, row, native, puts, logins, now, ended>>

CloseConn(conn) ==
    /\ Idle
    /\ open' = open \ {conn}
    /\ UNCHANGED <<mode, step, epoch, job, cfg, held, seen, row, bearers, disk, native,
                   puts, logins, now, ended>>

\* GET auth/me, and any other request that shows a live session
AuthMe(client, t) ==
    /\ Idle
    /\ client \notin cfg.deny
    /\ Live(t, held, cfg)
    /\ Touch(t)
    /\ UNCHANGED <<mode, step, epoch, job, cfg, held, row, bearers, disk, native, open,
                   puts, logins, now, ended>>

\* GET / from a client whose session outlived its official cookie
RestoreNative(client, t) ==
    /\ Idle
    /\ client \notin cfg.deny /\ client \notin native
    /\ Live(t, held, cfg)
    /\ native' = native \cup {client}
    /\ UNCHANGED <<mode, step, epoch, job, cfg, held, seen, row, bearers, disk, open,
                   puts, logins, now, ended>>

\* GET / from an address on the allow list, without a session or an official cookie
WhitelistGrant(client) ==
    /\ Idle
    /\ client \in cfg.allow \ cfg.deny
    /\ IssueSession(client)
    /\ UNCHANGED <<puts, logins>>

\* DELETE api-tokens/:id and DELETE peers/:id
RevokeBearer(client, t, b) ==
    /\ Idle
    /\ client \notin cfg.deny /\ client \in native
    /\ Live(t, held, cfg)
    /\ b \in bearers
    /\ Touch(t)
    /\ \/ Notify(held, cfg, bearers \ {b}, [disk EXCEPT !.bearers = bearers \ {b}], "turn")
       \/ StorageFailure(held, cfg, bearers \ {b}, disk)
    /\ UNCHANGED <<epoch, row, native, puts, logins, now, ended>>

\* applyIpListChange: an address is on one list at most
Listed(c, target, list) ==
    IF list = "deny"
    THEN [c EXCEPT !.allow = @ \ {target}, !.deny = @ \cup {target}]
    ELSE [c EXCEPT !.allow = @ \cup {target}, !.deny = @ \ {target}]

\* POST security-visitors/:ip/allow or deny
DecideVisitor(client, t, target, list) ==
    LET c == Listed(cfg, target, list) IN
    /\ Idle
    /\ client \notin cfg.deny /\ client \in native
    /\ Live(t, held, cfg)
    /\ Touch(t)
    /\ \/ Notify(held, c, bearers, [disk EXCEPT !.cfg = c], "turn")
       \/ StorageFailure(held, c, bearers, disk)
    /\ UNCHANGED <<epoch, row, native, puts, logins, now, ended>>

-----------------------------------------------------------------------------
(* Handlers that wait: api.js captures the hash, and requireAuth the token, before an   *)
(* await, and revalidate() decides after it.                                            *)

\* assertLive, the address and authenticationVersion; also right before grant().  And as
\* it would be without authenticationVersion.
StillLive(r) == r.epoch = epoch /\ r.client \notin cfg.deny

StillCurrent(r) ==
    /\ r.epoch = epoch
    /\ r.client \notin cfg.deny
    /\ r.hash = cfg.passwordHash

\* ... and the session that was authenticated; and as it would be without assertLive
StillAnyEpoch(r) ==
    /\ r.client \notin cfg.deny /\ r.hash = cfg.passwordHash
    /\ Live(r.token, held, cfg)
    /\ r.client \in native

StillAuthorized(r) ==
    /\ StillCurrent(r)
    /\ Live(r.token, held, cfg)
    /\ r.client \in native

StartPut(client, t, body) ==
    /\ Idle
    /\ client \notin cfg.deny /\ client \in native
    /\ Live(t, held, cfg)
    /\ body.password => cfg.passwordHash < MaxHash
    /\ Cardinality(puts) < MaxPending
    /\ puts' = puts \cup {[client |-> client, token |-> t, hash |-> cfg.passwordHash,
                           body |-> body, epoch |-> epoch]}
    /\ Touch(t)
    /\ UNCHANGED <<mode, step, epoch, job, cfg, held, row, bearers, disk, native, open,
                   logins, now, ended>>

\* the body is there and revalidate() passes
BeginPut(r) ==
    /\ Idle
    /\ StillAuthorized(r)
    /\ puts' = puts \ {r}
    /\ job' = {r}
    /\ step' = IF r.body.password THEN "hash" ELSE "patch"
    /\ UNCHANGED <<mode, epoch, cfg, held, seen, row, bearers, disk, native, open,
                   logins, now, ended>>

\* revalidate() throws.  If it got as far as a dead row, that row is deleted.
RefusePut(r) ==
    /\ step = "turn" /\ mode # "down"
    /\ ~ (Idle /\ StillAuthorized(r))
    /\ puts' = puts \ {r}
    /\ UNCHANGED seen
    /\ IF Idle /\ StillCurrent(r) /\ r.token \in held /\ ~ Live(r.token, held, cfg)
       THEN RemoveSession(r.token)
       ELSE UNCHANGED <<mode, step, job, cfg, held, bearers, disk, open>>
    /\ UNCHANGED <<epoch, row, native, logins, now, ended>>

\* setPasswordHash, first write: config.json with the new hash
SaveHash ==
    LET c == [cfg EXCEPT !.passwordHash = @ + 1] IN
    /\ step = "hash"
    /\ \/ /\ cfg' = c
          /\ disk' = [disk EXCEPT !.cfg = c]
          /\ Proceed("wipe")
          /\ UNCHANGED <<held, bearers, open>>
       \/ StorageFailure(held, c, bearers, disk)
    /\ UNCHANGED <<epoch, seen, row, native, puts, logins, now, ended>>

\* setPasswordHash, second write: state.json without sessions; and as it would be without
\* that write
WipeInMemory ==
    /\ step = "wipe"
    /\ Notify({}, cfg, bearers, disk, "patch")
    /\ UNCHANGED <<epoch, seen, row, native, puts, logins, now, ended>>

WipeSessions ==
    /\ step = "wipe"
    /\ UNCHANGED seen
    /\ \/ Notify({}, cfg, bearers, DiskWithState({}), "patch")
       \/ StorageFailure({}, cfg, bearers, disk)
    /\ UNCHANGED <<epoch, row, native, puts, logins, now, ended>>

\* deny wins over allow
Patched(c, body) ==
    [c EXCEPT !.allow = @ \ body.deny, !.deny = body.deny, !.ttl = body.ttl]

\* updateConfig, and the answer.  The recheck after the write may fail in its own write:
\* the answer is sent all the same.
ApplyPatch ==
    \E r \in job :
        LET c == Patched(cfg, r.body) IN
        /\ step = "patch"
        /\ UNCHANGED seen
        /\ \/ /\ Notify(held, c, bearers, [disk EXCEPT !.cfg = c], "turn")
              /\ ended' = IF r.body.password
                          THEN ended \cup {t \in Tokens : row[t].authVersion \in 1 .. r.hash}
                          ELSE ended
           \/ /\ StorageFailure(held, c, bearers, disk)
              /\ UNCHANGED ended
        /\ UNCHANGED <<epoch, row, native, puts, logins, now>>

StartLogin(client, password) ==
    /\ Idle
    /\ client \notin cfg.deny
    /\ Cardinality(logins) < MaxPending
    /\ logins' = logins \cup {[client |-> client, password |-> password,
                               hash |-> cfg.passwordHash, checked |-> 0,
                               stage |-> "body", epoch |-> epoch]}
    /\ UNCHANGED <<mode, step, epoch, job, memory, row, disk, native, open, puts, now, ended>>

LoginMoves(r, s) == logins' = (logins \ {r}) \cup {s}

\* the body is there: wait for a verification slot
QueueLogin(r) ==
    /\ Idle /\ r.stage = "body"
    /\ StillCurrent(r)
    /\ LoginMoves(r, [r EXCEPT !.stage = "queued"])
    /\ UNCHANGED <<mode, step, epoch, job, memory, row, disk, native, open, puts, now, ended>>

\* a slot is free: scrypt starts, against the hash the store holds at this moment.  A
\* verification queued by a retired store still runs; nothing comes of it.
VerifyLogin(r) ==
    /\ step = "turn" /\ mode # "down" /\ r.stage = "queued"
    /\ LoginMoves(r, [r EXCEPT !.stage = "verifying", !.checked = cfg.passwordHash])
    /\ UNCHANGED <<mode, step, epoch, job, memory, row, disk, native, open, puts, now, ended>>

\* the password matches what it was checked against, and revalidate() passes: grant()
GrantLogin(r) ==
    /\ Idle /\ r.stage = "verifying"
    /\ StillCurrent(r)
    /\ r.password = r.checked
    /\ logins' = logins \ {r}
    /\ IssueSession(r.client)
    /\ UNCHANGED puts

\* after a saveState(), 401 to a wrong password, 503 to a right one when the official cookie
\* cannot be minted.  A wrong one whose visitor record cannot be written saves nothing.
DenyLogin(r) ==
    /\ Idle /\ r.stage = "verifying"
    /\ StillCurrent(r)
    /\ logins' = logins \ {r}
    /\ UNCHANGED seen
    /\ \/ /\ disk' = DiskWithState(held) \/ (r.password # r.checked /\ disk' = disk)
          /\ UNCHANGED <<mode, step, job, cfg, held, bearers, open>>
       \/ StorageFailure(held, cfg, bearers, disk)
    /\ UNCHANGED <<epoch, row, native, puts, now, ended>>

\* revalidate() throws
RefuseLogin(r) ==
    /\ step = "turn" /\ mode # "down" /\ r.stage \in {"body", "verifying"}
    /\ ~ (Idle /\ StillCurrent(r))
    /\ logins' = logins \ {r}
    /\ UNCHANGED <<mode, step, epoch, job, memory, row, disk, native, open, puts, now, ended>>

-----------------------------------------------------------------------------
(* Time, the environment, disposal, death *)

\* setInterval(recheckSockets, 60000); and as it would be if it asked for the address only
RecheckAddresses ==
    /\ Idle
    /\ open' = {conn \in open : conn.client \notin cfg.deny}
    /\ UNCHANGED <<mode, step, epoch, job, memory, row, disk, native, puts, logins, now, ended>>

RecheckTimer ==
    /\ Idle
    /\ UNCHANGED seen
    /\ Notify(held, cfg, bearers, disk, "turn")
    /\ UNCHANGED <<epoch, row, native, puts, logins, now, ended>>

Tick ==
    /\ now < MaxTime
    /\ step = "turn"
    /\ now' = now + 1
    /\ UNCHANGED <<mode, step, epoch, job, memory, row, disk, native, open, puts, logins, ended>>

\* the official session of a client ends
NativeEnds(client) ==
    /\ native' = native \ {client}
    /\ step = "turn"
    /\ UNCHANGED <<mode, step, epoch, job, memory, row, disk, open, puts, logins, now, ended>>

Dispose ==
    /\ Idle
    /\ Stop
    /\ UNCHANGED <<epoch, memory, row, disk, native, puts, logins, now, ended>>

\* createStore reads the files
Load ==
    /\ mode' = "running"
    /\ cfg' = disk.cfg /\ held' = disk.held /\ seen' = disk.seen /\ bearers' = disk.bearers
    /\ UNCHANGED <<step, job, row, disk, open, puts, logins, now, ended>>

\* the plugin is applied again in the same process
Reapply ==
    /\ mode = "stopped"
    /\ epoch < MaxEpoch
    /\ epoch' = epoch + 1
    /\ Load
    /\ UNCHANGED native

Crash ==
    /\ mode # "down"
    /\ mode' = "down" /\ step' = "turn" /\ job' = {}
    /\ open' = {} /\ puts' = {} /\ logins' = {}
    /\ UNCHANGED <<epoch, memory, row, disk, native, now, ended>>

\* official sessions do not survive the process
Restart ==
    /\ mode = "down"
    /\ epoch' = 0
    /\ native' = {}
    /\ Load

-----------------------------------------------------------------------------

Init ==
    /\ mode = "running" /\ step = "turn" /\ epoch = 0 /\ job = {}
    /\ cfg \in {c \in Config : c.passwordHash = 1 /\ c.deny = {}}
    /\ held = {} /\ bearers = Bearers
    /\ seen = [t \in Tokens |-> 0]
    /\ row = [t \in Tokens |-> [createdAt |-> 0, authVersion |-> 0]]
    /\ disk = [cfg |-> cfg, held |-> held, seen |-> seen, bearers |-> bearers]
    /\ native = {} /\ open = {} /\ puts = {} /\ logins = {} /\ now = 0 /\ ended = {}

Requests ==
    \/ \E client \in Clients :
        \/ WhitelistGrant(client)
        \/ \E password \in Hashes : StartLogin(client, password)
        \/ \E t \in Tokens :
            \/ PurgeDead(client, t)
            \/ Logout(client, t)
            \/ AuthMe(client, t)
            \/ RestoreNative(client, t)
            \/ \E target \in Clients, list \in {"allow", "deny"} :
                   DecideVisitor(client, t, target, list)
            \/ \E b \in Bearers : RevokeBearer(client, t, b)
            \/ \E body \in Patches : StartPut(client, t, body)
        \/ \E t \in Tokens \cup {NoToken}, b \in Bearers \cup {NoBearer} : OpenConn(client, t, b)
    \/ \E conn \in open : CloseConn(conn)

Resumptions ==
    \/ \E r \in puts : BeginPut(r) \/ RefusePut(r)
    \/ \E r \in logins : QueueLogin(r) \/ VerifyLogin(r)
    \/ \E r \in logins : GrantLogin(r) \/ DenyLogin(r) \/ RefuseLogin(r)

Synchronous == SaveHash \/ WipeSessions \/ ApplyPatch

Environment ==
    \/ RecheckTimer \/ Tick \/ Dispose \/ Reapply \/ Crash \/ Restart
    \/ \E client \in native : NativeEnds(client)

Next == Requests \/ Resumptions \/ Synchronous \/ Environment

Spec == Init /\ [][Next]_vars

\* the event loop runs the synchronous stretch to its end, and the interval timer fires
FairSpec == Spec /\ WF_vars(Synchronous) /\ WF_vars(RecheckTimer)

-----------------------------------------------------------------------------
(* Properties *)

\* Whenever the event loop is between two handlers, each tracked socket that is still open
\* belongs to a running gate, to an address that is not denied, and to a credential that
\* was not revoked: a session bound to the current password, or a token.  Logout, password
\* change, token revocation, deny list and a failed write act on the sockets before any
\* other handler runs.  Expiry is left out: it waits for the timer.
OpenConnsStand ==
    step = "turn" =>
        \A conn \in open :
            /\ mode = "running"
            /\ conn.client \notin cfg.deny
            /\ \/ conn.bearer \in bearers
               \/ conn.session \in held /\ row[conn.session].authVersion = cfg.passwordHash

\* Memory never holds anything that the files do not, not even between the writes of one
\* handler: a process that dies comes back with the same sessions, password, lists and
\* tokens, and with sessions that expire no later.
FilesAgree ==
    mode = "running" =>
        /\ disk.cfg = cfg
        /\ disk.held = held
        /\ disk.bearers = bearers
        /\ \A t \in held : disk.seen[t] <= seen[t]

\* A session whose logout, or whose password change, was acknowledged authorizes nothing,
\* neither now nor after a restart at any later point: its row is gone from both.
RevokedForGood ==
    \A t \in ended :
        /\ t \notin disk.held
        /\ mode = "running" => t \notin held

\* The configuration file changes only on behalf of a request whose session was not
\* revoked, and whose address was not denied, by anything acknowledged since it was sent:
\* a PUT that waits for its body loses its authority with a logout, a password change, a
\* deny list or a new application of the plugin.
OnlyAuthorizedPuts ==
    [][\A r \in job' \ job :
           /\ r.token \notin ended
           /\ r.client \notin cfg.deny
           /\ row[r.token].authVersion = cfg.passwordHash
           /\ r.epoch = epoch]_vars

\* A session that appears was granted to an allow-listed address, or to a login whose
\* password matches the hash in force at that moment and not only the one it was checked
\* against.
GrantsProvePassword ==
    [][\A t \in Tokens : row'[t] # row[t] =>
           /\ row'[t].authVersion = cfg.passwordHash
           /\ \/ logins' = logins /\ \E client \in cfg.allow \ cfg.deny : client \in native'
              \/ \E r \in logins \ logins' : /\ r.password = cfg.passwordHash
                                             /\ r.client \notin cfg.deny]_vars

\* The step that acknowledges a revocation leaves no socket that carries the session, even
\* one that also shows a live token.
RevocationClosesSockets ==
    [][\A conn \in open' : conn.session \notin ended' \ ended]_vars

\* The rows of h that are bound to the password of c.
Bound(h, c) == {t \in h : row[t].authVersion = c.passwordHash}

\* The account as SessionAuthority sees it: by its memory while it serves, by its files
\* otherwise.
Authority == INSTANCE SessionAuthority WITH
    password <- IF mode = "running" THEN cfg.passwordHash ELSE disk.cfg.passwordHash,
    honoured <- IF mode = "running" THEN Bound(held, cfg) ELSE Bound(disk.held, disk.cfg),
    granted  <- {t \in Tokens : row[t].authVersion # 0}

\* Over all handlers, failed writes, disposals, reapplications and crashes a session is
\* granted once and ends once, and a new password ends all of them in one step: although
\* setPasswordHash() writes two files, the rows in the second are bound to the first.
ImplementsAuthority == Authority!Spec

\* A socket that lost its authority by expiry, or because the official session ended, is
\* closed, unless it gets its authority back first: the timer looks at every socket.
DoomedSocketsClose ==
    \A conn \in Conn :
        (conn \in open /\ ~ Allowed(conn, held, cfg, bearers))
            ~> (conn \notin open \/ Allowed(conn, held, cfg, bearers))

=============================================================================
