# Formal model of dsh-local-hanaccount

TLA+ modules, TLC configurations and TLAPS proofs about the account plugin in `src/`: a password
gate in front of a DSH web server, with sessions, sockets, tokens, passkeys, SSH keys, pairing, a
login throttle and short-lived grants for browser RPC; and about the two pages it brings, the login
page and the settings.

The server side runs in one Node.js process. Handlers run one at a time up to their next `await`;
what is hard is what happens *between* two stretches of a handler, in *nested notifications*, when a
*write fails*, and when the process *dies between two writes*. The browser side is hard because
answers come *late, out of order or never* while a user goes on.

## Inventory

Paths are below `src/src/`.

| component | source | state | operations | what makes it correct |
|---|---|---|---|---|
| account store | `lib/store.js`, `lib/util.js` | `cfg`, `state.sessions`, `state.lockouts`, the retired and failed flags; `config.json`, `state.json` | issue, look up, log out sessions; `updateConfig`, `setPasswordHash`; rows of addresses; load, retire | memory never ahead of the files; what was revoked stays revoked; a failed write stops everything |
| gate | `gate.js` | sockets and responses with the request that opened them | decide a request, register, recheck, 60 s timer, whitelist grant, native restore | no socket outlives its authority |
| API | `api.js` | handlers waiting for a body or the verifier; limiter of pairing failures | login, logout, `PUT config`, token, peer, key and passkey management | authority checked before an `await` is checked again after it |
| login guard | `lib/login-guard.js` | running count and queue; failures, cooldown, level | `check`, `recordFailure`, `run`, `drain` | bounded, no lost slot, cooldown after every burst |
| lockout | `lib/password.js`, `lib/store.js` | attempts and lock per address, in a table with a limit | check, charge, reset, evict | no more guesses than allowed; answered failures stay charged |
| lifecycle | `index.js` | one disposed flag per application | apply, dispose, failure half way | a retired instance does nothing |
| RPC authorization | `lib/rpc-authorization.js` | grants with timers and abort signals | issue, authorize, sweep, dispose | a grant lives no longer than its session, scope and time |
| adapter and bridge | `lib/dsh-adapter.js`, `lib/native-bridge.js` | one guard per web server, its owner and gate | claim, activate, stop, wrap routes | fail closed; a retired owner changes nothing |
| API tokens | `lib/tokens.js` | rows with hashes | issue, verify, revoke | revocation reaches sockets |
| peers, pairing | `lib/peers.js`, `api.js` | peers; codes and attempts; two files | create and claim codes, add, remove peers | a code is used once, a token that was handed out is honoured |
| passkeys | `lib/passkey*.js` | credentials; one challenge per kind, memory and file | register, log in, remove | a challenge is used once, a removed credential never logs in |
| SSH keys | `lib/key-auth.js` | challenges in memory, a key file | challenge, verify, add, revoke | a challenge is used once; a revoked key stays out |
| IP policy | `lib/ip.js` | none | resolve the client, match lists, change lists | an address on one list only; a proxied request is never the operator's |
| visitors | `lib/visitors.js` | bounded record | record, dismiss, allow, deny | bounded; an allowed address does not come back |
| outbound fetch | `lib/outbound-fetch.js` | the patched `fetch` | install, restore | one injects; patches of others stay |
| client session | `lib/auth-session.js`, `lib/auth-request.js` | status, scope, flights, grant | refresh, invalidate, request a grant, dispose | a late answer never revives an ended session |
| login page | `lib/login-page.js` | the page's flags, the stored password | check access, restore, log in, hide, show | no answer overrides the user; never blank for ever |
| settings | `client.entry.js` | lists shown, busy, dialog | add, remove, allow, confirm, reload | stale lists move no entry nobody asked for |
| the rest | bootstrap, initial password, migration, route policy, scripts | | | see Not modelled |

Interaction. Every request passes the gate, which asks the store (session), tokens and peers
(bearer) and the bridge (official session). API handlers change the store; the store, the tokens and
the peers call `securityChanged`, to which the gate (sockets) and the RPC authorization (grants)
listen and in which they may write again. A failed write anywhere calls back into `index.js`, which
disposes the whole instance. Instances that follow one another in a process share the guard of the
web server and the global `fetch`. The pages know the server by its answers only.

The list `hazards` of `PROJECT.json` names, line by line, what can go wrong in this and which
property watches it.

## Modules

| module | models | state and actions |
|---|---|---|
| `AccountCore` | store, socket registry, the waiting handlers, lifecycle | below |
| `SessionAuthority` | abstract: what an account promises about its sessions | `password`, `honoured`, `granted`, `ended`; `Grant`, `End`, `ChangePassword` |
| `RpcGrants` | `rpc-authorization.js` over the sessions | `session`, `status`, `timer`; `IssueForRequest`, `AuthorizeGrant`, `TimerFires`, `Dispose`, and what the store and the adapter do to grants |
| `LoginBudget` | the failure budget of `login-guard.js` | `failures`, `cooldownUntil`, `level`, `lastTrigger`; `RecordFailure`, `BudgetTick` |
| `LoginSlots` | the verification slots of `login-guard.js` | `running`, `queue`; `Run`, `Settle` |
| `LoginGuard` | both halves, as `api.js` uses them | `Admit`, `Succeeds`, `Fails` |
| `LoginPipeline` | `POST auth/login`: lockout, budget and slots composed | `lockouts`, `stage`, `micro`; `Begin`, `BodyEnds`, `BodyFails`, `Refuse`, `Reserve`, `Busy`, `Rollback`, `Accept`, `Deny`, `Revoked` |
| `LockoutTable` | the table of addresses when it is full | `limits`, `table`, `rows`, `disk`, `req`; `BeginKnown`, `BeginNew` (prunes), `Charge`, `Wrong`, `Right`, `Refused`, `SaveState`, `Stop`, `Restart` |
| `AdapterEpochs` | `index.js`, `dsh-adapter.js`, `outbound-fetch.js`: applications that come and go | `guard`, `inst`, `chain`, `active`; `Apply`, `ApplyFails`, `AlreadyActive`, `DisposeApplication`, `Tamper`, `Detect`, `ForeignPatch`, `ForeignRestore` |
| `Door` | abstract: what the guard of a web server promises | `guarded`, `open`, `used`; `Admit`, `Refuse`, `Close` |
| `Pairing` | codes, attempts, peers over two files, and the other installation | `mem`, `disk`, `limiter`, `waiting`, `answers`; `CreatePairingCode`, `BeginPair`, `Claim`, `RemovePeer`, `Connected`, `AnswerLost`, `Stop`, `Restart` |
| `Passkeys` | `passkey*.js` and their routes | `mem`, `disk`, `req`; `BeginOptions`, `OptionsReady`, `BeginVerify`, `TakeChallenge`, `LoginVerified`, `RegistrationVerified`, `RemoveCredential`, `Reload` |
| `KeyLogin` | `key-auth.js` and its routes | `pending`, `file`, `req`; `Issue`, `Begin`, `Verify`, `AddKey`, `DeleteKey`, `SetEnabled`, `Restart` |
| `Credentials` | `Pairing`, `Passkeys` and `KeyLogin` side by side | `atWork`; the steps of the one that is at work |
| `AddressPolicy` | lists, visitors, and logins that wait | `world`, `cfg`, `file`, `visitors`, `req`; `UpdateLists`, `AllowVisitor`, `DenyVisitor`, `DismissVisitor`, `Refuse`, `BeginLogin`, `LoginFails` |
| `ClientIp` | `ip.js` as functions: networks, and whose request it is | one question per behaviour, against a reference definition |
| `Addresses` | `LockoutTable`, `AddressPolicy` and `ClientIp` side by side | `atWork`; the steps of the one that is at work |
| `ClientAuthSession` | `auth-session.js` in the browser | `status`, `scope`, `inflight`, `grant`, `flight`, `flights`, `caller`; the operations and the answers |
| `LoginPage` | the script of the login page | `page`, `checks`, `restore`, `run`; answers, user, `Hide`, `Show` |
| `SettingsPage` | the settings section, over the lists of the server | `page`, `op`, `server`; clicks, keys and answers |
| `*Proofs` | | the theorems about the module named before it; `LoginProofs`: about `LoginSlots`, `LoginGuard` and `LoginPipeline`; `HostProofs`: about `RpcGrants` and `AdapterEpochs` |
| `MC*` | | model values, symmetry and instances for TLC |

### AccountCore

One action is one synchronous stretch. `PUT config` is the exception: it writes up to three times in
one stretch, and a crash can fall between two writes, so it is split into `BeginPut`, `SaveHash`,
`WipeSessions`, `ApplyPatch`; the variable `step` keeps every other handler out meanwhile.

| variable | code |
|---|---|
| `mode`, `epoch` | retired, failed or dead instance; which application within the process |
| `cfg`, `held`, `seen`, `row`, `bearers` | `store.cfg`; keys, `lastSeenAt` and the constant fields of `state.sessions`; verifying tokens |
| `disk` | the same in the files |
| `open` | `active` of `gate.js` |
| `puts`, `logins`, `job`, `step` | handlers at an `await`; the one executing `PUT config` |
| `native` | clients with a live official session (external) |
| `ended` | history of acknowledged revocations |

`Notify` is `securityChanged()`: `recheckSockets` runs inside the change that caused it, deletes the
dead rows it meets with a write each, and any of these writes may fail. `StorageFailure` is a failed
write: memory has changed, the file has not, the instance stops and the sockets are destroyed. In
every action that writes, the failure is a disjunct.

Abstractions. A password is the number of the hash it matches, and hashes are numbered in order of
appearance (each has a fresh salt). Tokens are used once. A client is one address with one cookie
jar, not loopback. The write of the last use of a token matters by its failure only. The body of
`PUT config` carries a password, a deny list and a lifetime; the other keys have no part in authority.

`Authority` maps the account to `SessionAuthority`: its password and the sessions bound to it, in
memory while it serves and in the files otherwise. That `setPasswordHash` is one step of
`SessionAuthority` although it writes two files rests on `authVersion` alone: the rows that the
second write removes are bound to the old hash, and stopped counting with the first. The second
write is what `RevokedForGood` needs, for the rows are to be gone and not merely ignored.

### LoginPipeline, LoginGuard and LockoutTable

The order of microtasks matters in `LoginPipeline`, and only there: several bodies may end in one
turn of the event loop, a refused `run()` rolls back in a later microtask of the same turn. `micro`
is the microtask queue of the handlers; while it is being drained (`draining`) no event is delivered.
`tries` is history: verifications admitted since the row was last cleared. The lockout table is
taken to have room, and addresses do not move between lists.

`LockoutTable` is the other half: verification always has room, and the table does not. A row is an
object that a handler keeps while the table may drop it, hence rows have an identity of their own.
`credited` is what a row owes: the failures that were answered since the row was made or cleared.
`limits`, the size of the table and the attempts that lock a row, is any of `Limits` at the start of a
behaviour and stays.

### RpcGrants

A notification goes to the gate first, which may delete stale rows of its own and notify again, and
then to the grants, which ignore it while they are being swept. `Notify` is the whole cascade:
whatever its order, all grants of sessions that are no longer good end, and so do expired ones; a
write may fail at any point of it, which disposes of the instance with some grants already retired
for other reasons. `status` is the reason with which the signal of a grant was aborted. The same
cascade starts in `sessionFromToken` when an authorization or a timer finds a stale row (`Delete`).
`IssueForRequest` keeps a detail of the code: when a write fails inside its sweep, the sweep returns,
the new grant enters the map of a disposed instance, and the call throws afterwards; the grant stays
until its timer, known to nobody.

The clock does not move within a stretch. In the code it may, by a millisecond: a session that
expires in the middle of a sweep, after its grants were looked at, can be deleted by the gate while
the grants ignore notifications. Its signal then ends with its next check or its timer. A session is
in AccountCore's terms a row of `held`; admission by the host (peer, address, official session) is
external.

### AdapterEpochs

`apply()` and `dispose()` never wait, so each is one action, with each way `apply` can fail: refused
by the guard, the initial password that cannot be written (what was begun stays behind: the timer
of the gate and the route, `index.js:43-44`), or a failure after the guard was claimed. The guard
watches the routes and closes by itself (`Tamper`, `Detect`). `chain` is the global `fetch` as the
layers that patch it. `Door` is the view of a request: the routes once wrapped stay wrapped, one
application decides or none.

### Pairing, Passkeys, KeyLogin

Each write is split from the change in memory where a crash can fall between them, and may fail.
Handlers that read a body or verify a signature are requests with a stage. In `Passkeys` every
`await` is a stage, also those that the code passes within one turn: the model has every order that
the code has, and more. `handed`, `outbound`, `used`, `added`, `removed` are histories of what was
answered. Codes may be generated again; tokens are not. The file of SSH keys is rewritten in
place, so a broken write leaves its first lines; two lines of one key share an id.

Whether a signature is right is an outcome. The counter of a passkey is left out: two verifications
at a time may store the lower value last, and nothing in the code says otherwise.

### AddressPolicy and ClientIp

Lists are sets of entries, since their order decides nothing; entries may be written as
IPv4-mapped, and the lists of the file and of a request are any of `world`, which also says what
clients come; it is chosen at the start of a behaviour and stays. A visitor is recorded by the
gate (`Refuse`) and by a failed login that read the lists before its body (`LoginFails`).
`ClientIp` evaluates the functions on each network of a small world, and on each request with a
claimed `X-Forwarded-For` through no proxy, one that appends, one that replaces, and one that sets
`X-Real-IP`. IPv6 is one remote and one loopback address. A number is the set of its bits that are 1,
so that `&` is an intersection, and a shift adds its distance, modulo the width, to each bit.

### ClientAuthSession, LoginPage, SettingsPage

`ClientAuthSession` has every request of `/auth/me` and `/auth/rpc-grant` under way, its answer
once the server gave it, and its end once the page hears of it. `version` and `rpcGrantGeneration`
of the code ask whether the request at hand is the latest, which is what `inflight` and `flight`
say. Subscribers that call back from inside a notification do what they could do right after it.

`LoginPage`: `epoch` counts the hides; `checks`, `restore` and `run` are the three asynchronous
functions with the epoch they began in. The cancel button is never shown by the code, so that only
a hide aborts a request. `left` means that the navigation has begun. The automatic login reads
`lha-auto-login-disabled` before it asks the app for the password; a logout elsewhere after that does
not hold it back.

`SettingsPage`: a request takes two slots of time, at the server and at the page; `load()` follows a
change. Buttons wait for `busy`, the return key and the check boxes do not. Left out: the reload of
the page, the field for a new password and the error that `addKey` does not handle.
`client.js` is the bundle generated from `client.entry.js`.

## Runs

| run | bounds | states | shows |
|---|---|---|---|
| `account_revocation` | 2 clients, 2 tokens, 1 bearer, 2 hashes, 1 socket, 1 waiting handler of each kind, no clock, restart only after a crash | 275,000 | revocation against waiting handlers, sockets, failed writes, crashes |
| `account_lives` | 1 client, 1 token, 3 clock values, lifetimes 1 and 2, 1 reapplication | 228,000 | handlers of a disposed instance; expiry with a lifetime that moves under an open socket; the refinement of `SessionAuthority` |
| `rpc_grants` | 2 sessions, 3 grants, lifetime 2, 4 ticks, timers up to 1 tick early, 2 grants in all, 1 per account | 376,000 | revocations in every nesting, failed writes, limits; every grant ends |
| `login_guard` | 4 verifications, 2 slots, 1 place, limit 3, window 2, cooldowns 2 to 5, calm 6, 14 ticks | 126,000 | bursts at every possible time, through three cooldowns and a calm period |
| `login_pipeline` | 4 requests, 2 addresses, 1 slot, 1 place, 2 attempts, limit 3, 1 tick | over a million | parallel guesses, refusals, locks and cooldowns |
| `login_refund` | the same with 2 ticks | | the finding below |
| `client_session` | three instances: 2 logins and 2 requests; 2 logins, 1 flight, 2 callers; 1 login, 2 flights, 2 callers | 431,000 | late answers around a logout; shared flights under a changed login; flights that replace each other |
| `adapter_epochs` | 3 applications, 2 foreign patches | 2,200 | every order of applying, failing, tampering and disposing |
| `settings_page` | 1 page, 2 requests at a time, 2 clicks, 3 entries | 440,000 | lost, late and refused requests, confirmations |
| `login_page` | 2 passwords, 1 hide and return, 2 logins | 130,000 | answers in any order, with and without a stored password |
| `credentials` | pairing: 2 codes and tokens, 2 requests, 2 failures per window, windows of 2 of 3 ticks; passkeys: 2 requests, 1 credential, 3 challenges; keys: 2 requests, 2 keys, 3 lines | 456,000 | the ways in besides the password |
| `addresses` | table: 3 addresses, 2 requests, for 2 rows that one attempt locks and for 1 row that two attempts lock; lists: a host, loopback, IPv6, a network, one entry sent at a time, one login; visitors: 2 hosts and loopback for one place, lists made of visitors; requests: 2 hosts, 2 claimed hops, networks of 4 bits | 151,000 | full table, lists and visitors, proxies |

The parts of `credentials` and of `addresses` share no variable, in the code as here: each behaviour
has one part at work (`atWork`), and one run explores them all. `client_session` restricts each
behaviour to one of its three instances in the same way.

Why these bounds are enough. Each property of `AccountCore` relates at most one revocation, one
waiting handler of each kind, one socket and one other client; two tokens are needed for a session
that survives another's end, two hashes for an old and a new password. The constants of the login
guard keep the order the defaults have (window at most the base cooldown, that at most the longest
one, that at most the calm time), stated as assumptions. `login_pipeline` needs four requests: two
to fill slot and queue and two of one address refused in one turn. A third address is what the
full lockout table drops a locked row for; a third challenge is what replaces a taken one while an
older handler still verifies; a third application meets a guard that was closed and claimed again.
One hide and one return give an epoch before, between and after. Two clicks at two slots give every
overlap of two operations, and the second list is then made of what the page showed before.

Every property has a mutant, a plausible slip in the code it is about, that makes TLC refute it;
the properties that join several statements have one for each.

Deadlock is checked in the `AccountCore`, `adapter_epochs` and `client_session` runs. In the others
a clock, a number of requests or of clicks is bounded, so that the models really stop.

Fairness. `account_lives` assumes that the event loop ends the synchronous stretch it is in, and
that the interval timer fires again and again; no request is assumed to arrive. `login_guard`
assumes that each running verification calls back (scrypt has no way to hang); nothing is assumed
of the queue, whose progress is what is checked. `rpc_grants` assumes that time passes and that
timers fire, which is all a grant nobody uses can count on. `client_session`, `login_page` and
`settings_page` assume that each request ends, with an answer or its timeout (`auth-request.js`, the
time limits of both pages), and that settled promises call back; no user is assumed to act, and no
app to answer.

## Finding

`login_refund`: the comment at `src/api.js:251` and the README (line 143) say that an attempt refused
with `login_busy` is not charged. The handler takes a snapshot of the lockout row, charges it, and
puts the snapshot back a microtask later. If two attempts of one address are refused in one turn,
the second snapshot is taken from a row the first has charged, and it is the last one put back: the
row stays charged by one without an attempt having run. The tests send such refusals from
distinct addresses. `AdmittedIsCharged` shows that the error is on the side of caution only: no
admitted attempt is ever refunded by another's rollback.

## Remarks

What the models show of the code and no run reports, for the reader who wonders why a property is
stated as it is:

- An application that the guard closed by itself keeps its patch of `fetch` until it is disposed of;
  the patch asks a retired store (`outbound-fetch.js:14`). `OneServes` therefore speaks of who injects,
  not of when.
- The pairing limiter per address is asked before the body and charged after it, so parallel requests
  pass it together; `LimitsHold` states the limit for all addresses, which holds.
- In a full table, the row of a request that waits for its body may be dropped; its failure is
  then charged to a row that no longer counts. `AnsweredFailuresLast` speaks of rows that are in the table
  when they are charged.
- A network on the deny list may cover the loopback address; only the addresses themselves are kept
  off that list.
- In the settings, the return key adds an entry while another request is under way, from the lists
  shown, and may take away what that request added; `save()` keeps its error to itself, so that the
  page may say that an entry was added when it was not. `CarefulLosesNothing` states what remains:
  one operation at a time, each answered, loses nothing and says the truth. `OnlyTouchedMove` holds
  without that care.
- On the login page of an account without a password, editing the server field and editing it back
  shows the password form, with its button disabled.

## Proofs

No theorem assumes more than the assumptions stated with the constants, but for `CareIsEnough`, which
says in its statement that one page is open; all hold for any number of clients, tokens, requests,
callers, applications, pages and so on. The assumptions on constants are what the defaults of the code
satisfy, and TLC evaluates them on the instances.

`AccountCoreProofs`: type correctness, the state invariants `FilesAgree`, `OpenConnsStand` and
`RevokedForGood`, and the action properties `OnlyAuthorizedPuts`, `GrantsProvePassword` and
`RevocationClosesSockets`. The invariants are not inductive. `IInv` adds what the code relies on
silently: a stopped instance has no socket and stands in the middle of nothing (`Quiet`); the
condition on sockets also holds inside `PUT config`, except between the write of the new hash and the
wiping of the sessions, where every row is bound to the old hash (`ConnsStand`, `Writing`); the tokens
in memory, in the files and in `ended` are issued ones, so a new session never takes a revoked token
(`Issued`); no time in memory or in the files lies in the future (`Issued`, `DiskPast`); a login of
this instance captured a hash no newer than the password, and was checked against one in between
(`Checked`), which is why comparing the captured hash after the verification is enough. `StoreOK` is
the part a write can disturb, and `Notify` and `StorageFailure`, in which nearly every action ends,
are dealt with once, in lemmas.

It also proves that `AccountCore` implements `SessionAuthority`. Every step does one of three
things to files and rows (`Fewer`, `NewPassword`, `OneMore`) or nothing the authority sees. One more
invariant is needed, `RowsPast`: no row is bound to a password that is not yet in the files;
without it a new password might bring an old row back to life.

`HostProofs` is about what the plugin hands to its host. Of `RpcGrants`: the safety properties of
`rpc_grants`, and `GrantsBounded`, the limits in all and
per account. `IInv` adds that issued grants have an account and only issued ones
were returned (`Issued`), and that only grants in the map have a timer (`Timed`). `FewerGrants` is the
common end of all steps that add no grant; `NotifyKeeps` and `FailureKeeps` bring the cascade and the
failed write to it; `InsertIsBounded` counts the one grant that is added. `Told` follows the reason
of each retirement to the session it was given for. Of `AdapterEpochs`: the guard implements `Door`,
`OneServes` and `OthersUnharmed`. `GInv` says that the guard is ready exactly while it has a gate, its
owner's, and that this application is up; `FInv` that whoever injects holds the installation of
`fetch`. The halves never look at each other and are proved apart, as the two modules are.

`LoginProofs`, in three layers. `SInv` is about the slots: what is counted are the tasks that are
neither new nor settled, and no task waits twice; the work is in what `drain()` leaves behind. `BInv`
is about the budget, where the code keeps a list of failures that it filters at each failure and
empties at each trigger. What the filter keeps follows by induction over its definition as a recursive
function; the library's induction takes an operator, so that it is put in terms of sets here
(`InductionUpTo`, from the least element of a set of numbers). `BInv` says that the list is the end of
all failures there were, and that those before it are past: their window is over before the
cooldown is (`LogFits`). A burst has therefore met a trigger (`GuardContainsBursts`). The cooldown has
the length of the level before this one (`CooldownFits`), where levels end at 30: the assumption that
2^30 base cooldowns reach the longest one is what makes the code's `Math.min(level + 1, 30)` harmless
(`GuardDoublesCooldowns`). `PInv` is about `LoginPipeline`: at every moment, also between microtasks, the
row counts what was admitted (`RowsCount`), and a snapshot that will be put back was taken when
slots and queue were full, so that nothing was admitted after it (`SnapshotsCount`); slots and queue
stay full until it is back because no event is delivered while microtasks run. While a cooldown
runs, the failures that are counted and the tasks in the slots are together fewer than the limit
(`Spared`), so that none of them starts another (`CooldownsRunTheirTime`).

`ClientAuthSessionProofs`: every safety property of `client_session`, and that the cached grant belongs to
the login of the page. The invariant has two halves, the belief (`DeadStayDead`, `LatestIsNew`: an
ended login is never used again, and the latest request knows of none) and the callers (`OneFlight`
and what waits on it). They meet in `scope`: a step that changes it retires grant and flight.

`SettingsPageProofs`: `OnlyTouchedMove` for any number of pages, also those that write whole lists from
old copies. Every list that is held anywhere, by a page, a request, an answer or a dialog, agrees
with the lists in force on every entry that nobody touched (`PagesFit`, `OpsFit`), so that writing it
changes nothing there. TLC checks one page; the theorem covers any number. `CareIsEnough`
(`CarefulLosesNothing`) is for one page. `CInv` says that, while the user takes care, a page has at most
one request, shows the lists in force whenever it has none, and asks for what was made of them
(`FreshAsk`, `Whole`), and that what it says was done is (`SlotCares`, `RowCares`). With two pages it is false: the careful
user of one has an old list once the other has changed it.

`LoginPageProofs`: `SavedIsProved`, `OneWay` and `UserKeepsControl`. `LInv` adds that
a check of the page as it is is the only one and ends once the page is ready (`Chains`), that an
automatic restore follows the answer that makes the page ready (`Automatic`), and that the field holds
what a login that is to be remembered was begun with (`Logins`).

`CredentialsProofs`: `SecretsServeOnce`, `AnswersLast`, `LimitsHold` and `RemovedStaysOut`. The three parts
are proved apart and rest while another is at work. The argument of pairing is that each of the contents
a handler writes is sound by itself (`Stands`), so that the handler may stop after any of them
(`StopsSoundly`); of what waits and what was handed out no two codes and no two tokens are the same.
Of passkeys, that a challenge that let in or added is spent: it is in memory and file of no
kind and no handler holds it (`Spent`), no two handlers hold the same one (`Exclusive`), and whatever
memory and file hold was generated for its kind and is no older than the newest that was answered
(`DataStands`). A crash can bring back what a handler took from memory only, and this is why a login
writes the file before it lets in (`Holds`). Of keys, that the filter of the removal leaves the
other lines and no line of the key (`WithoutIsRest`, by induction over the file), and that the lines
a broken write leaves are of no other keys than the lines that were to be written (`BrokenFile`). The lemmas of induction are
stated in this module and in `LoginProofs`, neither of which uses the other.

`AddressesProofs`: the three properties of `addresses`, for any limits, addresses, networks, widths and
numbers of hops. Of the lockouts, `TableInv`: a row has at least the failures that were answered on it and the
charges that are still to be answered, together (`CreditStands`), every charge that counts is of the row
the table has (`ChargesStand`), and the file has at least what was answered. There is one row more
than requests, so that one is always free for `BeginNew`; this is counted, not assumed. When the table
prunes, a locked row goes only if all that are left are locked. Of the lists, `ListsInv`: the file reads as
what is in force in every state, also while nothing runs, which is what a restart relies on; a list of
denied addresses never has a loopback address, wherever it comes from (`Proper`); and an address that
was allowed is neither recorded nor on its way to be, since `recordIfSuspicious` looks at the
lists once more when a login fails (`Unsettled`). Of the requests: the mask of a network has exactly
the upper bits because the code shifts only by distances that do not wrap; and the last hop that is
not local is the client's, whatever stands before it.

Only model-checked: liveness (`DoomedSocketsClose`, `GrantsEnd`, `AcceptedSettles`, `CallsEnd`,
`PageGoesOn`, `BusyEnds`), which is out of the prover's reach, as ENABLED is. Every state invariant and
every action property of the passing runs is a theorem.

## Not modelled

- Auth bootstrap (`auth-bootstrap*.js`): one registration and its removal, and a generated script.
- Initial password and `set-password.mjs`: one check and one write, before the plugin serves or while
  the host is stopped. That `apply` fails when the write does is in `AdapterEpochs`.
- Legacy session migration: a pure function over one file, used while the host is stopped.
- Route policy: always protect-all, and string prefixes; no state.
- Scripts for building, probing and simulating; generated bundles.
- Of modelled components: routes that only read, issuing an API token (`AccountCore` starts with all of
  them issued), the URL a peer is matched by, the overlay of the auth gate, the menu
  badge, texts, layout and logging; cryptography (scrypt, Ed25519, WebAuthn) beyond its verdict;
  HTTP parsing. The host (official sessions, web server, timers) is external and modelled as the code
  uses it.
