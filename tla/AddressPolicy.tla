----------------------------- MODULE AddressPolicy -----------------------------
(***************************************************************************)
(* The lists of allowed and denied addresses and the record of suspicious  *)
(* visitors: lib/store.js, lib/ip.js, lib/visitors.js, and their use by    *)
(* the gate and by logins that wait for their verification.  The order of  *)
(* a list decides nothing: lists are sets.                                 *)
(***************************************************************************)
EXTENDS Integers, Sequences, FiniteSets, SequencesExt

CONSTANTS
    Hosts,          \* IPv4 addresses, LocalHost among them
    LocalHost, Local6, Remote6,
    Nets, Covers,   \* IPv4 networks as they are written, and the addresses of each
    Mapped,         \* the entries that are also written as IPv4-mapped
    Invalid,        \* what is neither
    Requests,
    MaxVisitors,
    Worlds,         \* bound: the clients that come, and the lists that are sent or found in the file
    MaxList,        \* bound: entries that are sent together
    None

Loopback == {LocalHost, Local6}
Clients == Hosts \cup {Local6, Remote6}
Entry == Clients \cup Nets

\* an entry may be written with the prefix of an IPv4-mapped address
Raw == [entry : Entry, mapped : {FALSE}] \cup [entry : Mapped, mapped : {TRUE}]
       \cup {[entry |-> Invalid, mapped |-> FALSE]}

VARIABLES
    world,          \* the clients and lists of this behaviour; they stay
    running,        \* the store is active
    cfg,            \* allow, deny, ipLimitEnabled and loopbackOperator
    file,           \* config.json
    visitors,       \* the visitors, the longest unseen first, in memory
    visitorsFile,   \* and in their file
    req,            \* logins that wait: address, and whether it was whitelisted when it came
    settled         \* history: addresses that an administrator allowed from the list of
                    \* visitors, while they are on the allow list

vars == <<world, running, cfg, file, visitors, visitorsFile, req, settled>>

Config(E) == [allow : SUBSET E, deny : SUBSET E, ipLimit : BOOLEAN, operator : BOOLEAN]
Idle == [ip |-> None, whitelisted |-> FALSE]

TypeOK ==
    /\ world \in Worlds
    /\ running \in BOOLEAN
    /\ cfg \in Config(Entry) /\ file \in Config(Raw)
    /\ \A v \in {visitors, visitorsFile} :
        /\ ToSet(v) \subseteq Clients /\ IsInjective(v)
        /\ Len(v) <= MaxVisitors
    /\ req \in [Requests -> [ip : Clients \cup {None}, whitelisted : BOOLEAN]]
    /\ settled \in SUBSET Clients

-----------------------------------------------------------------------------
(* Lists *)

SanitizeIpList(list) == {raw.entry : raw \in list} \ {Invalid}
SanitizeDenyList(list) == SanitizeIpList(list) \ Loopback
EnsureLoopbackAllow(allow, deny) == (allow \cup Loopback) \ deny

\* createStore() on the content of the file: deny wins
Loaded(saved) ==
    LET deny == SanitizeDenyList(saved.deny) IN
    [saved EXCEPT !.allow = EnsureLoopbackAllow(SanitizeIpList(@) \ deny, deny), !.deny = deny]

\* saveConfig() writes
Plain(list) == {[entry |-> e, mapped |-> FALSE] : e \in list}
SavedForgetful(c) == [c EXCEPT !.allow = Plain(@), !.deny = Plain(@), !.operator = FALSE]
Saved(c) == [c EXCEPT !.allow = Plain(@), !.deny = Plain(@)]

\* the lists after updateConfig() with a patch; and as it would be if a list that is not sent
\* stayed as it is
PatchedApart(allow, deny) == [cfg EXCEPT !.allow = EnsureLoopbackAllow(allow, {}), !.deny = deny]
Patched(allow, deny) == [cfg EXCEPT !.allow = EnsureLoopbackAllow(allow \ deny, deny), !.deny = deny]

InList(ip, list) == \E e \in list : IF e \in Nets THEN ip \in Covers[e] ELSE ip = e

\* evaluateIpAccess()
Blocked(ip) == ip = Remote6 \/ InList(ip, cfg.deny)
Whitelisted(ip) ==
    /\ ~Blocked(ip)
    /\ ip \in Loopback => cfg.operator
    /\ cfg.ipLimit /\ InList(ip, cfg.allow)

\* the configuration is c, and the file too
Store(c) ==
    /\ cfg' = c /\ file' = Saved(c)
    /\ UNCHANGED running

\* an address remains settled as long as it is on the list
StillSettled == {ip \in settled : ip \in cfg'.allow}

-----------------------------------------------------------------------------
(* Visitors *)

\* record() in memory: the visitor is the last seen, and the first goes when there are too many;
\* and as it would be with one too many
RecordedLate(ip) ==
    LET seen == Append(RemoveFirst(visitors, ip), ip) IN
    IF Len(seen) > MaxVisitors + 1 THEN Tail(seen) ELSE seen

Recorded(ip) ==
    LET seen == Append(RemoveFirst(visitors, ip), ip) IN
    IF Len(seen) > MaxVisitors THEN Tail(seen) ELSE seen

\* visitors.save(): a failure is an error of the request; the store goes on
SaveVisitors == visitorsFile' \in {visitorsFile, visitors'}

\* saveConfig() fails, with the new content in the file or not: the store stops, and what comes
\* next is read from the files
StoreFails(c) ==
    /\ running' = FALSE
    /\ file' \in {file, Saved(c)} /\ cfg' = Loaded(file')
    /\ visitors' = visitorsFile /\ UNCHANGED visitorsFile
    /\ req' = [r \in Requests |-> Idle]

\* updateConfig()
Update(c) ==
    /\ running
    /\ \/ Store(c) /\ UNCHANGED <<visitors, visitorsFile, req>>
       \/ StoreFails(c)
    /\ settled' = StillSettled

\* recordIfSuspicious(); and as it would be if only the verdict of the arrival counted
RecordUnlessWhitelisted(ip, whitelisted) ==
    IF whitelisted \/ ip = Remote6 THEN UNCHANGED <<visitors, visitorsFile>>
    ELSE visitors' = Recorded(ip) /\ SaveVisitors

RecordIfSuspicious(ip, whitelisted) ==
    IF whitelisted \/ InList(ip, cfg.allow) \/ ip = Remote6 THEN UNCHANGED <<visitors, visitorsFile>>
    ELSE visitors' = Recorded(ip) /\ SaveVisitors

-----------------------------------------------------------------------------

Init ==
    /\ world \in Worlds
    /\ running = TRUE
    /\ file \in [allow : world.lists, deny : world.lists, ipLimit : {TRUE}, operator : {FALSE}]
    /\ cfg = Loaded(file)
    /\ visitors = <<>> /\ visitorsFile = <<>>
    /\ req = [r \in Requests |-> Idle]
    /\ settled = {}

\* PUT config with one list or both
UpdateLists(allow, deny) == Update(Patched(SanitizeIpList(allow), SanitizeDenyList(deny)))
UpdateAllow(allow) == Update(Patched(SanitizeIpList(allow), cfg.deny))
UpdateDeny(deny) == Update(Patched(cfg.allow, SanitizeDenyList(deny)))
UpdateFlags(limit, operator) == Update([cfg EXCEPT !.ipLimit = limit, !.operator = operator])

Dismissed(ip) == visitors' = RemoveFirst(visitors, ip)

\* security-visitors/:ip/allow: the configuration first, with applyIpListChange()
AllowVisitor(ip) ==
    LET c == Patched(cfg.allow \cup {ip}, cfg.deny \ {ip}) IN
    /\ running
    /\ \/ /\ Store(c)
          /\ Dismissed(ip) /\ SaveVisitors
          /\ settled' = StillSettled \cup (IF visitorsFile' = visitors' THEN {ip} ELSE {})
          /\ UNCHANGED req
       \/ StoreFails(c) /\ settled' = StillSettled

\* security-visitors/:ip/deny: not for loopback
DenyVisitor(ip) ==
    LET c == Patched(cfg.allow \ {ip}, cfg.deny \cup {ip}) IN
    /\ running /\ ip \notin Loopback
    /\ \/ Store(c) /\ Dismissed(ip) /\ SaveVisitors /\ UNCHANGED req
       \/ StoreFails(c)
    /\ settled' = StillSettled

DismissVisitor(ip) ==
    /\ running
    /\ Dismissed(ip) /\ SaveVisitors
    /\ UNCHANGED <<running, cfg, file, req, settled>>

\* a request that the gate refuses: denied, or not authenticated
Refuse(ip) ==
    /\ running
    /\ RecordIfSuspicious(ip, Whitelisted(ip))
    /\ UNCHANGED <<running, cfg, file, req, settled>>

\* a login comes
BeginLogin(r, ip) ==
    /\ running /\ req[r] = Idle /\ ~Blocked(ip)
    /\ req' = [req EXCEPT ![r] = [ip |-> ip, whitelisted |-> Whitelisted(ip)]]
    /\ UNCHANGED <<running, cfg, file, visitors, visitorsFile, settled>>

\* and fails after its verification; if its address was denied meanwhile, without a record
LoginFails(r) ==
    LET q == req[r] IN
    /\ running /\ q # Idle
    /\ req' = [req EXCEPT ![r] = Idle]
    /\ IF Blocked(q.ip) THEN UNCHANGED <<visitors, visitorsFile>>
       ELSE RecordIfSuspicious(q.ip, q.whitelisted)
    /\ UNCHANGED <<running, cfg, file, settled>>

\* the process or the application of the plugin ends, and another reads the files
Stop ==
    /\ running
    /\ running' = FALSE
    /\ visitors' = visitorsFile
    /\ req' = [r \in Requests |-> Idle]
    /\ UNCHANGED <<cfg, file, visitorsFile, settled>>

Restart ==
    /\ ~running
    /\ running' = TRUE
    /\ cfg' = Loaded(file)
    /\ UNCHANGED <<file, visitors, visitorsFile, req, settled>>

Next ==
    /\ UNCHANGED world
    /\ \/ \E list \in world.lists : UpdateAllow(list) \/ UpdateDeny(list)
       \/ \E allow, deny \in world.lists :
            /\ Cardinality({raw.entry : raw \in allow \cup deny}) <= MaxList
            /\ UpdateLists(allow, deny)
       \/ \E limit, operator \in BOOLEAN : UpdateFlags(limit, operator)
       \/ \E ip \in world.clients :
            AllowVisitor(ip) \/ DenyVisitor(ip) \/ DismissVisitor(ip) \/ Refuse(ip)
       \/ \E r \in Requests : LoginFails(r) \/ \E ip \in world.clients : BeginLogin(r, ip)
       \/ Stop \/ Restart

Spec == Init /\ [][Next]_vars

-----------------------------------------------------------------------------

\* Whatever the file held and whatever was sent, no entry is on both lists, and the loopback
\* addresses are on the allow list.
ListsExclude ==
    /\ cfg.allow \cap cfg.deny = {}
    /\ Loopback \subseteq cfg.allow

\* What is in force is what a new process would read.
ReloadKeepsPolicy == running => Loaded(file) = cfg

\* An address that was allowed from the list of visitors does not return to it, also not with a
\* login that was under way, nor with a new process, as long as it is on the allow list.
AllowedLeavesNoTrace == settled \cap (ToSet(visitors) \cup ToSet(visitorsFile)) = {}
================================================================================
