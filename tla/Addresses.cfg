\* Lockouts: three addresses for two rows that one attempt locks, or for one row that two attempts
\* lock; two requests; locks of one tick, idle after one, one tick of time.  Lists: a host, the
\* loopback addresses, an IPv6 address and a network, or two hosts and the loopback address; one entry
\* on a list of the file or in a request, one visitor, one login.  Requests: two hosts, two claimed
\* hops, networks of four bits.
SPECIFICATION Spec
CONSTANTS
    r1 = r1
    r2 = r2
    i1 = i1
    i2 = i2
    i3 = i3
    h1 = h1
    h2 = h2
    local4 = local4
    wide = wide
    Ips = {i1, i2, i3}
    Limits <- OneOfEach
    LockTime = 1
    IdleTime = 1
    MaxTime = 1
    Requests = {r1, r2}
    Logins = {q1}
    q1 = q1
    None = None
    Hosts = {h1, h2, local4}
    LocalHost = local4
    Local6 = Local6
    Remote6 = Remote6
    Nets = {wide}
    Covers <- CoversWide
    Mapped = {h1}
    Invalid = Invalid
    MaxVisitors = 1
    Worlds <- Around
    MaxList = 1
    Junk = Junk
    Unresolved = Unresolved
    MaxHops = 2
    Width = 4
SYMMETRY Symmetry
INVARIANTS AllowedLeavesNoTrace RequestIsTheClients
PROPERTY AnsweredFailuresLast
\* a request is resolved once
CHECK_DEADLOCK FALSE
