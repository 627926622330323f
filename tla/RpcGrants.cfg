\* Two sessions, three grants, room for two in all: sweeps, revocations, failed writes and
\* timers that fire a tick early.
SPECIFICATION FairSpec
CONSTANTS
    t1 = t1
    t2 = t2
    g1 = g1
    g2 = g2
    g3 = g3
    Tokens = {t1, t2}
    Grants = {g1, g2, g3}
    NoSession = NoSession
    Ttl = 2
    Slack = 1
    MaxGrants = 2
    MaxPerScope = 1
    MaxTime = 4
INVARIANTS SignalsFollowSessions DisposedHoldsNothing
PROPERTIES ExpiredIsRenewable GrantsEnd
CHECK_DEADLOCK FALSE
