\* One client over a new application: the clock, the timer, the idle and absolute lifetime, a shorter
\* and a longer lifetime set while sockets are open.
SPECIFICATION FairSpec
CONSTANTS
    c1 = c1
    c2 = c2
    t1 = t1
    t2 = t2
    b1 = b1
    Clients = {c1}
    Tokens = {t1}
    Bearers = {b1}
    NoToken = NoToken
    NoBearer = NoBearer
    Ttls = {1, 2}
    Patches <- ExpiryPatches
    MaxHash = 2
    MaxTime = 2
    MaxEpoch = 1
    MaxOpen = 1
    MaxPending = 1
PROPERTIES OnlyAuthorizedPuts ImplementsAuthority DoomedSocketsClose
