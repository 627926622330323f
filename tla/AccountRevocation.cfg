\* Two clients: logins, PUT config, logout, deny lists, token revocation, failed writes and
\* crashes; no expiry, and no new application but by a restart.
SPECIFICATION Spec
CONSTANTS
    c1 = c1
    c2 = c2
    t1 = t1
    t2 = t2
    b1 = b1
    Clients = {c1, c2}
    Tokens = {t1, t2}
    Bearers = {b1}
    NoToken = NoToken
    NoBearer = NoBearer
    Ttls = {1}
    Patches <- RevocationPatches
    MaxHash = 2
    MaxTime = 0
    MaxEpoch = 0
    MaxOpen = 1
    MaxPending = 1
SYMMETRY Symmetry
INVARIANTS OpenConnsStand FilesAgree RevokedForGood
PROPERTIES GrantsProvePassword RevocationClosesSockets
