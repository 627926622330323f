\* Pairing: two codes and tokens, one code waiting at a time, two requests of two addresses, two
\* failed claims per window in all and one per address; windows of two ticks, three ticks of time.
\* Passkeys: two requests, one credential, three challenges.
\* Keys: two requests, two keys with two comments, three lines, two challenges.
SPECIFICATION Spec
CONSTANTS
    r1 = r1
    r2 = r2
    i1 = i1
    i2 = i2
    a1 = a1
    a2 = a2
    b1 = b1
    b2 = b2
    p = p
    Requests = {r1, r2}
    Tokens = {a1, a2}
    Codes = {b1, b2}
    Ips = {i1, i2}
    Creds = {p}
    Keys = {a1, a2}
    Comments = {b1, b2}
    NoIp = NoIp
    NoCred = NoCred
    Ttl = 2
    MaxCodes = 1
    MaxAttempts = 2
    PairFailLimit = 1
    MaxTime = 3
    MaxPasskeyChal = 3
    MaxKeyChal = 2
    MaxLines = 3
SYMMETRY Symmetry
INVARIANTS SecretsServeOnce AnswersLast LimitsHold
PROPERTY RemovedStaysOut
\* the clock of the model ends
CHECK_DEADLOCK FALSE
