\* Four requests, one slot and one place in the queue: two of one address fill them, and
\* the bodies of two of the other end in the same turn.
SPECIFICATION Spec
CONSTANTS
    i1 = i1
    i2 = i2
    r1 = r1
    r2 = r2
    r3 = r3
    r4 = r4
    Ips = {i1, i2}
    Exempt = {}
    Tasks = {r1, r2, r3, r4}
    MaxConcurrent = 1
    MaxQueue = 1
    MaxAttempts = 2
    LockTime = 2
    FailureLimit = 3
    Window = 1
    BaseCooldown = 1
    MaxCooldown = 2
    Calm = 2
    MaxTime = 2
    LogLength = 6
SYMMETRY Symmetry
INVARIANTS RefusedNotCharged
CHECK_DEADLOCK FALSE
