\* Four requests of two addresses, one slot and one place in the queue: room for two
\* refusals of one address in one turn.  Locks last one tick, cooldowns one or two.
SPECIFICATION Spec
CONSTANTS
    i1 = i1
    i2 = i2
    r1 = r1
    r2 = r2
    r3 = r3
    r4 = r4
    Ips = {i1, i2}
    Exempt = {}
    Tasks = {r1, r2, r3, r4}
    MaxConcurrent = 1
    MaxQueue = 1
    MaxAttempts = 2
    LockTime = 1
    FailureLimit = 3
    Window = 1
    BaseCooldown = 1
    MaxCooldown = 2
    Calm = 2
    MaxTime = 1
    LogLength = 6
SYMMETRY Symmetry
INVARIANTS GuessBudget AdmittedIsCharged
PROPERTIES NoTriggerWhileCooling
CHECK_DEADLOCK FALSE
