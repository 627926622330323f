\* Four verifications, two slots and one place in the queue; three failures in two ticks spend the
\* budget, for two ticks and then up to five.
SPECIFICATION FairGuardSpec
CONSTANTS
    t1 = t1
    t2 = t2
    t3 = t3
    t4 = t4
    Tasks = {t1, t2, t3, t4}
    MaxConcurrent = 2
    MaxQueue = 1
    FailureLimit = 3
    Window = 2
    BaseCooldown = 2
    MaxCooldown = 5
    Calm = 6
    MaxTime = 14
    LogLength = 5
INVARIANT BurstsAreContained
PROPERTIES AcceptedSettles CooldownDoubles
CHECK_DEADLOCK FALSE
