------------------------------ MODULE LoginBudget ------------------------------
(***************************************************************************)
(* The process-wide budget of failed password logins, login-guard.js:      *)
(* FailureLimit failures inside a window start a cooldown, which doubles   *)
(* while the pressure lasts.  Times are ticks of the clock.                *)
(***************************************************************************)
EXTENDS Integers, Sequences

CONSTANTS
    FailureLimit, Window, BaseCooldown, MaxCooldown, Calm,
    MaxTime,    \* bound: ticks of the clock
    LogLength   \* bound: failures recorded within one window

\* 2 ** l
Power[l \in 0 .. 30] == IF l = 0 THEN 1 ELSE 2 * Power[l - 1]

\* What the defaults of createLoginGuard satisfy (30, 60 s, 60 s, 15 min, 1 h): the longest
\* cooldown is reached well before the level is.
ASSUME BudgetAssumption ==
    /\ FailureLimit \in Nat \ {0}
    /\ Window \in Nat \ {0} /\ MaxTime \in Nat /\ LogLength \in Nat
    /\ BaseCooldown \in Nat /\ Window <= BaseCooldown
    /\ MaxCooldown \in Nat /\ BaseCooldown <= MaxCooldown
    /\ MaxCooldown <= Power[30]
    /\ Calm \in Nat /\ MaxCooldown <= Calm

VARIABLES
    now,
    failures,       \* times of the failures that count, oldest first
    cooldownUntil,
    level,          \* how often the next cooldown is doubled
    lastTrigger,
    log             \* history: times of all failures of the last window

budget == <<failures, cooldownUntil, level, lastTrigger, log>>
budgetVars == <<now, failures, cooldownUntil, level, lastTrigger, log>>

BudgetTypeOK ==
    /\ now \in 0 .. MaxTime
    /\ failures \in Seq(0 .. MaxTime) /\ Len(failures) < FailureLimit
    /\ cooldownUntil \in 0 .. MaxTime + MaxCooldown
    /\ level \in 0 .. 30
    /\ lastTrigger \in 0 .. MaxTime
    /\ log \in Seq(0 .. MaxTime) /\ Len(log) <= LogLength

BudgetInit ==
    /\ now = 0 /\ failures = <<>> /\ cooldownUntil = 0
    /\ level = 0 /\ lastTrigger = 0 /\ log = <<>>

\* check() refuses
CoolingDown == cooldownUntil > now

\* the times in s that at time t lie within the window: filter()
Recent(s, t) ==
    LET kept[n \in 0 .. Len(s)] ==
            IF n = 0 THEN <<>>
            ELSE IF t - s[n] < Window THEN Append(kept[n - 1], s[n]) ELSE kept[n - 1]
    IN  kept[Len(s)]

Cooldown(l) ==
    LET d == BaseCooldown * Power[l] IN IF d < MaxCooldown THEN d ELSE MaxCooldown

\* the budget is used up; and as it would be, one failure too late
SpentLate(s) == Len(s) > FailureLimit
Spent(s) == Len(s) >= FailureLimit

\* the level a cooldown triggered now starts from: without a calm hour it goes on; and as
\* it would be if every trigger started over
PressureForgotten == 0
Pressure == IF now - lastTrigger > Calm THEN 0 ELSE level

RecordFailure ==
    LET counted == Append(Recent(failures, now), now) IN
    /\ Len(Recent(log, now)) < LogLength
    /\ log' = Append(Recent(log, now), now)
    /\ IF ~ Spent(counted)
       THEN /\ failures' = counted
            /\ UNCHANGED <<cooldownUntil, level, lastTrigger>>
       ELSE /\ cooldownUntil' = now + Cooldown(Pressure)
            /\ lastTrigger' = now
            /\ level' = IF Pressure < 30 THEN Pressure + 1 ELSE 30
            /\ failures' = <<>>

BudgetTick == now < MaxTime /\ now' = now + 1

\* Whenever FailureLimit failures lie within one window, login is cooling down: clearing
\* the list at a trigger, and the filter at its edge, never let a burst go uncounted.
BurstCoolsDown == Len(Recent(log, now)) >= FailureLimit => CoolingDown

\* No failure shortens a cooldown that is running, and while the pressure lasts each
\* cooldown is twice as long as the one before it, up to the longest one.
CooldownDoubles ==
    [][lastTrigger' # lastTrigger \/ level' # level =>
           /\ cooldownUntil' >= cooldownUntil
           /\ now - lastTrigger <= Calm =>
                LET length == cooldownUntil' - now
                IN length >= MaxCooldown \/ length >= 2 * (cooldownUntil - lastTrigger)
      ]_budgetVars
=============================================================================
