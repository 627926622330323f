----------------------------- MODULE LoginPipeline -----------------------------
(***************************************************************************)
(* POST auth/login, from the first lockout check to the answer: the        *)
(* per-address lockout of password.js together with the process-wide       *)
(* budget and the verification slots of login-guard.js.                    *)
(*                                                                         *)
(* The order of microtasks matters here.  A turn of the event loop first   *)
(* delivers events (several request bodies may end in one turn), then runs *)
(* the microtasks they queued, in order, and the microtasks these queue,   *)
(* until none is left.  A handler continues after its body, and after a    *)
(* refusal of run(), in a microtask.  When scrypt calls back, nothing else *)
(* runs until the handler has continued and the slot is free.              *)
(*                                                                         *)
(* The table of addresses is taken to have room (fewer than MAX_LOCKOUTS   *)
(* rows), and the password not to change.                                  *)
(***************************************************************************)
EXTENDS LoginBudget, LoginSlots

CONSTANTS
    Ips,            \* client addresses
    Exempt,         \* those on the allow list
    MaxAttempts,    \* lockout.maxAttempts
    LockTime        \* lockout.lockMinutes, in ticks

ASSUME PipelineAssumption ==
    /\ Exempt \subseteq Ips
    /\ MaxAttempts \in Nat \ {0}
    /\ LockTime \in Nat \ {0}
    /\ FailureLimit > MaxConcurrent + MaxQueue      \* 30 > 2 + 8

Lockout == [attempts: Nat, lockedUntil: Nat]
NoAttempts == [attempts |-> 0, lockedUntil |-> 0]

VARIABLES
    lockouts,   \* state.lockouts
    stage,      \* of each request, outside the slots
    ipOf, right,\* its address; whether it carries the password
    before,     \* its snapshot of the lockout row
    micro,      \* the queue of microtasks: <<request, "attempt" or "rollback">>
    draining,   \* this turn delivers no more events
    tries       \* history: verifications admitted since the row of the address was cleared

loginVars == <<lockouts, stage, ipOf, right, before, micro, draining, tries>>
vars == <<budgetVars, slotVars, loginVars>>

Requests == Tasks

TypeOK ==
    /\ BudgetTypeOK
    /\ SlotsTypeOK
    /\ lockouts \in [Ips -> Lockout]
    /\ stage \in [Requests -> {"idle", "body", "micro", "guard"}]
    /\ ipOf \in [Requests -> Ips]
    /\ right \in [Requests -> BOOLEAN]
    /\ before \in [Requests -> Lockout]
    /\ micro \in Seq(Requests \X {"attempt", "rollback"})
    /\ draining \in BOOLEAN
    /\ tries \in [Ips -> Nat]

Init ==
    /\ BudgetInit /\ SlotsInit
    /\ lockouts = [i \in Ips |-> NoAttempts]
    /\ stage = [r \in Requests |-> "idle"]
    /\ ipOf \in [Requests -> Ips]
    /\ right = [r \in Requests |-> FALSE]
    /\ before = [r \in Requests |-> NoAttempts]
    /\ micro = <<>> /\ draining = FALSE
    /\ tries = [i \in Ips |-> 0]

-----------------------------------------------------------------------------

Locked(row) == row.lockedUntil > now

\* checkLockout, when it does not find the row locked: a lock that is over is cleared
Expired(row) == row.lockedUntil # 0 /\ row.lockedUntil <= now
Cleared(row) == IF Expired(row) THEN NoAttempts ELSE row

\* recordFailedAttempt
Charged(row) ==
    [attempts |-> row.attempts + 1,
     lockedUntil |-> IF row.attempts + 1 >= MaxAttempts THEN now + LockTime ELSE row.lockedUntil]

\* events are delivered
Turn == ~ draining
\* ... and nothing is waiting to run
Quiet == micro = <<>>

CheckLockout(i) ==
    /\ lockouts' = [lockouts EXCEPT ![i] = Cleared(@)]
    /\ tries' = IF Expired(lockouts[i]) THEN [tries EXCEPT ![i] = 0] ELSE tries

\* the handler starts; a locked address is answered 429 at once, which changes nothing
Begin(r, p) ==
    /\ Turn
    /\ stage[r] = "idle"
    /\ ~ Locked(lockouts[ipOf[r]])
    /\ CheckLockout(ipOf[r])
    /\ stage' = [stage EXCEPT ![r] = "body"]
    /\ right' = [right EXCEPT ![r] = p]
    /\ UNCHANGED <<budgetVars, slotVars, ipOf, before, micro, draining>>

BodyEnds(r) ==
    /\ Turn
    /\ stage[r] = "body"
    /\ stage' = [stage EXCEPT ![r] = "micro"]
    /\ micro' = Append(micro, <<r, "attempt">>)
    /\ UNCHANGED <<budgetVars, slotVars, lockouts, ipOf, right, before, draining, tries>>

\* the body does not come, is too long, or revalidate() throws
BodyFails(r) ==
    /\ Turn
    /\ stage[r] = "body"
    /\ stage' = [stage EXCEPT ![r] = "idle"]
    /\ UNCHANGED <<budgetVars, slotVars, lockouts, ipOf, right, before, micro, draining, tries>>

\* the first microtask of the queue is r's k
Runs(r, k) == micro # <<>> /\ Head(micro) = <<r, k>>

\* the queue once it has run, with s appended
Then(s) ==
    /\ micro' = Tail(micro) \o s
    /\ draining' = (Tail(micro) \o s # <<>>)

Refusable(i) == i \notin Exempt /\ CoolingDown

\* relocked, or the global check refuses: 429, nothing reserved
Refuse(r) ==
    LET i == ipOf[r] IN
    /\ Runs(r, "attempt")
    /\ \/ Locked(lockouts[i]) /\ UNCHANGED <<lockouts, tries>>
       \/ ~ Locked(lockouts[i]) /\ Refusable(i) /\ CheckLockout(i)
    /\ stage' = [stage EXCEPT ![r] = "idle"]
    /\ Then(<<>>)
    /\ UNCHANGED <<budgetVars, slotVars, ipOf, right, before>>

\* both checks pass; and as it would be without the second lockout check, or without the
\* global one
AdmissibleNoRelock(r) == Runs(r, "attempt") /\ ~ Refusable(ipOf[r])
AdmissibleNoCheck(r) == Runs(r, "attempt") /\ ~ Locked(lockouts[ipOf[r]])
Admissible(r) ==
    /\ Runs(r, "attempt")
    /\ ~ Locked(lockouts[ipOf[r]])
    /\ ~ Refusable(ipOf[r])

\* the attempt is reserved and a slot or a place in the queue is free
Reserve(r) ==
    LET i == ipOf[r]
        n == IF Expired(lockouts[i]) THEN 0 ELSE tries[i]
    IN  /\ Admissible(r)
        /\ Run(r)
        /\ lockouts' = [lockouts EXCEPT ![i] = Charged(Cleared(@))]
        /\ tries' = [tries EXCEPT ![i] = n + 1]
        /\ stage' = [stage EXCEPT ![r] = "guard"]
        /\ Then(<<>>)
        /\ UNCHANGED <<budgetVars, ipOf, right, before>>

\* the attempt is reserved and run() refuses it: login_busy
Busy(r) ==
    LET i == ipOf[r] IN
    /\ Admissible(r)
    /\ Full
    /\ before' = [before EXCEPT ![r] = Cleared(lockouts[i])]
    /\ lockouts' = [lockouts EXCEPT ![i] = Charged(Cleared(@))]
    /\ tries' = IF Expired(lockouts[i]) THEN [tries EXCEPT ![i] = 0] ELSE tries
    /\ Then(<< <<r, "rollback">> >>)
    /\ UNCHANGED <<budgetVars, slotVars, ipOf, right, stage>>

\* what the row becomes when r is rolled back; and as it would be if the row were cleared
RefundAll(r) == NoAttempts
Refund(r) == before[r]

\* Object.assign(lockout, before), and the answer 429
Rollback(r) ==
    /\ Runs(r, "rollback")
    /\ lockouts' = [lockouts EXCEPT ![ipOf[r]] = Refund(r)]
    /\ before' = [before EXCEPT ![r] = NoAttempts]
    /\ stage' = [stage EXCEPT ![r] = "idle"]
    /\ Then(<<>>)
    /\ UNCHANGED <<budgetVars, slotVars, ipOf, right, tries>>

\* scrypt calls back
Finish(r) ==
    /\ Turn /\ Quiet
    /\ Settle(r)
    /\ stage' = [stage EXCEPT ![r] = "idle"]
    /\ UNCHANGED <<now, ipOf, right, before, micro, draining>>

Accept(r) ==
    /\ Finish(r)
    /\ right[r]
    /\ lockouts' = [lockouts EXCEPT ![ipOf[r]] = NoAttempts]
    /\ tries' = [tries EXCEPT ![ipOf[r]] = 0]
    /\ UNCHANGED budget

Deny(r) ==
    /\ Finish(r)
    /\ ~ right[r]
    /\ IF ipOf[r] \in Exempt THEN UNCHANGED budget ELSE RecordFailure
    /\ UNCHANGED <<lockouts, tries>>

\* revalidate() throws after the verification: an answer, and no other effect
Revoked(r) ==
    /\ Finish(r)
    /\ UNCHANGED <<budget, lockouts, tries>>

Tick ==
    /\ Turn /\ Quiet
    /\ BudgetTick
    /\ UNCHANGED <<budget, slotVars, loginVars>>

Next ==
    \/ \E r \in Requests :
        \/ \E p \in BOOLEAN : Begin(r, p)
        \/ BodyEnds(r) \/ BodyFails(r)
        \/ Refuse(r) \/ Reserve(r) \/ Busy(r) \/ Rollback(r)
        \/ Accept(r) \/ Deny(r) \/ Revoked(r)
    \/ Tick

Spec == Init /\ [][Next]_vars

-----------------------------------------------------------------------------

\* No address gets more verifications than the lockout allows before its row is cleared by
\* a success or by the end of the lock, however many requests it sends at once.
GuessBudget == \A i \in Ips : tries[i] <= MaxAttempts

\* Every verification that was admitted is charged to its address, also when other
\* attempts of the address are refused and rolled back around it.
AdmittedIsCharged == \A i \in Ips : Quiet => lockouts[i].attempts >= tries[i]

\* An attempt that was never executed is not charged: between two turns the row counts the
\* admitted attempts and no more.
RefusedNotCharged == \A i \in Ips : Quiet => lockouts[i].attempts <= tries[i]

\* A cooldown is not extended by the attempts it found in the slots and the queue: no
\* failure triggers while a cooldown runs.
NoTriggerWhileCooling ==
    [][cooldownUntil' # cooldownUntil => ~ CoolingDown]_vars
=============================================================================
