------------------------------- MODULE LoginGuard -------------------------------
(***************************************************************************)
(* The two halves of login-guard.js together, as api.js uses them: a       *)
(* verification that ends may have found a wrong password, which is then   *)
(* counted; while the budget is spent nothing new is accepted, but what    *)
(* was accepted before goes on to fail.                                    *)
(***************************************************************************)
EXTENDS LoginBudget, LoginSlots

guardVars == <<budgetVars, slotVars>>

GuardInit == BudgetInit /\ SlotsInit

\* check(), then run()
Admit(t) == ~ CoolingDown /\ Run(t) /\ UNCHANGED budgetVars

Succeeds(t) == Settle(t) /\ UNCHANGED budgetVars
Fails(t) == Settle(t) /\ RecordFailure /\ UNCHANGED now

GuardNext ==
    \/ \E t \in Tasks : Admit(t) \/ Succeeds(t) \/ Fails(t)
    \/ BudgetTick /\ UNCHANGED <<budget, slotVars>>

\* scrypt always calls back
FairGuardSpec ==
    /\ GuardInit /\ [][GuardNext]_guardVars
    /\ \A t \in Tasks : WF_guardVars(Succeeds(t) \/ Fails(t))

-----------------------------------------------------------------------------

\* A burst is contained, whatever waits and fails at once: never more verifications than slots nor a
\* longer queue than allowed, and as many failures as the limit within a window start a cooldown.
BurstsAreContained ==
    /\ BudgetTypeOK /\ SlotsTypeOK
    /\ SlotsBounded /\ BurstCoolsDown
================================================================================
