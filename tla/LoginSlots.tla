------------------------------- MODULE LoginSlots -------------------------------
(***************************************************************************)
(* The verification slots of login-guard.js: run() starts a task, queues   *)
(* it, or refuses it with login_busy; a task that ends makes room.         *)
(***************************************************************************)
EXTENDS Integers, Sequences

CONSTANTS
    Tasks,
    MaxConcurrent,
    MaxQueue

ASSUME SlotsAssumption == MaxConcurrent \in Nat \ {0} /\ MaxQueue \in Nat

VARIABLES
    running,    \* how many verifications run
    queue,
    status      \* of each task; "new" also once its outcome is delivered

slotVars == <<running, queue, status>>

SlotsTypeOK ==
    /\ running \in Nat
    /\ queue \in Seq(Tasks)
    /\ status \in [Tasks -> {"new", "queued", "running"}]

SlotsInit == running = 0 /\ queue = <<>> /\ status = [t \in Tasks |-> "new"]

\* run() refuses; and as it would be with one place too many
FullLate == running >= MaxConcurrent /\ Len(queue) > MaxQueue
Full == running >= MaxConcurrent /\ Len(queue) >= MaxQueue

\* drain(), with r tasks running, queue q, and status s for the tasks not started
Drain(r, q, s) ==
    LET free == MaxConcurrent - r
        n    == IF free < 0 THEN 0 ELSE IF Len(q) < free THEN Len(q) ELSE free
    IN  /\ running' = r + n
        /\ queue' = SubSeq(q, n + 1, Len(q))
        /\ status' = [t \in Tasks |-> IF \E i \in 1 .. n : q[i] = t THEN "running" ELSE s[t]]

\* run() of a task that is not refused
Run(t) ==
    /\ status[t] = "new"
    /\ ~ Full
    /\ Drain(running, Append(queue, t), [status EXCEPT ![t] = "queued"])

\* a finished task leaves its slot to the queue; and as it would be without drain()
SettleNoDrain(t) ==
    /\ status[t] = "running"
    /\ running' = running - 1
    /\ status' = [status EXCEPT ![t] = "new"]
    /\ UNCHANGED queue

Settle(t) ==
    /\ status[t] = "running"
    /\ Drain(running - 1, queue, [status EXCEPT ![t] = "new"])

SlotsNext == \E t \in Tasks : Run(t) \/ Settle(t)

SlotsSpec == SlotsInit /\ [][SlotsNext]_slotVars

\* Never more verifications than slots, never a longer queue than allowed, and never a
\* task waiting while a slot is free.
SlotsBounded ==
    /\ running <= MaxConcurrent
    /\ Len(queue) <= MaxQueue
    /\ queue # <<>> => running = MaxConcurrent

\* A task that was accepted gets its outcome.
AcceptedSettles == \A t \in Tasks : status[t] = "queued" ~> status[t] = "new"
=============================================================================
