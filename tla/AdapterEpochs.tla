----------------------------- MODULE AdapterEpochs -----------------------------
(***************************************************************************)
(* The life of the plugin on one web server, index.js: applications that   *)
(* come and go, half succeed or are refused, over the one guard that       *)
(* dsh-adapter.js leaves on the routes, and over the global fetch, which   *)
(* they patch and which others patch too.                                  *)
(*                                                                         *)
(* apply() and dispose() never wait: each is one action.                   *)
(* HostProofs extends this module and RpcGrants, hence the names of their  *)
(* own.                                                                    *)
(***************************************************************************)
EXTENDS Integers, Sequences, FiniteSets

CONSTANTS
    Instances,  \* applications of the plugin
    Nobody,     \* no application
    Foreign,    \* another owner of a patch of fetch
    MaxForeign  \* bound: patches of others at a time

ASSUME AdapterAssumption ==
    /\ Nobody \notin Instances /\ Foreign \notin Instances
    /\ MaxForeign \in Nat

VARIABLES
    guard,          \* installed; owner and gate; ready; intact: nobody tampered with the routes
    inst,           \* of each application: what index.js holds
    chain,          \* globalThis.fetch, the layers from the bottom to the top
    active,         \* applications whose layer of fetch injects tokens
    installation    \* of outbound-fetch.js: the application that holds it

epochs == <<guard, inst, chain, active, installation>>
fetch == <<chain, active, installation>>

New == [applied |-> FALSE, disposed |-> FALSE,
        store |-> "none", gate |-> "none", rpc |-> FALSE, route |-> FALSE]
\* refused, or failed with everything undone
Undone == [New EXCEPT !.applied = TRUE, !.disposed = TRUE]
Up == [New EXCEPT !.applied = TRUE, !.store = "live", !.gate = "live", !.rpc = TRUE, !.route = TRUE]
Down == [Undone EXCEPT !.store = "retired", !.gate = "disposed"]
\* the write of the initial password failed: dispose() has run, and nobody disposes of what
\* apply() made after it
Leftover == [Up EXCEPT !.disposed = TRUE, !.store = "retired"]

EpochsTypeOK ==
    /\ guard \in [installed : BOOLEAN, owner : Instances \cup {Nobody},
                  gate : Instances \cup {Nobody}, ready : BOOLEAN, intact : BOOLEAN]
    /\ guard.ready => guard.installed /\ guard.owner = guard.gate
    /\ guard.ready <=> guard.gate # Nobody
    /\ inst \in [Instances ->
           [applied : BOOLEAN, disposed : BOOLEAN,
            store : {"none", "live", "retired"}, gate : {"none", "live", "disposed"},
            rpc : BOOLEAN, route : BOOLEAN]]
    /\ chain \in Seq(Instances \cup {Foreign})
    /\ active \in SUBSET Instances
    /\ installation \in Instances \cup {Nobody}

EpochsInit ==
    /\ guard = [installed |-> FALSE, owner |-> Nobody, gate |-> Nobody, ready |-> FALSE, intact |-> TRUE]
    /\ inst = [i \in Instances |-> New]
    /\ chain = <<>> /\ active = {} /\ installation = Nobody

-----------------------------------------------------------------------------
(* The guard *)

\* the gate of i is disposed of, which retires its store; and as it would be without that
DisposedOnly(S, i) == IF i = Nobody THEN S ELSE [S EXCEPT ![i].gate = "disposed"]

Disposed(S, i) ==
    IF i = Nobody THEN S ELSE [S EXCEPT ![i].gate = "disposed", ![i].store = "retired"]

\* guard.stop()
Closed(g) == [g EXCEPT !.ready = FALSE, !.owner = Nobody, !.gate = Nobody]

Stop ==
    /\ guard' = Closed(guard)
    /\ inst' = Disposed(inst, guard.gate)

\* available(), before a request, a readiness report or an application: the routes changed
Detect ==
    /\ guard.ready /\ ~guard.intact
    /\ Stop /\ UNCHANGED fetch

\* a late route that cannot be wrapped
AdapterFailure ==
    /\ guard.installed
    /\ Stop /\ UNCHANGED fetch

\* others replace the route tables, and put them back
Tamper ==
    /\ guard.installed
    /\ guard' = [guard EXCEPT !.intact = ~@]
    /\ UNCHANGED <<inst, fetch>>

-----------------------------------------------------------------------------
(* The patch of fetch *)

\* installOutboundFetch(), if it is enabled; and as it would be with a patch per application
InstallAlways(i) ==
    /\ chain' = Append(chain, i) /\ active' = active \cup {i} /\ installation' = i

Install(i) ==
    IF installation # Nobody THEN UNCHANGED fetch ELSE
        /\ chain' = Append(chain, i) /\ active' = active \cup {i} /\ installation' = i

\* restore(); and as it would be if it put back the fetch it had found
RestoreFound(i) ==
    IF i \notin active THEN UNCHANGED fetch ELSE
        /\ active' = active \ {i}
        /\ chain' = SubSeq(chain, 1, (CHOOSE k \in 1 .. Len(chain) : chain[k] = i) - 1)
        /\ installation' = IF installation = i THEN Nobody ELSE installation

Restore(i) ==
    IF i \notin active THEN UNCHANGED fetch ELSE
        /\ active' = active \ {i}
        /\ chain' = IF chain # <<>> /\ chain[Len(chain)] = i
                    THEN SubSeq(chain, 1, Len(chain) - 1) ELSE chain
        /\ installation' = IF installation = i THEN Nobody ELSE installation

ForeignLayers == {k \in 1 .. Len(chain) : chain[k] = Foreign}

ForeignPatch ==
    /\ Cardinality(ForeignLayers) < MaxForeign
    /\ chain' = Append(chain, Foreign)
    /\ UNCHANGED <<guard, inst, active, installation>>

\* another owner puts back what it had found, whatever is on top of it
ForeignRestore ==
    /\ \E k \in ForeignLayers : chain' = SubSeq(chain, 1, k - 1)
    /\ UNCHANGED <<guard, inst, active, installation>>

-----------------------------------------------------------------------------
(* index.js *)

\* a capability is missing, or the plugin is disabled: what served is stopped.  The guard may
\* have been installed before that was found.
Refused(i) ==
    /\ ~inst[i].applied
    /\ \E installs \in BOOLEAN : guard' = [Closed(guard) EXCEPT !.installed = @ \/ installs]
    /\ inst' = [Disposed(inst, guard.gate) EXCEPT ![i] = Undone]
    /\ UNCHANGED fetch

AlreadyActive(i) ==
    /\ ~inst[i].applied
    /\ guard.ready /\ guard.intact
    /\ inst' = [inst EXCEPT ![i] = Undone]
    /\ UNCHANGED <<guard, fetch>>

\* i owns the guard until a step of apply() throws; or until the initial password could not
\* be written, after which activate() throws
ApplyFails(i) ==
    /\ ~inst[i].applied
    /\ ~(guard.ready /\ guard.intact)
    /\ guard' = [Closed(guard) EXCEPT !.installed = TRUE]
    /\ \E rest \in {Undone, [Undone EXCEPT !.store = "retired"], Down, Leftover} :
           inst' = [Disposed(inst, guard.gate) EXCEPT ![i] = rest]
    /\ UNCHANGED fetch

Apply(i, outbound) ==
    /\ ~inst[i].applied
    /\ ~(guard.ready /\ guard.intact)
    /\ guard' = [guard EXCEPT !.installed = TRUE, !.owner = i, !.gate = i, !.ready = TRUE]
    /\ inst' = [Disposed(inst, guard.gate) EXCEPT ![i] = Up]
    /\ IF outbound THEN Install(i) ELSE UNCHANGED fetch

\* dispose(), when the plugin is unloaded or a write of its store fails.  And as it would be
\* if it stopped the guard whoever owns it, or if it unwrapped the routes.
DisposeAny(i) ==
    /\ inst[i].applied /\ ~inst[i].disposed
    /\ guard' = Closed(guard)
    /\ inst' = [Disposed(inst, guard.gate) EXCEPT ![i] = Down]
    /\ Restore(i)

DisposeUnwraps(i) ==
    /\ inst[i].applied /\ ~inst[i].disposed
    /\ guard' = IF guard.owner = i THEN [Closed(guard) EXCEPT !.installed = FALSE] ELSE guard
    /\ inst' = [inst EXCEPT ![i] = Down]
    /\ Restore(i)

DisposeApplication(i) ==
    /\ inst[i].applied /\ ~inst[i].disposed
    /\ guard' = IF guard.owner = i THEN Closed(guard) ELSE guard
    /\ inst' = [inst EXCEPT ![i] = Down]
    /\ Restore(i)

EpochsNext ==
    \/ Detect \/ AdapterFailure \/ Tamper \/ ForeignPatch \/ ForeignRestore
    \/ \E i \in Instances :
        \/ Refused(i) \/ AlreadyActive(i) \/ ApplyFails(i) \/ DisposeApplication(i)
        \/ \E outbound \in BOOLEAN : Apply(i, outbound)

EpochsSpec == EpochsInit /\ [][EpochsNext]_epochs

-----------------------------------------------------------------------------

\* The guard is the door it promises to be: once there it stays, one application at a time
\* passes it, and none that was closed or refused, whatever it still calls.
DoorSpec ==
    INSTANCE Door WITH
        guarded <- guard.installed,
        open <- guard.gate,
        used <- {i \in Instances : inst[i].applied}

ImplementsDoor == DoorSpec!Spec

\* Only the application that serves has a live store: whichever way another one ended - a
\* missing capability, changed routes, a failed write - it can no longer write the files that
\* both of them use; and the one that serves can.
OneLiveStore == \A i \in Instances : inst[i].store = "live" <=> guard.gate = i

\* Tokens are injected by one application at a time, although the patches of ended ones may
\* lie buried under patches of others.
OneInjects == Cardinality(active) <= 1

\* One application at a time does the work, in both halves of the plugin.
OneServes == OneLiveStore /\ OneInjects

\* The disposal of an application that lost the guard before, or never had it, leaves the one
\* that serves alone.
RetiredIsHarmless ==
    \A i \in Instances : inst[i].applied /\ ~inst[i].disposed /\ inst'[i].disposed
        /\ guard.gate # i => guard' = guard /\ inst' = [inst EXCEPT ![i] = inst'[i]]

\* An application that ends takes no patch of another owner with it, nor moves one.
ForeignPatchesStay == active \subseteq active' \/ ForeignLayers' = ForeignLayers

\* What an application does at its end harms nobody else.
OthersUnharmed == [][RetiredIsHarmless /\ ForeignPatchesStay]_epochs
================================================================================
