------------------------------- MODULE Addresses -------------------------------
(***************************************************************************)
(* What the plugin does with addresses: the lockouts of a full table, the  *)
(* lists and the visitors, and whose request it is.  The parts share no    *)
(* variable, in the code as here, so that each behaviour has one of them   *)
(* at work and the others at rest.                                         *)
(***************************************************************************)
EXTENDS Integers, Sequences, FiniteSets

CONSTANTS
    Ips, Limits, LockTime, IdleTime, MaxTime,               \* of LockoutTable
    Requests, Logins, None,
    Hosts, LocalHost, Local6, Remote6, Nets, Covers,        \* of AddressPolicy
    Mapped, Invalid, MaxVisitors, Worlds, MaxList,
    Junk, Unresolved, MaxHops, Width                        \* of ClientIp

VARIABLES
    atWork,
    limits, tableRuns, table, rows, disk, tableReq, credited, now,
    world, running, cfg, file, visitors, visitorsFile, req, settled,
    probe

lockouts == <<limits, tableRuns, table, rows, disk, tableReq, credited, now>>
policy == <<world, running, cfg, file, visitors, visitorsFile, req, settled>>

Table == INSTANCE LockoutTable WITH running <- tableRuns, req <- tableReq

Lists == INSTANCE AddressPolicy WITH Requests <- Logins

Whose == INSTANCE ClientIp WITH Hosts <- Hosts \ {LocalHost}, Local <- LocalHost

ASSUME AddressesAssumption ==
    /\ IsFiniteSet(Ips) /\ IsFiniteSet(Requests)
    /\ None \notin Ips \cup [attempts : Nat, lockedUntil : Nat, lastAttemptAt : Int]
    /\ Limits \subseteq [rows : Nat \ {0}, attempts : Nat \ {0}]
    /\ LockTime \in Nat \ {0} /\ IdleTime \in Nat \ {0} /\ MaxTime \in Nat
    /\ LocalHost \in Hosts
    /\ Lists!Clients \cap (Nets \cup {None}) = {}
    /\ Remote6 \notin Hosts \cup {Local6} /\ Invalid \notin Lists!Entry
    /\ Mapped \subseteq Hosts \cup Nets
    /\ MaxVisitors \in Nat /\ MaxList \in Nat
    /\ Worlds \subseteq [clients : SUBSET Lists!Clients, lists : SUBSET SUBSET Lists!Raw]
    /\ Unresolved \notin Hosts \cup {None}
    /\ MaxHops \in Nat /\ Width \in Nat \ {0}

Init ==
    /\ atWork \in {"lockouts", "policy", "requests"}
    /\ Table!Init /\ Lists!Init /\ Whose!Init
    \* at rest, one initial state is enough
    /\ atWork # "lockouts" => limits = CHOOSE l \in Limits : TRUE
    /\ atWork # "policy" => world = (CHOOSE w \in Worlds : TRUE) /\ file.allow = {} /\ file.deny = {}

Next ==
    /\ UNCHANGED atWork
    /\ \/ atWork = "lockouts" /\ Table!Next /\ UNCHANGED <<policy, probe>>
       \/ atWork = "policy" /\ Lists!Next /\ UNCHANGED <<lockouts, probe>>
       \/ atWork = "requests" /\ Whose!Next /\ UNCHANGED <<lockouts, policy>>

Spec == Init /\ [][Next]_<<atWork, lockouts, policy, probe>>

-----------------------------------------------------------------------------

\* Each failure that was answered stays on the row of its address, in memory and in the file, over
\* crashes, failed writes and other handlers, as long as the row is kept; a locked address
\* loses its row only to other locked ones; and the table keeps its limit.
AnsweredFailuresLast ==
    [][Table!FailuresLast' /\ Table!LockedGoLast /\ Table!TypeOK']_<<atWork, lockouts, policy, probe>>

\* An address is on one list at most and what is in force is what a new process would read; an
\* address allowed from the list of visitors does not return to it, not even with a login that
\* was under way; and that list keeps its limit.
AllowedLeavesNoTrace ==
    Lists!ListsExclude /\ Lists!ReloadKeepsPolicy /\ Lists!AllowedLeavesNoTrace /\ Lists!TypeOK

\* Behind a proxy a request is its client's or nobody's, whatever the client claims; only a
\* request without a trace of a proxy is the local operator's; and a network covers the addresses
\* that begin with its bits.
RequestIsTheClients == Whose!ProxiedIsTheClients /\ Whose!OperatorIsDirect /\ Whose!CidrIsPrefix
================================================================================
