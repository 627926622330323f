-------------------------------- MODULE ClientIp -------------------------------
(***************************************************************************)
(* Whose request is it, and which addresses does a network cover: the      *)
(* functions of lib/ip.js on headers and on numbers, over all requests     *)
(* and networks of a small world.                                          *)
(***************************************************************************)
EXTENDS Integers, Sequences, FiniteSetsExt, SequencesExt

CONSTANTS
    Hosts,          \* usable addresses
    Local,          \* a loopback or wildcard address
    Junk,           \* what is no address
    None,           \* no header, and no address
    Unresolved,     \* UNRESOLVED_PROXY_CLIENT
    MaxHops,        \* bound: hops that a client claims in X-Forwarded-For
    Width           \* bits of an address: 32 in the code

VARIABLE probe

-----------------------------------------------------------------------------
(* Networks *)

\* a number is the set of its bits that are 1, bit 0 the lowest: & is \cap, ~0 has them all
Bits == 0 .. Width - 1
Addresses == SUBSET Bits

\* a shift takes its distance modulo the width, so that a network of no bits needs a case of its own
Shl(x, n) == {k + (n % Width) : k \in x} \cap Bits

MaskByShift(bits) == Shl(Bits, Width - bits)
Mask(bits) == IF bits = 0 THEN {} ELSE Shl(Bits, Width - bits)

MatchCidr(ip, base, bits) ==
    /\ bits \in 0 .. Width
    /\ ip \cap Mask(bits) = base \cap Mask(bits)

-----------------------------------------------------------------------------
(* Headers *)

\* a request: the address of its socket, X-Real-IP, the hops of X-Forwarded-For, another header
\* of a proxy, and whether its Host is a local name
Headers == [real : Hosts \cup {Local, Junk, None},
            hops : SeqOf(Hosts \cup {Local, Junk}, MaxHops + 1),
            other : BOOLEAN, localHost : BOOLEAN]

XRealIp(q) == IF q.real \in Hosts THEN q.real ELSE None

\* the last hop that is not local, if it is usable; and as it would be from the left
XForwardedForFirst(q) ==
    LET others == {k \in DOMAIN q.hops : q.hops[k] # Local} IN
    IF others # {} /\ q.hops[Min(others)] \in Hosts THEN q.hops[Min(others)] ELSE None

XForwardedForClient(q) ==
    LET others == {k \in DOMAIN q.hops : q.hops[k] # Local} IN
    IF others # {} /\ q.hops[Max(others)] \in Hosts THEN q.hops[Max(others)] ELSE None

ForwardedClientIp(q) ==
    LET real == XRealIp(q)
        hop == XForwardedForClient(q)
    IN  IF real # None /\ hop # None /\ real # hop THEN None
        ELSE IF real # None THEN real ELSE hop

Evidence(q) == q.real # None \/ q.hops # <<>> \/ q.other

\* resolveClientIp(); and as it would be with the socket as the last resort
ResolveToSocket(q, remote, trustProxy) ==
    IF ~trustProxy \/ remote # Local THEN remote
    ELSE IF ForwardedClientIp(q) # None THEN ForwardedClientIp(q) ELSE remote

ResolveClientIp(q, remote, trustProxy) ==
    IF ~trustProxy \/ remote # Local THEN remote
    ELSE IF ForwardedClientIp(q) # None THEN ForwardedClientIp(q)
    ELSE IF Evidence(q) THEN Unresolved ELSE remote

\* detectNginxMisconfig()
NginxMisconfigured(q, remote) == remote = Local /\ ForwardedClientIp(q) = None /\ ~q.localHost

-----------------------------------------------------------------------------
(* How a request of a client comes, with the headers that the client claims *)

Proxies == {"snippet", "appends", "chain", "real"}

\* snippet: X-Real-IP and the last hop are the client; appends: the last hop is; chain: so it was
\* for a second proxy on this machine, which reports the first; real: X-Real-IP is
Through(proxy, client, q) ==
    CASE proxy = "snippet" -> [q EXCEPT !.real = client, !.hops = Append(@, client)]
      [] proxy = "appends" -> [q EXCEPT !.hops = Append(@, client)]
      [] proxy = "chain" -> [q EXCEPT !.real = Local, !.hops = @ \o <<client, Local>>]
      [] proxy = "real" -> [q EXCEPT !.real = client]

Claims == {q \in Headers : Len(q.hops) <= MaxHops}
Start == [kind |-> "start"]

Init == probe = Start

AskNetwork ==
    /\ probe = Start
    /\ \E ip, base \in Addresses, bits \in -1 .. Width + 1 :
        probe' = [kind |-> "network", ip |-> ip, base |-> base, bits |-> bits]

AskProxied ==
    /\ probe = Start
    /\ \E proxy \in Proxies, client \in Hosts, q \in Claims :
        probe' = [kind |-> "proxied", proxy |-> proxy, client |-> client, q |-> q]

AskDirect ==
    /\ probe = Start
    /\ \E q \in Claims, remote \in Hosts \cup {Local}, trust \in BOOLEAN :
        probe' = [kind |-> "direct", q |-> q, remote |-> remote, trust |-> trust]

Next == AskNetwork \/ AskProxied \/ AskDirect

Spec == Init /\ [][Next]_probe

-----------------------------------------------------------------------------

\* A network covers the addresses that begin with its first bits, no bits and all bits included:
\* the shifts of the code wrap at the width.
CidrIsPrefix ==
    probe.kind = "network" =>
        MatchCidr(probe.ip, probe.base, probe.bits) <=>
            /\ probe.bits \in 0 .. Width
            /\ \A k \in Width - probe.bits .. Width - 1 : k \in probe.ip <=> k \in probe.base

\* Behind a proxy that reports its client in either header, whatever the client claims, a request
\* is the client's or nobody's; with the documented settings it is the client's and is served.
ProxiedIsTheClients ==
    probe.kind = "proxied" =>
        LET q == Through(probe.proxy, probe.client, probe.q)
            ip == ResolveClientIp(q, Local, TRUE)
        IN
        /\ ip \in {probe.client, Unresolved}
        /\ probe.proxy \in {"snippet", "chain"} => ip = probe.client /\ ~NginxMisconfigured(q, Local)

\* Only a request on this machine without a trace of a proxy is the local operator's; the socket
\* of another machine is believed before any header.
OperatorIsDirect ==
    probe.kind = "direct" =>
        LET ip == ResolveClientIp(probe.q, probe.remote, probe.trust) IN
        /\ ip = Local => probe.remote = Local /\ (probe.trust => ~Evidence(probe.q))
        /\ probe.remote # Local => ip = probe.remote
================================================================================
