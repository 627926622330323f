-------------------------------- MODULE Pairing --------------------------------
(***************************************************************************)
(* Pairing of two installations, lib/peers.js and api.js.  One creates     *)
(* codes and admits whoever shows one; the other shows it and keeps the    *)
(* token that it gets.  Codes and peers live in two files, each replaced   *)
(* as a whole; a write may fail, which stops the instance, the process may *)
(* die between two writes, and an answer may be lost.                      *)
(***************************************************************************)
EXTENDS Integers, Sequences, FiniteSets

CONSTANTS
    Tokens, Codes,      \* tokens are issued once, codes may return
    Ips, Requests,      \* addresses; requests that wait for their body
    NoIp,
    Ttl,                \* PAIRING_TTL_MS and PAIR_FAIL_WINDOW_MS, in ticks
    MaxCodes,           \* codes waiting at a time
    MaxAttempts,        \* failed claims per window, in all
    PairFailLimit,      \* failed claims per window and address
    MaxTime             \* bound: ticks of the clock

VARIABLES
    running,        \* the instance serves
    mem, disk,      \* codes, attempts and peers, in memory and in the files
    limiter,        \* pairFailures, in memory
    waiting,        \* of each request that waits for its body: its address
    answers,        \* tokens on their way to the other installation
    outbound,       \* tokens that the other installation keeps
    handed,         \* history: tokens answered
    removed,        \* history: tokens of peers whose removal reached the file
    failures,       \* history: failed claims answered, by the end of their window
    now

vars == <<running, mem, disk, limiter, waiting, answers, outbound, handed, removed, failures, now>>
remote == <<answers, outbound>>
history == <<handed, removed, failures>>

Window == [count : Nat, resetAt : 0 .. MaxTime + Ttl]
Code == [code : Codes, token : Tokens, expiresAt : 0 .. MaxTime + Ttl]
Files == [codes : SUBSET Code, attempts : Window, peers : SUBSET Tokens]
NoWindow == [count |-> 0, resetAt |-> 0]

TypeOK ==
    /\ running \in BOOLEAN
    /\ mem \in Files /\ disk \in Files
    /\ Cardinality({c.code : c \in mem.codes}) = Cardinality(mem.codes)
    /\ Cardinality(mem.codes) <= MaxCodes
    /\ limiter \in [Ips -> Window]
    /\ waiting \in [Requests -> Ips \cup {NoIp}]
    /\ answers \in SUBSET Tokens /\ outbound \in SUBSET Tokens
    /\ handed \in SUBSET Tokens /\ removed \in SUBSET Tokens
    /\ failures \in [0 .. MaxTime + Ttl -> Nat]
    /\ now \in 0 .. MaxTime

Init ==
    /\ running = TRUE
    /\ mem = [codes |-> {}, attempts |-> NoWindow, peers |-> {}] /\ disk = mem
    /\ limiter = [ip \in Ips |-> NoWindow]
    /\ waiting = [r \in Requests |-> NoIp]
    /\ answers = {} /\ outbound = {} /\ handed = {} /\ removed = {}
    /\ failures = [w \in 0 .. MaxTime + Ttl |-> 0]
    /\ now = 0

-----------------------------------------------------------------------------
(* Files *)

\* one write after the other, all of them in one stretch: the handler comes to its end
Completes(writes) ==
    /\ disk' = writes[Len(writes)]
    /\ UNCHANGED running

\* a write fails, or the process dies, before the first, between two or after the last
Stops(writes) ==
    /\ \E k \in 1 .. Len(writes) : disk' = writes[k]
    /\ running' = FALSE
    /\ mem' = disk'
    /\ waiting' = [r \in Requests |-> NoIp] /\ limiter' = [ip \in Ips |-> NoWindow]
    /\ UNCHANGED <<remote, now>>

\* prunePairingCodes(): memory without the codes that have expired, and the write of that
Pruned == [mem EXCEPT !.codes = {c \in @ : c.expiresAt > now}]

-----------------------------------------------------------------------------
(* Codes and peers *)

\* no room for another code; and as it would be one too late
FullLate == Cardinality(Pruned.codes) > MaxCodes
Full == Cardinality(Pruned.codes) >= MaxCodes

CreatePairingCode(t, code) ==
    LET row == [code |-> code, token |-> t, expiresAt |-> now + Ttl]
        added == [Pruned EXCEPT !.codes = @ \cup {row}]
        writes == IF Full THEN <<disk, Pruned>> ELSE <<disk, Pruned, added>>
    IN
    /\ running
    /\ t \notin handed \cup mem.peers \cup disk.peers \cup removed \cup {c.token : c \in mem.codes \cup disk.codes}
    /\ Full \/ code \notin {c.code : c \in Pruned.codes}
    /\ \/ /\ Completes(writes) /\ mem' = writes[Len(writes)]
          /\ UNCHANGED <<limiter, waiting, remote, history, now>>
       \/ Stops(writes) /\ UNCHANGED history

\* pairRateLimited() is asked before the body
BeginPair(r, ip) ==
    /\ running /\ waiting[r] = NoIp
    /\ now > limiter[ip].resetAt \/ limiter[ip].count < PairFailLimit
    /\ waiting' = [waiting EXCEPT ![r] = ip]
    /\ UNCHANGED <<running, mem, disk, limiter, remote, history, now>>

\* the window of attempts at this moment
Attempts == IF mem.attempts.resetAt <= now THEN [count |-> 0, resetAt |-> now + Ttl] ELSE mem.attempts

\* recordPairFailure()
RecordPairFailure(ip) ==
    limiter' = [i \in Ips |->
        IF i = ip
        THEN IF now > limiter[i].resetAt \/ limiter[i].count = 0
             THEN [count |-> 1, resetAt |-> now + Ttl]
             ELSE [limiter[i] EXCEPT !.count = @ + 1]
        ELSE IF limiter[i].resetAt <= now THEN NoWindow ELSE limiter[i]]

\* claimPairingCode() with a wrong code, or too late in the window; and as it would be if the
\* attempt were counted in memory only
FailedClaimForgotten ==
    [memory |-> [Pruned EXCEPT !.attempts = [Attempts EXCEPT !.count = @ + 1]],
     writes |-> <<disk, [Pruned EXCEPT !.attempts = disk.attempts]>>]

FailedClaim ==
    LET counted == [Pruned EXCEPT !.attempts = [Attempts EXCEPT !.count = @ + 1]] IN
    [memory |-> counted, writes |-> <<disk, [Pruned EXCEPT !.attempts = disk.attempts], counted>>]

\* with the code of row: the code is gone before the peer is there.  And as it would be the
\* other way round.
SuccessfulClaimPeerFirst(row) ==
    LET admitted == [Pruned EXCEPT !.peers = @ \cup {row.token}]
        taken == [admitted EXCEPT !.codes = @ \ {row}, !.attempts = Attempts]
    IN  <<disk, Pruned, admitted, taken>>

SuccessfulClaim(row) ==
    LET taken == [Pruned EXCEPT !.codes = @ \ {row}, !.attempts = Attempts]
        admitted == [taken EXCEPT !.peers = @ \cup {row.token}]
    IN  <<disk, Pruned, taken, admitted>>

\* the body arrives
Claim(r, code) ==
    LET known == {c \in Pruned.codes : c.code = code}
        limited == Attempts.count >= MaxAttempts
    IN
    /\ running /\ waiting[r] # NoIp
    /\ \/ /\ limited \/ known = {}
          /\ IF limited
             THEN /\ Completes(<<disk, [Pruned EXCEPT !.attempts = disk.attempts]>>)
                  /\ mem' = [Pruned EXCEPT !.attempts = Attempts]
                  /\ UNCHANGED failures
             ELSE /\ Completes(FailedClaim.writes) /\ mem' = FailedClaim.memory
                  /\ failures' = [failures EXCEPT ![mem'.attempts.resetAt] = @ + 1]
          /\ RecordPairFailure(waiting[r])
          /\ waiting' = [waiting EXCEPT ![r] = NoIp]
          /\ UNCHANGED <<remote, handed, removed, now>>
       \/ /\ ~limited /\ known = {} /\ Stops(FailedClaim.writes) /\ UNCHANGED history
       \/ /\ ~limited
          /\ \E row \in known :
             \/ /\ Completes(SuccessfulClaim(row)) /\ mem' = SuccessfulClaim(row)[4]
                /\ handed' = handed \cup {row.token} /\ answers' = answers \cup {row.token}
                /\ waiting' = [waiting EXCEPT ![r] = NoIp]
                /\ UNCHANGED <<limiter, outbound, removed, failures, now>>
             \/ Stops(SuccessfulClaim(row)) /\ UNCHANGED history

\* the request ends without a body, or is no longer admitted after it
PairAborted(r) ==
    /\ waiting[r] # NoIp
    /\ waiting' = [waiting EXCEPT ![r] = NoIp]
    /\ UNCHANGED <<running, mem, disk, limiter, remote, history, now>>

\* the peers without that of t; and as it would be with the filter turned round
OnlyPeer(t) == mem.peers \cap {t}
WithoutPeer(t) == mem.peers \ {t}

\* removePeer()
RemovePeer(t) ==
    LET writes == <<disk, [disk EXCEPT !.peers = WithoutPeer(t)]>> IN
    /\ running /\ t \in mem.peers
    /\ \/ /\ Completes(writes) /\ mem' = [mem EXCEPT !.peers = WithoutPeer(t)]
          /\ removed' = removed \cup {t}
          /\ UNCHANGED <<limiter, waiting, remote, handed, failures, now>>
       \/ /\ Stops(writes)
          /\ removed' = IF t \in disk'.peers THEN removed ELSE removed \cup {t}
          /\ UNCHANGED <<handed, failures>>

\* the instance is disposed of or dies while nothing is being written, and is applied again
Stop == running /\ Stops(<<disk>>) /\ UNCHANGED history

Restart ==
    /\ ~running
    /\ running' = TRUE
    /\ UNCHANGED <<mem, disk, limiter, waiting, remote, history, now>>

-----------------------------------------------------------------------------
(* The other installation: peers/connect after its fetch *)

Connected(t) ==
    /\ t \in answers
    /\ answers' = answers \ {t} /\ outbound' = outbound \cup {t}
    /\ UNCHANGED <<running, mem, disk, limiter, waiting, history, now>>

\* the answer is lost, its reader was logged out meanwhile, or the peer cannot be saved
AnswerLost(t) ==
    /\ t \in answers
    /\ answers' = answers \ {t}
    /\ UNCHANGED <<running, mem, disk, limiter, waiting, outbound, history, now>>

Tick ==
    /\ now < MaxTime
    /\ now' = now + 1
    /\ UNCHANGED <<running, mem, disk, limiter, waiting, remote, history>>

Next ==
    \/ \E t \in Tokens :
        \/ \E code \in Codes : CreatePairingCode(t, code)
        \/ RemovePeer(t) \/ Connected(t) \/ AnswerLost(t)
    \/ \E r \in Requests :
        \/ \E ip \in Ips : BeginPair(r, ip)
        \/ \E code \in Codes : Claim(r, code)
        \/ PairAborted(r)
    \/ Stop \/ Restart \/ Tick

Spec == Init /\ [][Next]_vars

-----------------------------------------------------------------------------

\* A code is good for one peer: in no state that a crash or a failed write can leave behind
\* does a code stand for a token that was admitted or handed out.
CodesAreSpent ==
    \A c \in mem.codes \cup disk.codes : c.token \notin mem.peers \cup disk.peers \cup handed

\* A token that the other side was given, or keeps, is honoured by this side after any crash,
\* until the peer is removed.
TokensAreHonoured == \A t \in handed \cup outbound : t \in disk.peers \cup removed

\* A peer that was removed does not come back with a crash or a new instance.
RemovedStaysRemoved == removed \cap (mem.peers \cup disk.peers) = {}

\* Guessing is bounded over crashes and new instances: no window sees more wrong codes
\* answered than the limit.
GuessesBounded == \A w \in DOMAIN failures : failures[w] <= MaxAttempts

================================================================================
