------------------------------ MODULE Credentials ------------------------------
(***************************************************************************)
(* The ways in besides the password side by side: pairing codes and        *)
(* tokens, passkeys, SSH keys.  They share no variable, in the code as     *)
(* here, so that each behaviour has one of them at work and the others at  *)
(* rest.                                                                   *)
(***************************************************************************)
EXTENDS Integers, Sequences, FiniteSets

CONSTANTS
    Requests,
    Tokens, Codes, Ips, NoIp,                       \* of Pairing
    Ttl, MaxCodes, MaxAttempts, PairFailLimit, MaxTime,
    Creds, NoCred, MaxPasskeyChal,                  \* of Passkeys
    Keys, Comments, MaxKeyChal, MaxLines            \* of KeyLogin

ASSUME CredentialsAssumption ==
    /\ NoIp \notin Ips /\ NoCred \notin Creds
    /\ Ttl \in Nat \ {0} /\ MaxAttempts \in Nat \ {0}
    /\ MaxCodes \in Nat /\ PairFailLimit \in Nat /\ MaxTime \in Nat
    /\ MaxPasskeyChal \in Nat /\ MaxKeyChal \in Nat /\ MaxLines \in Nat

VARIABLES
    atWork,
    running, pairMem, pairDisk, limiter, waiting, answers, outbound, handed, pairRemoved, failures, now,
    usable, passMem, passDisk, passReq, kindOf, made, newest, used, passAdded, passRemoved,
    enabled, issued, pending, file, keyReq, torn, logins, keyAdded, revoked

pairing == <<running, pairMem, pairDisk, limiter, waiting, answers, outbound, handed, pairRemoved,
             failures, now>>
passkeys == <<usable, passMem, passDisk, passReq, kindOf, made, newest, used, passAdded, passRemoved>>
keys == <<enabled, issued, pending, file, keyReq, torn, logins, keyAdded, revoked>>

Pairs == INSTANCE Pairing WITH mem <- pairMem, disk <- pairDisk, removed <- pairRemoved

Passes == INSTANCE Passkeys WITH
    MaxChal <- MaxPasskeyChal,
    mem <- passMem, disk <- passDisk, req <- passReq, added <- passAdded, removed <- passRemoved

SshKeys == INSTANCE KeyLogin WITH MaxChal <- MaxKeyChal, req <- keyReq, added <- keyAdded

Init ==
    /\ atWork \in {"pairing", "passkeys", "keys"}
    /\ Pairs!Init /\ Passes!Init /\ SshKeys!Init
    /\ atWork # "keys" => enabled       \* at rest, one initial state is enough

Next ==
    /\ UNCHANGED atWork
    /\ \/ atWork = "pairing" /\ Pairs!Next /\ UNCHANGED <<passkeys, keys>>
       \/ atWork = "passkeys" /\ Passes!Next /\ UNCHANGED <<pairing, keys>>
       \/ atWork = "keys" /\ SshKeys!Next /\ UNCHANGED <<pairing, passkeys>>

Spec == Init /\ [][Next]_<<atWork, pairing, passkeys, keys>>

-----------------------------------------------------------------------------

\* What lets somebody in once does not do it twice: not a code after it admitted a peer, not a
\* challenge that several handlers hold or that a crash brings back, not one that was replaced.
SecretsServeOnce ==
    Pairs!CodesAreSpent /\ Passes!ChallengeOnce /\ Passes!NewestOnly /\ SshKeys!ChallengeOnce

\* What was answered lasts over crashes, failed writes and other requests: the other side's token
\* is honoured, a registered passkey is stored, the key file holds what was said of it.
AnswersLast == Pairs!TokensAreHonoured /\ Passes!AnswersLast /\ SshKeys!FileFollowsAnswers

\* What was removed is out for good: the peer, the key whatever its comments, and the passkey also
\* for a login that has read it already.
RemovedStaysOut ==
    [][/\ Pairs!RemovedStaysRemoved' /\ SshKeys!RevokedStaysOut'
       /\ Passes!LoginsAreStored]_<<atWork, pairing, passkeys, keys>>

\* The limits hold over crashes and new instances: guesses in a window, codes that wait, one line
\* for a key and comment unless a write broke, one file of passkeys for all.
LimitsHold == Pairs!GuessesBounded /\ Pairs!TypeOK /\ Passes!TypeOK /\ SshKeys!TypeOK
================================================================================
