-------------------------------- MODULE KeyLogin -------------------------------
(***************************************************************************)
(* Logins with SSH keys: lib/key-auth.js and its routes.  Challenges are   *)
(* kept in memory; the keys are lines of a file that is read at each use   *)
(* and rewritten in place, so that a write may leave the first lines only. *)
(***************************************************************************)
EXTENDS Integers, Sequences, FiniteSets, SequencesExt

CONSTANTS
    Requests,       \* requests that wait for their body
    Keys, Comments, \* a line of the file is a key and a comment
    MaxChal,        \* bound: challenges issued
    MaxLines        \* bound: lines of the file

Chals == 1 .. MaxChal
Line == [key : Keys, comment : Comments]
Waits == [kind : {"idle", "verify", "add"}, fresh : BOOLEAN]
Idle == [kind |-> "idle", fresh |-> FALSE]

VARIABLES
    enabled,        \* cfg.keyAuthEnabled
    issued,         \* challenges issued so far
    pending,        \* challenges that have not been used
    file,           \* authorized keys, line by line
    req,            \* requests; fresh: revalidate() would still admit the request
    torn,           \* history: a write has failed half way
    logins,         \* history: of each challenge the keys that logged in with it
    added,          \* history: keys whose last change that was answered added them
    revoked         \* history: keys whose last change that was answered removed them

vars == <<enabled, issued, pending, file, req, torn, logins, added, revoked>>
history == <<logins, added, revoked>>

KeysOf(lines) == {lines[i].key : i \in DOMAIN lines}

TypeOK ==
    /\ enabled \in BOOLEAN
    /\ issued \in 0 .. MaxChal
    /\ pending \in SUBSET (1 .. issued)
    /\ file \in UNION {[1 .. n -> Line] : n \in 0 .. MaxLines}
    /\ ~torn => IsInjective(file)
    /\ req \in [Requests -> Waits]
    /\ torn \in BOOLEAN
    /\ DOMAIN logins = Chals /\ \A c \in Chals : logins[c] \in Seq(Keys)
    /\ added \in SUBSET Keys /\ revoked \in SUBSET Keys

Init ==
    /\ enabled \in BOOLEAN
    /\ issued = 0 /\ pending = {} /\ file = <<>>
    /\ req = [r \in Requests |-> Idle]
    /\ torn = FALSE
    /\ logins = [c \in Chals |-> <<>>] /\ added = {} /\ revoked = {}

Ended(r) == [req EXCEPT ![r] = Idle]

-----------------------------------------------------------------------------
(* Logins *)

Issue ==
    /\ enabled /\ issued < MaxChal
    /\ issued' = issued + 1
    /\ pending' = pending \cup {issued'}
    /\ UNCHANGED <<enabled, file, req, torn, history>>

\* a challenge is over after a minute
Expire(c) ==
    /\ c \in pending
    /\ pending' = pending \ {c}
    /\ UNCHANGED <<enabled, issued, file, req, torn, history>>

\* a request comes and waits for its body
Begin(r, kind) ==
    /\ req[r] = Idle
    /\ kind = "verify" => enabled
    /\ req' = [req EXCEPT ![r] = [kind |-> kind, fresh |-> TRUE]]
    /\ UNCHANGED <<enabled, issued, pending, file, torn, history>>

\* consume(); and as it would be if it only looked
Looked(c) == pending
Consumed(c) == pending \ {c}

\* verifyKeySignature(): a signature by k is right if k is in the file at this moment
Matched(k) == k \in KeysOf(file)

\* the body with a signature of challenge c by key k; all of the rest is one stretch
Verify(r, c, k) ==
    /\ req[r] = [kind |-> "verify", fresh |-> TRUE]
    /\ req' = Ended(r)
    /\ IF enabled
       THEN /\ pending' = Consumed(c)
            /\ logins' = IF c \in pending /\ Matched(k)
                         THEN [logins EXCEPT ![c] = Append(@, k)] ELSE logins
       ELSE UNCHANGED <<pending, logins>>
    /\ UNCHANGED <<enabled, issued, file, torn, added, revoked>>

\* a check fails or the connection ends
Refused(r) ==
    /\ req[r] # Idle
    /\ req' = Ended(r)
    /\ UNCHANGED <<enabled, issued, pending, file, torn, history>>

-----------------------------------------------------------------------------
(* Keys *)

\* saveAuthorizedKeys(): the file holds the lines; or the write fails or the process dies with the
\* first of them in the file, the last of these perhaps without all of its comment
SaveAll(lines) == file' = lines /\ UNCHANGED torn
SaveBroken(lines) ==
    /\ \E n \in 0 .. Len(lines), w \in Comments :
        file' = [i \in 1 .. n |-> IF i = n THEN [lines[i] EXCEPT !.comment = w] ELSE lines[i]]
    /\ torn' = TRUE

\* addPublicKey()
WithLine(line) == IF Contains(file, line) THEN file ELSE Append(file, line)

AddKey(r, line) ==
    /\ req[r] = [kind |-> "add", fresh |-> TRUE]
    /\ Len(WithLine(line)) <= MaxLines
    /\ req' = Ended(r)
    /\ \/ /\ SaveAll(WithLine(line))
          /\ added' = added \cup {line.key} /\ revoked' = revoked \ {line.key}
       \/ /\ SaveBroken(WithLine(line))
          /\ revoked' = revoked \ {line.key} /\ UNCHANGED added
    /\ UNCHANGED <<enabled, issued, pending, logins>>

\* the lines without key k; and as it would be if a line had a name of its own
WithoutFirst(k) ==
    LET at == SelectInSeq(file, LAMBDA line : line.key = k)
    IN  IF at = 0 THEN file ELSE RemoveAt(file, at)
Without(k) ==
    LET kept[i \in 0 .. Len(file)] ==
            IF i = 0 THEN <<>>
            ELSE IF file[i].key = k THEN kept[i - 1] ELSE Append(kept[i - 1], file[i])
    IN  kept[Len(file)]

DeleteKey(k) ==
    /\ \/ /\ SaveAll(Without(k))
          /\ added' = added \ {k} /\ revoked' = revoked \cup {k}
       \/ SaveBroken(Without(k)) /\ added' = added \ {k} /\ UNCHANGED revoked
    /\ UNCHANGED <<enabled, issued, pending, req, logins>>

-----------------------------------------------------------------------------

\* updateConfig()
SetEnabled(on) ==
    /\ on # enabled
    /\ enabled' = on
    /\ UNCHANGED <<issued, pending, file, req, torn, history>>

\* the password changes, the session ends, or the address is denied
Outdated(r) ==
    /\ req[r].fresh
    /\ req' = [req EXCEPT ![r].fresh = FALSE]
    /\ UNCHANGED <<enabled, issued, pending, file, torn, history>>

\* a new process or a new application of the plugin
Restart ==
    /\ pending' = {}
    /\ req' = [r \in Requests |-> Idle]
    /\ UNCHANGED <<enabled, issued, file, torn, history>>

Next ==
    \/ Issue
    \/ \E c \in Chals : Expire(c)
    \/ \E r \in Requests :
        \/ \E kind \in {"verify", "add"} : Begin(r, kind)
        \/ \E c \in 1 .. issued, k \in Keys : Verify(r, c, k)
        \/ \E line \in Line : AddKey(r, line)
        \/ Refused(r) \/ Outdated(r)
    \/ \E k \in Keys : DeleteKey(k)
    \/ \E on \in BOOLEAN : SetEnabled(on)
    \/ Restart

Spec == Init /\ [][Next]_vars

-----------------------------------------------------------------------------

\* A challenge logs in at most once, also when several requests that wait show it.
ChallengeOnce == \A c \in Chals : Len(logins[c]) <= 1

\* Once a removal was answered the key is gone, with whatever comments it was in the file, and no
\* addition of another key and no broken write brings it back.
RevokedStaysOut == revoked \cap KeysOf(file) = {}

\* Additions and removals of requests that wait at the same time do not undo each other: unless a
\* write broke, the file holds the keys whose additions were answered and no others.
FileFollowsAnswers == ~torn => KeysOf(file) = added
================================================================================
