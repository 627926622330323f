-------------------------------- MODULE Passkeys -------------------------------
(***************************************************************************)
(* Passkeys: lib/passkey.js, lib/passkey-store.js and their routes.  One   *)
(* challenge for logins and one for registrations is kept for all browsers *)
(* together, next to the credentials, in memory and in a file.  A handler  *)
(* reads its body and verifies a signature while others run; taking a      *)
(* challenge changes the memory only.                                      *)
(***************************************************************************)
EXTENDS Integers, Sequences, FiniteSets

CONSTANTS
    Requests,       \* requests that are handled at a time
    Creds,          \* credentials; an authenticator makes a new one for each registration
    NoCred,
    MaxChal         \* bound: challenges that are generated

Kinds == {"login", "register"}
Chals == 1 .. MaxChal
NoChal == 0

VARIABLES
    usable,         \* the store has not failed
    mem, disk,      \* credentials and challenges, in memory and in the file
    req,            \* the requests
    kindOf,         \* history: the kinds of the challenges, in the order of their generation
    made,           \* history: of each credential the challenge it was made for
    newest,         \* history: of each kind the newest challenge that was answered
    used,           \* history: of each challenge the credentials it let in or added
    added,          \* history: credentials whose registration was answered
    removed         \* history: credentials whose removal was answered or reached the file

vars == <<usable, mem, disk, req, kindOf, made, newest, used, added, removed>>
history == <<newest, used, added, removed>>

Data == [creds : SUBSET Creds, chal : [Kinds -> Chals \cup {NoChal}]]

\* fresh: since the request came neither the application, the password, the session it was made
\* with nor the verdict on its address has changed, which is what revalidate() asks
Request == [phase : {"idle", "options", "body", "verify", "stored"}, kind : Kinds,
            cred : Creds \cup {NoCred}, chal : Chals \cup {NoChal},
            expected : Chals \cup {NoChal}, fresh : BOOLEAN]
Idle == [phase |-> "idle", kind |-> "login", cred |-> NoCred, chal |-> NoChal,
         expected |-> NoChal, fresh |-> FALSE]

TypeOK ==
    /\ usable \in BOOLEAN
    /\ mem \in Data /\ disk \in Data
    /\ usable => mem.creds = disk.creds
    /\ req \in [Requests -> Request]
    /\ kindOf \in UNION {[1 .. n -> Kinds] : n \in 0 .. MaxChal}
    /\ made \in [Creds -> Chals \cup {NoChal}]
    /\ newest \in [Kinds -> Chals \cup {NoChal}]
    /\ DOMAIN used = Chals /\ \A c \in Chals : used[c] \in Seq(Creds)
    /\ added \in SUBSET Creds /\ removed \in SUBSET Creds

Init ==
    /\ usable = TRUE
    /\ mem = [creds |-> {}, chal |-> [k \in Kinds |-> NoChal]] /\ disk = mem
    /\ req = [r \in Requests |-> Idle]
    /\ kindOf = <<>> /\ made = [k \in Creds |-> NoChal] /\ newest = [k \in Kinds |-> NoChal]
    /\ used = [c \in Chals |-> <<>>] /\ added = {} /\ removed = {}

-----------------------------------------------------------------------------

\* save() succeeds; or fails, with either content in the file, and the store is unusable
Saved(data) == disk' = data /\ UNCHANGED usable
SaveFails(data) == disk' \in {disk, data} /\ usable' = FALSE

Admitted(r) == usable /\ req[r].fresh

\* the request has been answered
Ended(r) == [req EXCEPT ![r] = Idle]

-----------------------------------------------------------------------------
(* Challenges *)

\* registrationOptions() and authenticationOptions() up to their await
BeginOptions(r, kind) ==
    /\ req[r] = Idle /\ usable
    /\ kind = "login" => mem.creds # {}
    /\ req' = [req EXCEPT ![r] = [Idle EXCEPT !.phase = "options", !.kind = kind, !.fresh = TRUE]]
    /\ UNCHANGED <<usable, mem, disk, kindOf, made, history>>

\* setChallenge(); and as it would be if the challenge waited for the next write
SetChallengeLazily(kind, c) ==
    /\ mem' = [mem EXCEPT !.chal[kind] = c]
    /\ newest' = [newest EXCEPT ![kind] = c]
    /\ UNCHANGED <<usable, disk>>

SetChallenge(kind, c) ==
    /\ mem' = [mem EXCEPT !.chal[kind] = c]
    /\ \/ Saved(mem') /\ newest' = [newest EXCEPT ![kind] = c]
       \/ SaveFails(mem') /\ UNCHANGED newest

\* and what follows it
OptionsReady(r) ==
    /\ req[r].phase = "options" /\ Admitted(r)
    /\ Len(kindOf) < MaxChal
    /\ kindOf' = Append(kindOf, req[r].kind)
    /\ SetChallenge(req[r].kind, Len(kindOf'))
    /\ req' = Ended(r)
    /\ UNCHANGED <<made, used, added, removed>>

\* a browser shows a challenge that it was given, as often as it likes, signed by one of its
\* credentials or with a new one
BeginVerify(r, c, k) ==
    /\ req[r] = Idle /\ usable
    /\ c \in DOMAIN kindOf
    /\ IF kindOf[c] = "register"
       THEN made[k] \in {NoChal, c} /\ made' = [made EXCEPT ![k] = c]
       ELSE made[k] # NoChal /\ UNCHANGED made
    /\ req' = [req EXCEPT ![r] = [Idle EXCEPT !.phase = "body", !.kind = kindOf[c],
                                  !.cred = k, !.chal = c, !.fresh = TRUE]]
    /\ UNCHANGED <<usable, mem, disk, kindOf, history>>

\* takeChallenge(); and as it would be if it only looked
Peeked(kind) == mem
Taken(kind) == [mem EXCEPT !.chal[kind] = NoChal]

\* the body is there: from here to the await of the verification
TakeChallenge(r) ==
    LET kind == req[r].kind
        found == /\ mem.chal[kind] # NoChal
                 /\ kind = "login" => req[r].cred \in mem.creds
    IN
    /\ req[r].phase = "body" /\ Admitted(r)
    /\ mem' = Taken(kind)
    /\ req' = IF found
              THEN [req EXCEPT ![r].phase = "verify", ![r].expected = mem.chal[kind]]
              ELSE Ended(r)
    /\ UNCHANGED <<usable, disk, kindOf, made, history>>

-----------------------------------------------------------------------------
(* Credentials *)

\* the credential is still the one that the signature was verified with; and as it would be if
\* that were not asked again
TrustedSince(k) == TRUE
StillStored(k) == k \in mem.creds

\* the signature is right: updateCounter() writes the file
LoginVerified(r) ==
    LET q == req[r] IN
    /\ q.phase = "verify" /\ q.kind = "login" /\ Admitted(r)
    /\ q.chal = q.expected
    /\ StillStored(q.cred)
    /\ \/ Saved(mem) /\ req' = [req EXCEPT ![r].phase = "stored"]
       \/ SaveFails(mem) /\ req' = Ended(r)
    /\ UNCHANGED <<mem, kindOf, made, history>>

\* identityValid() of grant(), and the session
LoginAnswered(r) ==
    LET q == req[r] IN
    /\ q.phase = "stored" /\ q.kind = "login" /\ Admitted(r)
    /\ StillStored(q.cred)
    /\ used' = [used EXCEPT ![q.chal] = Append(@, q.cred)]
    /\ req' = Ended(r)
    /\ UNCHANGED <<usable, mem, disk, kindOf, made, newest, added, removed>>

AddCredential(k) == [mem EXCEPT !.creds = @ \cup {k}]

RegistrationVerified(r) ==
    LET q == req[r] IN
    /\ q.phase = "verify" /\ q.kind = "register" /\ Admitted(r)
    /\ q.chal = q.expected
    /\ mem' = AddCredential(q.cred)
    /\ \/ /\ Saved(mem') /\ req' = [req EXCEPT ![r].phase = "stored"]
          /\ used' = [used EXCEPT ![q.chal] = Append(@, q.cred)]
       \/ SaveFails(mem') /\ req' = Ended(r) /\ UNCHANGED used
    /\ UNCHANGED <<kindOf, made, newest, added, removed>>

RegistrationAnswered(r) ==
    LET q == req[r] IN
    /\ q.phase = "stored" /\ q.kind = "register" /\ Admitted(r)
    /\ added' = added \cup {q.cred}
    /\ req' = Ended(r)
    /\ UNCHANGED <<usable, mem, disk, kindOf, made, newest, used, removed>>

\* a check fails, the signature is wrong, or the connection ends
Refused(r) ==
    /\ req[r] # Idle
    /\ req' = Ended(r)
    /\ UNCHANGED <<usable, mem, disk, kindOf, made, history>>

\* removeCredential(); and as it would be without its write
ForgetCredential(k) ==
    /\ usable /\ k \in mem.creds
    /\ mem' = [mem EXCEPT !.creds = @ \ {k}]
    /\ removed' = removed \cup {k}
    /\ UNCHANGED <<usable, disk, req, kindOf, made, newest, used, added>>

RemoveCredential(k) ==
    /\ usable /\ k \in mem.creds
    /\ mem' = [mem EXCEPT !.creds = @ \ {k}]
    /\ Saved(mem') \/ SaveFails(mem')
    /\ removed' = IF k \in disk'.creds THEN removed ELSE removed \cup {k}
    /\ UNCHANGED <<req, kindOf, made, newest, used, added>>

-----------------------------------------------------------------------------
(* What happens meanwhile *)

\* CHALLENGE_TTL_MS is over: purgeChallenges() comes before each use, so the challenge is as good as gone
Expire(c) ==
    LET without(data) == [data EXCEPT !.chal = [k \in Kinds |-> IF @[k] = c THEN NoChal ELSE @[k]]] IN
    /\ \E k \in Kinds : c \in {mem.chal[k], disk.chal[k]}
    /\ mem' = without(mem) /\ disk' = without(disk)
    /\ UNCHANGED <<usable, req, kindOf, made, history>>

\* the password changes, the session ends, or the address is denied
Outdated(r) ==
    /\ req[r].fresh
    /\ req' = [req EXCEPT ![r].fresh = FALSE]
    /\ UNCHANGED <<usable, mem, disk, kindOf, made, history>>

\* a crash and a new process, or a new application of the plugin: the file is read again, and
\* handlers of the old store fail wherever they wait
Reload ==
    /\ usable' = TRUE /\ mem' = disk
    /\ req' = [r \in Requests |-> Idle]
    /\ UNCHANGED <<disk, kindOf, made, history>>

Next ==
    \/ \E r \in Requests :
        \/ \E kind \in Kinds : BeginOptions(r, kind)
        \/ \E c \in Chals, k \in Creds : BeginVerify(r, c, k)
        \/ OptionsReady(r) \/ TakeChallenge(r)
        \/ LoginVerified(r) \/ LoginAnswered(r)
        \/ RegistrationVerified(r) \/ RegistrationAnswered(r)
        \/ Refused(r) \/ Outdated(r)
    \/ \E k \in Creds : RemoveCredential(k)
    \/ \E c \in Chals : Expire(c)
    \/ Reload

Spec == Init /\ [][Next]_vars

-----------------------------------------------------------------------------

\* A challenge lets in or adds at most once: also when it is shown to several handlers at a time,
\* and when the file that still holds it is read again after a crash.
ChallengeOnce == \A c \in Chals : Len(used[c]) <= 1

\* Once a newer challenge was answered, the older one of that kind is gone, from the file too: no
\* crash or failed write brings it back.
NewestOnly ==
    \A kind \in Kinds : \A data \in {mem, disk} :
        data.chal[kind] # NoChal => data.chal[kind] >= newest[kind]

\* A registration that was answered survives until the credential is removed, and a credential that
\* was removed does not come back.
AnswersLast ==
    /\ added \ removed \subseteq disk.creds
    /\ removed \cap (mem.creds \cup disk.creds) = {}

\* No login with a credential that was removed, at whatever moment of the login it came.
LoginsAreStored ==
    \A c \in Chals : Len(used'[c]) > Len(used[c]) => used'[c][Len(used'[c])] \notin removed
================================================================================
