----------------------------- MODULE LoginPageProofs ----------------------------
(***************************************************************************)
(* Why the login page does not mix what the user, the app and the server   *)
(* do.  A check of the page's epoch is the only one and there is none once *)
(* the page is ready; a login begins on a ready page, and keeps the fields *)
(* shut until it is over.  So what stands in the field when the server     *)
(* accepts is what it accepted, there is at most one automatic login, and  *)
(* a page is entered by nothing that began before it was hidden.           *)
(***************************************************************************)
EXTENDS LoginPage, FiniteSetTheorems, TLAPS

\* one chain of checkAccess() for the page as it is, and none for a page that is hidden or ready
Chains ==
    /\ \A c \in checks :
        /\ c.epoch <= page.epoch
        /\ c.epoch = page.epoch => page.live /\ ~page.ready
        /\ c.stage = "waits" => c.attempt < 2
    /\ \A c, d \in checks : c.epoch = page.epoch /\ d.epoch = page.epoch => c = d

\* an automatic restore follows the one answer that makes the page ready
Automatic ==
    /\ restore.auto => page.ready /\ (restore.stage # "run" => autos = 0)
    /\ autos # 0 => page.ready
    /\ autos <= 1

\* a login is about what stands in the field
Logins ==
    /\ run.stage = "idle" => run = NoRun
    /\ run.stage # "idle" => page.ready
    /\ run.stage \in {"request", "accepted", "refused"} /\ run.remember => page.field = run.secret
    /\ run.stage = "accepted" => run.secret \in proved \cup {None}
    /\ run.saving \in proved \cup {None}

TypedStands == page.typed => page.field # None

\* The inductive invariant.
LInv == TypeOK /\ Chains /\ Automatic /\ Logins /\ TypedStands

-----------------------------------------------------------------------------
(* Types *)

\* The values that nothing is under way with.
LEMMA NothingTypes ==
    /\ NoRestore \in Restore /\ NoRestore.stage = "idle" /\ NoRestore.auto = FALSE
    /\ NoRun \in Run /\ NoRun.stage = "idle" /\ NoRun.saving = None
BY LoginPageAssumption DEF NoRestore, Restore, Epochs, NoRun, Run, Field

\* A page may be revealed, left, emptied, shown its form or not, and free or busy.
LEMMA PageChanges ==
    ASSUME NEW p \in Page
    PROVE  /\ \A b \in BOOLEAN : [p EXCEPT !.revealed = b] \in Page
           /\ \A b \in BOOLEAN : [p EXCEPT !.left = b] \in Page
           /\ \A b \in BOOLEAN : [p EXCEPT !.busy = b] \in Page
           /\ Emptied(p) \in Page
BY DEF Page, Emptied, Field

-----------------------------------------------------------------------------
(* The steps *)

\* A step that leaves checks, logins and what they are about alone, and moves at most what the page
\* shows and what restore waits for.
LEMMA QuietStep ==
    ASSUME LInv, page' \in Page, restore' \in Restore, checks' = checks, run' = run,
           stored' = stored, proved' = proved, autos' = autos, runs' = runs,
           disabled' \in BOOLEAN, password' \in Field,
           page'.epoch = page.epoch, page'.live = page.live, page'.ready = page.ready,
           page'.busy = page.busy, page'.field = page.field \/ ~page.busy,
           page'.typed => page'.field # None,
           restore'.auto => restore.auto /\ (restore'.stage # "run" => restore.stage # "run")
    PROVE  LInv'
<1>1. TypeOK'
  BY DEF LInv, TypeOK
<1>2. Chains'
  BY DEF LInv, Chains
<1>3. Automatic'
  BY DEF LInv, Automatic
<1>4. Logins'
  BY DEF LInv, TypeOK, Logins
<1>. QED BY <1>1, <1>2, <1>3, <1>4 DEF LInv, TypedStands

\* Over(): the login is over; p is what the page was made before.
LEMMA OverStep ==
    ASSUME LInv, NEW p \in Page, NEW entered \in BOOLEAN, Over(p, entered),
           p.epoch = page.epoch, p.live = page.live, p.ready = page.ready,
           p.typed => p.field # None,
           checks' = checks, stored' \in Field, proved' = proved, autos' = autos, runs' = runs,
           disabled' \in BOOLEAN, password' = password
    PROVE  LInv'
<1>1. /\ page' \in Page /\ page'.epoch = p.epoch /\ page'.live = p.live /\ page'.ready = p.ready
      /\ page'.busy = FALSE /\ page'.field = p.field /\ page'.typed = p.typed
  BY DEF Over, Ended, Page
<1>2. run' = NoRun /\ restore' \in {NoRestore, restore} /\ (restore.stage = "run" => restore' = NoRestore)
  BY DEF Over
<1>3. TypeOK'
  BY <1>1, <1>2, NothingTypes DEF LInv, TypeOK
<1>4. Chains'
  BY <1>1 DEF LInv, Chains
<1>5. Automatic'
  BY <1>1, <1>2, NothingTypes DEF LInv, Automatic
<1>6. Logins'
  BY <1>2, NothingTypes DEF Logins
<1>. QED BY <1>1, <1>3, <1>4, <1>5, <1>6 DEF LInv, TypedStands

\* restoreCredential() begins by itself or does not.
LEMMA BeginRestoreStep ==
    ASSUME NEW p \in Page, NEW auto \in BOOLEAN, restore \in Restore, BeginRestore(p, auto)
    PROVE  /\ page' \in Page /\ page'.epoch = p.epoch /\ page'.live = p.live
           /\ page'.ready = p.ready /\ page'.busy = p.busy /\ page'.field = p.field
           /\ page'.typed = p.typed /\ page'.left = p.left
           /\ restore' \in Restore
           /\ restore' = restore \/ (restore'.stage = "caps" /\ restore'.auto = auto)
<1>1. CASE (auto /\ disabled) \/ Unwanted(p)
  BY <1>1 DEF BeginRestore, Page
<1>2. CASE ~((auto /\ disabled) \/ Unwanted(p))
  BY <1>2 DEF BeginRestore, Page, Restore
<1>. QED BY <1>1, <1>2

\* The answer to a check ends its chain, and makes the page ready, or enters it.
LEMMA MeStep ==
    ASSUME LInv, NEW c \in checks, Me(c)
    PROVE  LInv'
<1>1. /\ checks' = checks \ {c} /\ run' = run /\ stored' = stored /\ disabled' = disabled
      /\ password' = password /\ proved' = proved /\ autos' = autos /\ runs' = runs
  BY DEF Me
<1>2. CASE UNCHANGED <<page, restore>>
  BY <1>1, <1>2 DEF LInv, TypeOK, Chains, Automatic, Logins, TypedStands
<1>3. CASE Current(c) /\ page' = [page EXCEPT !.left = TRUE] /\ restore' = restore
  <2>1. /\ page' \in Page /\ page'.epoch = page.epoch /\ page'.live = page.live
        /\ page'.ready = page.ready /\ page'.busy = page.busy /\ page'.field = page.field
        /\ page'.typed = page.typed
    BY <1>3 DEF LInv, TypeOK, Page
  <2>. QED BY <1>1, <1>3, <2>1 DEF LInv, TypeOK, Chains, Automatic, Logins, TypedStands
<1>4. ASSUME Current(c), page' \in Page, page'.epoch = page.epoch, page'.live = page.live,
             page'.ready, page'.busy = page.busy, page'.field = page.field, page'.typed = page.typed,
             restore' \in Restore, restore' = restore \/ restore'.stage = "caps"
      PROVE  LInv'
  <2>1. c.epoch = page.epoch /\ ~page.ready /\ autos = 0 /\ run.stage = "idle"
    BY <1>4 DEF LInv, Chains, Current, Automatic, Logins
  <2>2. TypeOK'
    BY <1>1, <1>4 DEF LInv, TypeOK
  <2>3. Chains'
    BY <1>1, <1>4, <2>1 DEF LInv, Chains
  <2>4. Automatic'
    BY <1>1, <1>4, <2>1 DEF LInv, Automatic
  <2>5. Logins'
    BY <1>1, <1>4, <2>1 DEF LInv, Logins
  <2>. QED BY <1>4, <2>2, <2>3, <2>4, <2>5 DEF LInv, TypedStands
<1>5. CASE /\ Current(c) /\ restore' = restore
           /\ page' = [page EXCEPT !.setup = TRUE, !.form = FALSE, !.ready = TRUE, !.revealed = TRUE]
  <2>1. /\ page' \in Page /\ page'.epoch = page.epoch /\ page'.live = page.live
        /\ page'.ready /\ page'.busy = page.busy /\ page'.field = page.field
        /\ page'.typed = page.typed
    BY <1>5 DEF LInv, TypeOK, Page
  <2>. QED BY <1>4, <1>5, <2>1 DEF LInv, TypeOK
<1>6. CASE Current(c) /\ BeginRestore([page EXCEPT !.setup = FALSE, !.ready = TRUE], TRUE)
  <2> DEFINE p == [page EXCEPT !.setup = FALSE, !.ready = TRUE]
  <2>1. /\ p \in Page /\ p.epoch = page.epoch /\ p.live = page.live /\ p.ready
        /\ p.busy = page.busy /\ p.field = page.field /\ p.typed = page.typed
    BY DEF LInv, TypeOK, Page
  <2>2. BeginRestore(p, TRUE) /\ restore \in Restore
    BY <1>6 DEF LInv, TypeOK
  <2> HIDE DEF p
  <2>. QED BY <1>4, <1>6, <2>1, <2>2, BeginRestoreStep
<1>. QED BY <1>2, <1>3, <1>5, <1>6 DEF Me

\* The chain of a check goes on, or it ends and the page is revealed.
LEMMA ChainStep ==
    ASSUME LInv, NEW c \in checks, MeFails(c) \/ MeGivenUp(c) \/ Again(c)
    PROVE  LInv'
<1>1. /\ restore' = restore /\ run' = run /\ stored' = stored /\ disabled' = disabled
      /\ password' = password /\ proved' = proved /\ autos' = autos /\ runs' = runs
  BY DEF MeFails, MeGivenUp, Again
<1>2. /\ page' \in Page /\ page'.epoch = page.epoch /\ page'.live = page.live
      /\ page'.ready = page.ready /\ page'.busy = page.busy /\ page'.field = page.field
      /\ page'.typed = page.typed
  BY DEF MeFails, MeGivenUp, Again, LInv, TypeOK, Page
<1>3. c \in Check
  BY DEF LInv, TypeOK
<1>4. PICK more \in SUBSET Check :
             /\ checks' = (checks \ {c}) \cup more
             /\ \A d \in more : d.epoch = c.epoch /\ (d.stage = "waits" => d.attempt < 2)
             /\ \A d, e \in more : d = e
  <2>1. CASE MeFails(c)
    <3> DEFINE d == [c EXCEPT !.stage = "waits"]
    <3>1. d \in Check /\ d.epoch = c.epoch /\ d.attempt < 2
      BY <1>3, <2>1 DEF MeFails, Check
    <3> DEFINE more == IF Current(c) THEN {d} ELSE {}
    <3>2. checks' = (checks \ {c}) \cup more
      BY <2>1 DEF MeFails
    <3> HIDE DEF d
    <3>3. more \in SUBSET Check
      BY <3>1
    <3> WITNESS more \in SUBSET Check
    <3>. QED BY <3>1, <3>2
  <2>2. CASE MeGivenUp(c)
    <3> WITNESS {} \in SUBSET Check
    <3>. QED BY <2>2 DEF MeGivenUp
  <2>3. CASE Again(c)
    <3> DEFINE d == [c EXCEPT !.attempt = @ + 1, !.stage = "asked"]
    <3>1. c.attempt \in 0 .. 2 /\ c.attempt < 2
      BY <1>3, <2>3 DEF Again, Check, LInv, Chains
    <3>3. d \in Check /\ d.epoch = c.epoch /\ d.stage = "asked"
      <4> DEFINE n == c.attempt + 1
      <4>1. n \in 0 .. 2 /\ d = [c EXCEPT !.attempt = n, !.stage = "asked"]
        BY <3>1
      <4> HIDE DEF n, d
      <4>. QED BY <1>3, <4>1 DEF Check
    <3> DEFINE more == IF Current(c) THEN {d} ELSE {}
    <3>2. checks' = (checks \ {c}) \cup more
      BY <2>3 DEF Again
    <3> HIDE DEF d
    <3>4. more \in SUBSET Check
      BY <3>3
    <3> WITNESS more \in SUBSET Check
    <3>. QED BY <3>2, <3>3
  <2>. QED BY <2>1, <2>2, <2>3
<1>5. TypeOK'
  BY <1>1, <1>2, <1>4 DEF LInv, TypeOK
<1>6. Chains'
  BY <1>2, <1>4 DEF LInv, Chains
<1>. QED BY <1>1, <1>2, <1>5, <1>6 DEF LInv, Automatic, Logins, TypedStands

\* The calls of restoreCredential().
LEMMA RestoreStep ==
    ASSUME LInv, Capable \/ RestoreFails \/ Arrives
    PROVE  LInv'
<1>1. CASE Capable
  <2>1. restore' \in Restore /\ restore'.auto = restore.auto /\ restore.stage = "caps"
    BY <1>1 DEF Capable, LInv, TypeOK, Restore
  <2>. QED BY <1>1, <2>1, QuietStep DEF Capable, LInv, TypeOK, TypedStands
<1>2. ASSUME restore' = NoRestore, page' = Ended(page),
             UNCHANGED <<checks, run, stored, disabled, password, proved, autos, runs>>
      PROVE  LInv'
  <2>1. /\ page' \in Page /\ page'.epoch = page.epoch /\ page'.live = page.live
        /\ page'.ready = page.ready /\ page'.busy = page.busy /\ page'.field = page.field
        /\ page'.typed = page.typed
    BY <1>2 DEF Ended, LInv, TypeOK, Page
  <2>. QED BY <1>2, <2>1, NothingTypes, QuietStep DEF LInv, TypeOK, TypedStands
<1>3. CASE Arrives /\ StillWanted /\ ~restore.auto
  <2>1. /\ restore' = NoRestore /\ page' = [page EXCEPT !.field = stored, !.typed = FALSE]
        /\ UNCHANGED <<checks, run, stored, disabled, password, proved, autos, runs>>
        /\ ~page.busy
    BY <1>3 DEF Arrives, StillWanted
  <2>2. /\ page' \in Page /\ page'.epoch = page.epoch /\ page'.live = page.live
        /\ page'.ready = page.ready /\ page'.busy = page.busy /\ ~page'.typed
    BY <2>1 DEF LInv, TypeOK, Page
  <2>. QED BY <2>1, <2>2, NothingTypes, QuietStep DEF LInv, TypeOK
<1>4. CASE Arrives /\ StillWanted /\ restore.auto
  <2>1. /\ restore' = [restore EXCEPT !.stage = "run"] /\ restore.stage = "read"
        /\ page' = [page EXCEPT !.field = stored, !.busy = TRUE]
        /\ run' = [NoRun EXCEPT !.stage = "request", !.secret = stored]
        /\ autos' = autos + 1 /\ runs' = runs + 1 /\ runs < MaxRuns /\ stored # None
        /\ UNCHANGED <<checks, stored, disabled, password, proved>>
    BY <1>4 DEF Arrives
  <2>2. /\ page' \in Page /\ page'.epoch = page.epoch /\ page'.live = page.live
        /\ page'.ready = page.ready /\ page'.busy = TRUE /\ page'.field = stored
    BY <2>1 DEF LInv, TypeOK, Page
  <2>3. restore' \in Restore /\ restore'.auto = restore.auto /\ restore'.stage = "run"
    BY <2>1 DEF LInv, TypeOK, Restore
  <2>4. run' \in Run /\ run'.stage = "request" /\ run'.secret = stored /\ run'.saving = None
    BY <2>1 DEF LInv, TypeOK, NoRun, Run, Field
  <2>5. page.ready /\ autos = 0
    BY <1>4, <2>1 DEF LInv, Automatic
  <2>6. TypeOK'
    <3>1. autos' \in 0 .. MaxRuns /\ runs' \in 0 .. MaxRuns
      BY <2>1, <2>5, LoginPageAssumption DEF LInv, TypeOK
    <3>2. page'.busy = (run'.stage # "idle")
      BY <2>2, <2>4
    <3>. QED BY <2>1, <2>2, <2>3, <2>4, <3>1, <3>2 DEF LInv, TypeOK
  <2>7. Chains'
    BY <2>1, <2>2 DEF LInv, Chains
  <2>8. Automatic'
    BY <2>1, <2>2, <2>3, <2>5 DEF Automatic
  <2>9. Logins'
    BY <2>1, <2>2, <2>4, <2>5 DEF Logins
  <2>. QED BY <2>1, <2>2, <2>6, <2>7, <2>8, <2>9 DEF LInv, TypedStands
<1>. QED BY <1>1, <1>2, <1>3, <1>4 DEF RestoreFails, Arrives

\* The server decides, and the page stores what it accepted, enters, or is free again.
LEMMA RunStep ==
    ASSUME LInv, Decides \/ Accepted \/ RunFails \/ SaveCapable \/ Saved
    PROVE  LInv'
<1> DEFINE q == [Emptied(page) EXCEPT !.left = TRUE]
<1>1. /\ q \in Page /\ q.epoch = page.epoch /\ q.live = page.live /\ q.ready = page.ready /\ ~q.typed
  BY DEF Emptied, LInv, TypeOK, Page, Field
<1>2. ASSUME Enter, UNCHANGED <<checks, password, proved, autos, runs>>, stored' \in Field
      PROVE  LInv'
  <2>1. Over(q, TRUE) /\ disabled' = FALSE
    BY <1>2 DEF Enter
  <2> HIDE DEF q
  <2>. QED BY <1>1, <1>2, <2>1, OverStep
<1>3. ASSUME Over(page, FALSE), UNCHANGED <<checks, disabled, password, proved, autos, runs>>,
             stored' \in Field
      PROVE  LInv'
  BY <1>3, OverStep DEF LInv, TypeOK, TypedStands
<1>4. CASE Decides
  <2>1. /\ run' \in Run /\ run'.stage \in {"accepted", "refused"} /\ run'.secret = run.secret
        /\ run'.remember = run.remember /\ run'.saving = run.saving /\ run.stage = "request"
        /\ run'.stage = "accepted" => proved' = proved \cup ({run.secret} \ {None})
        /\ proved \subseteq proved' /\ proved' \subseteq Secrets
    BY <1>4 DEF Decides, LInv, TypeOK, Run, Field
  <2>2. UNCHANGED <<page, checks, restore, stored, disabled, password, autos, runs>>
    BY <1>4 DEF Decides
  <2>3. TypeOK'
    BY <2>1, <2>2 DEF LInv, TypeOK
  <2>4. Logins'
    BY <2>1, <2>2 DEF LInv, Logins
  <2>. QED BY <2>2, <2>3, <2>4 DEF LInv, Chains, Automatic, TypedStands
<1>5. ASSUME run' \in Run, run'.stage \in {"caps", "save"}, run.stage # "idle",
             run'.saving \in proved \cup {None},
             UNCHANGED <<page, checks, restore, stored, disabled, password, proved, autos, runs>>
      PROVE  LInv'
  BY <1>5 DEF LInv, TypeOK, Chains, Automatic, Logins, TypedStands
<1>6. CASE Accepted /\ run' = [run EXCEPT !.stage = "caps", !.saving = page.field]
  <2>1. CASE UNCHANGED <<page, restore, disabled>> /\ run.remember /\ page.field # None
    <3>1. run' \in Run /\ run'.stage = "caps" /\ run'.saving = page.field
      BY <1>6, <2>1 DEF LInv, TypeOK, Run, Page
    <3>2. page.field \in proved
      BY <1>6, <2>1 DEF Accepted, LInv, Logins
    <3>. QED BY <1>5, <1>6, <2>1, <3>1, <3>2 DEF Accepted
  <2>. QED BY <1>2, <1>3, <1>6, <2>1 DEF Accepted, LInv, TypeOK
<1>7. CASE Accepted /\ run' # [run EXCEPT !.stage = "caps", !.saving = page.field]
  BY <1>2, <1>3, <1>7 DEF Accepted, LInv, TypeOK
<1>8. CASE RunFails
  BY <1>3, <1>8 DEF RunFails, LInv, TypeOK
<1>9. CASE SaveCapable
  <2>1. run' \in Run /\ run'.stage = "save" /\ run'.saving = run.saving /\ run.stage = "caps"
    BY <1>9 DEF SaveCapable, LInv, TypeOK, Run
  <2>. QED BY <1>5, <1>9, <2>1 DEF SaveCapable, LInv, Logins
<1>10. CASE Saved
  <2>1. stored' \in Field
    BY <1>10 DEF Saved, LInv, TypeOK, Run
  <2>. QED BY <1>2, <1>3, <1>10, <2>1 DEF Saved
<1>. QED BY <1>4, <1>6, <1>7, <1>8, <1>9, <1>10

\* The user changes fields only while no login is under way.
LEMMA UserStep ==
    ASSUME LInv, User
    PROVE  LInv'
<1>1. CASE Focus
  <2>1. BeginRestore(page, FALSE) /\ page \in Page /\ restore \in Restore
    BY <1>1 DEF Focus, LInv, TypeOK
  <2>2. /\ page' \in Page /\ page'.epoch = page.epoch /\ page'.live = page.live
        /\ page'.ready = page.ready /\ page'.busy = page.busy /\ page'.field = page.field
        /\ page'.typed = page.typed /\ restore' \in Restore
        /\ restore' = restore \/ ~restore'.auto
    BY <2>1, BeginRestoreStep
  <2>. QED BY <1>1, <2>2, QuietStep DEF Focus, LInv, TypeOK, TypedStands
<1>2. ASSUME page' \in Page, page'.epoch = page.epoch, page'.live = page.live,
             page'.ready = page.ready, page'.busy = page.busy, ~page.busy,
             page'.typed => page'.field # None,
             UNCHANGED <<checks, restore, run, stored, disabled, password, proved, autos, runs>>
      PROVE  LInv'
  BY <1>2, QuietStep DEF LInv, TypeOK
<1>3. ASSUME NEW s \in Field, Type(s)
      PROVE  LInv'
  <2>1. /\ page' \in Page /\ page'.epoch = page.epoch /\ page'.live = page.live
        /\ page'.ready = page.ready /\ page'.busy = page.busy
        /\ page'.typed => page'.field # None
    BY <1>3 DEF Type, LInv, TypeOK, Page
  <2>. QED BY <1>2, <1>3, <2>1 DEF Type, Editable
<1>4. ASSUME NEW t \in {"here", "other"}, EditServer(t)
      PROVE  LInv'
  <2>1. /\ page' \in Page /\ page'.epoch = page.epoch /\ page'.live = page.live
        /\ page'.ready = page.ready /\ page'.busy = page.busy /\ ~page'.typed
    BY <1>4 DEF EditServer, Emptied, LInv, TypeOK, Page, Field
  <2>. QED BY <1>2, <1>4, <2>1 DEF EditServer, Editable
<1>5. CASE ChangeServer
  <2>1. /\ page' \in Page /\ page'.epoch = page.epoch /\ page'.live = page.live
        /\ page'.ready = page.ready /\ page'.busy = page.busy /\ ~page'.typed
    BY <1>5 DEF ChangeServer, Emptied, LInv, TypeOK, Page, Field
  <2>. QED BY <1>2, <1>5, <2>1 DEF ChangeServer, Editable
<1>6. ASSUME NEW secret \in Field, Submit(secret)
      PROVE  LInv'
  <2>1. /\ page' = [page EXCEPT !.busy = TRUE] /\ page.ready /\ ~page.busy
        /\ run' = [NoRun EXCEPT !.stage = "request", !.secret = secret, !.remember = (secret # None)]
        /\ runs' = runs + 1 /\ runs < MaxRuns /\ (secret = None \/ secret = page.field)
        /\ UNCHANGED <<checks, restore, stored, disabled, password, proved, autos>>
    BY <1>6 DEF Submit
  <2>2. /\ page' \in Page /\ page'.epoch = page.epoch /\ page'.live = page.live
        /\ page'.ready = page.ready /\ page'.busy = TRUE /\ page'.field = page.field
        /\ page'.typed = page.typed
    BY <2>1 DEF LInv, TypeOK, Page
  <2>3. /\ run' \in Run /\ run'.stage = "request" /\ run'.secret = secret
        /\ run'.remember = (secret # None) /\ run'.saving = None
    BY <2>1, <1>6 DEF NoRun, Run, Field
  <2>4. TypeOK'
    <3>1. runs' \in 0 .. MaxRuns
      BY <2>1, LoginPageAssumption DEF LInv, TypeOK
    <3>2. page'.busy = (run'.stage # "idle")
      BY <2>2, <2>3
    <3>. QED BY <2>1, <2>2, <2>3, <3>1, <3>2 DEF LInv, TypeOK
  <2>5. Chains'
    BY <2>1, <2>2 DEF LInv, Chains
  <2>6. Logins'
    BY <2>1, <2>2, <2>3 DEF LInv, Logins
  <2>. QED BY <2>1, <2>2, <2>4, <2>5, <2>6 DEF LInv, Automatic, TypedStands
<1>7. None \in Field /\ page.field \in Field
  BY DEF LInv, TypeOK, Page, Field
<1>. QED BY <1>1, <1>3, <1>4, <1>5, <1>6, <1>7 DEF User

\* A page that is hidden has another epoch, which no check has yet.
LEMMA HideStep ==
    ASSUME LInv, Hide
    PROVE  LInv'
<1> DEFINE calls == run.stage \in {"caps", "save"}
<1>1. /\ page' = [page EXCEPT !.live = FALSE, !.epoch = @ + 1, !.busy = @ /\ ~calls]
      /\ run' = IF calls THEN NoRun ELSE [run EXCEPT !.aborted = (run.stage # "idle")]
      /\ stored' \in IF run.stage = "save" THEN {stored, run.saving} ELSE {stored}
      /\ restore' \in {NoRestore, restore} /\ page.epoch < MaxHides
      /\ UNCHANGED <<checks, disabled, password, proved, autos, runs>>
  BY DEF Hide
<1>2. /\ page' \in Page /\ page'.epoch = page.epoch + 1 /\ page'.ready = page.ready
      /\ page'.busy = (page.busy /\ ~calls) /\ page'.field = page.field /\ page'.typed = page.typed
  <2> DEFINE now == page.epoch + 1
             busy == page.busy /\ ~calls
  <2>1. now \in Epochs
    BY <1>1, LoginPageAssumption DEF LInv, TypeOK, Page, Epochs
  <2>2. busy \in BOOLEAN
    OBVIOUS
  <2>3. page' = [page EXCEPT !.live = FALSE, !.epoch = now, !.busy = busy]
    BY <1>1
  <2> HIDE DEF now, busy
  <2>4. /\ page' \in Page /\ page'.epoch = now /\ page'.ready = page.ready
        /\ page'.busy = busy /\ page'.field = page.field /\ page'.typed = page.typed
    BY <2>1, <2>2, <2>3 DEF LInv, TypeOK, Page
  <2>. QED BY <2>4 DEF now, busy
<1>3. page.epoch \in Int /\ \A c \in checks : c.epoch \in Int
  BY LoginPageAssumption DEF LInv, TypeOK, Page, Check, Epochs
<1>4. /\ run' \in Run /\ run'.saving \in {None, run.saving}
      /\ run'.stage = IF calls THEN "idle" ELSE run.stage
      /\ ~calls => run'.secret = run.secret /\ run'.remember = run.remember
      /\ run'.stage = "idle" => run' = NoRun
  <2>1. CASE calls
    BY <1>1, <2>1, NothingTypes
  <2>2. CASE ~calls /\ run.stage = "idle"
    <3>1. run = NoRun
      BY <2>2 DEF LInv, Logins
    <3>2. [NoRun EXCEPT !.aborted = FALSE] = NoRun
      <4>1. NoRun \in Run /\ NoRun.aborted = FALSE
        BY NothingTypes DEF NoRun
      <4>. QED BY <4>1 DEF Run
    <3>. QED BY <1>1, <2>2, <3>1, <3>2, NothingTypes
  <2>3. CASE ~calls /\ run.stage # "idle"
    BY <1>1, <2>3 DEF LInv, TypeOK, Run
  <2>. QED BY <2>1, <2>2, <2>3
<1>5. stored' \in Field
  BY <1>1 DEF LInv, TypeOK, Run
<1>6. TypeOK'
  <2>1. page'.busy = (run'.stage # "idle")
    BY <1>2, <1>4 DEF LInv, TypeOK
  <2>. QED BY <1>1, <1>2, <1>4, <1>5, <2>1, NothingTypes DEF LInv, TypeOK
<1>7. Chains'
  BY <1>1, <1>2, <1>3 DEF LInv, Chains
<1>8. Automatic'
  BY <1>1, <1>2, NothingTypes DEF LInv, Automatic
<1>9. Logins'
  BY <1>1, <1>2, <1>4 DEF LInv, Logins
<1>. QED BY <1>1, <1>2, <1>6, <1>7, <1>8, <1>9 DEF LInv, TypedStands

\* A page that comes back asks again, if it is not ready: it has no check of its epoch.
LEMMA ShowStep ==
    ASSUME LInv, Show
    PROVE  LInv'
<1> DEFINE c == [epoch |-> page.epoch, attempt |-> 0, stage |-> "asked"]
<1>1. /\ page' = [page EXCEPT !.live = TRUE, !.revealed = TRUE] /\ ~page.live
      /\ checks' = IF page.ready THEN checks ELSE checks \cup {c}
      /\ UNCHANGED <<restore, run, stored, disabled, password, proved, autos, runs>>
  BY DEF Show, Returning
<1>2. /\ page' \in Page /\ page'.epoch = page.epoch /\ page'.ready = page.ready /\ page'.live
      /\ page'.busy = page.busy /\ page'.field = page.field /\ page'.typed = page.typed
  BY <1>1 DEF LInv, TypeOK, Page
<1>3. c \in Check /\ c.epoch = page.epoch /\ c.stage = "asked"
  BY DEF LInv, TypeOK, Page, Check
<1>4. page.epoch \in Int
  BY LoginPageAssumption DEF LInv, TypeOK, Page, Epochs
<1> HIDE DEF c
<1>5. \A d \in checks : d.epoch # page.epoch
  BY <1>1 DEF LInv, Chains
<1>6. TypeOK'
  BY <1>1, <1>2, <1>3 DEF LInv, TypeOK
<1>7. Chains'
  BY <1>1, <1>2, <1>3, <1>4, <1>5 DEF LInv, Chains
<1>. QED BY <1>1, <1>2, <1>6, <1>7 DEF LInv, Automatic, Logins, TypedStands

LEMMA ElsewhereStep ==
    ASSUME LInv, Elsewhere
    PROVE  LInv'
BY QuietStep DEF Elsewhere, LInv, TypeOK, TypedStands, Field

-----------------------------------------------------------------------------
(* The theorems *)

LEMMA InitHolds == Init => LInv
<1> SUFFICES ASSUME Init PROVE LInv
  OBVIOUS
<1>1. page \in Page /\ page.epoch = 0 /\ page.live /\ ~page.ready /\ ~page.busy /\ ~page.typed
  BY LoginPageAssumption DEF Init, Page, Epochs, Field
<1>2. checks = {[epoch |-> 0, attempt |-> 0, stage |-> "asked"]} /\ checks \subseteq Check
  BY LoginPageAssumption DEF Init, Check, Epochs
<1>3. TypeOK
  <2>1. autos \in 0 .. MaxRuns /\ runs \in 0 .. MaxRuns
    BY LoginPageAssumption DEF Init
  <2>2. restore \in Restore /\ run \in Run /\ run.stage = "idle"
    BY NothingTypes DEF Init
  <2>. QED BY <1>1, <1>2, <2>1, <2>2 DEF Init, TypeOK
<1>4. Chains
  BY <1>1, <1>2 DEF Chains
<1>5. Automatic /\ Logins
  BY NothingTypes DEF Init, Automatic, Logins
<1>. QED BY <1>1, <1>3, <1>4, <1>5 DEF LInv, TypedStands

LEMMA StepKeeps == LInv /\ [Next]_vars => LInv'
<1> SUFFICES ASSUME LInv, [Next]_vars PROVE LInv'
  OBVIOUS
<1>1. CASE Answers
  BY <1>1, MeStep, ChainStep, RestoreStep, RunStep DEF Answers
<1>2. CASE UNCHANGED vars
  BY <1>2 DEF vars, LInv, TypeOK, Chains, Automatic, Logins, TypedStands
<1>. QED BY <1>1, <1>2, UserStep, HideStep, ShowStep, ElsewhereStep DEF Next

\* The invariant of the login page, in every state.
LEMMA AlwaysLInv == Spec => []LInv
BY InitHolds, StepKeeps, PTL DEF Spec

\* The types of the page, its checks, its restore and its login; the page is busy exactly while a
\* login is under way.
THEOREM PageTypeCorrect == Spec => []TypeOK
<1>1. LInv => TypeOK
  BY DEF LInv
<1>. QED BY <1>1, AlwaysLInv, PTL

\* SavedIsProved, for any passwords and any number of logins and hides: the app is asked to store
\* only a password that the server accepted from this page.
THEOREM AppStoresProved == Spec => []SavedIsProved
<1>1. LInv => SavedIsProved
  BY DEF LInv, Logins, SavedIsProved
<1>. QED BY <1>1, AlwaysLInv, PTL

\* OneWay, likewise: at most one automatic login, and one chain of checks at a time.
THEOREM PageTriesOnce == Spec => []OneWay
<1>1. ASSUME LInv PROVE OneWay
  <2> DEFINE mine == {c \in checks : c.epoch = page.epoch}
  <2>1. Cardinality(mine) <= 1
    <3>1. CASE mine = {}
      BY <3>1, FS_EmptySet
    <3>2. CASE mine # {}
      <4>1. PICK c \in mine : TRUE
        BY <3>2
      <4>2. mine = {c}
        BY <1>1, <4>1 DEF LInv, Chains
      <4>3. Cardinality({c}) = 1
        BY FS_Singleton
      <4>. QED BY <4>2, <4>3
    <3>. QED BY <3>1, <3>2
  <2>. QED BY <1>1, <2>1 DEF LInv, Automatic, OneWay
<1>. QED BY <1>1, AlwaysLInv, PTL

\* Only the user, or the entering of the page, changes what the user typed; and nothing that began
\* before the page was hidden enters it.
LEMMA StepLeavesControl ==
    ASSUME LInv, [Next]_vars
    PROVE  /\ page.typed /\ page'.field # page.field => User \/ (page'.left /\ page'.field = None)
           /\ page'.left /\ ~page.left => page.live /\ ~run.aborted
<1> DEFINE Kept == page'.field = page.field /\ page'.left = page.left
           Entered == page'.left /\ page'.field = None /\ page.live /\ ~run.aborted
<1>1. page \in Page /\ page.busy = (run.stage # "idle")
  BY DEF LInv, TypeOK
<1>2. ASSUME NEW c \in checks, Me(c)
      PROVE  page'.field = page.field /\ (page'.left => page.left \/ (page.live /\ ~run.aborted))
  <2>1. CASE page' = [page EXCEPT !.left = TRUE] /\ Current(c)
    <3>1. run = NoRun /\ page.live
      BY <1>2, <2>1 DEF LInv, Chains, Logins, Current
    <3>. QED BY <1>1, <2>1, <3>1 DEF Page, NoRun
  <2>2. CASE BeginRestore([page EXCEPT !.setup = FALSE, !.ready = TRUE], TRUE)
    <3> DEFINE p == [page EXCEPT !.setup = FALSE, !.ready = TRUE]
    <3>1. p \in Page /\ p.field = page.field /\ p.left = page.left
      BY <1>1 DEF Page
    <3>2. BeginRestore(p, TRUE) /\ restore \in Restore
      BY <2>2 DEF LInv, TypeOK
    <3> HIDE DEF p
    <3>. QED BY <3>1, <3>2, BeginRestoreStep
  <2>. QED BY <1>1, <1>2, <2>1, <2>2 DEF Me, Page
<1>3. ASSUME NEW c \in checks, MeFails(c) \/ MeGivenUp(c) \/ Again(c)
      PROVE  Kept
  BY <1>1, <1>3 DEF MeFails, MeGivenUp, Again, Page
<1>4. ASSUME Capable \/ RestoreFails
      PROVE  Kept
  BY <1>1, <1>4 DEF Capable, RestoreFails, Ended, Page
<1>5. ASSUME Arrives
      PROVE  page'.left = page.left /\ (page.typed => page'.field = page.field)
  <2>1. CASE ~StillWanted
    BY <1>1, <1>5, <2>1 DEF Arrives, Ended, Page
  <2>2. CASE StillWanted
    <3>1. ~page.typed
      BY <2>2 DEF StillWanted, LInv, TypedStands
    <3>2. page'.left = page.left
      BY <1>1, <1>5, <2>2 DEF Arrives, Page
    <3>. QED BY <3>1, <3>2
  <2>. QED BY <2>1, <2>2
<1>6. ASSUME Decides \/ SaveCapable
      PROVE  Kept
  BY <1>6 DEF Decides, SaveCapable
<1>7. ASSUME Over(page, FALSE)
      PROVE  Kept
  BY <1>1, <1>7 DEF Over, Ended, Page
<1>8. ASSUME Enter, GoOn
      PROVE  Entered
  <2>1. page' = [[Emptied(page) EXCEPT !.left = TRUE] EXCEPT !.busy = FALSE]
    BY <1>8 DEF Enter, Over
  <2>2. page'.left /\ page'.field = None
    BY <1>1, <2>1 DEF Emptied, Page
  <2>. QED BY <1>8, <2>2 DEF GoOn
<1>9. ASSUME Accepted \/ RunFails \/ Saved
      PROVE  Kept \/ Entered
  BY <1>7, <1>8, <1>9 DEF Accepted, RunFails, Saved
<1>10. ASSUME User
      PROVE  page'.left => page.left \/ (page.live /\ ~run.aborted)
  <2>1. CASE Focus
    BY <2>1, BeginRestoreStep DEF Focus, LInv, TypeOK
  <2>2. CASE ChangeServer
    <3>1. run = NoRun /\ page.live
      BY <1>1, <2>2 DEF ChangeServer, Editable, LInv, Logins
    <3>. QED BY <3>1 DEF NoRun
  <2>3. CASE Submit(None) \/ Submit(page.field)
    BY <1>1, <2>3 DEF Submit, Page
  <2>4. ASSUME NEW s \in Field, Type(s) PROVE page'.left = page.left
    BY <1>1, <2>4 DEF Type, Page
  <2>5. ASSUME NEW t \in {"here", "other"}, EditServer(t) PROVE page'.left = page.left
    BY <1>1, <2>5 DEF EditServer, Emptied, Page
  <2>. QED BY <1>10, <2>1, <2>2, <2>3, <2>4, <2>5 DEF User
<1>11. ASSUME Hide \/ Show \/ Elsewhere \/ UNCHANGED vars
      PROVE  Kept
  BY <1>1, <1>11 DEF Hide, Show, Elsewhere, vars, Page
<1> HIDE DEF Kept, Entered
<1>12. Kept => page'.field = page.field /\ page'.left = page.left
  BY DEF Kept
<1>13. Entered => page'.left /\ page'.field = None /\ page.live /\ ~run.aborted
  BY DEF Entered
<1>14. CASE Answers
  BY <1>2, <1>3, <1>4, <1>5, <1>6, <1>9, <1>12, <1>13, <1>14 DEF Answers
<1>15. CASE ~Answers
  BY <1>10, <1>11, <1>12, <1>15 DEF Next
<1>. QED BY <1>14, <1>15

\* UserKeepsControl, for any passwords and any number of logins and hides.
THEOREM ControlStaysWithUser == Spec => UserKeepsControl
<1>1. LInv /\ [Next]_vars =>
        [/\ page.typed /\ page'.field # page.field => User \/ (page'.left /\ page'.field = None)
         /\ page'.left /\ ~page.left => page.live /\ ~run.aborted]_vars
  BY StepLeavesControl
<1>. QED BY <1>1, AlwaysLInv, PTL DEF Spec, UserKeepsControl
================================================================================
