------------------------------- MODULE LoginPage -------------------------------
(***************************************************************************)
(* The script of the login page, lib/login-page.js.  The page asks whether *)
(* it is logged in, then takes the password that the app around it has     *)
(* stored, if there is one, and logs in with it, while a user may type     *)
(* another one, choose another server, or leave the page and come back.    *)
(* What the app, the server and the network answer arrives late or never.  *)
(***************************************************************************)
EXTENDS Integers, FiniteSets

CONSTANTS
    Secrets,        \* what may stand in the password field
    None,
    MaxHides,       \* bound: times the page is hidden
    MaxRuns         \* bound: logins that are begun

ASSUME LoginPageAssumption == None \notin Secrets /\ MaxHides \in Nat /\ MaxRuns \in Nat

Field == Secrets \cup {None}
Epochs == 0 .. MaxHides

\* target: the server that the fields name; form: the password form is shown; typed: history, the
\* user wrote what stands in the field
Page == [live : BOOLEAN, epoch : Epochs, ready : BOOLEAN, setup : BOOLEAN, busy : BOOLEAN,
         revealed : BOOLEAN, form : BOOLEAN, target : {"here", "other"}, field : Field,
         typed : BOOLEAN, left : BOOLEAN]

\* checkAccess(): a request, or the timer before the next one
Check == [epoch : Epochs, attempt : 0 .. 2, stage : {"asked", "waits"}]

\* restoreCredential()
Restore == [stage : {"idle", "caps", "read", "run"}, auto : BOOLEAN, epoch : Epochs]
NoRestore == [stage |-> "idle", auto |-> FALSE, epoch |-> 0]

\* run(): the request, what the server did with it, and the calls of the app after it
Run == [stage : {"idle", "request", "accepted", "refused", "caps", "save"}, secret : Field,
        remember : BOOLEAN, aborted : BOOLEAN, saving : Field]
NoRun == [stage |-> "idle", secret |-> None, remember |-> FALSE, aborted |-> FALSE, saving |-> None]

VARIABLES
    page,
    checks,     \* the chains of checkAccess() that are not over
    restore,
    run,
    stored,     \* the password that the app has stored
    disabled,   \* lha-auto-login-disabled
    password,   \* of the account; None: there is none yet
    proved,     \* history: passwords that the server accepted from this page
    autos,      \* history: automatic logins of this page
    runs        \* logins begun

vars == <<page, checks, restore, run, stored, disabled, password, proved, autos, runs>>

TypeOK ==
    /\ page \in Page /\ restore \in Restore /\ run \in Run
    /\ checks \subseteq Check
    /\ stored \in Field /\ password \in Field /\ disabled \in BOOLEAN
    /\ proved \subseteq Secrets
    /\ autos \in 0 .. MaxRuns /\ runs \in 0 .. MaxRuns
    /\ page.busy = (run.stage # "idle")

Init ==
    /\ page = [live |-> TRUE, epoch |-> 0, ready |-> FALSE, setup |-> FALSE, busy |-> FALSE,
               revealed |-> FALSE, form |-> TRUE, target |-> "here", field |-> None,
               typed |-> FALSE, left |-> FALSE]
    /\ checks = {[epoch |-> 0, attempt |-> 0, stage |-> "asked"]}
    /\ restore = NoRestore /\ run = NoRun
    /\ stored \in Field /\ password \in Field /\ disabled \in BOOLEAN
    /\ proved = {} /\ autos = 0 /\ runs = 0

Emptied(p) == [p EXCEPT !.field = None, !.typed = FALSE]

-----------------------------------------------------------------------------
(* restoreCredential() *)

\* nothing to restore now: there is one restore, an account, and nothing in the field or under way;
\* and as it would be if nobody looked at the field
BusyElsewhere(p) == restore.stage # "idle" \/ p.setup \/ p.busy \/ p.target = "other"
Unwanted(p) == BusyElsewhere(p) \/ p.field # None

\* the page after its answer p, with the automatic restore begun or not
BeginRestore(p, auto) ==
    IF (auto /\ disabled) \/ Unwanted(p)
    THEN /\ page' = [p EXCEPT !.revealed = @ \/ auto]
         /\ UNCHANGED restore
    ELSE /\ page' = p
         /\ restore' = [stage |-> "caps", auto |-> auto, epoch |-> p.epoch]

\* the finally of restoreCredential(); and as it would be in the catch only
EndedInCatch(p) == p
Ended(p) == [p EXCEPT !.revealed = @ \/ (restore.auto /\ p.live)]

\* the user enters the password field
Focus ==
    /\ page.live /\ page.revealed /\ page.form /\ page.target = "here" /\ ~page.busy
    /\ ~Unwanted(page)
    /\ BeginRestore(page, FALSE)
    /\ UNCHANGED <<checks, run, stored, disabled, password, proved, autos, runs>>

\* the app stores passwords
Capable ==
    /\ restore.stage = "caps"
    /\ restore' = [restore EXCEPT !.stage = "read"]
    /\ UNCHANGED <<page, checks, run, stored, disabled, password, proved, autos, runs>>

\* the app cannot, does not answer in time, or has nothing
RestoreFails ==
    /\ restore.stage \in {"caps", "read"}
    /\ restore' = NoRestore /\ page' = Ended(page)
    /\ UNCHANGED <<checks, run, stored, disabled, password, proved, autos, runs>>

\* may what the app has stored go into the field?  And as it would be if only asked before
StillWantedEarly == TRUE
StillWanted ==
    /\ page.live /\ restore.epoch = page.epoch /\ ~page.busy /\ ~page.setup
    /\ page.field = None /\ page.target = "here"

\* the stored password arrives; an automatic restore logs in with it
Arrives ==
    /\ restore.stage = "read" /\ stored # None
    /\ IF ~StillWanted
       THEN restore' = NoRestore /\ page' = Ended(page) /\ UNCHANGED <<run, autos, runs>>
       ELSE IF ~restore.auto
       THEN /\ restore' = NoRestore
            /\ page' = [page EXCEPT !.field = stored, !.typed = FALSE]
            /\ UNCHANGED <<run, autos, runs>>
       ELSE /\ runs < MaxRuns
            /\ restore' = [restore EXCEPT !.stage = "run"]
            /\ page' = [page EXCEPT !.field = stored, !.busy = TRUE]
            /\ run' = [NoRun EXCEPT !.stage = "request", !.secret = stored]
            /\ autos' = autos + 1 /\ runs' = runs + 1
    /\ UNCHANGED <<checks, stored, disabled, password, proved>>

-----------------------------------------------------------------------------
(* checkAccess() *)

\* an answer or a timer of another epoch changes nothing; and as it would be without pageEpoch
CurrentOrNot(c) == page.live
Current(c) == page.live /\ c.epoch = page.epoch

Me(c) ==
    /\ c.stage = "asked"
    /\ checks' = checks \ {c}
    /\ IF ~Current(c) THEN UNCHANGED <<page, restore>>
       ELSE \/ page' = [page EXCEPT !.left = TRUE] /\ UNCHANGED restore
            \/ /\ password = None
               /\ page' = [page EXCEPT !.setup = TRUE, !.form = FALSE, !.ready = TRUE, !.revealed = TRUE]
               /\ UNCHANGED restore
            \/ /\ password # None
               /\ BeginRestore([page EXCEPT !.setup = FALSE, !.ready = TRUE], TRUE)
    /\ UNCHANGED <<run, stored, disabled, password, proved, autos, runs>>

\* the network fails, and after a while checkAccess() asks again
MeFails(c) ==
    /\ c.stage = "asked" /\ c.attempt < 2
    /\ checks' = (checks \ {c}) \cup (IF Current(c) THEN {[c EXCEPT !.stage = "waits"]} ELSE {})
    /\ UNCHANGED <<page, restore, run, stored, disabled, password, proved, autos, runs>>

\* the last attempt fails, or one is out of time
MeGivenUp(c) ==
    /\ c.stage = "asked"
    /\ checks' = checks \ {c}
    /\ page' = [page EXCEPT !.revealed = @ \/ Current(c)]
    /\ UNCHANGED <<restore, run, stored, disabled, password, proved, autos, runs>>

Again(c) ==
    /\ c.stage = "waits"
    /\ checks' = (checks \ {c}) \cup
         (IF Current(c) THEN {[c EXCEPT !.attempt = @ + 1, !.stage = "asked"]} ELSE {})
    /\ UNCHANGED <<page, restore, run, stored, disabled, password, proved, autos, runs>>

-----------------------------------------------------------------------------
(* run() *)

\* update(): the fields of the server and of the password are disabled while the page is busy;
\* and as it would be if the button alone were
EditableAlways == page.live /\ page.revealed
Editable == page.live /\ page.revealed /\ ~page.busy

Type(s) ==
    /\ Editable /\ page.form /\ page.target = "here"
    /\ page' = [page EXCEPT !.field = s, !.typed = (s # None)]
    /\ UNCHANGED <<checks, restore, run, stored, disabled, password, proved, autos, runs>>

\* another server, or this one again: the password goes, and update() shows the form for another
EditServer(t) ==
    /\ Editable /\ page.target # t
    /\ page' = [Emptied(page) EXCEPT !.target = t, !.form = @ \/ t = "other"]
    /\ UNCHANGED <<checks, restore, run, stored, disabled, password, proved, autos, runs>>

\* the form is sent for another server: changeServer()
ChangeServer ==
    /\ Editable /\ page.form /\ page.ready /\ page.target = "other"
    /\ \E gone \in BOOLEAN : page' = [Emptied(page) EXCEPT !.left = @ \/ gone]
    /\ UNCHANGED <<checks, restore, run, stored, disabled, password, proved, autos, runs>>

\* the form, which is never enabled while there is no account, or the button of the passkey
Submit(secret) ==
    /\ Editable /\ page.ready /\ page.target = "here" /\ ~page.setup /\ ~page.busy
    /\ secret = None \/ (page.form /\ secret = page.field)
    /\ runs < MaxRuns
    /\ runs' = runs + 1
    /\ page' = [page EXCEPT !.busy = TRUE]
    /\ run' = [NoRun EXCEPT !.stage = "request", !.secret = secret, !.remember = (secret # None)]
    /\ UNCHANGED <<checks, restore, stored, disabled, password, proved, autos>>

\* the server decides; a passkey it accepts or not
Decides ==
    /\ run.stage = "request"
    /\ \/ run.secret \in {None, password} /\ password # None
          /\ run' = [run EXCEPT !.stage = "accepted"]
          /\ proved' = proved \cup ({run.secret} \ {None})
       \/ run.secret # password /\ run' = [run EXCEPT !.stage = "refused"] /\ UNCHANGED proved
    /\ UNCHANGED <<page, checks, restore, stored, disabled, password, autos, runs>>

\* the finally of run(), and of an automatic restore that waits for it; and as it would be if the
\* page were made usable again in the catch of a refusal alone
OverUnlessAborted(p, entered) ==
    /\ run' = NoRun
    /\ restore' = IF restore.stage = "run" THEN NoRestore ELSE restore
    /\ page' = LET q == [p EXCEPT !.busy = run.aborted] IN
               IF restore.stage = "run" /\ ~entered THEN Ended(q) ELSE q

Over(p, entered) ==
    /\ run' = NoRun
    /\ restore' = IF restore.stage = "run" THEN NoRestore ELSE restore
    /\ page' = LET q == [p EXCEPT !.busy = FALSE] IN
               IF restore.stage = "run" /\ ~entered THEN Ended(q) ELSE q

\* may the page go on after an answer?  And as it would be if it looked at pageLive alone
GoOnLive == page.live
GoOn == page.live /\ ~run.aborted

Enter ==
    /\ disabled' = FALSE
    /\ Over([Emptied(page) EXCEPT !.left = TRUE], TRUE)

\* run() is done with its request, and stores the password that stands in the field
Accepted ==
    /\ run.stage = "accepted"
    /\ IF ~GoOn THEN Over(page, FALSE) /\ UNCHANGED disabled
       ELSE IF run.remember /\ page.field # None
       THEN run' = [run EXCEPT !.stage = "caps", !.saving = page.field]
            /\ UNCHANGED <<page, restore, disabled>>
       ELSE Enter
    /\ UNCHANGED <<checks, stored, password, proved, autos, runs>>

\* refused, out of time, or aborted, whatever the server did
RunFails ==
    /\ run.stage \in {"request", "accepted", "refused"}
    /\ Over(page, FALSE)
    /\ UNCHANGED <<checks, stored, disabled, password, proved, autos, runs>>

SaveCapable ==
    /\ run.stage = "caps"
    /\ run' = [run EXCEPT !.stage = "save"]
    /\ UNCHANGED <<page, checks, restore, stored, disabled, password, proved, autos, runs>>

\* the app stores it, or does not, or does and says so too late
Saved ==
    /\ run.stage \in {"caps", "save"}
    /\ stored' \in IF run.stage = "save" THEN {stored, run.saving} ELSE {stored}
    /\ IF GoOn THEN Enter ELSE Over(page, FALSE) /\ UNCHANGED disabled
    /\ UNCHANGED <<checks, password, proved, autos, runs>>

-----------------------------------------------------------------------------
(* The page, and what others do *)

\* pagehide: the calls of the app end at once, and a request is aborted
Hide ==
    /\ page.live /\ page.epoch < MaxHides
    /\ LET calls == run.stage \in {"caps", "save"} IN
       /\ page' = [page EXCEPT !.live = FALSE, !.epoch = @ + 1, !.busy = @ /\ ~calls]
       /\ run' = IF calls THEN NoRun ELSE [run EXCEPT !.aborted = (run.stage # "idle")]
       /\ stored' \in IF run.stage = "save" THEN {stored, run.saving} ELSE {stored}
    /\ restore' = IF restore.stage \in {"caps", "read"} THEN NoRestore ELSE restore
    /\ UNCHANGED <<checks, disabled, password, proved, autos, runs>>

\* pageshow comes after the first load, too; returning: the page was hidden.  And as it would be if
\* every pageshow were a return
ReturningAlways == TRUE
Returning == ~page.live

Show ==
    /\ Returning
    /\ page' = [page EXCEPT !.live = TRUE, !.revealed = TRUE]
    /\ checks' = IF page.ready THEN checks
                 ELSE checks \cup {[epoch |-> page.epoch, attempt |-> 0, stage |-> "asked"]}
    /\ UNCHANGED <<restore, run, stored, disabled, password, proved, autos, runs>>

\* the user logs out elsewhere, or the password is set or changed there
Elsewhere ==
    /\ \/ disabled' = TRUE /\ UNCHANGED password
       \/ password' \in Secrets /\ UNCHANGED disabled
    /\ UNCHANGED <<page, checks, restore, run, stored, proved, autos, runs>>

Answers ==
    \/ \E c \in checks : Me(c) \/ MeFails(c) \/ MeGivenUp(c) \/ Again(c)
    \/ Capable \/ RestoreFails \/ Arrives
    \/ Decides \/ Accepted \/ RunFails \/ SaveCapable \/ Saved

User ==
    \/ Focus \/ ChangeServer \/ Submit(None)
    \/ \E s \in Field : Type(s)
    \/ page.field # None /\ Submit(page.field)
    \/ \E t \in {"here", "other"} : EditServer(t)

Next == Answers \/ User \/ Hide \/ Show \/ Elsewhere

Spec == Init /\ [][Next]_vars

\* requests, calls of the app and timers end within their time
LiveSpec ==
    /\ Spec
    /\ WF_vars(\E c \in checks : Me(c) \/ MeFails(c) \/ MeGivenUp(c) \/ Again(c))
    /\ WF_vars(Capable \/ RestoreFails \/ Arrives)
    /\ WF_vars(Accepted \/ RunFails \/ Saved)

-----------------------------------------------------------------------------

\* What the user does and what the app answers do not mix: what was typed stays in the field until
\* the user changes it or the page is entered, and a page that was hidden is not entered by what
\* began before.
UserKeepsControl ==
    [][/\ page.typed /\ page'.field # page.field => User \/ (page'.left /\ page'.field = None)
       /\ page'.left /\ ~page.left => page.live /\ ~run.aborted]_vars

\* The app is given no password that the server did not accept from this page: neither one that is
\* typed during the login, nor one from before.
SavedIsProved == run.saving \in proved \cup {None}

\* The page logs in by itself at most once, however often it is hidden and comes back, so that a
\* stored password that is out of date costs one attempt; and one chain of attempts asks for access
\* at a time.
OneWay ==
    /\ autos <= 1
    /\ Cardinality({c \in checks : c.epoch = page.epoch}) <= 1

\* A page that is shown does not hide its form forever, but is entered or revealed; and a login ends.
PageGoesOn ==
    /\ page.live ~> page.revealed \/ page.left \/ ~page.live
    /\ page.busy ~> ~page.busy
================================================================================
