------------------------------ MODULE SettingsPage -----------------------------
(***************************************************************************)
(* The settings in the browser, GateSettingsSection of client.entry.js.    *)
(* A page shows the lists of addresses that it read last, and writes whole *)
(* lists, made of what it shows.  Buttons wait for the request under way,  *)
(* the return key and the check boxes do not; there may be other pages,    *)
(* and requests and answers may be late or lost.                           *)
(***************************************************************************)
EXTENDS Integers, FiniteSets

CONSTANTS
    Pages,
    Entries,        \* addresses and networks, without the loopback addresses
    Own,            \* the address of the administrator
    Slots,          \* bound: requests under way of one page
    MaxClicks,      \* bound: operations that are begun
    None

ASSUME SettingsAssumption ==
    /\ Own \in Entries /\ None \notin Entries
    /\ MaxClicks \in Nat

Lists == [allow : SUBSET Entries, deny : SUBSET Entries]
Names == {"allow", "deny"}

\* the lists in force: none has an entry of the other
InForce == {lists \in Lists : lists.allow \cap lists.deny = {}}

\* what is asked for; only: the lists that a PUT names
Ask == [kind : {"add", "remove", "flag", "visitor", "other", "load"}, to : Names,
        entry : Entries \cup {None}, lists : Lists, only : SUBSET Names]
Nothing == [allow |-> {}, deny |-> {}]
Load == [kind |-> "load", to |-> "allow", entry |-> None, lists |-> Nothing, only |-> {}]
Other == [Load EXCEPT !.kind = "other"]
Flag == [Load EXCEPT !.kind = "flag"]

\* stage: of the request, then of load(); orphan: the page has given it up; seen: what the
\* answer says; dialog: runConfirm() waits for it
IdleOp == [stage |-> "idle", ask |-> Load, seen |-> Nothing, dialog |-> FALSE]
Op == [stage : {"idle", "sent", "answered", "load", "loaded", "orphan"},
       ask : Ask, seen : Lists, dialog : BOOLEAN]

\* shown: the page has its lists and renders
Closed == [open |-> FALSE, shown |-> FALSE, config |-> Nothing, busy |-> FALSE,
           dialog |-> None, msg |-> None]

VARIABLES
    server,     \* the lists in force
    page,       \* of each page its React state
    op,         \* of each page its requests
    clicks,     \* operations begun
    touched,    \* history: entries that somebody asked to add, move or remove
    done,       \* history: what the server was asked to add, and did
    acked,      \* history: what a page knows to be added, and nobody touched since
    careful     \* history: one operation at a time, and no request was lost or refused

vars == <<server, page, op, clicks, touched, done, acked, careful>>

Added == [to : Names, entry : Entries]
Page == [open : BOOLEAN, shown : BOOLEAN, config : Lists, busy : BOOLEAN,
         dialog : Ask \cup {None}, msg : Added \cup {None}]

TypeOK ==
    /\ server \in InForce
    /\ page \in [Pages -> Page]
    /\ op \in [Pages -> [Slots -> Op]]
    /\ clicks \in 0 .. MaxClicks
    /\ touched \subseteq Entries /\ done \subseteq Added /\ acked \subseteq Added
    /\ careful \in BOOLEAN

Init ==
    /\ server \in {lists \in InForce : Own \notin lists.deny}
    /\ page = [p \in Pages |-> Closed]
    /\ op = [p \in Pages |-> [s \in Slots |-> IdleOp]]
    /\ clicks = 0 /\ touched = {} /\ done = {} /\ acked = {} /\ careful = TRUE

-----------------------------------------------------------------------------
(* The server *)

\* PUT config: a list that is not sent stays, and deny wins
Patched(ask) ==
    LET allow == IF "allow" \in ask.only THEN ask.lists.allow ELSE server.allow
        deny == IF "deny" \in ask.only THEN ask.lists.deny ELSE server.deny
    IN  [allow |-> allow \ deny, deny |-> deny]

\* security-visitors/:ip/allow and deny: the server moves the one entry
Moved(ask) ==
    LET allow == server.allow \ {ask.entry}
        deny == server.deny \ {ask.entry}
    IN  IF ask.to = "allow" THEN [allow |-> allow \cup {ask.entry}, deny |-> deny]
        ELSE [allow |-> allow, deny |-> deny \cup {ask.entry}]

Written(ask) ==
    CASE ask.kind \in {"add", "remove"} -> Patched(ask)
      [] ask.kind = "visitor" -> Moved(ask)
      [] OTHER -> server

Adds(ask) == IF ask.kind \in {"add", "visitor"} THEN {[to |-> ask.to, entry |-> ask.entry]} ELSE {}

Admits == Own \notin server.deny

-----------------------------------------------------------------------------
(* The page *)

\* the lists of addIp() and of removeIp(), from what the page shows; and as addIp() would be if it
\* sent what is typed alone
AddAlone(p, to, e) ==
    [kind |-> "add", to |-> to, entry |-> e, only |-> Names,
     lists |-> [allow |-> IF to = "allow" THEN {e} ELSE {}, deny |-> IF to = "deny" THEN {e} ELSE {}]]

Add(p, to, e) ==
    LET c == page[p].config IN
    [kind |-> "add", to |-> to, entry |-> e, only |-> Names,
     lists |-> [allow |-> (c.allow \ {e}) \cup (IF to = "allow" THEN {e} ELSE {}),
                deny |-> (c.deny \ {e}) \cup (IF to = "deny" THEN {e} ELSE {})]]

Remove(p, to, e) ==
    LET c == page[p].config IN
    [kind |-> "remove", to |-> to, entry |-> e, only |-> {to},
     lists |-> [allow |-> c.allow \ {e}, deny |-> c.deny \ {e}]]

Visitor(to, e) == [kind |-> "visitor", to |-> to, entry |-> e, lists |-> Nothing, only |-> {}]

\* no request is under way, and none may still reach the server
Quiet == \A p \in Pages, s \in Slots : op[p][s] = IdleOp

\* somebody asks for something
Begin(ask) ==
    /\ clicks < MaxClicks
    /\ clicks' = clicks + 1
    /\ touched' = touched \cup ({ask.entry} \ {None})
    /\ acked' = {a \in acked : a.entry # ask.entry}
    /\ careful' = (careful /\ Quiet /\ \A p \in Pages : page[p].dialog = None)
    /\ UNCHANGED <<server, done>>

\* a request is sent, and the page is busy
Send(p, s, ask, dialog) ==
    /\ op[p][s] = IdleOp
    /\ op' = [op EXCEPT ![p][s] = [IdleOp EXCEPT !.stage = "sent", !.ask = ask, !.dialog = dialog]]
    /\ page' = [page EXCEPT ![p].busy = TRUE,
                            ![p].msg = IF ask.kind = "other" THEN @ ELSE None]

\* the page is opened, and load() begins; it has no buttons before it has the lists
Open(p, s) ==
    /\ ~page[p].open
    /\ page' = [page EXCEPT ![p].open = TRUE]
    /\ op' = [op EXCEPT ![p][s] = [IdleOp EXCEPT !.stage = "load"]]
    /\ UNCHANGED <<server, clicks, touched, done, acked, careful>>

\* askConfirm()
AskConfirm(p, ask) ==
    /\ page' = [page EXCEPT ![p].dialog = ask]
    /\ Begin(ask) /\ UNCHANGED op

\* addIp(): denying one's own address asks first
AddIp(p, s, to, e) ==
    IF to = "deny" /\ e = Own THEN AskConfirm(p, Add(p, to, e))
    ELSE Send(p, s, Add(p, to, e), FALSE) /\ Begin(Add(p, to, e))

Ready(p) == page[p].shown /\ ~page[p].busy /\ page[p].dialog = None

ClickAdd(p, s, to, e) == Ready(p) /\ AddIp(p, s, to, e)

\* the return key in the field of a list
EnterAdd(p, s, to, e) == page[p].shown /\ AddIp(p, s, to, e)

ClickRemove(p, to, e) ==
    /\ Ready(p) /\ e \in page[p].config[to]
    /\ AskConfirm(p, Remove(p, to, e))

ClickVisitor(p, s, to, e) ==
    /\ Ready(p)
    /\ Send(p, s, Visitor(to, e), FALSE) /\ Begin(Visitor(to, e))

\* a check box: save() without a list
ToggleFlag(p, s) ==
    /\ page[p].shown /\ page[p].dialog = None
    /\ Send(p, s, Flag, FALSE) /\ Begin(Flag)

\* codes, tokens, passkeys, peers
ClickOther(p, s) == Ready(p) /\ Send(p, s, Other, FALSE) /\ Begin(Other)

\* the removal of one of them asks first, and so does save() of a path without a login
ClickDelete(p) ==
    /\ page[p].shown /\ page[p].dialog = None
    /\ AskConfirm(p, Other) \/ AskConfirm(p, Flag)

\* runConfirm()
RunConfirm(p, s) ==
    /\ page[p].dialog # None /\ ~page[p].busy
    /\ Send(p, s, page[p].dialog, TRUE)
    /\ acked' = {a \in acked : a.entry # page[p].dialog.entry}
    /\ careful' = (careful /\ Quiet)
    /\ UNCHANGED <<server, clicks, touched, done>>

CancelConfirm(p) ==
    /\ page[p].dialog # None /\ ~page[p].busy
    /\ page' = [page EXCEPT ![p].dialog = None]
    /\ UNCHANGED <<server, op, clicks, touched, done, acked, careful>>

-----------------------------------------------------------------------------
(* Requests and answers *)

Serve(p, s) ==
    LET o == op[p][s] IN
    /\ o.stage = "sent" /\ Admits
    /\ server' = Written(o.ask)
    /\ done' = done \cup Adds(o.ask)
    /\ op' = [op EXCEPT ![p][s].stage = "answered", ![p][s].seen = server']
    /\ UNCHANGED <<page, clicks, touched, acked, careful>>

\* a request that nobody waits for
ServeOrphan(p, s) ==
    LET o == op[p][s] IN
    /\ o.stage = "orphan"
    /\ \/ Admits /\ server' = Written(o.ask) /\ done' = done \cup Adds(o.ask)
       \/ UNCHANGED <<server, done>>
    /\ op' = [op EXCEPT ![p][s] = IdleOp]
    /\ UNCHANGED <<page, clicks, touched, acked, careful>>

\* what this page knows to be added now, if nobody else asks for something with the entry
Learned(p, s) ==
    {a \in Adds(op[p][s].ask) :
        \A q \in Pages, t \in Slots :
            <<q, t>> = <<p, s>> \/ op[q][t] = IdleOp \/ op[q][t].ask.entry # a.entry}

\* the answer: save() shows its lists, visitorAction() says what it did; load() follows
Answered(p, s) ==
    LET o == op[p][s] IN
    /\ o.stage = "answered"
    /\ op' = [op EXCEPT ![p][s].stage = "load"]
    /\ page' = [page EXCEPT
         ![p].config = IF o.ask.kind \in {"add", "remove", "flag"} THEN o.seen ELSE @,
         ![p].msg = CASE o.ask.kind = "visitor" -> [to |-> o.ask.to, entry |-> o.ask.entry]
                      [] o.ask.kind = "other" -> @
                      [] OTHER -> None]
    /\ acked' = acked \cup Learned(p, s)
    /\ UNCHANGED <<server, clicks, touched, done, careful>>

\* the answer ends the operation: a pairing code.  And as it would be with visitorAction()
EndedUnread(p, s) ==
    LET o == op[p][s] IN
    /\ o.stage = "answered" /\ o.ask.kind \in {"other", "visitor"} /\ ~o.dialog
    /\ op' = [op EXCEPT ![p][s] = IdleOp]
    /\ page' = [page EXCEPT ![p].busy = FALSE]
    /\ acked' = acked \cup Learned(p, s)
    /\ UNCHANGED <<server, clicks, touched, done, careful>>

Ended(p, s) ==
    LET o == op[p][s] IN
    /\ o.stage = "answered" /\ o.ask.kind = "other" /\ ~o.dialog
    /\ op' = [op EXCEPT ![p][s] = IdleOp]
    /\ page' = [page EXCEPT ![p].busy = FALSE]
    /\ UNCHANGED <<server, clicks, touched, done, acked, careful>>

\* GET config of load()
ServeLoad(p, s) ==
    /\ op[p][s].stage = "load" /\ Admits
    /\ op' = [op EXCEPT ![p][s].stage = "loaded", ![p][s].seen = server]
    /\ UNCHANGED <<server, page, clicks, touched, done, acked, careful>>

\* what the page says at the end
Said(ask, before) ==
    CASE ask.kind = "add" -> [to |-> ask.to, entry |-> ask.entry]
      [] ask.kind = "remove" -> None
      [] OTHER -> before

\* the operation is over; save() keeps its errors to itself, so that addIp() goes on and says that
\* the entry was added, and runConfirm() closes the dialog.  And as save() would be without finally
EndAtSuccess(p, s, ok) ==
    LET o == op[p][s] IN
    page' = [page EXCEPT ![p].busy = (@ /\ ~ok),
                         ![p].dialog = IF o.dialog /\ (ok \/ o.ask.kind # "other") THEN None ELSE @,
                         ![p].msg = Said(o.ask, @)]

End(p, s, ok) ==
    LET o == op[p][s] IN
    page' = [page EXCEPT ![p].busy = (@ /\ o.ask.kind = "load"),
                         ![p].dialog = IF o.dialog /\ (ok \/ o.ask.kind # "other") THEN None ELSE @,
                         ![p].msg = Said(o.ask, @)]

Loaded(p, s) ==
    LET o == op[p][s] IN
    /\ o.stage = "loaded"
    /\ op' = [op EXCEPT ![p][s] = IdleOp]
    /\ page' = [page EXCEPT
         ![p].shown = TRUE, ![p].config = o.seen,
         ![p].busy = (@ /\ o.ask.kind = "load"),
         ![p].dialog = IF o.dialog THEN None ELSE @,
         ![p].msg = Said(o.ask, @)]
    /\ UNCHANGED <<server, clicks, touched, done, acked, careful>>

\* load() fails: it keeps its errors to itself
LoadFails(p, s) ==
    /\ op[p][s].stage \in {"load", "loaded"}
    /\ op' = [op EXCEPT ![p][s] = IdleOp]
    /\ End(p, s, TRUE)
    /\ careful' = FALSE
    /\ UNCHANGED <<server, clicks, touched, done, acked>>

\* the request fails: it is refused, or it or its answer does not come within the time
Fails(p, s) ==
    /\ op[p][s].stage \in {"sent", "answered"}
    /\ \/ op' = [op EXCEPT ![p][s] = IdleOp]
       \/ op[p][s].stage = "sent" /\ op' = [op EXCEPT ![p][s].stage = "orphan"]
    /\ End(p, s, FALSE)
    /\ careful' = FALSE
    /\ UNCHANGED <<server, clicks, touched, done, acked>>

-----------------------------------------------------------------------------

Click(p) ==
    \/ CancelConfirm(p) \/ ClickDelete(p)
    \/ \E to \in Names, e \in Entries : ClickRemove(p, to, e)
    \/ \E s \in Slots :
        \/ Open(p, s) \/ ToggleFlag(p, s) \/ ClickOther(p, s) \/ RunConfirm(p, s)
        \/ \E to \in Names, e \in Entries :
            ClickAdd(p, s, to, e) \/ EnterAdd(p, s, to, e) \/ ClickVisitor(p, s, to, e)

Step(p, s) ==
    \/ Serve(p, s) \/ ServeOrphan(p, s) \/ Answered(p, s) \/ Ended(p, s)
    \/ ServeLoad(p, s) \/ Loaded(p, s) \/ LoadFails(p, s) \/ Fails(p, s)

Next == \E p \in Pages : Click(p) \/ \E s \in Slots : Step(p, s)

Spec == Init /\ [][Next]_vars

\* each request ends within its time, with an answer or without
LiveSpec == Spec /\ \A p \in Pages, s \in Slots : WF_vars(Step(p, s))

-----------------------------------------------------------------------------

\* An entry comes on a list or leaves it only if somebody asked for something with this entry,
\* though pages write whole lists, old ones too, and in any order.
OnlyTouchedMove ==
    [][\A n \in Names : (server[n] \ server'[n]) \cup (server'[n] \ server[n]) \subseteq touched]_vars

\* What a page learned to be added is on its list until somebody asks for something with it.
AcknowledgedStays == \A a \in acked : a.entry \in server[a.to]

\* The page says that an entry was added when it was.
SaidIsDone == \A p \in Pages : page[p].msg # None => page[p].msg \in done

\* One operation at a time on one page, with every request answered, loses nothing, and the page says
\* what was done.  Without that care neither holds: a page writes the lists that it shows, and
\* save() keeps its errors to itself.
CarefulLosesNothing == careful => AcknowledgedStays /\ SaidIsDone

\* A page does not stay busy.
BusyEnds == \A p \in Pages : page[p].busy ~> ~page[p].busy
================================================================================
