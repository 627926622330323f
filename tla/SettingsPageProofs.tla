--------------------------- MODULE SettingsPageProofs --------------------------
(***************************************************************************)
(* Why pages that write whole lists, old ones too, move only entries that  *)
(* somebody touched.  Every list that is held anywhere - by a page, by a   *)
(* request or its answer, by a dialog - agrees with the lists in force     *)
(* about every entry that nobody touched.  So writing it changes nothing   *)
(* there, and what is held elsewhere goes on to agree.                     *)
(***************************************************************************)
EXTENDS SettingsPage, TLAPS

\* two lists agree about the entries that are not in t
Agree(l, m, t) == \A n \in Names : \A e \in Entries \ t : e \in l[n] <=> e \in m[n]

\* what is asked for is about a touched entry, and its lists agree with srv about the others
Fits(ask, srv, t) ==
    ask.kind \in {"add", "remove", "visitor"} =>
        /\ ask.entry \in t /\ ask.entry \in Entries
        /\ \A n \in ask.only : \A e \in Entries \ t : e \in ask.lists[n] <=> e \in srv[n]

PagesFit ==
    \A p \in Pages :
        /\ page[p].shown => Agree(page[p].config, server, touched)
        /\ page[p].dialog # None => Fits(page[p].dialog, server, touched)

OpsFit ==
    \A p \in Pages : \A s \in Slots :
        /\ Fits(op[p][s].ask, server, touched)
        /\ op[p][s].stage \in {"answered", "loaded"} => Agree(op[p][s].seen, server, touched)

\* The inductive invariant: types, and everything that is held fits.
IInv == TypeOK /\ PagesFit /\ OpsFit

\* What a step may do to pages and requests: keep what they hold, or hold something that fits.
PagesKeep ==
    \A p \in Pages :
        /\ page'[p].shown =>
              \/ page[p].shown /\ page'[p].config = page[p].config
              \/ Agree(page'[p].config, server', touched')
        /\ page'[p].dialog # None =>
              \/ page'[p].dialog = page[p].dialog
              \/ Fits(page'[p].dialog, server', touched')

OpsKeep ==
    \A p \in Pages : \A s \in Slots :
        /\ op'[p][s].ask = op[p][s].ask \/ Fits(op'[p][s].ask, server', touched')
        /\ op'[p][s].stage \in {"answered", "loaded"} =>
              \/ op[p][s].stage \in {"answered", "loaded"} /\ op'[p][s].seen = op[p][s].seen
              \/ Agree(op'[p][s].seen, server', touched')

\* Lists that agree with what was in force agree with what is in force, if nothing untouched moved.
LEMMA AgreeCarries ==
    ASSUME NEW l, NEW srv, NEW srv2, NEW t, NEW t2, t \subseteq t2,
           Agree(srv2, srv, t), Agree(l, srv, t)
    PROVE  Agree(l, srv2, t2)
BY DEF Agree

\* A request that fitted still fits.
LEMMA FitsCarries ==
    ASSUME NEW ask, NEW srv, NEW srv2, NEW t, NEW t2, t \subseteq t2, ask.only \subseteq Names,
           Agree(srv2, srv, t), Fits(ask, srv, t)
    PROVE  Fits(ask, srv2, t2)
BY DEF Agree, Fits

\* A step that keeps what is held, or holds what fits, keeps the invariant.
LEMMA Frame ==
    ASSUME TypeOK, PagesFit, OpsFit, PagesKeep, OpsKeep,
           Agree(server', server, touched), touched \subseteq touched'
    PROVE  PagesFit' /\ OpsFit'
<1>1. ASSUME NEW p \in Pages, page'[p].shown
      PROVE  Agree(page'[p].config, server', touched')
  BY <1>1, AgreeCarries DEF PagesFit, PagesKeep
<1>2. ASSUME NEW p \in Pages, page'[p].dialog # None
      PROVE  Fits(page'[p].dialog, server', touched')
  <2>1. CASE page'[p].dialog = page[p].dialog
    <3>1. page[p].dialog \in Ask
      BY <1>2, <2>1 DEF TypeOK, Page
    <3>2. page[p].dialog.only \subseteq Names
      BY <3>1 DEF Ask
    <3>. QED BY <1>2, <2>1, <3>2, FitsCarries DEF PagesFit
  <2>. QED BY <1>2, <2>1 DEF PagesKeep
<1>3. ASSUME NEW p \in Pages, NEW s \in Slots
      PROVE  Fits(op'[p][s].ask, server', touched')
  <2>1. op[p][s].ask.only \subseteq Names
    BY DEF TypeOK, Op, Ask
  <2>2. CASE op'[p][s].ask = op[p][s].ask
    BY <2>1, <2>2, FitsCarries DEF OpsFit
  <2>. QED BY <2>2 DEF OpsKeep
<1>4. ASSUME NEW p \in Pages, NEW s \in Slots, op'[p][s].stage \in {"answered", "loaded"}
      PROVE  Agree(op'[p][s].seen, server', touched')
  BY <1>4, AgreeCarries DEF OpsFit, OpsKeep
<1>. QED BY <1>1, <1>2, <1>3, <1>4 DEF PagesFit, OpsFit

\* A list agrees with itself.
LEMMA AgreeSelf == \A l, t : Agree(l, l, t)
BY DEF Agree

-----------------------------------------------------------------------------
(* What the server writes *)

\* PUT config leaves untouched entries where they are: the lists of a fitting request agree with
\* those in force, and those in force have no conflict.
LEMMA PatchedKeeps ==
    ASSUME server \in InForce, NEW ask \in Ask, NEW t, Fits(ask, server, t),
           ask.kind \in {"add", "remove"}
    PROVE  Patched(ask) \in InForce /\ Agree(Patched(ask), server, t)
<1>1. Patched(ask) \in InForce
  BY DEF Patched, InForce, Lists, Ask
<1>2. ASSUME NEW e \in Entries \ t
      PROVE  /\ e \in Patched(ask).allow <=> e \in server.allow
             /\ e \in Patched(ask).deny <=> e \in server.deny
  BY <1>2 DEF Patched, InForce, Lists, Ask, Fits, Names
<1>. QED BY <1>1, <1>2 DEF Agree, Names

\* The server moves the one entry that was touched.
LEMMA MovedKeeps ==
    ASSUME server \in InForce, NEW ask \in Ask, NEW t, Fits(ask, server, t), ask.kind = "visitor"
    PROVE  Moved(ask) \in InForce /\ Agree(Moved(ask), server, t)
<1>1. ask.entry \in t /\ ask.entry \in Entries
  BY DEF Fits
<1>2. Moved(ask) \in InForce
  BY <1>1 DEF Moved, InForce, Lists
<1>3. ASSUME NEW e \in Entries \ t
      PROVE  /\ e \in Moved(ask).allow <=> e \in server.allow
             /\ e \in Moved(ask).deny <=> e \in server.deny
  BY <1>1, <1>3 DEF Moved, InForce, Lists
<1>. QED BY <1>2, <1>3 DEF Agree, Names

\* Whatever a fitting request asks for, untouched entries stay.
LEMMA WrittenKeeps ==
    ASSUME server \in InForce, NEW ask \in Ask, NEW t, Fits(ask, server, t)
    PROVE  Written(ask) \in InForce /\ Agree(Written(ask), server, t)
<1>1. CASE ask.kind \in {"add", "remove"}
  BY <1>1, PatchedKeeps DEF Written
<1>2. CASE ask.kind = "visitor"
  BY <1>2, MovedKeeps DEF Written
<1>3. CASE ask.kind \notin {"add", "remove", "visitor"}
  BY <1>3, AgreeSelf DEF Written
<1>. QED BY <1>1, <1>2, <1>3

\* What a fitting request adds is an addition.
LEMMA AddsType ==
    ASSUME NEW ask \in Ask, NEW srv, NEW t, Fits(ask, srv, t)
    PROVE  Adds(ask) \subseteq Added
BY DEF Adds, Added, Ask, Fits

-----------------------------------------------------------------------------
(* What a page asks for *)

\* A user's request is a request, and fits once its entry is touched.
LEMMA AddFits ==
    ASSUME TypeOK, PagesFit, NEW p \in Pages, page[p].shown, NEW to \in Names, NEW e \in Entries
    PROVE  /\ Add(p, to, e) \in Ask
           /\ Fits(Add(p, to, e), server, touched \cup ({e} \ {None}))
<1>1. page[p].config \in Lists /\ Agree(page[p].config, server, touched)
  BY DEF TypeOK, Page, PagesFit
<1>2. e # None
  BY SettingsAssumption
<1>3. Add(p, to, e) \in Ask
  BY <1>1 DEF Add, Ask, Lists, Names
<1>4. ASSUME NEW n \in Names, NEW x \in Entries \ (touched \cup {e})
      PROVE  x \in Add(p, to, e).lists[n] <=> x \in server[n]
  <2>1. x \in page[p].config[n] <=> x \in server[n]
    BY <1>1, <1>4 DEF Agree
  <2>2. CASE n = "allow"
    BY <1>1, <1>4, <2>1, <2>2 DEF Add, Lists, Names
  <2>3. CASE n = "deny"
    BY <1>1, <1>4, <2>1, <2>3 DEF Add, Lists, Names
  <2>. QED BY <2>2, <2>3 DEF Names
<1>5. Add(p, to, e).entry = e /\ Add(p, to, e).only = Names
  BY DEF Add
<1>. QED BY <1>2, <1>3, <1>4, <1>5 DEF Fits

LEMMA RemoveFits ==
    ASSUME TypeOK, PagesFit, NEW p \in Pages, page[p].shown, NEW to \in Names, NEW e \in Entries
    PROVE  /\ Remove(p, to, e) \in Ask
           /\ Fits(Remove(p, to, e), server, touched \cup ({e} \ {None}))
<1>1. page[p].config \in Lists /\ Agree(page[p].config, server, touched)
  BY DEF TypeOK, Page, PagesFit
<1>2. e # None
  BY SettingsAssumption
<1>3. Remove(p, to, e) \in Ask
  BY <1>1 DEF Remove, Ask, Lists, Names
<1>4. ASSUME NEW n \in Names, NEW x \in Entries \ (touched \cup {e})
      PROVE  x \in Remove(p, to, e).lists[n] <=> x \in server[n]
  <2>1. x \in page[p].config[n] <=> x \in server[n]
    BY <1>1, <1>4 DEF Agree
  <2>2. CASE n = "allow"
    BY <1>1, <1>4, <2>1, <2>2 DEF Remove, Lists
  <2>3. CASE n = "deny"
    BY <1>1, <1>4, <2>1, <2>3 DEF Remove, Lists
  <2>. QED BY <2>2, <2>3 DEF Names
<1>5. Remove(p, to, e).entry = e /\ Remove(p, to, e).only = {to}
  BY DEF Remove
<1>. QED BY <1>2, <1>3, <1>4, <1>5 DEF Fits

LEMMA VisitorFits ==
    ASSUME NEW to \in Names, NEW e \in Entries, NEW srv, NEW t
    PROVE  Visitor(to, e) \in Ask /\ Fits(Visitor(to, e), srv, t \cup ({e} \ {None}))
BY SettingsAssumption DEF Visitor, Ask, Fits, Nothing, Lists, Names

\* The other requests have no list and no entry.
LEMMA PlainFits ==
    ASSUME NEW srv, NEW t
    PROVE  /\ Load \in Ask /\ Other \in Ask /\ Flag \in Ask
           /\ Fits(Load, srv, t) /\ Fits(Other, srv, t) /\ Fits(Flag, srv, t)
BY DEF Load, Other, Flag, Ask, Fits, Nothing, Lists, Names

-----------------------------------------------------------------------------
(* The steps *)

\* Begin() types what it counts, and touches the entry that is asked for.
LEMMA BeginTypes ==
    ASSUME TypeOK, NEW ask \in Ask, Begin(ask)
    PROVE  /\ clicks' \in 0 .. MaxClicks /\ touched' \subseteq Entries
           /\ done' \subseteq Added /\ acked' \subseteq Added /\ careful' \in BOOLEAN
           /\ server' = server /\ touched' = touched \cup ({ask.entry} \ {None})
<1>1. ask.entry \in Entries \cup {None}
  BY DEF Ask
<1>. QED BY <1>1, SettingsAssumption DEF Begin, TypeOK

\* Send() puts a request in a slot that holds none.
LEMMA SendKeeps ==
    ASSUME TypeOK, NEW p \in Pages, NEW s \in Slots, NEW ask \in Ask, NEW dialog \in BOOLEAN,
           Send(p, s, ask, dialog), Fits(ask, server', touched')
    PROVE  page' \in [Pages -> Page] /\ op' \in [Pages -> [Slots -> Op]] /\ PagesKeep /\ OpsKeep
<1> DEFINE new == [IdleOp EXCEPT !.stage = "sent", !.ask = ask, !.dialog = dialog]
<1>1. new \in Op /\ new.ask = ask /\ new.stage = "sent"
  BY DEF IdleOp, Op, Nothing, Lists
<1>2. op' = [op EXCEPT ![p][s] = new]
  BY DEF Send
<1> HIDE DEF new
<1>3. op' \in [Pages -> [Slots -> Op]]
  BY <1>1, <1>2 DEF TypeOK
<1>4. \A q \in Pages : \A t \in Slots : op'[q][t] = IF q = p /\ t = s THEN new ELSE op[q][t]
  BY <1>2 DEF TypeOK
<1>5. OpsKeep
  BY <1>1, <1>4 DEF OpsKeep
<1>6. page' \in [Pages -> Page]
  <2> DEFINE row == [page[p] EXCEPT !.busy = TRUE,
                                    !.msg = IF ask.kind = "other" THEN @ ELSE None]
  <2>1. row \in Page
    BY DEF TypeOK, Page
  <2>2. page' = [page EXCEPT ![p] = row]
    BY DEF Send
  <2> HIDE DEF row
  <2>. QED BY <2>1, <2>2 DEF TypeOK
<1>7. \A q \in Pages : /\ page'[q].shown = page[q].shown /\ page'[q].config = page[q].config
                        /\ page'[q].dialog = page[q].dialog
  BY DEF Send, TypeOK, Page
<1>8. PagesKeep
  BY <1>7 DEF PagesKeep
<1>. QED BY <1>3, <1>5, <1>6, <1>8

\* A click that sends a request, and one that asks first.
LEMMA ClickSends ==
    ASSUME IInv, NEW p \in Pages, NEW s \in Slots, NEW ask \in Ask,
           Fits(ask, server, touched \cup ({ask.entry} \ {None})),
           Send(p, s, ask, FALSE), Begin(ask)
    PROVE  IInv'
<1>1. /\ server' = server /\ touched \subseteq touched' /\ Fits(ask, server', touched')
  BY BeginTypes DEF IInv
<1>2. page' \in [Pages -> Page] /\ op' \in [Pages -> [Slots -> Op]] /\ PagesKeep /\ OpsKeep
  BY <1>1, SendKeeps DEF IInv
<1>3. PagesFit' /\ OpsFit'
  BY <1>1, <1>2, Frame, AgreeSelf DEF IInv
<1>4. TypeOK'
  BY <1>1, <1>2, BeginTypes DEF IInv, TypeOK
<1>. QED BY <1>3, <1>4 DEF IInv

LEMMA ClickAsks ==
    ASSUME IInv, NEW p \in Pages, NEW ask \in Ask,
           Fits(ask, server, touched \cup ({ask.entry} \ {None})), AskConfirm(p, ask)
    PROVE  IInv'
<1>1. /\ server' = server /\ touched \subseteq touched' /\ Fits(ask, server', touched')
  BY BeginTypes DEF IInv, AskConfirm
<1>2. page' \in [Pages -> Page] /\ op' = op
  BY DEF AskConfirm, IInv, TypeOK, Page
<1>3. \A q \in Pages : /\ page'[q].shown = page[q].shown /\ page'[q].config = page[q].config
                        /\ page'[q].dialog \in {page[q].dialog, ask}
  BY DEF AskConfirm, IInv, TypeOK, Page
<1>4. PagesKeep /\ OpsKeep
  BY <1>1, <1>2, <1>3 DEF PagesKeep, OpsKeep
<1>5. PagesFit' /\ OpsFit'
  BY <1>1, <1>4, Frame, AgreeSelf DEF IInv
<1>6. TypeOK'
  BY <1>1, <1>2, BeginTypes DEF IInv, TypeOK, AskConfirm
<1>. QED BY <1>5, <1>6 DEF IInv

LEMMA AddIpStep ==
    ASSUME IInv, NEW p \in Pages, NEW s \in Slots, NEW to \in Names, NEW e \in Entries,
           page[p].shown, AddIp(p, s, to, e)
    PROVE  IInv'
<1>1. /\ Add(p, to, e) \in Ask /\ Fits(Add(p, to, e), server, touched \cup ({e} \ {None}))
      /\ Add(p, to, e).entry = e
  BY AddFits DEF IInv, Add
<1>. QED BY <1>1, ClickSends, ClickAsks DEF AddIp

\* Every click of a user.
LEMMA ClickStep ==
    ASSUME IInv, NEW p \in Pages, Click(p)
    PROVE  IInv'
<1>1. CASE CancelConfirm(p)
  <2>1. page' \in [Pages -> Page]
    BY <1>1 DEF CancelConfirm, IInv, TypeOK, Page
  <2>2. \A q \in Pages : /\ page'[q].shown = page[q].shown /\ page'[q].config = page[q].config
                          /\ page'[q].dialog \in {page[q].dialog, None}
    BY <1>1 DEF CancelConfirm, IInv, TypeOK, Page
  <2>3. PagesKeep /\ OpsKeep /\ server' = server /\ touched' = touched
    BY <1>1, <2>2 DEF PagesKeep, OpsKeep, CancelConfirm
  <2>4. PagesFit' /\ OpsFit'
    BY <2>3, Frame, AgreeSelf DEF IInv
  <2>. QED BY <1>1, <2>1, <2>4 DEF IInv, TypeOK, CancelConfirm
<1>2. CASE ClickDelete(p)
  BY <1>2, PlainFits, ClickAsks DEF ClickDelete
<1>3. ASSUME NEW to \in Names, NEW e \in Entries, ClickRemove(p, to, e)
      PROVE  IInv'
  <2>1. /\ Remove(p, to, e) \in Ask /\ Remove(p, to, e).entry = e
        /\ Fits(Remove(p, to, e), server, touched \cup ({e} \ {None}))
    BY <1>3, RemoveFits DEF IInv, Remove, ClickRemove, Ready
  <2>. QED BY <1>3, <2>1, ClickAsks DEF ClickRemove
<1>4. ASSUME NEW s \in Slots, Open(p, s)
      PROVE  IInv'
  <2>1. page' \in [Pages -> Page]
    BY <1>4 DEF Open, IInv, TypeOK, Page
  <2>2. \A q \in Pages : /\ page'[q].shown = page[q].shown /\ page'[q].config = page[q].config
                          /\ page'[q].dialog = page[q].dialog
    BY <1>4 DEF Open, IInv, TypeOK, Page
  <2> DEFINE new == [IdleOp EXCEPT !.stage = "load"]
  <2>3. new \in Op /\ new.ask = Load /\ new.stage = "load"
    BY PlainFits DEF IdleOp, Op, Nothing, Lists
  <2>4. op' = [op EXCEPT ![p][s] = new]
    BY <1>4 DEF Open
  <2> HIDE DEF new
  <2>5. op' \in [Pages -> [Slots -> Op]]
    BY <2>3, <2>4 DEF IInv, TypeOK
  <2>6. \A q \in Pages : \A t \in Slots : op'[q][t] = IF q = p /\ t = s THEN new ELSE op[q][t]
    BY <2>4 DEF IInv, TypeOK
  <2>7. OpsKeep
    BY <2>3, <2>6, PlainFits DEF OpsKeep
  <2>8. PagesKeep /\ server' = server /\ touched' = touched
    BY <1>4, <2>2 DEF PagesKeep, Open
  <2>9. PagesFit' /\ OpsFit'
    BY <2>7, <2>8, Frame, AgreeSelf DEF IInv
  <2>. QED BY <1>4, <2>1, <2>5, <2>9 DEF IInv, TypeOK, Open
<1>5. ASSUME NEW s \in Slots, ToggleFlag(p, s)
      PROVE  IInv'
  BY <1>5, PlainFits, ClickSends DEF ToggleFlag
<1>6. ASSUME NEW s \in Slots, ClickOther(p, s)
      PROVE  IInv'
  BY <1>6, PlainFits, ClickSends DEF ClickOther
<1>7. ASSUME NEW s \in Slots, RunConfirm(p, s)
      PROVE  IInv'
  <2>1. page[p].dialog \in Ask /\ Fits(page[p].dialog, server, touched)
    BY <1>7 DEF RunConfirm, IInv, PagesFit, TypeOK, Page
  <2>2. server' = server /\ touched' = touched
    BY <1>7 DEF RunConfirm
  <2>3. page' \in [Pages -> Page] /\ op' \in [Pages -> [Slots -> Op]] /\ PagesKeep /\ OpsKeep
    BY <1>7, <2>1, <2>2, SendKeeps DEF RunConfirm, IInv
  <2>4. PagesFit' /\ OpsFit'
    BY <2>2, <2>3, Frame, AgreeSelf DEF IInv
  <2>5. acked' \subseteq acked /\ careful' \in BOOLEAN
    BY <1>7 DEF RunConfirm, IInv, TypeOK
  <2>. QED BY <1>7, <2>3, <2>4, <2>5 DEF IInv, TypeOK, RunConfirm
<1>8. ASSUME NEW s \in Slots, NEW to \in Names, NEW e \in Entries,
             ClickAdd(p, s, to, e) \/ EnterAdd(p, s, to, e)
      PROVE  IInv'
  BY <1>8, AddIpStep DEF ClickAdd, EnterAdd, Ready
<1>9. ASSUME NEW s \in Slots, NEW to \in Names, NEW e \in Entries, ClickVisitor(p, s, to, e)
      PROVE  IInv'
  <2>1. /\ Visitor(to, e) \in Ask /\ Visitor(to, e).entry = e
        /\ Fits(Visitor(to, e), server, touched \cup ({e} \ {None}))
    BY VisitorFits DEF Visitor
  <2>. QED BY <1>9, <2>1, ClickSends DEF ClickVisitor
<1>. QED BY <1>1, <1>2, <1>3, <1>4, <1>5, <1>6, <1>7, <1>8, <1>9 DEF Click

\* A step of the request in slot s of page p that keeps the lists in force, what is touched, and the
\* shape of the rest: new is what the slot holds then, row what the page is then.
LEMMA SlotStep ==
    ASSUME IInv, NEW p \in Pages, NEW s \in Slots, NEW new \in Op, NEW row \in Page,
           op' = [op EXCEPT ![p][s] = new], page' = [page EXCEPT ![p] = row],
           Agree(server', server, touched), server' \in InForce, touched' = touched,
           clicks' = clicks, careful' \in BOOLEAN, done' \subseteq Added, acked' \subseteq Added,
           new.ask = op[p][s].ask \/ new.ask = Load,
           new.stage \in {"answered", "loaded"} =>
              \/ op[p][s].stage \in {"answered", "loaded"} /\ new.seen = op[p][s].seen
              \/ Agree(new.seen, server', touched),
           row.shown => \/ page[p].shown /\ row.config = page[p].config
                        \/ Agree(row.config, server', touched),
           row.dialog # None => row.dialog = page[p].dialog
    PROVE  IInv'
<1>1. op' \in [Pages -> [Slots -> Op]] /\ page' \in [Pages -> Page]
  BY DEF IInv, TypeOK
<1>2. \A q \in Pages : \A t \in Slots : op'[q][t] = IF q = p /\ t = s THEN new ELSE op[q][t]
  BY DEF IInv, TypeOK
<1>3. \A q \in Pages : page'[q] = IF q = p THEN row ELSE page[q]
  BY DEF IInv, TypeOK
<1>4. PagesKeep
  BY <1>3 DEF PagesKeep
<1>5. OpsKeep
  BY <1>2, PlainFits DEF OpsKeep
<1>6. PagesFit' /\ OpsFit'
  BY <1>4, <1>5, Frame DEF IInv
<1>. QED BY <1>1, <1>6 DEF IInv, TypeOK

\* What a slot and a page hold has its type.
LEMMA Rows ==
    ASSUME TypeOK, NEW p \in Pages, NEW s \in Slots
    PROVE  /\ op[p][s] \in Op /\ op[p][s].ask \in Ask /\ op[p][s].seen \in Lists
           /\ page[p] \in Page /\ page[p].config \in Lists
           /\ server \in Lists /\ page = [page EXCEPT ![p] = page[p]]
           /\ op = [op EXCEPT ![p][s] = op[p][s]]
           /\ IdleOp \in Op /\ IdleOp.ask = Load /\ IdleOp.stage = "idle"
<1>1. op[p][s] \in Op /\ page[p] \in Page /\ server \in Lists
  BY DEF TypeOK, InForce
<1>2. op[p][s].ask \in Ask /\ op[p][s].seen \in Lists /\ page[p].config \in Lists
  BY <1>1 DEF Op, Page
<1>3. page = [page EXCEPT ![p] = page[p]]
  BY DEF TypeOK
<1>4. op = [op EXCEPT ![p][s] = op[p][s]]
  BY DEF TypeOK
<1>5. IdleOp \in Op /\ IdleOp.ask = Load /\ IdleOp.stage = "idle"
  BY PlainFits DEF IdleOp, Op, Nothing, Lists
<1>. QED BY <1>1, <1>2, <1>3, <1>4, <1>5

\* What an operation says is an addition or nothing.
LEMMA SaidType ==
    ASSUME NEW ask \in Ask, NEW srv, NEW t, Fits(ask, srv, t), NEW before \in Added \cup {None}
    PROVE  Said(ask, before) \in Added \cup {None}
BY DEF Said, Added, Ask, Fits

\* The server answers, and writes what is asked for.
LEMMA ServeStep ==
    ASSUME IInv, NEW p \in Pages, NEW s \in Slots, Serve(p, s)
    PROVE  IInv'
<1> DEFINE new == [op[p][s] EXCEPT !.stage = "answered", !.seen = server']
<1>1. Fits(op[p][s].ask, server, touched) /\ op[p][s].ask \in Ask
  BY Rows DEF IInv, OpsFit
<1>2. server' \in InForce /\ Agree(server', server, touched)
  BY <1>1, WrittenKeeps DEF Serve, IInv, TypeOK
<1>3. Adds(op[p][s].ask) \subseteq Added
  BY <1>1, AddsType
<1>4. new \in Op /\ new.ask = op[p][s].ask /\ new.seen = server'
  BY <1>2, Rows DEF IInv, Op, InForce
<1>5. op' = [op EXCEPT ![p][s] = new] /\ page' = [page EXCEPT ![p] = page[p]]
  <2>1. op' = [op EXCEPT ![p][s] = new]
    BY DEF Serve, IInv, TypeOK
  <2>. QED BY <2>1, Rows DEF Serve, IInv
<1>6. /\ touched' = touched /\ clicks' = clicks /\ careful' = careful /\ acked' = acked
      /\ done' \subseteq Added
  BY <1>3 DEF Serve, IInv, TypeOK
<1> HIDE DEF new
<1>. QED
  BY <1>1, <1>2, <1>4, <1>5, <1>6, Rows, AgreeSelf, SlotStep DEF IInv, TypeOK

\* A request that its page has given up may still be served.
LEMMA ServeOrphanStep ==
    ASSUME IInv, NEW p \in Pages, NEW s \in Slots, ServeOrphan(p, s)
    PROVE  IInv'
<1>1. Fits(op[p][s].ask, server, touched) /\ op[p][s].ask \in Ask
  BY Rows DEF IInv, OpsFit
<1>2. server' \in InForce /\ Agree(server', server, touched)
  BY <1>1, WrittenKeeps, AgreeSelf DEF ServeOrphan, IInv, TypeOK
<1>3. Adds(op[p][s].ask) \subseteq Added
  BY <1>1, AddsType
<1>4. op' = [op EXCEPT ![p][s] = IdleOp] /\ page' = [page EXCEPT ![p] = page[p]]
  BY Rows DEF ServeOrphan, IInv
<1>5. /\ touched' = touched /\ clicks' = clicks /\ careful' = careful /\ acked' = acked
      /\ done' \subseteq Added
  BY <1>3 DEF ServeOrphan, IInv, TypeOK
<1>. QED
  BY <1>2, <1>4, <1>5, Rows, SlotStep DEF IInv, TypeOK

\* What a page learns is an addition.
LEMMA LearnedType ==
    ASSUME IInv, NEW p \in Pages, NEW s \in Slots
    PROVE  Learned(p, s) \subseteq Added
BY Rows, AddsType DEF Learned, IInv, OpsFit

LEMMA AnsweredStep ==
    ASSUME IInv, NEW p \in Pages, NEW s \in Slots, Answered(p, s)
    PROVE  IInv'
<1> DEFINE o == op[p][s]
           new == [o EXCEPT !.stage = "load"]
           conf == IF o.ask.kind \in {"add", "remove", "flag"} THEN o.seen ELSE page[p].config
           said == CASE o.ask.kind = "visitor" -> [to |-> o.ask.to, entry |-> o.ask.entry]
                     [] o.ask.kind = "other" -> page[p].msg
                     [] OTHER -> None
           row == [page[p] EXCEPT !.config = conf, !.msg = said]
<1>1. Fits(o.ask, server, touched) /\ o.ask \in Ask /\ Agree(o.seen, server, touched)
  BY Rows DEF IInv, OpsFit, Answered
<1>2. new \in Op /\ new.ask = o.ask /\ new.stage = "load"
  BY Rows DEF IInv, Op
<1>3. conf \in Lists
  BY Rows DEF IInv
<1>4. said \in Added \cup {None}
  <2>1. CASE o.ask.kind = "visitor"
    BY <1>1, <2>1 DEF Added, Ask, Fits
  <2>2. CASE o.ask.kind # "visitor"
    BY <2>2, Rows DEF IInv, Page
  <2>. QED BY <2>1, <2>2
<1>5. op' = [op EXCEPT ![p][s] = new]
  BY DEF Answered, IInv, TypeOK
<1>6. page' = [page EXCEPT ![p] = row]
  BY DEF Answered, IInv, TypeOK
<1>7. /\ touched' = touched /\ clicks' = clicks /\ careful' = careful /\ done' = done
      /\ server' = server /\ acked' \subseteq Added
  BY LearnedType DEF Answered, IInv, TypeOK
<1>8. conf = page[p].config \/ Agree(conf, server, touched)
  BY <1>1
<1> HIDE DEF conf, said
<1>9. row \in Page /\ row.shown = page[p].shown /\ row.config = conf /\ row.dialog = page[p].dialog
  BY <1>3, <1>4, Rows DEF IInv, Page
<1> HIDE DEF new, row
<1>. QED
  BY <1>2, <1>5, <1>6, <1>7, <1>8, <1>9, AgreeSelf, SlotStep DEF IInv, TypeOK

LEMMA EndedStep ==
    ASSUME IInv, NEW p \in Pages, NEW s \in Slots, Ended(p, s)
    PROVE  IInv'
<1> DEFINE row == [page[p] EXCEPT !.busy = FALSE]
<1>1. row \in Page /\ row.shown = page[p].shown /\ row.config = page[p].config
      /\ row.dialog = page[p].dialog
  BY Rows DEF IInv, Page
<1>2. page' = [page EXCEPT ![p] = row] /\ op' = [op EXCEPT ![p][s] = IdleOp]
  BY DEF Ended, IInv, TypeOK
<1>3. /\ touched' = touched /\ clicks' = clicks /\ careful' = careful /\ done' = done
      /\ server' = server /\ acked' = acked
  BY DEF Ended
<1> HIDE DEF row
<1>. QED
  BY <1>1, <1>2, <1>3, Rows, AgreeSelf, SlotStep DEF IInv, TypeOK

LEMMA ServeLoadStep ==
    ASSUME IInv, NEW p \in Pages, NEW s \in Slots, ServeLoad(p, s)
    PROVE  IInv'
<1> DEFINE new == [op[p][s] EXCEPT !.stage = "loaded", !.seen = server]
<1>1. new \in Op /\ new.ask = op[p][s].ask /\ new.seen = server
  BY Rows DEF IInv, Op
<1>2. op' = [op EXCEPT ![p][s] = new]
  BY DEF ServeLoad, IInv, TypeOK
<1>3. /\ touched' = touched /\ clicks' = clicks /\ careful' = careful /\ done' = done
      /\ server' = server /\ acked' = acked /\ page' = [page EXCEPT ![p] = page[p]]
  BY Rows DEF ServeLoad, IInv
<1> HIDE DEF new
<1>. QED
  BY <1>1, <1>2, <1>3, Rows, AgreeSelf, SlotStep DEF IInv, TypeOK

\* load() is over: the page shows the lists that were in force when they were read.
LEMMA LoadedStep ==
    ASSUME IInv, NEW p \in Pages, NEW s \in Slots, Loaded(p, s)
    PROVE  IInv'
<1> DEFINE o == op[p][s]
           said == Said(o.ask, page[p].msg)
           asks == IF o.dialog THEN None ELSE page[p].dialog
           busy == page[p].busy /\ o.ask.kind = "load"
           row == [page[p] EXCEPT !.shown = TRUE, !.config = o.seen, !.busy = busy,
                                  !.dialog = asks, !.msg = said]
<1>1. Fits(o.ask, server, touched) /\ o.ask \in Ask /\ Agree(o.seen, server, touched) /\ o.seen \in Lists
  BY Rows DEF IInv, OpsFit, Loaded
<1>2. page[p].msg \in Added \cup {None} /\ page[p].dialog \in Ask \cup {None}
  BY Rows DEF IInv, Page
<1>3. said \in Added \cup {None}
  BY <1>1, <1>2, SaidType
<1>4. asks \in Ask \cup {None} /\ (asks # None => asks = page[p].dialog)
  BY <1>2
<1>5. busy \in BOOLEAN
  OBVIOUS
<1>6. page' = [page EXCEPT ![p] = row] /\ op' = [op EXCEPT ![p][s] = IdleOp]
  BY DEF Loaded, IInv, TypeOK
<1>7. /\ touched' = touched /\ clicks' = clicks /\ careful' = careful /\ done' = done
      /\ server' = server /\ acked' = acked
  BY DEF Loaded
<1> HIDE DEF said, asks, busy
<1>8. row \in Page /\ row.config = o.seen /\ row.dialog = asks
  BY <1>1, <1>3, <1>4, <1>5, Rows DEF IInv, Page
<1> HIDE DEF row
<1>. QED
  BY <1>1, <1>4, <1>6, <1>7, <1>8, Rows, AgreeSelf, SlotStep DEF IInv, TypeOK

\* The end of an operation leaves the lists that the page shows, and may close its dialog.
LEMMA EndRow ==
    ASSUME IInv, NEW p \in Pages, NEW s \in Slots, NEW ok \in BOOLEAN, End(p, s, ok)
    PROVE  \E row \in Page :
              /\ page' = [page EXCEPT ![p] = row]
              /\ row.shown = page[p].shown /\ row.config = page[p].config
              /\ row.dialog # None => row.dialog = page[p].dialog
<1> DEFINE o == op[p][s]
           said == Said(o.ask, page[p].msg)
           asks == IF o.dialog /\ (ok \/ o.ask.kind # "other") THEN None ELSE page[p].dialog
           busy == page[p].busy /\ o.ask.kind = "load"
           row == [page[p] EXCEPT !.busy = busy, !.dialog = asks, !.msg = said]
<1>1. Fits(o.ask, server, touched) /\ o.ask \in Ask
  BY Rows DEF IInv, OpsFit
<1>2. page[p].msg \in Added \cup {None} /\ page[p].dialog \in Ask \cup {None}
  BY Rows DEF IInv, Page
<1>3. said \in Added \cup {None}
  BY <1>1, <1>2, SaidType
<1>4. asks \in Ask \cup {None} /\ (asks # None => asks = page[p].dialog)
  BY <1>2
<1>5. busy \in BOOLEAN
  OBVIOUS
<1>6. page' = [page EXCEPT ![p] = row]
  BY DEF End, IInv, TypeOK
<1> HIDE DEF said, asks, busy
<1>7. row \in Page /\ row.shown = page[p].shown /\ row.config = page[p].config /\ row.dialog = asks
  BY <1>3, <1>4, <1>5, Rows DEF IInv, Page
<1> HIDE DEF row
<1>. QED BY <1>4, <1>6, <1>7

LEMMA FailsStep ==
    ASSUME IInv, NEW p \in Pages, NEW s \in Slots, LoadFails(p, s) \/ Fails(p, s)
    PROVE  IInv'
<1>1. PICK row \in Page :
              /\ page' = [page EXCEPT ![p] = row]
              /\ row.shown = page[p].shown /\ row.config = page[p].config
              /\ row.dialog # None => row.dialog = page[p].dialog
  BY EndRow DEF LoadFails, Fails
<1>2. /\ touched' = touched /\ clicks' = clicks /\ careful' \in BOOLEAN /\ done' = done
      /\ server' = server /\ acked' = acked
  BY DEF LoadFails, Fails
<1>3. CASE op' = [op EXCEPT ![p][s] = IdleOp]
  BY <1>1, <1>2, <1>3, Rows, AgreeSelf, SlotStep DEF IInv, TypeOK
<1>4. CASE op' = [op EXCEPT ![p][s].stage = "orphan"]
  <2> DEFINE new == [op[p][s] EXCEPT !.stage = "orphan"]
  <2>1. new \in Op /\ new.ask = op[p][s].ask /\ new.stage = "orphan"
    BY Rows DEF IInv, Op
  <2>2. op' = [op EXCEPT ![p][s] = new]
    BY <1>4 DEF IInv, TypeOK
  <2> HIDE DEF new
  <2>. QED BY <1>1, <1>2, <2>1, <2>2, AgreeSelf, SlotStep DEF IInv, TypeOK
<1>. QED BY <1>3, <1>4 DEF LoadFails, Fails

-----------------------------------------------------------------------------
(* The theorems *)

\* Nothing is held when the pages are closed.
LEMMA InitHolds == Init => IInv
<1> SUFFICES ASSUME Init PROVE IInv
  OBVIOUS
<1>1. Closed \in Page /\ Closed.shown = FALSE /\ Closed.dialog = None
  BY DEF Closed, Page, Nothing, Lists
<1>2. IdleOp \in Op /\ IdleOp.ask = Load /\ IdleOp.stage = "idle"
  BY PlainFits DEF IdleOp, Op, Nothing, Lists
<1>3. /\ server \in InForce /\ clicks = 0 /\ touched = {} /\ done = {} /\ acked = {}
      /\ careful = TRUE
      /\ page = [p \in Pages |-> Closed] /\ op = [p \in Pages |-> [s \in Slots |-> IdleOp]]
  BY DEF Init
<1>4. page \in [Pages -> Page]
  BY <1>1, <1>3
<1>5. op \in [Pages -> [Slots -> Op]]
  BY <1>2, <1>3
<1>6. 0 \in 0 .. MaxClicks
  BY SettingsAssumption
<1>7. TypeOK
  BY <1>3, <1>4, <1>5, <1>6 DEF TypeOK
<1>8. PagesFit
  BY <1>1, <1>3 DEF PagesFit
<1>9. OpsFit
  BY <1>2, <1>3, PlainFits DEF OpsFit
<1>. QED BY <1>7, <1>8, <1>9 DEF IInv

\* Every step keeps the invariant.
LEMMA StepKeeps == IInv /\ [Next]_vars => IInv'
<1> SUFFICES ASSUME IInv, [Next]_vars PROVE IInv'
  OBVIOUS
<1>1. ASSUME NEW p \in Pages, Click(p) PROVE IInv'
  BY <1>1, ClickStep
<1>2. ASSUME NEW p \in Pages, NEW s \in Slots, Step(p, s) PROVE IInv'
  BY <1>2, ServeStep, ServeOrphanStep, AnsweredStep, EndedStep, ServeLoadStep, LoadedStep, FailsStep
     DEF Step
<1>3. CASE UNCHANGED vars
  BY <1>3 DEF vars, IInv, TypeOK, PagesFit, OpsFit
<1>. QED BY <1>1, <1>2, <1>3 DEF Next

\* What is held anywhere agrees with the lists in force about every entry that nobody touched, and
\* has its type.
THEOREM HeldListsAgree == Spec => []IInv
BY InitHolds, StepKeeps, PTL DEF Spec

\* The types of the settings pages, their requests and the lists; no entry is on both lists, for
\* updateConfig() lets deny win.
THEOREM SettingsTypeCorrect == Spec => []TypeOK
<1>1. IInv => TypeOK
  BY DEF IInv
<1>. QED BY <1>1, HeldListsAgree, PTL

\* A request that fits moves nothing but touched entries, and no other step writes the lists.
LEMMA StepMovesTouched ==
    ASSUME IInv, [Next]_vars
    PROVE  \A n \in Names : (server[n] \ server'[n]) \cup (server'[n] \ server[n]) \subseteq touched
<1>1. Agree(server', server, touched)
  <2>1. ASSUME NEW p \in Pages, Click(p) PROVE server' = server
    <3>1. CancelConfirm(p) \/ ClickDelete(p) => server' = server
      BY DEF CancelConfirm, ClickDelete, AskConfirm, Begin
    <3>2. ASSUME NEW to \in Names, NEW e \in Entries, ClickRemove(p, to, e) PROVE server' = server
      BY <3>2 DEF ClickRemove, AskConfirm, Begin
    <3>3. ASSUME NEW s \in Slots, Open(p, s) \/ ToggleFlag(p, s) \/ ClickOther(p, s) \/ RunConfirm(p, s)
          PROVE  server' = server
      BY <3>3 DEF Open, ToggleFlag, ClickOther, RunConfirm, Begin
    <3>4. ASSUME NEW s \in Slots, NEW to \in Names, NEW e \in Entries,
                 ClickAdd(p, s, to, e) \/ EnterAdd(p, s, to, e) \/ ClickVisitor(p, s, to, e)
          PROVE  server' = server
      BY <3>4 DEF ClickAdd, EnterAdd, ClickVisitor, AddIp, AskConfirm, Begin
    <3> QED BY <2>1, <3>1, <3>2, <3>3, <3>4 DEF Click
  <2>2. ASSUME NEW p \in Pages, NEW s \in Slots, Step(p, s)
        PROVE  server' = server \/ server' = Written(op[p][s].ask)
    BY <2>2 DEF Step, Serve, ServeOrphan, Answered, Ended, ServeLoad, Loaded, LoadFails, Fails
  <2>3. ASSUME NEW p \in Pages, NEW s \in Slots
        PROVE  Agree(Written(op[p][s].ask), server, touched)
    BY <2>3, Rows, WrittenKeeps DEF IInv, OpsFit, TypeOK
  <2>. QED BY <2>1, <2>2, <2>3, AgreeSelf DEF Next, vars
<1>2. server \in Lists /\ server' \in Lists
  BY StepKeeps DEF IInv, TypeOK, InForce
<1>3. \A n \in Names : server[n] \subseteq Entries /\ server'[n] \subseteq Entries
  BY <1>2 DEF Lists, Names
<1>. QED BY <1>1, <1>3 DEF Agree

\* OnlyTouchedMove, for any number of pages, requests, entries and operations: an entry comes on a
\* list or leaves it only if somebody asked for something with it.
THEOREM WholeListsMoveOnlyTouched == Spec => OnlyTouchedMove
<1>1. IInv /\ [Next]_vars =>
        [\A n \in Names : (server[n] \ server'[n]) \cup (server'[n] \ server[n]) \subseteq touched]_vars
  BY StepMovesTouched
<1>. QED BY <1>1, HeldListsAgree, PTL DEF Spec, OnlyTouchedMove

-----------------------------------------------------------------------------
(* One page, and one operation at a time *)

\* what is asked for was made of the lists in force
FreshAsk(ask, srv) ==
    ask.kind \in {"add", "remove"} =>
        \A n \in ask.only :
            ask.lists[n] = (srv[n] \ {ask.entry})
                              \cup (IF ask.kind = "add" /\ n = ask.to THEN {ask.entry} ELSE {})

Whole(ask) == ask.kind = "add" => ask.only = Names

\* a request that leaves the lists alone, or none
Still(o) == o = IdleOp \/ o.ask.kind = "other"

\* what is known of a request of a page: ac and dn stand for acked and done
SlotCares(o, row, srv, ac, dn) ==
    /\ o.stage # "orphan" /\ Whole(o.ask)
    /\ o.stage = "sent" => FreshAsk(o.ask, srv) /\ \A x \in ac : x.entry # o.ask.entry
    /\ o.stage \in {"answered", "loaded"} => o.seen = srv
    /\ o.stage = "answered" => \A x \in Adds(o.ask) : x.entry \in srv[x.to]
    /\ o.stage \in {"answered", "load", "loaded"} => Adds(o.ask) \subseteq dn
    /\ o # IdleOp => row.open /\ (row.dialog # None => o.dialog)

\* what is known of a page: row is its state, ops are its requests
RowCares(row, ops, srv, ac, dn) ==
    /\ row.shown => row.open
    /\ row.dialog # None => row.shown /\ Whole(row.dialog)
    /\ row.msg # None => row.msg \in dn
    /\ \A s, t \in Slots : ops[s] = IdleOp \/ ops[t] = IdleOp \/ s = t
    /\ row.shown /\ (\A s \in Slots : Still(ops[s])) => row.config = srv
    /\ row.dialog # None /\ (\A s \in Slots : ops[s] = IdleOp) => FreshAsk(row.dialog, srv)
    /\ \A s \in Slots : SlotCares(ops[s], row, srv, ac, dn)

\* The inductive invariant behind CarefulLosesNothing.  While one is careful, a page has at most one
\* request, shows the lists in force whenever it has none, and what it asks for was made of them.
CInv ==
    careful => /\ AcknowledgedStays
               /\ \A p \in Pages : RowCares(page[p], op[p], server, acked, done)

OnePage == \A p, q \in Pages : p = q

\* No request is no trouble.
LEMMA IdleCares ==
    /\ \A row, srv, ac, dn : SlotCares(IdleOp, row, srv, ac, dn)
    /\ Still(IdleOp) /\ Adds(Load) = {}
BY DEF SlotCares, IdleOp, Load, Whole, Still, Adds

\* A page with one request.
LEMMA RowMade ==
    ASSUME NEW s \in Slots, NEW ops, NEW new, NEW row, NEW srv, NEW ac, NEW dn,
           \A t \in Slots : ops[t] = IF t = s THEN new ELSE IdleOp,
           SlotCares(new, row, srv, ac, dn),
           row.shown => row.open,
           row.dialog # None => row.shown /\ Whole(row.dialog),
           row.msg # None => row.msg \in dn,
           row.shown /\ Still(new) => row.config = srv,
           row.dialog # None /\ new = IdleOp => FreshAsk(row.dialog, srv)
    PROVE  RowCares(row, ops, srv, ac, dn)
<1>1. \A t \in Slots : SlotCares(ops[t], row, srv, ac, dn)
  BY IdleCares
<1>2. (\A t \in Slots : Still(ops[t])) => Still(new)
  OBVIOUS
<1>. QED BY <1>1, <1>2 DEF RowCares

\* What a fresh request writes leaves every other entry where it is, and puts its own where it says.
LEMMA WrittenStays ==
    ASSUME server \in InForce, NEW ask \in Ask, NEW t, Fits(ask, server, t),
           FreshAsk(ask, server), Whole(ask),
           NEW ac \in SUBSET Added, \A x \in ac : x.entry # ask.entry /\ x.entry \in server[x.to]
    PROVE  \A x \in ac \cup Adds(ask) : x.entry \in Written(ask)[x.to]
<1>1. /\ server.allow \subseteq Entries /\ server.deny \subseteq Entries
      /\ server.allow \cap server.deny = {}
  BY DEF InForce, Lists
<1>2. ASSUME NEW x \in ac PROVE x.to \in Names /\ x.entry # ask.entry /\ x.entry \in server[x.to]
  BY <1>2 DEF Added
<1>3. CASE ask.kind = "add"
  <2>1. /\ ask.only = Names /\ ask.to \in Names
        /\ ask.lists.allow = (server.allow \ {ask.entry})
                                \cup (IF ask.to = "allow" THEN {ask.entry} ELSE {})
        /\ ask.lists.deny = (server.deny \ {ask.entry})
                                \cup (IF ask.to = "deny" THEN {ask.entry} ELSE {})
    BY <1>3 DEF Whole, FreshAsk, Ask, Names
  <2>2. Written(ask) = [allow |-> ask.lists.allow \ ask.lists.deny, deny |-> ask.lists.deny]
    BY <1>3, <2>1 DEF Written, Patched, Names
  <2>3. ASSUME NEW x \in ac PROVE x.entry \in Written(ask)[x.to]
    BY <1>1, <1>2, <2>1, <2>2 DEF Names
  <2>4. ask.entry \in Written(ask)[ask.to]
    BY <1>1, <2>1, <2>2 DEF Names
  <2>. QED BY <1>3, <2>3, <2>4 DEF Adds
<1>4. CASE ask.kind = "remove"
  <2>1. \A n \in ask.only : ask.lists[n] = server[n] \ {ask.entry}
    BY <1>4 DEF FreshAsk
  <2>2. /\ Written(ask).deny \in {server.deny, server.deny \ {ask.entry}}
        /\ Written(ask).allow \in {server.allow \ Written(ask).deny,
                                   (server.allow \ {ask.entry}) \ Written(ask).deny}
    BY <1>4, <2>1 DEF Written, Patched
  <2>3. ASSUME NEW x \in ac PROVE x.entry \in Written(ask)[x.to]
    BY <1>1, <1>2, <2>2 DEF Names
  <2>. QED BY <1>4, <2>3 DEF Adds
<1>5. CASE ask.kind = "visitor"
  <2>1. ask.to \in Names
    BY DEF Ask
  <2>2. Written(ask) = Moved(ask)
    BY <1>5 DEF Written
  <2>3. ASSUME NEW x \in ac PROVE x.entry \in Written(ask)[x.to]
    BY <1>2, <2>1, <2>2 DEF Moved, Names
  <2>4. ask.entry \in Written(ask)[ask.to]
    BY <2>1, <2>2 DEF Moved, Names
  <2>. QED BY <1>5, <2>3, <2>4 DEF Adds
<1>6. CASE ask.kind \notin {"add", "remove", "visitor"}
  BY <1>2, <1>6 DEF Written, Adds
<1>. QED BY <1>3, <1>4, <1>5, <1>6

-----------------------------------------------------------------------------
(* The steps of the one page *)

\* A page that shows the lists in force asks for something made of them.
LEMMA AskIsFresh ==
    ASSUME NEW p \in Pages, page[p].config = server, NEW to \in Names, NEW e \in Entries
    PROVE  /\ FreshAsk(Add(p, to, e), server) /\ Whole(Add(p, to, e))
           /\ FreshAsk(Remove(p, to, e), server) /\ Whole(Remove(p, to, e))
           /\ FreshAsk(Visitor(to, e), server) /\ Whole(Visitor(to, e))
<1>1. FreshAsk(Add(p, to, e), server) /\ Whole(Add(p, to, e))
  BY DEF Add, FreshAsk, Whole, Names
<1>2. FreshAsk(Remove(p, to, e), server) /\ Whole(Remove(p, to, e))
  BY DEF Remove, FreshAsk, Whole, Names
<1>3. FreshAsk(Visitor(to, e), server) /\ Whole(Visitor(to, e))
  BY DEF Visitor, FreshAsk, Whole
<1>. QED BY <1>1, <1>2, <1>3

LEMMA PlainIsFresh ==
    /\ FreshAsk(Other, server) /\ Whole(Other) /\ FreshAsk(Flag, server) /\ Whole(Flag)
BY DEF Other, Flag, Load, FreshAsk, Whole

\* A request that is sent while no other is under way.
LEMMA SendCares ==
    ASSUME OnePage, TypeOK, CInv, careful, Quiet, NEW p \in Pages, NEW s \in Slots,
           NEW ask \in Ask, NEW dialog \in BOOLEAN, Send(p, s, ask, dialog),
           page[p].shown, page[p].dialog # None => dialog,
           FreshAsk(ask, server), Whole(ask),
           server' = server, done' = done, acked' = {x \in acked : x.entry # ask.entry}
    PROVE  CInv'
<1> DEFINE new == [IdleOp EXCEPT !.stage = "sent", !.ask = ask, !.dialog = dialog]
           said == IF ask.kind = "other" THEN page[p].msg ELSE None
           row == [page[p] EXCEPT !.busy = TRUE, !.msg = said]
<1>1. op' = [op EXCEPT ![p][s] = new] /\ page' = [page EXCEPT ![p] = row]
  BY DEF Send, TypeOK
<1>2. new.stage = "sent" /\ new.ask = ask /\ new.dialog = dialog /\ new # IdleOp
  BY DEF IdleOp
<1>3. /\ row.shown = page[p].shown /\ row.open = page[p].open /\ row.config = page[p].config
      /\ row.dialog = page[p].dialog /\ row.msg = said
  BY DEF TypeOK, Page
<1>4. said # None => said = page[p].msg
  OBVIOUS
<1> HIDE DEF new, said, row
<1>5. RowCares(page[p], op[p], server, acked, done)
  BY DEF CInv
<1>6. \A t \in Slots : op[p][t] = IdleOp
  BY DEF Quiet
<1>7. \A t \in Slots : op'[p][t] = IF t = s THEN new ELSE IdleOp
  BY <1>1, <1>6 DEF TypeOK
<1>8. page'[p] = row
  BY <1>1 DEF TypeOK
<1>9. page[p].open /\ (page[p].dialog # None => Whole(page[p].dialog))
      /\ (page[p].msg # None => page[p].msg \in done)
  BY <1>5 DEF RowCares
<1>10. page[p].config = server
  BY <1>5, <1>6, IdleCares DEF RowCares
<1>11. SlotCares(new, row, server', acked', done')
  BY <1>2, <1>3, <1>9 DEF SlotCares
<1>12. RowCares(row, op'[p], server', acked', done')
  BY <1>2, <1>3, <1>4, <1>7, <1>9, <1>10, <1>11, RowMade
<1>13. AcknowledgedStays'
  BY DEF CInv, AcknowledgedStays
<1>. QED BY <1>8, <1>12, <1>13 DEF OnePage, CInv

\* One that is asked about first.
LEMMA AskCares ==
    ASSUME OnePage, TypeOK, CInv, NEW p \in Pages, NEW ask \in Ask, AskConfirm(p, ask),
           page[p].shown,
           page[p].config = server => FreshAsk(ask, server) /\ Whole(ask)
    PROVE  CInv'
<1> SUFFICES ASSUME careful' PROVE CInv'
  BY DEF CInv
<1> DEFINE row == [page[p] EXCEPT !.dialog = ask]
<1>1. /\ page' = [page EXCEPT ![p] = row] /\ op' = op /\ server' = server /\ done' = done
      /\ acked' \subseteq acked /\ careful /\ Quiet
  BY DEF AskConfirm, Begin, TypeOK
<1>2. /\ row.shown = page[p].shown /\ row.open = page[p].open /\ row.config = page[p].config
      /\ row.dialog = ask /\ row.msg = page[p].msg
  BY DEF TypeOK, Page
<1> HIDE DEF row
<1>3. RowCares(page[p], op[p], server, acked, done)
  BY <1>1 DEF CInv
<1>4. \A t \in Slots : op'[p][t] = IdleOp
  BY <1>1 DEF Quiet
<1>5. page[p].config = server
  BY <1>1, <1>3, <1>4, IdleCares DEF RowCares
<1>6. page'[p] = row
  BY <1>1 DEF TypeOK
<1>7. page[p].open /\ (page[p].msg # None => page[p].msg \in done)
  BY <1>3 DEF RowCares
<1>8. RowCares(row, op'[p], server', acked', done')
  BY <1>1, <1>2, <1>4, <1>5, <1>7, IdleCares DEF RowCares
<1>9. AcknowledgedStays'
  BY <1>1 DEF CInv, AcknowledgedStays
<1>. QED BY <1>6, <1>8, <1>9 DEF OnePage, CInv

\* A click that sends.
LEMMA ClickCares ==
    ASSUME OnePage, TypeOK, CInv, NEW p \in Pages, NEW s \in Slots, NEW ask \in Ask,
           Send(p, s, ask, FALSE), Begin(ask), page[p].shown,
           page[p].config = server => FreshAsk(ask, server) /\ Whole(ask)
    PROVE  CInv'
<1> SUFFICES ASSUME careful' PROVE CInv'
  BY DEF CInv
<1>1. /\ careful /\ Quiet /\ page[p].dialog = None /\ server' = server /\ done' = done
      /\ acked' = {x \in acked : x.entry # ask.entry}
  BY DEF Begin
<1>2. RowCares(page[p], op[p], server, acked, done)
  BY <1>1 DEF CInv
<1>3. page[p].config = server
  BY <1>1, <1>2, IdleCares DEF RowCares, Quiet
<1>. QED BY <1>1, <1>3, SendCares

\* addIp()
LEMMA AddIpCares ==
    ASSUME OnePage, IInv, CInv, NEW p \in Pages, NEW s \in Slots, NEW to \in Names,
           NEW e \in Entries, page[p].shown, AddIp(p, s, to, e)
    PROVE  CInv'
BY AddFits, AskIsFresh, ClickCares, AskCares DEF AddIp, IInv

\* Every click.
LEMMA ClickStepCares ==
    ASSUME OnePage, IInv, CInv, NEW p \in Pages, Click(p)
    PROVE  CInv'
<1>1. CASE CancelConfirm(p)
  <2> DEFINE row == [page[p] EXCEPT !.dialog = None]
  <2>1. /\ page' = [page EXCEPT ![p] = row] /\ op' = op /\ server' = server /\ done' = done
        /\ acked' = acked /\ careful' = careful
    BY <1>1 DEF CancelConfirm, IInv, TypeOK
  <2>2. /\ row.shown = page[p].shown /\ row.open = page[p].open /\ row.config = page[p].config
        /\ row.dialog = None /\ row.msg = page[p].msg
    BY DEF IInv, TypeOK, Page
  <2> HIDE DEF row
  <2>3. page'[p] = row
    BY <2>1 DEF IInv, TypeOK
  <2>4. RowCares(page[p], op[p], server, acked, done) => RowCares(row, op[p], server, acked, done)
    BY <2>2 DEF RowCares, SlotCares
  <2>5. AcknowledgedStays => AcknowledgedStays'
    BY <2>1 DEF AcknowledgedStays
  <2>. QED BY <2>1, <2>3, <2>4, <2>5 DEF OnePage, CInv
<1>2. CASE ClickDelete(p)
  BY <1>2, PlainFits, PlainIsFresh, AskCares DEF ClickDelete, IInv
<1>3. ASSUME NEW to \in Names, NEW e \in Entries, ClickRemove(p, to, e)
      PROVE  CInv'
  BY <1>3, RemoveFits, AskIsFresh, AskCares DEF ClickRemove, Ready, IInv
<1>4. ASSUME NEW s \in Slots, Open(p, s)
      PROVE  CInv'
  <2> SUFFICES ASSUME careful PROVE CInv'
    BY <1>4 DEF Open, CInv
  <2> DEFINE new == [IdleOp EXCEPT !.stage = "load"]
             row == [page[p] EXCEPT !.open = TRUE]
  <2>1. /\ page' = [page EXCEPT ![p] = row] /\ op' = [op EXCEPT ![p][s] = new]
        /\ server' = server /\ done' = done /\ acked' = acked
    BY <1>4 DEF Open, IInv, TypeOK
  <2>2. /\ row.shown = page[p].shown /\ row.open = TRUE /\ row.config = page[p].config
        /\ row.dialog = page[p].dialog /\ row.msg = page[p].msg
    BY DEF IInv, TypeOK, Page
  <2>3. new.stage = "load" /\ new.ask = Load /\ new # IdleOp /\ Load.kind = "load"
    BY DEF IdleOp, Load
  <2> HIDE DEF new, row
  <2>4. RowCares(page[p], op[p], server, acked, done)
    BY DEF CInv
  <2>5. ~page[p].shown /\ page[p].dialog = None /\ \A t \in Slots : op[p][t] = IdleOp
    BY <1>4, <2>4 DEF Open, RowCares, SlotCares
  <2>6. \A t \in Slots : op'[p][t] = IF t = s THEN new ELSE IdleOp
    BY <2>1, <2>5 DEF IInv, TypeOK
  <2>7. SlotCares(new, row, server, acked, done)
    BY <2>2, <2>3, <2>5, IdleCares DEF SlotCares, Whole
  <2>8. page[p].msg # None => page[p].msg \in done
    BY <2>4 DEF RowCares
  <2>9. RowCares(row, op'[p], server, acked, done)
    BY <2>2, <2>3, <2>5, <2>6, <2>7, <2>8, RowMade
  <2>10. page'[p] = row /\ AcknowledgedStays'
    BY <2>1 DEF IInv, TypeOK, CInv, AcknowledgedStays
  <2>. QED BY <2>1, <2>9, <2>10 DEF OnePage, CInv
<1>5. ASSUME NEW s \in Slots, ToggleFlag(p, s)
      PROVE  CInv'
  BY <1>5, PlainFits, PlainIsFresh, ClickCares DEF ToggleFlag, IInv
<1>6. ASSUME NEW s \in Slots, ClickOther(p, s)
      PROVE  CInv'
  BY <1>6, PlainFits, PlainIsFresh, ClickCares DEF ClickOther, Ready, IInv
<1>7. ASSUME NEW s \in Slots, RunConfirm(p, s)
      PROVE  CInv'
  <2> SUFFICES ASSUME careful' PROVE CInv'
    BY DEF CInv
  <2>1. /\ careful /\ Quiet /\ page[p].dialog # None /\ page[p].dialog \in Ask
        /\ server' = server /\ done' = done
        /\ acked' = {x \in acked : x.entry # page[p].dialog.entry}
        /\ Send(p, s, page[p].dialog, TRUE)
    BY <1>7 DEF RunConfirm, IInv, TypeOK, Page
  <2>2. RowCares(page[p], op[p], server, acked, done)
    BY <2>1 DEF CInv
  <2>3. page[p].shown /\ Whole(page[p].dialog) /\ FreshAsk(page[p].dialog, server)
    BY <2>1, <2>2 DEF RowCares, Quiet
  <2>. QED BY <2>1, <2>3, SendCares DEF IInv
<1>8. ASSUME NEW s \in Slots, NEW to \in Names, NEW e \in Entries,
             ClickAdd(p, s, to, e) \/ EnterAdd(p, s, to, e)
      PROVE  CInv'
  BY <1>8, AddIpCares DEF ClickAdd, EnterAdd, Ready
<1>9. ASSUME NEW s \in Slots, NEW to \in Names, NEW e \in Entries, ClickVisitor(p, s, to, e)
      PROVE  CInv'
  BY <1>9, VisitorFits, AskIsFresh, ClickCares DEF ClickVisitor, Ready, IInv
<1>. QED BY <1>1, <1>2, <1>3, <1>4, <1>5, <1>6, <1>7, <1>8, <1>9 DEF Click

\* A step of a request: the others of the page are idle.
LEMMA StepCares ==
    ASSUME OnePage, TypeOK, CInv, careful, NEW p \in Pages, NEW s \in Slots, op[p][s] # IdleOp,
           NEW new, NEW row, op' = [op EXCEPT ![p][s] = new], page' = [page EXCEPT ![p] = row],
           AcknowledgedStays',
           SlotCares(new, row, server', acked', done'),
           row.shown => row.open,
           row.dialog # None => row.shown /\ Whole(row.dialog),
           row.msg # None => row.msg \in done',
           row.shown /\ Still(new) => row.config = server',
           row.dialog # None /\ new = IdleOp => FreshAsk(row.dialog, server')
    PROVE  CInv'
<1>1. \A t \in Slots : op'[p][t] = IF t = s THEN new ELSE IdleOp
  BY DEF TypeOK, CInv, RowCares
<1>2. page'[p] = row
  BY DEF TypeOK
<1>3. RowCares(row, op'[p], server', acked', done')
  <2> DEFINE ops == op'[p]
  <2>1. \A t \in Slots : ops[t] = IF t = s THEN new ELSE IdleOp
    BY <1>1
  <2> HIDE DEF ops
  <2>2. RowCares(row, ops, server', acked', done')
    BY <2>1, RowMade, SMTT(30)
  <2>. QED BY <2>2 DEF ops
<1>. QED BY <1>2, <1>3 DEF OnePage, CInv

\* What is known of a page and of its one request.
LEMMA Known ==
    ASSUME TypeOK, CInv, careful, NEW p \in Pages, NEW s \in Slots, op[p][s] # IdleOp
    PROVE  /\ SlotCares(op[p][s], page[p], server, acked, done)
           /\ page[p].open
           /\ page[p].dialog # None => page[p].shown /\ Whole(page[p].dialog) /\ op[p][s].dialog
           /\ page[p].msg # None => page[p].msg \in done
           /\ page[p].shown /\ op[p][s].ask.kind = "other" => page[p].config = server
<1>1. RowCares(page[p], op[p], server, acked, done)
  BY DEF CInv
<1>2. \A t \in Slots : t = s \/ op[p][t] = IdleOp
  BY <1>1 DEF RowCares
<1>3. SlotCares(op[p][s], page[p], server, acked, done)
  BY <1>1 DEF RowCares
<1>4. op[p][s].ask.kind = "other" => \A t \in Slots : Still(op[p][t])
  BY <1>2 DEF Still
<1>. QED BY <1>1, <1>3, <1>4 DEF RowCares, SlotCares

LEMMA ServeCares ==
    ASSUME OnePage, IInv, CInv, NEW p \in Pages, NEW s \in Slots, Serve(p, s)
    PROVE  CInv'
<1> SUFFICES ASSUME careful PROVE CInv'
  BY DEF Serve, CInv
<1> DEFINE o == op[p][s]
           new == [o EXCEPT !.stage = "answered", !.seen = server']
<1>1. /\ o.stage = "sent" /\ server' = Written(o.ask) /\ done' = done \cup Adds(o.ask)
      /\ op' = [op EXCEPT ![p][s] = new] /\ page' = [page EXCEPT ![p] = page[p]]
      /\ acked' = acked /\ o # IdleOp
  <2>1. op' = [op EXCEPT ![p][s] = new]
    BY DEF Serve, IInv, TypeOK
  <2>2. o.stage = "sent" /\ o # IdleOp
    BY DEF Serve, IdleOp
  <2>. QED BY <2>1, <2>2, Rows DEF Serve, IInv
<1>2. o.ask \in Ask /\ Fits(o.ask, server, touched)
  BY Rows DEF IInv, OpsFit
<1>3. /\ new.stage = "answered" /\ new.ask = o.ask /\ new.seen = server' /\ new.dialog = o.dialog
      /\ new # IdleOp
  BY Rows DEF IInv, Op
<1> HIDE DEF new
<1>4. /\ FreshAsk(o.ask, server) /\ Whole(o.ask) /\ (page[p].dialog # None => o.dialog)
      /\ \A x \in acked : x.entry # o.ask.entry
  BY <1>1, Known DEF SlotCares, IInv
<1>5. \A x \in acked \cup Adds(o.ask) : x.entry \in server'[x.to]
  BY <1>1, <1>2, <1>4, WrittenStays DEF IInv, TypeOK, CInv, AcknowledgedStays
<1>6. AcknowledgedStays'
  BY <1>1, <1>5 DEF AcknowledgedStays
<1>7. SlotCares(new, page[p], server', acked', done')
  BY <1>1, <1>3, <1>4, <1>5, Known DEF SlotCares, IInv
<1>8. page[p].shown /\ Still(new) => page[p].config = server'
  BY <1>1, <1>3, Known DEF Still, Written, IInv
<1>. QED BY <1>1, <1>3, <1>6, <1>7, <1>8, Known, StepCares DEF IInv

LEMMA AnsweredCares ==
    ASSUME OnePage, IInv, CInv, NEW p \in Pages, NEW s \in Slots, Answered(p, s)
    PROVE  CInv'
<1> SUFFICES ASSUME careful PROVE CInv'
  BY DEF Answered, CInv
<1> DEFINE o == op[p][s]
           new == [o EXCEPT !.stage = "load"]
           conf == IF o.ask.kind \in {"add", "remove", "flag"} THEN o.seen ELSE page[p].config
           said == CASE o.ask.kind = "visitor" -> [to |-> o.ask.to, entry |-> o.ask.entry]
                     [] o.ask.kind = "other" -> page[p].msg
                     [] OTHER -> None
           row == [page[p] EXCEPT !.config = conf, !.msg = said]
<1>1. /\ o.stage = "answered" /\ o # IdleOp /\ server' = server /\ done' = done
      /\ op' = [op EXCEPT ![p][s] = new] /\ page' = [page EXCEPT ![p] = row]
      /\ acked' = acked \cup Learned(p, s)
  <2>1. op' = [op EXCEPT ![p][s] = new]
    BY DEF Answered, IInv, TypeOK
  <2>2. page' = [page EXCEPT ![p] = row]
    BY DEF Answered, IInv, TypeOK
  <2>3. o.stage = "answered" /\ o # IdleOp
    BY DEF Answered, IdleOp
  <2>. QED BY <2>1, <2>2, <2>3 DEF Answered
<1>2. new.stage = "load" /\ new.ask = o.ask /\ new.dialog = o.dialog /\ new # IdleOp
  BY Rows DEF IInv, Op, IdleOp
<1>3. /\ SlotCares(o, page[p], server, acked, done)
      /\ Adds(o.ask) \subseteq done /\ \A x \in Adds(o.ask) : x.entry \in server[x.to]
  BY <1>1, Known DEF SlotCares, IInv
<1>4. said # None => said \in done
  <2>1. CASE o.ask.kind = "visitor"
    BY <1>3, <2>1 DEF Adds
  <2>2. CASE o.ask.kind # "visitor"
    BY <1>1, <2>2, Known DEF IInv
  <2>. QED BY <2>1, <2>2
<1>5. o.ask.kind = "other" => conf = page[p].config
  OBVIOUS
<1> HIDE DEF conf, said
<1>6. /\ row.shown = page[p].shown /\ row.open = page[p].open /\ row.config = conf
      /\ row.dialog = page[p].dialog /\ row.msg = said
  BY DEF IInv, TypeOK, Page
<1> HIDE DEF new, row
<1>7. AcknowledgedStays'
  BY <1>1, <1>3 DEF AcknowledgedStays, CInv, Learned
<1>8. SlotCares(new, row, server', acked', done')
  BY <1>1, <1>2, <1>3, <1>6 DEF SlotCares
<1>9. row.shown /\ Still(new) => row.config = server'
  BY <1>1, <1>2, <1>5, <1>6, Known DEF Still, IInv
<1>. QED BY <1>1, <1>2, <1>4, <1>6, <1>7, <1>8, <1>9, Known, StepCares, ZenonT(60) DEF IInv

LEMMA EndedCares ==
    ASSUME OnePage, IInv, CInv, NEW p \in Pages, NEW s \in Slots, Ended(p, s)
    PROVE  CInv'
<1> SUFFICES ASSUME careful PROVE CInv'
  BY DEF Ended, CInv
<1> DEFINE o == op[p][s]
           row == [page[p] EXCEPT !.busy = FALSE]
<1>1. /\ o.stage = "answered" /\ o # IdleOp /\ o.ask.kind = "other" /\ ~o.dialog
      /\ server' = server /\ done' = done /\ acked' = acked
      /\ op' = [op EXCEPT ![p][s] = IdleOp] /\ page' = [page EXCEPT ![p] = row]
  BY DEF Ended, IInv, TypeOK, IdleOp
<1>2. /\ row.shown = page[p].shown /\ row.open = page[p].open /\ row.config = page[p].config
      /\ row.dialog = page[p].dialog /\ row.msg = page[p].msg
  BY DEF IInv, TypeOK, Page
<1> HIDE DEF row
<1>3. AcknowledgedStays'
  BY <1>1 DEF AcknowledgedStays, CInv
<1>. QED BY <1>1, <1>2, <1>3, IdleCares, Known, StepCares, ZenonT(60) DEF IInv

LEMMA ServeLoadCares ==
    ASSUME OnePage, IInv, CInv, NEW p \in Pages, NEW s \in Slots, ServeLoad(p, s)
    PROVE  CInv'
<1> SUFFICES ASSUME careful PROVE CInv'
  BY DEF ServeLoad, CInv
<1> DEFINE o == op[p][s]
           new == [o EXCEPT !.stage = "loaded", !.seen = server]
<1>1. /\ o.stage = "load" /\ o # IdleOp /\ server' = server /\ done' = done /\ acked' = acked
      /\ op' = [op EXCEPT ![p][s] = new] /\ page' = [page EXCEPT ![p] = page[p]]
  <2>1. op' = [op EXCEPT ![p][s] = new]
    BY DEF ServeLoad, IInv, TypeOK
  <2>2. o.stage = "load" /\ o # IdleOp
    BY DEF ServeLoad, IdleOp
  <2>. QED BY <2>1, <2>2, Rows DEF ServeLoad, IInv
<1>2. /\ new.stage = "loaded" /\ new.ask = o.ask /\ new.dialog = o.dialog /\ new.seen = server
      /\ new # IdleOp
  BY Rows DEF IInv, Op, IdleOp
<1> HIDE DEF new
<1>3. SlotCares(o, page[p], server, acked, done)
  BY <1>1, Known DEF IInv
<1>4. SlotCares(new, page[p], server', acked', done')
  BY <1>1, <1>2, <1>3 DEF SlotCares
<1>5. AcknowledgedStays'
  BY <1>1 DEF AcknowledgedStays, CInv
<1>6. page[p].shown /\ Still(new) => page[p].config = server'
  BY <1>1, <1>2, Known DEF Still, IInv
<1>. QED BY <1>1, <1>2, <1>4, <1>5, <1>6, Known, StepCares DEF IInv

LEMMA LoadedCares ==
    ASSUME OnePage, IInv, CInv, NEW p \in Pages, NEW s \in Slots, Loaded(p, s)
    PROVE  CInv'
<1> SUFFICES ASSUME careful PROVE CInv'
  BY DEF Loaded, CInv
<1> DEFINE o == op[p][s]
           said == Said(o.ask, page[p].msg)
           asks == IF o.dialog THEN None ELSE page[p].dialog
           busy == page[p].busy /\ o.ask.kind = "load"
           row == [page[p] EXCEPT !.shown = TRUE, !.config = o.seen, !.busy = busy,
                                  !.dialog = asks, !.msg = said]
<1>1. /\ o.stage = "loaded" /\ o # IdleOp /\ server' = server /\ done' = done /\ acked' = acked
      /\ op' = [op EXCEPT ![p][s] = IdleOp] /\ page' = [page EXCEPT ![p] = row]
  <2>1. page' = [page EXCEPT ![p] = row]
    BY DEF Loaded, IInv, TypeOK
  <2>2. o.stage = "loaded" /\ o # IdleOp
    BY DEF Loaded, IdleOp
  <2>. QED BY <2>1, <2>2 DEF Loaded
<1>2. Adds(o.ask) \subseteq done /\ o.seen = server
  BY <1>1, Known DEF SlotCares, IInv
<1>3. said # None => said \in done
  <2>1. CASE o.ask.kind = "add"
    BY <1>2, <2>1 DEF Adds, Said
  <2>2. CASE o.ask.kind # "add"
    BY <1>1, <2>2, Known DEF Said, IInv
  <2>. QED BY <2>1, <2>2
<1>4. asks = None
  BY <1>1, Known DEF IInv
<1> HIDE DEF said, asks, busy
<1>5. row.shown /\ row.open = page[p].open /\ row.config = o.seen /\ row.dialog = asks /\ row.msg = said
  BY DEF IInv, TypeOK, Page
<1> HIDE DEF row
<1>6. AcknowledgedStays'
  BY <1>1 DEF AcknowledgedStays, CInv
<1>. QED BY <1>1, <1>2, <1>3, <1>4, <1>5, <1>6, IdleCares, Known, StepCares, ZenonT(60) DEF IInv

\* Every step of a request.  No request of a careful page is given up, and a failure ends the care.
LEMMA RequestCares ==
    ASSUME OnePage, IInv, CInv, NEW p \in Pages, NEW s \in Slots, Step(p, s)
    PROVE  CInv'
<1>1. CASE ServeOrphan(p, s)
  <2>1. op[p][s] # IdleOp /\ op[p][s].stage = "orphan" /\ careful' = careful
    BY <1>1 DEF ServeOrphan, IdleOp
  <2>2. ~careful
    BY <2>1, Known DEF SlotCares, IInv
  <2>. QED BY <2>1, <2>2 DEF CInv
<1>2. CASE LoadFails(p, s) \/ Fails(p, s)
  BY <1>2 DEF LoadFails, Fails, CInv
<1>. QED
  BY <1>1, <1>2, ServeCares, AnsweredCares, EndedCares, ServeLoadCares, LoadedCares DEF Step

\* While one is careful, what the page knows and shows agrees with the server at every step.
LEMMA NextCares == OnePage /\ IInv /\ CInv /\ [Next]_vars => CInv'
<1> SUFFICES ASSUME OnePage, IInv, CInv, [Next]_vars PROVE CInv'
  OBVIOUS
<1>1. CASE UNCHANGED vars
  BY <1>1 DEF vars, CInv, AcknowledgedStays
<1>. QED BY <1>1, ClickStepCares, RequestCares DEF Next

LEMMA InitCares == Init => CInv
<1> SUFFICES ASSUME Init PROVE CInv
  OBVIOUS
<1>1. ASSUME NEW p \in Pages PROVE RowCares(page[p], op[p], server, acked, done)
  <2>1. page[p] = Closed /\ \A s \in Slots : op[p][s] = IdleOp
    BY DEF Init
  <2>2. Closed.shown = FALSE /\ Closed.dialog = None /\ Closed.msg = None
    BY DEF Closed
  <2>. QED BY <2>1, <2>2, IdleCares DEF RowCares
<1>. QED BY <1>1 DEF CInv, AcknowledgedStays, Init

\* CarefulLosesNothing of one page, for any number of requests, entries and operations: who does one
\* thing at a time and sees every answer loses no entry and is told what was done.  With a second
\* page it does not hold: its list may be old.
THEOREM CareIsEnough == OnePage => (Spec => []CarefulLosesNothing)
<1> SUFFICES ASSUME OnePage PROVE Spec => []CarefulLosesNothing
  OBVIOUS
<1>1. IInv /\ CInv /\ [Next]_vars => CInv'
  BY NextCares
<1>2. CInv => CarefulLosesNothing
  BY DEF CInv, CarefulLosesNothing, SaidIsDone, RowCares
<1>. QED BY <1>1, <1>2, InitCares, HeldListsAgree, PTL DEF Spec
================================================================================
