----------------------------- MODULE GuestVisit -----------------------------
(***************************************************************************)
(* What a guest's phone remembers of a visit: the table it is bound to by  *)
(* a QR code (apps/tables, _get_table of apps/menu and apps/orders) and    *)
(* the chip with the state of its last order (guest_menu, order_chip,      *)
(* status_chip_visible, static/js/app.js), while staff switch tables, make *)
(* new codes and close orders.                                             *)
(*                                                                         *)
(* One session, several tabs; a tab has a page on the way and, besides it, *)
(* a poll of its chip.  A request loads a copy of the session, reads the   *)
(* database, changes its copy, and the middleware saves the whole copy     *)
(* over whatever was saved since.  It can die between any two steps.       *)
(* The newest order is the one whose submit saved the session last; a      *)
(* closed order is not opened again here (OrderAdmin has that).            *)
(***************************************************************************)
EXTENDS Integers, FiniteSets

CONSTANTS
  Tables, NoTable,
  Tabs,
  Orders, NoOrder,
  RESET,        \* order_status_reset_minutes, in ticks of the clock
  MaxTime,      \* bound: the last tick
  MaxToken,     \* bound: new codes made for a table
  MaxRequests   \* bound: requests on the way at a time

ASSUME NamesAssumption == NoTable \notin Tables /\ NoOrder \notin Orders
ASSUME TimeAssumption == {RESET, MaxTime, MaxToken, MaxRequests} \subseteq Nat

VARIABLES
  now,
  table,    \* rows of DiningTable; a token is numbered as it was made
  session,  \* table_id and last_order (table_token is never read)
  tab,      \* the menu page in each tab: its chip and its badge
  order,    \* rows of the guest's orders
  req,      \* the requests on the way
  newest,   \* (ghost) the order of the submit that saved the session last
  bound     \* (ghost) the table of the scan that saved it last

vars == <<now, table, session, tab, order, req, newest, bound>>

PageOf(k) == <<k, "page">>
PollOf(k) == <<k, "poll">>
Slots == Tabs \X {"page", "poll"}

AnyTable == Tables \cup {NoTable}
AnyOrder == Orders \cup {NoOrder}

\* missed (ghost): saved by another request after this copy was loaded.
Session == [table : AnyTable, last : AnyOrder, missed : SUBSET {"order", "scan"}]

\* kind is the view, at how far it got: "begun" before it loads the session,
\* "loaded", "table" after _get_table, "save" before the middleware, "answer"
\* after it.  table is what it found or scanned; order what it made, shows or
\* polls; badge what the page of a submit shows; here, of a poll, that its page
\* is still there.  moved (ghost): since the page was made, or the session of a
\* page loaded, the session was bound to another table or a table was edited.
Kinds == {"none", "menu", "submit", "cart", "scan", "chip"}
Request == [kind : Kinds, at : {"begun", "loaded", "table", "save", "answer"},
            copy : Session, table : AnyTable, order : AnyOrder, badge : AnyTable,
            here : BOOLEAN, moved : BOOLEAN]

NoCopy == [table |-> NoTable, last |-> NoOrder, missed |-> {}]
Idle == [kind |-> "none", at |-> "begun", copy |-> NoCopy, table |-> NoTable,
         order |-> NoOrder, badge |-> NoTable, here |-> TRUE, moved |-> FALSE]

\* A request that has a copy of the session it may still use.
Holds(q) == q.at \in {"loaded", "table", "save"}

NoRow == [state |-> "none"]
Open == [state |-> "open"]
Never == -1

\* stamp is served_at or cancelled_at; since (ghost) is when it was closed.
Closed == [state : {"closed"}, stamp : {Never} \cup 0..MaxTime,
           updated : 0..MaxTime, since : 0..MaxTime]

Page == [chip : AnyOrder, badge : AnyTable, moved : BOOLEAN]

TypeOK ==
  /\ now \in 0..MaxTime
  /\ table \in [Tables -> [token : 0..MaxToken, active : BOOLEAN]]
  /\ session \in Session
  /\ tab \in [Tabs -> Page]
  /\ order \in [Orders -> Closed \cup {NoRow, Open}]
  /\ \A o \in Orders : order[o].state = "closed" =>
       /\ order[o].since <= order[o].updated /\ order[o].updated <= now
       /\ order[o].stamp \in {Never, order[o].since}
  /\ req \in [Slots -> Request]
  /\ newest \in AnyOrder /\ bound \in AnyTable

Init ==
  /\ now = 0
  /\ table = [t \in Tables |-> [token |-> 0, active |-> TRUE]]
  /\ session = NoCopy
  /\ tab = [k \in Tabs |-> [chip |-> NoOrder, badge |-> NoTable, moved |-> FALSE]]
  /\ order = [o \in Orders |-> NoRow]
  /\ req = [r \in Slots |-> Idle]
  /\ newest = NoOrder /\ bound = NoTable
-----------------------------------------------------------------------------
(***************************************************************************)
(* A request.                                                              *)
(***************************************************************************)

\* q is sent, or gets its first answer from the database.
Begin(r, q) ==
  /\ req[r] = Idle
  /\ Cardinality({s \in Slots : req[s] # Idle}) < MaxRequests
  /\ req' = [req EXCEPT ![r] = q]
  /\ UNCHANGED <<now, table, session, tab, order, newest, bound>>

\* The session is loaded when the view looks at it first.
Loaded(kind) == [Idle EXCEPT !.kind = kind, !.at = "loaded", !.copy = session]

\* What q does to the session, and (ghost) what others have missed then.
Event(q) == CASE q.kind = "submit" -> {"order"} [] q.kind = "scan" -> {"scan"} [] OTHER -> {}

\* A plausible bug: the session of a guest who ordered is started anew.
Written_Anew(q) ==
  [table |-> IF q.kind = "scan" THEN q.table
             ELSE IF q.kind = "submit" THEN NoTable ELSE q.copy.table,
   last |-> IF q.kind = "submit" THEN q.order ELSE q.copy.last,
   missed |-> q.copy.missed \ Event(q)]

\* The session as q leaves it: last_order of an order_create, table_id of a
\* table_menu, and for the rest the copy it loaded.
Written(q) ==
  [table |-> IF q.kind = "scan" THEN q.table ELSE q.copy.table,
   last |-> IF q.kind = "submit" THEN q.order ELSE q.copy.last,
   missed |-> q.copy.missed \ Event(q)]

\* A request after another one with these events saved.
Overtaken(q, events, rebound) ==
  [q EXCEPT !.copy.missed = IF Holds(q) THEN @ \cup events ELSE @,
            !.moved = @ \/ (rebound /\ q.kind \in {"menu", "submit"})]

\* The middleware saves the whole copy.  Only the menu and the chip have an
\* answer that changes a page; the others answer with a redirect.
Save(r) ==
  LET q == req[r]
      rebound == Written(q).table # session.table
      left == IF q.kind \in {"menu", "chip"} THEN [q EXCEPT !.at = "answer", !.copy = NoCopy]
              ELSE Idle
  IN  /\ q.at = "save"
      /\ session' = Written(q)
      /\ req' = [s \in Slots |-> Overtaken(IF s = r THEN left ELSE req[s], Event(q), rebound)]
      /\ tab' = [k \in Tabs |-> [tab[k] EXCEPT !.moved = @ \/ rebound]]
      /\ newest' = IF q.kind = "submit" THEN q.order ELSE newest
      /\ bound' = IF q.kind = "scan" THEN q.table ELSE bound
      /\ UNCHANGED <<now, table, order>>

\* A 500, a refusal, a worker that is killed, or nobody waits for the answer.
Fail(r) ==
  /\ req[r] # Idle
  /\ req' = [req EXCEPT ![r] = Idle]
  /\ UNCHANGED <<now, table, session, tab, order, newest, bound>>

Advances(r, q) ==
  /\ req' = [req EXCEPT ![r] = q]
  /\ UNCHANGED <<now, table, session, tab, newest, bound>>
-----------------------------------------------------------------------------
(***************************************************************************)
(* The table.                                                              *)
(***************************************************************************)

\* A plausible bug: the session keeps its table although it was switched off.
_get_table_InactiveToo(copy) == copy.table

\* Of a table that is switched off the session keeps the id and nobody hears.
_get_table(copy) ==
  IF copy.table # NoTable /\ table[copy.table].active THEN copy.table ELSE NoTable

\* The same function of apps/menu/views.py, for the badge.
MenuTable(copy) ==
  IF copy.table # NoTable /\ table[copy.table].active THEN copy.table ELSE NoTable

FindTable(r) ==
  LET q == req[r]
  IN  /\ q.at = "loaded"
      /\ Advances(r, [q EXCEPT
           !.at = "table",
           !.table = IF q.kind = "menu" THEN MenuTable(q.copy) ELSE _get_table(q.copy),
           !.moved = IF q.kind = "menu" THEN q.copy.table # session.table ELSE @])
      /\ UNCHANGED order

\* table_menu.  A refused scan (404, 410) leaves the session as it was.
Scan(k, t, token) ==
  /\ token = table[t].token
  /\ table[t].active
  /\ Begin(PageOf(k), [Idle EXCEPT !.kind = "scan", !.table = t])

Bind(r) ==
  /\ req[r].kind = "scan" /\ req[r].at = "begun"
  /\ Advances(r, [req[r] EXCEPT !.at = "save", !.copy = session])
  /\ UNCHANGED order

EditTable(t, row) ==
  /\ row # table[t]
  /\ table' = [table EXCEPT ![t] = row]
  /\ tab' = [k \in Tabs |-> [tab[k] EXCEPT !.moved = TRUE]]
  /\ req' = [r \in Slots |-> Overtaken(req[r], {}, TRUE)]
  /\ UNCHANGED <<now, session, order, newest, bound>>

activate_tables(t) == EditTable(t, [table[t] EXCEPT !.active = TRUE])
deactivate_tables(t) == EditTable(t, [table[t] EXCEPT !.active = FALSE])
regenerate_token(t) ==
  /\ table[t].token < MaxToken
  /\ EditTable(t, [table[t] EXCEPT !.token = @ + 1])
-----------------------------------------------------------------------------
(***************************************************************************)
(* Orders.                                                                 *)
(***************************************************************************)

\* The submit of a tab; cart, key and number are left out.
order_create(k) ==
  Begin(PageOf(k), [Loaded("submit") EXCEPT !.badge = tab[k].badge, !.moved = tab[k].moved])

\* The order is in the database, and last_order is not yet in the session.
Commit(r, o) ==
  /\ req[r].kind = "submit" /\ req[r].at = "table"
  /\ order[o] = NoRow
  /\ order' = [order EXCEPT ![o] = Open]
  /\ Advances(r, [req[r] EXCEPT !.at = "save", !.order = o])

\* A request about the cart, which saves the rest of the session with it.
cart_request(k) == Begin(PageOf(k), [Loaded("cart") EXCEPT !.at = "save"])

Stamped(row) == [row EXCEPT !.stamp = now, !.updated = now]
ClosedNow == [state |-> "closed", stamp |-> Never, updated |-> now, since |-> now]

\* Closing ends early enough for the chip's window to pass within MaxTime.
RowSaved(o, row) ==
  /\ now + RESET <= MaxTime
  /\ order' = [order EXCEPT ![o] = row]
  /\ UNCHANGED <<now, table, session, tab, req, newest, bound>>

\* mark_order_served, cancel_order, reject_order.
Close(o) == order[o] = Open /\ RowSaved(o, Stamped(ClosedNow))

\* The admin site closes an order without a stamp, and saves one again.
AdminClose(o) == order[o] = Open /\ RowSaved(o, ClosedNow)
AdminSave(o) ==
  order[o].state = "closed" /\ RowSaved(o, [order[o] EXCEPT !.updated = now])
-----------------------------------------------------------------------------
(***************************************************************************)
(* The chip.                                                               *)
(***************************************************************************)

\* A plausible bug: only the stamps are looked at.
status_chip_visible_StampOnly(o) ==
  order[o].state = "closed" /\ order[o].stamp # Never => now - order[o].stamp < RESET

status_chip_visible(o) ==
  order[o].state = "closed" =>
    now - (IF order[o].stamp # Never THEN order[o].stamp ELSE order[o].updated) < RESET

\* The rest of a request whose copy is now this one: it is saved if it changed.
Leaves(r, copy, old, o) ==
  Advances(r, [req[r] EXCEPT !.order = o,
                             !.copy = IF copy = old THEN NoCopy ELSE copy,
                             !.at = IF copy = old THEN "answer" ELSE "save"])

guest_menu(k) == Begin(PageOf(k), Loaded("menu"))

\* guest_menu: the chip of the session's last order, or none any more.
Look(r) ==
  LET copy == req[r].copy
      chip == IF copy.last # NoOrder /\ status_chip_visible(copy.last)
              THEN copy.last ELSE NoOrder
  IN  /\ req[r].kind = "menu" /\ req[r].at = "table"
      /\ Leaves(r, [copy EXCEPT !.last = chip], copy, chip)
      /\ UNCHANGED order

\* The page of a tab is made anew: a poll of the old one has no chip to remove.
Show(k) ==
  LET q == req[PageOf(k)]
  IN  /\ q.kind = "menu" /\ q.at = "answer"
      /\ tab' = [tab EXCEPT ![k] = [chip |-> q.order, badge |-> q.table, moved |-> q.moved]]
      /\ req' = [req EXCEPT ![PageOf(k)] = Idle,
                            ![PollOf(k)].here = @ /\ req[PollOf(k)] = Idle]
      /\ UNCHANGED <<now, table, session, order, newest, bound>>

\* order_chip, as the timer or a push of a tab calls it, for an order whose time
\* is up; of any other it changes nothing.
order_chip(k) ==
  /\ tab[k].chip # NoOrder
  /\ ~status_chip_visible(tab[k].chip)
  /\ Begin(PollOf(k), [Idle EXCEPT !.kind = "chip", !.order = tab[k].chip])

\* A plausible bug: whatever the session remembers is forgotten.
Forgotten_Any(o) == [session EXCEPT !.last = NoOrder]

\* The session after order_chip told that the chip of o goes.
Forgotten(o) == IF session.last = o THEN [session EXCEPT !.last = NoOrder] ELSE session

\* The order was looked up before; the session is loaded now.
Forget(r) ==
  /\ req[r].kind = "chip" /\ req[r].at = "begun"
  /\ Leaves(r, Forgotten(req[r].order), session, req[r].order)
  /\ UNCHANGED order

\* An empty answer takes the chip off the page.
ChipGone(k) ==
  LET q == req[PollOf(k)]
  IN  /\ q.kind = "chip" /\ q.at = "answer"
      /\ tab' = IF q.here THEN [tab EXCEPT ![k].chip = NoOrder] ELSE tab
      /\ req' = [req EXCEPT ![PollOf(k)] = Idle]
      /\ UNCHANGED <<now, table, session, order, newest, bound>>

Tick ==
  /\ now < MaxTime
  /\ now' = now + 1
  /\ UNCHANGED <<table, session, tab, order, req, newest, bound>>
-----------------------------------------------------------------------------
Phone ==
  \E k \in Tabs :
    \/ \E t \in Tables : \E token \in 0..MaxToken : Scan(k, t, token)
    \/ guest_menu(k) \/ order_create(k) \/ cart_request(k) \/ order_chip(k)
    \/ Show(k) \/ ChipGone(k)

Server ==
  \E r \in Slots :
    \/ FindTable(r) \/ Bind(r) \/ Look(r) \/ Forget(r) \/ Save(r) \/ Fail(r)
    \/ \E o \in Orders : Commit(r, o)

Staff ==
  \/ \E t \in Tables : activate_tables(t) \/ deactivate_tables(t) \/ regenerate_token(t)
  \/ \E o \in Orders : Close(o) \/ AdminClose(o) \/ AdminSave(o)

Next == Phone \/ Server \/ Staff \/ Tick

Spec == Init /\ [][Next]_vars

\* The clock goes on, the timer of every page fires (setInterval), and of polls
\* sent again and again not all fail.  Staff and guest need not do anything.
Fairness ==
  /\ WF_vars(Tick)
  /\ \A k \in Tabs :
       /\ WF_vars(order_chip(k))
       /\ SF_vars(Forget(PollOf(k))) /\ SF_vars(Save(PollOf(k))) /\ SF_vars(ChipGone(k))
-----------------------------------------------------------------------------
(***************************************************************************)
(* Properties.                                                             *)
(***************************************************************************)

\* An order goes to the table that the page told the guest, unless the session
\* was bound to another table or a table edited since, although page and order
\* each look it up with a function of their own, in a copy of their own.
TableAsShown ==
  \A r \in Slots :
    LET q == req[r]
    IN  q.kind = "submit" /\ q.at \in {"table", "save"} /\ ~q.moved => q.table = q.badge

\* The chip's time: "Open orders always show.  Closed orders keep showing for
\* reset_minutes after closure" (status_chip_visible).
Recent ==
  newest # NoOrder /\ (order[newest].state = "closed" => now - order[newest].since < RESET)

\* Only a request that loaded its session before a submit saved the newest order,
\* and saved it after that, takes the order from the session before its time:
\* no page, no chip of an older order and no cart request does that otherwise.
ChipKept == Recent /\ "order" \notin session.missed => session.last = newest

\* Likewise of the table of the last scan: orders, pages, chips and carts leave
\* it, but one that was on its way during the scan takes it away again.
ScanKept == "scan" \notin session.missed => session.table = bound

\* A closed order's chip leaves every page in the end without a reload ("the
\* client then removes the chip without a reload", order_chip), even if the
\* order was closed past the services, which leaves no stamp.
ChipGoes ==
  \A k \in Tabs : \A o \in Orders :
    (tab[k].chip = o /\ order[o].state = "closed") ~> (tab[k].chip # o)
=============================================================================
