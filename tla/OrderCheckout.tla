--------------------------- MODULE OrderCheckout ---------------------------
(***************************************************************************)
(* From cart to order: guests' sessions (apps/orders/cart.py and views.py) *)
(* and the transaction of create_order (apps/orders/services.py) with      *)
(* next_order_number (numbering.py).                                       *)
(*                                                                         *)
(* A request works on a copy of its session, loaded when it starts and     *)
(* saved whole when it ends, if it changed it; the last save wins.  The    *)
(* transaction runs at READ COMMITTED: each statement sees what is         *)
(* committed by then, and an INSERT that meets an uncommitted row with the *)
(* same unique value waits for that row's transaction.  The only           *)
(* IntegrityError handler is Django's: rollback and a 500 answer.          *)
(***************************************************************************)
EXTENDS Naturals, FiniteSets

CONSTANTS
  Sessions,     \* guests' browser sessions
  Items,        \* menu items
  Lines,        \* bound: the cart line ids (uuid4) that may be drawn
  ItemOf,       \* the menu item of a line
  Keys,         \* bound: the idempotency keys (uuid4) that may be drawn
  NoKey,        \* no cart_idem in the session
  Requests,     \* slots for requests in flight
  MaxDay,       \* bound: the last day
  OneTab,       \* whether a guest waits for one page before asking for another
                \* (except to submit again: data-once guards the button only
                \* until the page is reloaded)
  ChipPolls,    \* whether the status chip's polls may find their order expired
                \* while the guest goes on
  MenuEdits,    \* what staff do to the menu: subset of {"off", "on", "gone"}
  Faults        \* whether broadcasts may fail and the server may be killed

ASSUME ItemAssumption  == ItemOf \in [Lines -> Items]
ASSUME KeyAssumption   == NoKey \notin Keys
ASSUME DayAssumption   == MaxDay \in Nat \ {0}
ASSUME ChoiceAssumption == /\ {OneTab, ChipPolls, Faults} \subseteq BOOLEAN
                           /\ MenuEdits \subseteq {"off", "on", "gone"}

VARIABLES
  orders,     \* committed orders
  session,    \* stored sessions
  shown,      \* sessions with a cart page open that has a submit button
  req,        \* requests in flight
  menu,       \* can_be_ordered of each item: "on", "off", or "gone" (deleted)
  today,      \* timezone.localdate()
  drawn,      \* uuids drawn so far
  announced,  \* <<number, key>> of the order.created events sent
  lost        \* (ghost) the same of those whose broadcast failed

vars == <<orders, session, shown, req, menu, today, drawn, announced, lost>>
-----------------------------------------------------------------------------
\* An order number YYYYMMDD-NNNN.
Number == Nat \X Nat
NoNumber == <<0, 0>>

Order == [number : Number, key : Keys, created : Nat, lines : SUBSET Lines,
          cart : SUBSET Lines]    \* cart (ghost): the cart it was made from

Session == [lines : SUBSET Lines, idem : Keys \cup {NoKey}, last : Number]
NewSession == [lines |-> {}, idem |-> NoKey, last |-> NoNumber]

\* copy is the request's session; todo has the lines that were loaded, in
\* create_order those still to insert; the rest is local to create_order.
Idle == [phase |-> "idle"]
Phases == {"save", "chip",                             \* changing the session
           "lookup", "count", "insert", "items", "commit",
           "respond", "error"}                         \* order_create
Active == [phase : Phases, session : Sessions, copy : Session,
           key : Keys \cup {NoKey}, number : Number, created : Nat,
           todo : SUBSET Lines, taken : SUBSET Lines]

TypeOK ==
  /\ orders \subseteq Order
  /\ session \in [Sessions -> Session]
  /\ shown \subseteq Sessions
  /\ req \in [Requests -> Active \cup {Idle}]
  /\ menu \in [Items -> {"on", "off", "gone"}]
  /\ today \in 1..MaxDay
  /\ drawn \subseteq Lines \cup Keys
  /\ announced \subseteq Number \X Keys
  /\ lost \subseteq Number \X Keys

Init ==
  /\ orders = {}
  /\ session = [s \in Sessions |-> NewSession]
  /\ shown = {}
  /\ req = [r \in Requests |-> Idle]
  /\ menu = [i \in Items |-> "on"]
  /\ today = 1
  /\ drawn = {}
  /\ announced = {}
  /\ lost = {}

InPhase(r, p) == req[r].phase = p
\* The pages s is waiting for; the chip is polled in the background.
Waiting(s) == {r \in Requests : /\ req[r] # Idle /\ ~InPhase(r, "chip")
                                /\ req[r].session = s}

Begin(r, s, phase, copy, key) ==
  req' = [req EXCEPT ![r] =
            [phase |-> phase, session |-> s, copy |-> copy, key |-> key,
             number |-> NoNumber, created |-> 0,
             todo |-> session[s].lines, taken |-> {}]]
Finish(r) == req' = [req EXCEPT ![r] = Idle]
-----------------------------------------------------------------------------
(***************************************************************************)
(* Requests that change the session.  Each loads it, changes its copy, and *)
(* saves that in a later step.                                             *)
(***************************************************************************)

\* The page a guest leaves by asking for another; other tabs stay.
Leave(s) == shown' = IF OneTab THEN shown \ {s} ELSE shown

CartRequest(r, s, copy, key) ==
  /\ req[r] = Idle
  /\ OneTab => Waiting(s) = {}
  /\ Begin(r, s, "save", copy, key)
  /\ Leave(s)
  /\ UNCHANGED <<orders, session, menu, today, announced, lost>>

\* The cart page has the submit button if a line's item still exists.
HasButton(s) == \E l \in session[s].lines : menu[ItemOf[l]] # "gone"

\* cart_detail of a session without a key: one is drawn and saved.
CartDetail(r, s) ==
  \E k \in Keys \ drawn :
    /\ session[s].idem = NoKey
    /\ CartRequest(r, s, [session[s] EXCEPT !.idem = k],
                   IF HasButton(s) THEN k ELSE NoKey)
    /\ drawn' = drawn \cup {k}

\* cart_detail of a session with one: nothing is saved.
CartDetailAgain(s) ==
  /\ session[s].idem # NoKey
  /\ OneTab => \A r \in Waiting(s) : ~InPhase(r, "save")
  /\ HasButton(s)
  /\ s \notin shown
  /\ shown' = shown \cup {s}
  /\ UNCHANGED <<orders, session, req, menu, today, drawn, announced, lost>>

\* The last order has been closed for long: guest_menu and order_chip (polled)
\* forget it.
LastOrderExpires(r, s) ==
  LET copy == [session[s] EXCEPT !.last = NoNumber]
  IN /\ session[s].last # NoNumber
     /\ \/ CartRequest(r, s, copy, NoKey)
        \/ /\ ChipPolls
           /\ req[r] = Idle
           /\ Begin(r, s, "chip", copy, NoKey)
           /\ UNCHANGED <<orders, session, shown, menu, today, announced, lost>>
     /\ UNCHANGED drawn

\* cart_add; with edit_line it also removes the line it replaces.
CartAdd(r, s) ==
  \E l \in Lines \ drawn, edited \in SUBSET session[s].lines :
    /\ menu[ItemOf[l]] = "on"
    /\ Cardinality(edited) <= 1
    /\ CartRequest(r, s, [session[s] EXCEPT !.lines = (@ \cup {l}) \ edited], NoKey)
    /\ drawn' = drawn \cup {l}

\* cart_remove, and cart_update, which saves the same lines.
CartChange(r, s) ==
  \E l \in session[s].lines, keep \in BOOLEAN :
    /\ CartRequest(r, s, [session[s] EXCEPT
                            !.lines = IF keep THEN @ ELSE @ \ {l}], NoKey)
    /\ UNCHANGED drawn
-----------------------------------------------------------------------------
(***************************************************************************)
(* order_create.  A submit answered before create_order (empty cart, rate  *)
(* limit, an item validate_for_checkout finds unavailable) changes nothing *)
(* here, so it is not a step.                                              *)
(***************************************************************************)

\* The session's key, or a fresh uuid when it has none.
SubmitKeys(s) == IF session[s].idem # NoKey THEN {session[s].idem}
                                            ELSE Keys \ drawn

\* The submit button is on an open cart page.
MaySubmit(s) ==
  /\ s \in shown
  /\ OneTab => \A r \in Waiting(s) : ~InPhase(r, "save")

Submit(r, s) ==
  \E k \in SubmitKeys(s) :
    /\ req[r] = Idle
    /\ MaySubmit(s)
    /\ session[s].lines # {}
    /\ \A l \in session[s].lines : menu[ItemOf[l]] # "off"
    /\ Begin(r, s, "lookup", session[s], k)
    /\ drawn' = drawn \cup {k}
    /\ UNCHANGED <<orders, session, shown, menu, today, announced, lost>>

\* The idempotency lookup: an order with the key is the answer, whatever is
\* in the cart now.
Lookup(r) ==
  /\ InPhase(r, "lookup")
  /\ \/ \E o \in orders :
          /\ o.key = req[r].key
          /\ req' = [req EXCEPT ![r].phase = "respond", ![r].number = o.number]
     \/ /\ \A o \in orders : o.key # req[r].key
        /\ req' = [req EXCEPT ![r].phase = "count"]
  /\ UNCHANGED <<orders, session, shown, menu, today, drawn, announced, lost>>

next_order_number ==
  <<today, Cardinality({o \in orders : o.created = today}) + 1>>

Count(r) ==
  /\ InPhase(r, "count")
  /\ req' = [req EXCEPT ![r].phase = "insert", ![r].number = next_order_number]
  /\ UNCHANGED <<orders, session, shown, menu, today, drawn, announced, lost>>

\* (mutant) a schema without the unique constraint on idempotency_key
SameUnique_NumberOnly(a, b) == a.number = b.number
\* Two rows clash on order_number or on idempotency_key.
SameUnique(a, b) == a.number = b.number \/ a.key = b.key

HoldsRow(q) == req[q].phase \in {"items", "commit"}

\* (mutant) created_at dated by another time zone than localdate
Insert_OtherZone(r) ==
  /\ InPhase(r, "insert")
  /\ \A q \in Requests : HoldsRow(q) => ~SameUnique(req[q], req[r])
  /\ \A o \in orders : ~SameUnique(o, req[r])
  /\ req' = [req EXCEPT ![r].phase = "items", ![r].created = today - 1]
  /\ UNCHANGED <<orders, session, shown, menu, today, drawn, announced, lost>>

\* Order.objects.create: waits for an uncommitted row it clashes with.
Insert(r) ==
  /\ InPhase(r, "insert")
  /\ \A q \in Requests : HoldsRow(q) => ~SameUnique(req[q], req[r])
  /\ \A o \in orders : ~SameUnique(o, req[r])
  /\ req' = [req EXCEPT ![r].phase = "items", ![r].created = today]
  /\ UNCHANGED <<orders, session, shown, menu, today, drawn, announced, lost>>

\* (mutant) a refused INSERT is tried again, with the same number
Refuse_Retried(r) ==
  /\ InPhase(r, "insert")
  /\ \E o \in orders : SameUnique(o, req[r])
  /\ UNCHANGED vars

\* IntegrityError: nobody catches it.
Refuse(r) ==
  /\ InPhase(r, "insert")
  /\ \E o \in orders : SameUnique(o, req[r])
  /\ req' = [req EXCEPT ![r].phase = "error"]
  /\ UNCHANGED <<orders, session, shown, menu, today, drawn, announced, lost>>

TakeLine(r, l) ==
  /\ InPhase(r, "items")
  /\ l \in req[r].todo
  /\ menu[ItemOf[l]] = "on"
  /\ req' = [req EXCEPT ![r].todo = @ \ {l}, ![r].taken = @ \cup {l}]
  /\ UNCHANGED <<orders, session, shown, menu, today, drawn, announced, lost>>

\* (mutant) a line that became unavailable is left out of the order
LineUnavailable_Skipped(r, l) ==
  /\ InPhase(r, "items")
  /\ l \in req[r].todo
  /\ menu[ItemOf[l]] = "off"
  /\ req' = [req EXCEPT ![r].todo = @ \ {l}]
  /\ UNCHANGED <<orders, session, shown, menu, today, drawn, announced, lost>>

\* OrderValidationError: rollback, and back to the cart with a message.
LineUnavailable(r, l) ==
  /\ InPhase(r, "items")
  /\ l \in req[r].todo
  /\ menu[ItemOf[l]] = "off"
  /\ Finish(r)
  /\ UNCHANGED <<orders, session, shown, menu, today, drawn, announced, lost>>

\* MenuItem.DoesNotExist: validate_for_checkout skips lines without an item,
\* create_order does not, and nobody catches this either.
LineGone(r, l) ==
  /\ InPhase(r, "items")
  /\ l \in req[r].todo
  /\ menu[ItemOf[l]] = "gone"
  /\ req' = [req EXCEPT ![r].phase = "error"]
  /\ UNCHANGED <<orders, session, shown, menu, today, drawn, announced, lost>>

\* (mutant) _notify is forgotten
Announce_Forgotten(r) ==
  /\ InPhase(r, "items")
  /\ req[r].todo = {}
  /\ req' = [req EXCEPT ![r].phase = "commit"]
  /\ UNCHANGED <<orders, session, shown, menu, today, drawn, announced, lost>>

\* All lines are in: totals, the first history entry, and _notify, which runs
\* before the transaction commits and swallows its exceptions.
Announce(r) ==
  LET event == <<req[r].number, req[r].key>>
  IN /\ InPhase(r, "items")
     /\ req[r].todo = {}
     /\ req' = [req EXCEPT ![r].phase = "commit"]
     /\ \/ announced' = announced \cup {event} /\ UNCHANGED lost
        \/ Faults /\ lost' = lost \cup {event} /\ UNCHANGED announced
     /\ UNCHANGED <<orders, session, shown, menu, today, drawn>>

\* (mutant) answered without the commit
Commit_Missing(r) ==
  /\ InPhase(r, "commit")
  /\ req' = [req EXCEPT ![r].phase = "respond"]
  /\ UNCHANGED <<orders, session, shown, menu, today, drawn, announced, lost>>

\* Django's foreign keys are deferred: only COMMIT looks whether the items of the
\* inserted lines are there.
ItemsThere(r) == \A l \in req[r].taken : menu[ItemOf[l]] # "gone"

Commit(r) ==
  /\ InPhase(r, "commit")
  /\ ItemsThere(r)
  /\ orders' = orders \cup {[number |-> req[r].number, key |-> req[r].key,
                             created |-> req[r].created,
                             lines |-> req[r].taken,
                             cart |-> req[r].copy.lines]}
  /\ req' = [req EXCEPT ![r].phase = "respond"]
  /\ UNCHANGED <<session, shown, menu, today, drawn, announced, lost>>

\* IntegrityError at COMMIT: rollback, with the order announced already.
CommitRefused(r) ==
  /\ InPhase(r, "commit")
  /\ ~ItemsThere(r)
  /\ req' = [req EXCEPT ![r].phase = "error"]
  /\ UNCHANGED <<orders, session, shown, menu, today, drawn, announced, lost>>

\* (mutant) the cart is not cleared
Emptied_CartKept(r) ==
  [NewSession EXCEPT !.last = req[r].number, !.lines = req[r].copy.lines]
\* The session a successful order_create leaves.
Emptied(r) == [NewSession EXCEPT !.last = req[r].number]

\* The session is saved at the end of a request, if it answers no 500, and the
\* cart page or the menu is shown.
SaveSession(r) ==
  LET s == req[r].session
  IN /\ \/ /\ req[r].phase \in {"save", "chip"}
           /\ session' = [session EXCEPT ![s] = req[r].copy]
           /\ shown' = IF req[r].key # NoKey THEN shown \cup {s} ELSE shown
        \/ /\ InPhase(r, "respond")
           /\ session' = [session EXCEPT ![s] = Emptied(r)]
           /\ Leave(s)
     /\ Finish(r)
     /\ UNCHANGED <<orders, menu, today, drawn, announced, lost>>

ServerError(r) ==
  /\ InPhase(r, "error")
  /\ Finish(r)
  /\ UNCHANGED <<orders, session, shown, menu, today, drawn, announced, lost>>
-----------------------------------------------------------------------------
\* Staff edit the menu.  Committed order_items protect their item from deletion;
\* those of a transaction under way lock nothing.
EditMenu(i, state) ==
  /\ state \in MenuEdits
  /\ menu[i] \notin {state, "gone"}
  /\ state = "gone" =>
       \A o \in orders : \A l \in o.lines : ItemOf[l] # i
  /\ menu' = [menu EXCEPT ![i] = state]
  /\ UNCHANGED <<orders, session, shown, req, today, drawn, announced, lost>>

NextDay ==
  /\ today < MaxDay
  /\ today' = today + 1
  /\ UNCHANGED <<orders, session, shown, req, menu, drawn, announced, lost>>

Crash ==
  /\ Faults
  /\ req' = [r \in Requests |-> Idle]
  /\ UNCHANGED <<orders, session, shown, menu, today, drawn, announced, lost>>

Guest(r, s) == \/ CartDetail(r, s) \/ CartAdd(r, s) \/ CartChange(r, s)
               \/ LastOrderExpires(r, s) \/ Submit(r, s)

CreateOrder(r) ==
  \/ Lookup(r) \/ Count(r) \/ Insert(r) \/ Refuse(r)
  \/ \E l \in Lines : TakeLine(r, l) \/ LineUnavailable(r, l) \/ LineGone(r, l)
  \/ Announce(r) \/ Commit(r) \/ CommitRefused(r)

Next == \/ \E r \in Requests, s \in Sessions : Guest(r, s)
        \/ \E s \in Sessions : CartDetailAgain(s)
        \/ \E r \in Requests : CreateOrder(r) \/ SaveSession(r) \/ ServerError(r)
        \/ \E i \in Items, state \in {"on", "off", "gone"} : EditMenu(i, state)
        \/ NextDay
        \/ Crash

Spec == Init /\ [][Next]_vars

\* Every request thread runs on; the database wakes the one waiter an aborted
\* row leaves (SF for the INSERT).
Fairness ==
  \A r \in Requests :
    /\ WF_vars(CreateOrder(r) \/ SaveSession(r) \/ ServerError(r))
    /\ SF_vars(Insert(r))

FairSpec == Spec /\ Fairness
-----------------------------------------------------------------------------
(***************************************************************************)
(* Properties.                                                             *)
(***************************************************************************)

\* Whatever creators race, no two committed orders have one number or one
\* idempotency key.
UniqueOrders ==
  \A o, p \in orders : o.number = p.number \/ o.key = p.key => o = p

\* The number next_order_number would answer is free: numbering by counting
\* never gets stuck on a number already used, not even when orders are being
\* created over midnight.  (Stuck, it would refuse every order of the day.)
NextNumberFree == \A o \in orders : o.number # next_order_number

\* An order has a line for each cart line of the session that submitted it,
\* and at least one: what becomes unavailable half-way stops the whole order.
WholeCart == \A o \in orders : o.lines = o.cart /\ o.lines # {}

\* A guest who orders in one tab, double clicks, retries after a 500 or after
\* a crash, never gets a cart line into two orders.
LineOrderedOnce ==
  \A o, p \in orders : o # p => o.lines \cap p.lines = {}

\* A guest is sent to the status of an order only if it is committed, and with
\* the key they submitted.
AnsweredOrderExists ==
  /\ \A r \in Requests : InPhase(r, "respond") =>
       \E o \in orders : o.number = req[r].number /\ o.key = req[r].key
  /\ \A s \in Sessions : session[s].last # NoNumber =>
       \E o \in orders : o.number = session[s].last

\* Staff screens are told of each committed order, unless the broadcast failed.
EveryOrderAnnounced ==
  \A o \in orders : <<o.number, o.key>> \in announced \cup lost

\* No submit waits for ever for another one's row.
SubmitAnswered ==
  \A r \in Requests : InPhase(r, "lookup") ~> InPhase(r, "idle")

\* cart_add: "Pridané do košíka" (added to the cart).  A request that saves its
\* session drops lines only by replacing, removing or ordering what it loaded:
\* a line that another request added meanwhile stays.
AddedLinesStay ==
  [][\A r \in Requests :
       LET s == req[r].session
       IN req[r] # Idle /\ req'[r] = Idle =>
            session[s].lines \subseteq
              session'[s].lines \cup req[r].copy.lines \cup req[r].todo]_vars
=============================================================================
