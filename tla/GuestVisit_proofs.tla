--------------------------- MODULE GuestVisit_proofs ---------------------------
(***************************************************************************)
(* What a guest's phone remembers, for any number of tabs, tables, orders  *)
(* and requests on the way, and however long an order's chip stays.        *)
(***************************************************************************)
EXTENDS GuestVisit, TLAPS

LEMMA Bounds == RESET \in Nat /\ MaxTime \in Nat /\ MaxToken \in Nat
BY TimeAssumption

USE NamesAssumption, Bounds

\* A copy of the session that has missed nothing has the newest order, if its
\* time is not up, and the table of the last scan.
SessionRight(copy) ==
  /\ Recent /\ "order" \notin copy.missed => copy.last = newest
  /\ "scan" \notin copy.missed => copy.table = bound

\* The time of an order's chip is up, and stays so.
Expired(o) == order[o].state = "closed" /\ ~(now - order[o].since < RESET)

\* What is shown since nothing moved is what the session says now.
PageRight(page) == ~page.moved => page.badge = MenuTable(session)

ShownRight(q) ==
  /\ q.kind = "menu" /\ q.at \in {"table", "save", "answer"} /\ ~q.moved
       => q.table = MenuTable(session)
  /\ q.kind = "submit" /\ Holds(q) /\ ~q.moved
       => /\ q.badge = MenuTable(session) /\ q.copy.table = session.table
          /\ q.at # "loaded" => q.table = q.badge

RequestRight(q) ==
  /\ Holds(q) => SessionRight(q.copy)
  /\ ShownRight(q)
  /\ q.kind = "chip" /\ q.at = "begun" => q.order \in Orders /\ Expired(q.order)

Rights == /\ SessionRight(session)
          /\ \A k \in Tabs : PageRight(tab[k])
          /\ \A r \in Slots : RequestRight(req[r])

IInv == TypeOK /\ Rights
-----------------------------------------------------------------------------
(***************************************************************************)
(* Types.                                                                  *)
(***************************************************************************)
LEMMA SlotTypes == \A k \in Tabs : /\ PageOf(k) \in Slots /\ PollOf(k) \in Slots
                                   /\ PageOf(k) # PollOf(k)
BY DEF PageOf, PollOf, Slots

LEMMA IdleType == Idle \in Request
BY DEF Idle, NoCopy, Request, Session, Kinds, AnyTable, AnyOrder

LEMMA LoadedType ==
  ASSUME session \in Session, NEW kind \in Kinds
  PROVE  /\ Loaded(kind) \in Request
         /\ Loaded(kind).kind = kind /\ Loaded(kind).at = "loaded"
         /\ Loaded(kind).copy = session
BY IdleType DEF Loaded, Idle, Request

\* What a request that was overtaken keeps, and what it learns of it.
LEMMA OvertakenType ==
  ASSUME NEW q \in Request, NEW events \in SUBSET {"order", "scan"}, NEW rebound \in BOOLEAN
  PROVE  LET p == Overtaken(q, events, rebound)
         IN /\ p \in Request
            /\ p.kind = q.kind /\ p.at = q.at /\ p.table = q.table /\ p.order = q.order
            /\ p.badge = q.badge
            /\ p.copy.table = q.copy.table /\ p.copy.last = q.copy.last
            /\ Holds(q) => p.copy.missed = q.copy.missed \cup events
            /\ p.moved = (q.moved \/ (rebound /\ q.kind \in {"menu", "submit"}))
BY DEF Overtaken, Request, Session

LEMMA WrittenType ==
  ASSUME NEW q \in Request
  PROVE  /\ Event(q) \in SUBSET {"order", "scan"}
         /\ Written(q) \in Session
BY DEF Written, Event, Request, Session

LEMMA TableType == ASSUME NEW copy \in Session
                   PROVE  _get_table(copy) \in AnyTable /\ MenuTable(copy) \in AnyTable
BY DEF _get_table, MenuTable, Session, AnyTable

\* A row that is closed satisfies what TypeOK says of it.
ClosedRight(row) == /\ row.since <= row.updated /\ row.updated <= now
                    /\ row.stamp \in {Never, row.since}

LEMMA ClosingType ==
  ASSUME TypeOK
  PROVE  /\ ClosedNow \in Closed /\ ClosedRight(ClosedNow)
         /\ Stamped(ClosedNow) \in Closed /\ ClosedRight(Stamped(ClosedNow))
         /\ ClosedNow.state = "closed" /\ Stamped(ClosedNow).state = "closed"
         /\ ClosedNow.since = now /\ Stamped(ClosedNow).since = now
<1>1. now \in 0..MaxTime /\ now \in Nat
  BY DEF TypeOK
<1>2. /\ ClosedNow \in Closed /\ ClosedRight(ClosedNow)
      /\ ClosedNow.state = "closed" /\ ClosedNow.since = now
  BY <1>1 DEF ClosedNow, Closed, ClosedRight
<1> DEFINE s == Stamped(ClosedNow)
<1>3. /\ s.state = "closed" /\ s.since = now /\ s.stamp = now /\ s.updated = now
      /\ s \in Closed
  BY <1>1, <1>2 DEF Stamped, Closed
<1> HIDE DEF s
<1>4. ClosedRight(s)
  BY <1>1, <1>3 DEF ClosedRight
<1> QED
  BY <1>2, <1>3, <1>4 DEF s

LEMMA AdminSaveType ==
  ASSUME TypeOK, NEW o \in Orders, AdminSave(o)
  PROVE  LET row == [order[o] EXCEPT !.updated = now]
         IN /\ order' = [order EXCEPT ![o] = row]
            /\ row \in Closed /\ ClosedRight(row)
            /\ row.state = "closed" /\ row.since = order[o].since
<1>1. now \in 0..MaxTime /\ order[o].state = "closed"
  BY DEF TypeOK, AdminSave
<1>2. order[o] \in Closed
  BY <1>1 DEF TypeOK, NoRow, Open
<1>3. ClosedRight(order[o])
  BY <1>1 DEF TypeOK, ClosedRight
<1> DEFINE row == [order[o] EXCEPT !.updated = now]
<1>4. /\ row.since = order[o].since /\ row.stamp = order[o].stamp
      /\ row.updated = now /\ row.state = "closed" /\ row \in Closed
  BY <1>1, <1>2 DEF Closed
<1>5. order' = [order EXCEPT ![o] = row]
  BY DEF AdminSave, RowSaved
<1>6. order[o].since \in Nat /\ order[o].updated \in Nat /\ now \in Nat
  BY <1>1, <1>2 DEF Closed
<1> HIDE DEF row
<1>7. ClosedRight(row)
  BY <1>3, <1>4, <1>6 DEF ClosedRight
<1> QED
  BY <1>4, <1>5, <1>7 DEF row

LEMMA TypeInit == Init => TypeOK
BY IdleType DEF Init, TypeOK, Page, NoRow, NoCopy, Session, AnyTable, AnyOrder

\* Steps of one request.
LEMMA SlotType ==
  ASSUME TypeOK, NEW r \in Slots, NEW q \in Request, req' = [req EXCEPT ![r] = q],
         UNCHANGED <<now, table, session, tab, newest, bound>>,
         \/ order' = order
         \/ \E o \in Orders : order' = [order EXCEPT ![o] = Open]
  PROVE  TypeOK'
<1>1. /\ order' \in [Orders -> Closed \cup {NoRow, Open}]
      /\ \A o \in Orders : order'[o] = order[o] \/ order'[o] = Open
  BY DEF TypeOK
<1> QED
  BY <1>1 DEF TypeOK, Open

LEMMA BeginType ==
  ASSUME TypeOK, NEW r \in Slots, NEW q \in Request, Begin(r, q)
  PROVE  TypeOK'
BY SlotType DEF Begin

LEMMA PhoneTypes ==
  ASSUME TypeOK, NEW k \in Tabs,
         \/ \E t \in Tables, token \in 0..MaxToken : Scan(k, t, token)
         \/ guest_menu(k) \/ order_create(k) \/ cart_request(k) \/ order_chip(k)
         \/ Show(k) \/ ChipGone(k)
  PROVE  TypeOK'
<1>0. /\ session \in Session /\ tab[k] \in Page /\ req[PageOf(k)] \in Request
      /\ req[PollOf(k)] \in Request
  BY SlotTypes DEF TypeOK
<1>1. ASSUME NEW t \in Tables, NEW token \in 0..MaxToken, Scan(k, t, token) PROVE TypeOK'
  <2>1. [Idle EXCEPT !.kind = "scan", !.table = t] \in Request
    BY IdleType DEF Request, Kinds, AnyTable
  <2> QED
    BY <1>1, <2>1, BeginType, SlotTypes DEF Scan
<1>2. CASE guest_menu(k)
  BY <1>0, <1>2, BeginType, SlotTypes, LoadedType DEF guest_menu, Kinds
<1>3. CASE order_create(k)
  <2>1. [Loaded("submit") EXCEPT !.badge = tab[k].badge, !.moved = tab[k].moved] \in Request
    BY <1>0, LoadedType DEF Request, Kinds, Page
  <2> QED
    BY <1>3, <2>1, BeginType, SlotTypes DEF order_create
<1>4. CASE cart_request(k)
  <2>1. [Loaded("cart") EXCEPT !.at = "save"] \in Request
    BY <1>0, LoadedType DEF Request, Kinds
  <2> QED
    BY <1>4, <2>1, BeginType, SlotTypes DEF cart_request
<1>5. CASE order_chip(k)
  <2>1. [Idle EXCEPT !.kind = "chip", !.order = tab[k].chip] \in Request
    BY <1>0, IdleType DEF Request, Kinds, Page
  <2> QED
    BY <1>5, <2>1, BeginType, SlotTypes DEF order_chip
<1>6. CASE Show(k)
  <2>1. tab' \in [Tabs -> Page]
    BY <1>0, <1>6 DEF Show, TypeOK, Page, Request
  <2>2. req' \in [Slots -> Request]
    BY <1>0, <1>6, IdleType, SlotTypes DEF Show, TypeOK, Request
  <2> QED
    BY <1>6, <2>1, <2>2 DEF Show, TypeOK
<1>7. CASE ChipGone(k)
  <2>1. tab' \in [Tabs -> Page]
    BY <1>0, <1>7 DEF ChipGone, TypeOK, Page, AnyOrder
  <2>2. req' \in [Slots -> Request]
    BY <1>7, IdleType, SlotTypes DEF ChipGone, TypeOK
  <2> QED
    BY <1>7, <2>1, <2>2 DEF ChipGone, TypeOK
<1> QED
  BY <1>1, <1>2, <1>3, <1>4, <1>5, <1>6, <1>7

LEMMA LeavesType ==
  ASSUME TypeOK, NEW r \in Slots, NEW copy \in Session, NEW old, NEW o \in AnyOrder,
         Leaves(r, copy, old, o), UNCHANGED order
  PROVE  TypeOK'
<1>1. NoCopy \in Session /\ req[r] \in Request
  BY DEF NoCopy, Session, TypeOK, AnyTable, AnyOrder
<1> DEFINE q == [req[r] EXCEPT !.order = o, !.copy = IF copy = old THEN NoCopy ELSE copy,
                               !.at = IF copy = old THEN "answer" ELSE "save"]
<1>2. q \in Request
  BY <1>1 DEF Request
<1>3. req' = [req EXCEPT ![r] = q]
  BY DEF Leaves, Advances
<1> HIDE DEF q
<1> QED
  BY <1>2, <1>3, SlotType DEF Leaves, Advances

LEMMA ServerTypes ==
  ASSUME TypeOK, NEW r \in Slots,
         \/ FindTable(r) \/ Bind(r) \/ Look(r) \/ Forget(r) \/ Save(r) \/ Fail(r)
         \/ \E o \in Orders : Commit(r, o)
  PROVE  TypeOK'
<1>0. req[r] \in Request /\ session \in Session /\ req[r].copy \in Session
  BY DEF TypeOK, Request
<1>1. CASE FindTable(r)
  <2> DEFINE q == [req[r] EXCEPT
                     !.at = "table",
                     !.table = IF req[r].kind = "menu" THEN MenuTable(req[r].copy)
                               ELSE _get_table(req[r].copy),
                     !.moved = IF req[r].kind = "menu" THEN req[r].copy.table # session.table
                               ELSE @]
  <2>1. q \in Request
    BY <1>0, TableType DEF Request
  <2>2. req' = [req EXCEPT ![r] = q]
    BY <1>1 DEF FindTable, Advances
  <2> HIDE DEF q
  <2> QED
    BY <1>1, <2>1, <2>2, SlotType DEF FindTable, Advances
<1>2. CASE Bind(r)
  <2>1. [req[r] EXCEPT !.at = "save", !.copy = session] \in Request
    BY <1>0 DEF Request
  <2> QED
    BY <1>2, <2>1, SlotType DEF Bind, Advances
<1>3. CASE Look(r)
  <2>1. PICK chip \in AnyOrder : Leaves(r, [req[r].copy EXCEPT !.last = chip], req[r].copy, chip)
    BY <1>0, <1>3 DEF Look, Session, AnyOrder
  <2>2. [req[r].copy EXCEPT !.last = chip] \in Session
    BY <1>0 DEF Session
  <2> QED
    BY <1>3, <2>1, <2>2, LeavesType DEF Look
<1>4. CASE Forget(r)
  <2>1. Forgotten(req[r].order) \in Session /\ req[r].order \in AnyOrder
    BY <1>0 DEF Forgotten, Session, AnyOrder, Request
  <2> QED
    BY <1>4, <2>1, LeavesType DEF Forget
<1>5. CASE Save(r)
  <2> DEFINE q       == req[r]
             rebound == Written(q).table # session.table
             left    == IF q.kind \in {"menu", "chip"}
                        THEN [q EXCEPT !.at = "answer", !.copy = NoCopy] ELSE Idle
             before  == [s \in Slots |-> IF s = r THEN left ELSE req[s]]
  <2>1. left \in Request
    <3>1. NoCopy \in Session
      BY DEF NoCopy, Session, AnyTable, AnyOrder
    <3> QED
      BY <1>0, <3>1, IdleType DEF Request
  <2>2. \A s \in Slots : before[s] \in Request
    BY <2>1 DEF TypeOK
  <2>3. Event(q) \in SUBSET {"order", "scan"} /\ Written(q) \in Session /\ rebound \in BOOLEAN
    BY <1>0, WrittenType
  <2>4. req' = [s \in Slots |-> Overtaken(before[s], Event(q), rebound)]
    BY <1>5 DEF Save
  <2> HIDE DEF before, left
  <2>5. req' \in [Slots -> Request]
    BY <2>2, <2>3, <2>4, OvertakenType
  <2>6. tab' \in [Tabs -> Page]
    BY <1>5 DEF Save, TypeOK, Page
  <2>7. session' \in Session /\ newest' \in AnyOrder /\ bound' \in AnyTable
    BY <1>0, <1>5, <2>3 DEF Save, TypeOK, Request
  <2> QED
    BY <1>5, <2>5, <2>6, <2>7 DEF Save, TypeOK
<1>6. CASE Fail(r)
  BY <1>6, IdleType, SlotType DEF Fail
<1>7. ASSUME NEW o \in Orders, Commit(r, o) PROVE TypeOK'
  <2>1. [req[r] EXCEPT !.at = "save", !.order = o] \in Request
    BY <1>0 DEF Request, AnyOrder
  <2> QED
    BY <1>7, <2>1, SlotType DEF Commit, Advances
<1> QED
  BY <1>1, <1>2, <1>3, <1>4, <1>5, <1>6, <1>7

LEMMA TypeStep == TypeOK /\ [Next]_vars => TypeOK'
<1> SUFFICES ASSUME TypeOK, [Next]_vars PROVE TypeOK'
  OBVIOUS
<1>0. now \in 0..MaxTime
  BY DEF TypeOK
<1>1. CASE Phone
  BY <1>1, PhoneTypes DEF Phone
<1>2. CASE Server
  BY <1>2, ServerTypes DEF Server
<1>3. ASSUME NEW t \in Tables,
             activate_tables(t) \/ deactivate_tables(t) \/ regenerate_token(t)
      PROVE  TypeOK'
  <2>1. ASSUME NEW row \in [token : 0..MaxToken, active : BOOLEAN], EditTable(t, row)
        PROVE  TypeOK'
    <3>1. req' \in [Slots -> Request]
      BY <2>1, OvertakenType DEF EditTable, TypeOK
    <3>2. tab' \in [Tabs -> Page] /\ table' \in [Tables -> [token : 0..MaxToken, active : BOOLEAN]]
      BY <2>1 DEF EditTable, TypeOK, Page
    <3> QED
      BY <2>1, <3>1, <3>2 DEF EditTable, TypeOK
  <2>2. table[t] \in [token : 0..MaxToken, active : BOOLEAN]
    BY DEF TypeOK
  <2>3. /\ [table[t] EXCEPT !.active = TRUE] \in [token : 0..MaxToken, active : BOOLEAN]
        /\ [table[t] EXCEPT !.active = FALSE] \in [token : 0..MaxToken, active : BOOLEAN]
        /\ table[t].token < MaxToken =>
             [table[t] EXCEPT !.token = @ + 1] \in [token : 0..MaxToken, active : BOOLEAN]
    <3> DEFINE R == [token : 0..MaxToken, active : BOOLEAN]
    <3>1. \A row \in R : /\ [row EXCEPT !.active = TRUE] \in R
                         /\ [row EXCEPT !.active = FALSE] \in R
      OBVIOUS
    <3>2. \A row \in R : row.token < MaxToken => row.token + 1 \in 0..MaxToken
      OBVIOUS
    <3>3. \A row \in R : \A n \in 0..MaxToken : [row EXCEPT !.token = n] \in R
      OBVIOUS
    <3> QED
      BY <2>2, <3>1, <3>2, <3>3
  <2> QED
    BY <1>3, <2>1, <2>3 DEF activate_tables, deactivate_tables, regenerate_token
<1>4. ASSUME NEW o \in Orders, Close(o) \/ AdminClose(o) \/ AdminSave(o)
      PROVE  TypeOK'
  <2>1. PICK row \in Closed :
          /\ ClosedRight(row) /\ row.state = "closed"
          /\ order' = [order EXCEPT ![o] = row]
          /\ UNCHANGED <<now, table, session, tab, req, newest, bound>>
    BY <1>4, ClosingType, AdminSaveType DEF Close, AdminClose, AdminSave, RowSaved
  <2> QED
    BY <2>1 DEF ClosedRight, TypeOK
<1>5. CASE Tick
  <2>1. now' \in 0..MaxTime /\ \A n \in 0..MaxTime : n <= now => n <= now'
    BY <1>0, <1>5 DEF Tick
  <2>2. \A o \in Orders : order[o].state = "closed" => order[o].updated \in 0..MaxTime
    BY DEF TypeOK, Closed, NoRow, Open
  <2> QED
    BY <1>5, <2>1, <2>2 DEF Tick, TypeOK
<1>6. CASE UNCHANGED vars
  BY <1>6 DEF vars, TypeOK
<1> QED
  BY <1>1, <1>2, <1>3, <1>4, <1>5, <1>6 DEF Next, Staff
-----------------------------------------------------------------------------
(***************************************************************************)
(* What the guest is shown.                                                *)
(***************************************************************************)

\* A chip is visible as long as ChipKept speaks of its order: a row without a
\* stamp counts from its last save, which was no sooner than its closing.
LEMMA RecentVisible ==
  ASSUME TypeOK, NEW o \in Orders,
         order[o].state = "closed" => now - order[o].since < RESET
  PROVE  status_chip_visible(o)
<1> SUFFICES ASSUME order[o].state = "closed"
             PROVE  now - (IF order[o].stamp # Never THEN order[o].stamp
                                                     ELSE order[o].updated) < RESET
  BY DEF status_chip_visible
<1>1. /\ order[o].since \in Nat /\ order[o].updated \in Nat /\ now \in Nat
      /\ order[o].since <= order[o].updated
      /\ order[o].stamp \in {Never, order[o].since}
  BY DEF TypeOK, Closed, NoRow, Open
<1>2. CASE order[o].stamp # Never
  BY <1>1, <1>2
<1>3. CASE order[o].stamp = Never
  BY <1>1, <1>3
<1> QED
  BY <1>2, <1>3

\* And an invisible one is up.
LEMMA InvisibleExpired ==
  ASSUME TypeOK, NEW o \in Orders, ~status_chip_visible(o)
  PROVE  Expired(o)
<1>1. order[o].state = "closed"
  BY DEF status_chip_visible
<1> QED
  BY <1>1, RecentVisible DEF Expired

LEMMA ExpiredNotRecent ==
  ASSUME Recent PROVE newest # NoOrder /\ ~Expired(newest)
BY DEF Recent, Expired

\* Both functions look up the same table.
LEMMA SameTable == \A copy : _get_table(copy) = MenuTable(copy)
BY DEF _get_table, MenuTable

\* Nothing to be said of a slot that is free.
LEMMA IdleRight == RequestRight(Idle)
BY DEF RequestRight, ShownRight, Holds, Idle

\* A step that leaves the session and the tables, and makes no order newer.
LEMMA QuietStep ==
  ASSUME Rights, UNCHANGED <<table, session, newest, bound>>, Recent' => Recent,
         \A o \in Orders : Expired(o) => Expired(o)',
         \A r \in Slots : RequestRight(req'[r]),
         \A k \in Tabs : PageRight(tab'[k])
  PROVE  Rights'
<1>1. ASSUME NEW copy, SessionRight(copy) PROVE SessionRight(copy)'
  BY <1>1 DEF SessionRight
<1>2. ASSUME NEW q, RequestRight(q) PROVE RequestRight(q)'
  BY <1>1, <1>2 DEF RequestRight, ShownRight, MenuTable, Holds
<1>3. ASSUME NEW p, PageRight(p) PROVE PageRight(p)'
  BY <1>3 DEF PageRight, MenuTable
<1>4. SessionRight(session)'
  BY <1>1 DEF Rights
<1> QED
  BY <1>2, <1>3, <1>4 DEF Rights

\* The newest order stays as recent as it was, and what is up stays up.
LEMMA OrdersLeft ==
  ASSUME UNCHANGED <<now, order, newest>>
  PROVE  Recent' = Recent /\ \A o \in Orders : Expired(o) => Expired(o)'
BY DEF Recent, Expired

\* A step of one request.
LEMMA SlotStep ==
  ASSUME IInv, NEW r \in Slots, NEW q, RequestRight(q), req' = [req EXCEPT ![r] = q],
         UNCHANGED <<now, table, session, tab, order, newest, bound>>
  PROVE  Rights'
<1>1. \A s \in Slots : RequestRight(req'[s])
  BY DEF IInv, Rights, TypeOK
<1>2. \A k \in Tabs : PageRight(tab'[k])
  BY DEF IInv, Rights
<1> QED
  BY <1>1, <1>2, OrdersLeft, QuietStep DEF IInv

\* A request that has just loaded the session has what the session has.
LEMMA BeginStep ==
  ASSUME IInv, NEW r \in Slots, NEW q, RequestRight(q), Begin(r, q)
  PROVE  Rights'
BY SlotStep DEF Begin

LEMMA PhoneRights ==
  ASSUME IInv, NEW k \in Tabs,
         \/ \E t \in Tables, token \in 0..MaxToken : Scan(k, t, token)
         \/ guest_menu(k) \/ order_create(k) \/ cart_request(k) \/ order_chip(k)
         \/ Show(k) \/ ChipGone(k)
  PROVE  Rights'
<1>0. /\ session \in Session /\ tab[k] \in Page
      /\ req[PageOf(k)] \in Request /\ req[PollOf(k)] \in Request
      /\ RequestRight(req[PageOf(k)]) /\ RequestRight(req[PollOf(k)])
      /\ PageRight(tab[k]) /\ SessionRight(session)
  BY SlotTypes DEF IInv, Rights, TypeOK
<1>1. ASSUME NEW t \in Tables, NEW token \in 0..MaxToken, Scan(k, t, token) PROVE Rights'
  <2>1. RequestRight([Idle EXCEPT !.kind = "scan", !.table = t])
    BY DEF RequestRight, ShownRight, Holds, Idle
  <2> QED
    BY <1>1, <2>1, BeginStep, SlotTypes DEF Scan
<1>2. CASE guest_menu(k)
  <2>1. RequestRight(Loaded("menu"))
    BY <1>0, LoadedType DEF RequestRight, ShownRight, Kinds
  <2> QED
    BY <1>2, <2>1, BeginStep, SlotTypes DEF guest_menu
<1>3. CASE order_create(k)
  <2> DEFINE q == [Loaded("submit") EXCEPT !.badge = tab[k].badge, !.moved = tab[k].moved]
  <2>1. Loaded("submit") \in Request
    BY <1>0, LoadedType DEF Kinds
  <2>2. /\ q.kind = "submit" /\ q.at = "loaded" /\ q.copy = session
        /\ q.badge = tab[k].badge /\ q.moved = tab[k].moved
    BY <1>0, <2>1, LoadedType DEF Request, Kinds
  <2> HIDE DEF q
  <2>3. RequestRight(q)
    BY <1>0, <2>2 DEF RequestRight, ShownRight, PageRight
  <2> QED
    BY <1>3, <2>3, BeginStep, SlotTypes DEF order_create, q
<1>4. CASE cart_request(k)
  <2> DEFINE q == [Loaded("cart") EXCEPT !.at = "save"]
  <2>1. q.kind = "cart" /\ q.copy = session
    BY <1>0, LoadedType DEF Request, Kinds
  <2> HIDE DEF q
  <2>2. RequestRight(q)
    BY <1>0, <2>1 DEF RequestRight, ShownRight
  <2> QED
    BY <1>4, <2>2, BeginStep, SlotTypes DEF cart_request, q
<1>5. CASE order_chip(k)
  <2>1. tab[k].chip \in Orders /\ Expired(tab[k].chip)
    BY <1>0, <1>5, InvisibleExpired DEF order_chip, Page, AnyOrder, IInv
  <2>2. RequestRight([Idle EXCEPT !.kind = "chip", !.order = tab[k].chip])
    BY <2>1 DEF RequestRight, ShownRight, Holds, Idle
  <2> QED
    BY <1>5, <2>2, BeginStep, SlotTypes DEF order_chip
<1>6. CASE Show(k)
  <2>1. \A j \in Tabs : PageRight(tab'[j])
    <3>1. PageRight([chip |-> req[PageOf(k)].order, badge |-> req[PageOf(k)].table,
                     moved |-> req[PageOf(k)].moved])
      BY <1>0, <1>6 DEF Show, RequestRight, ShownRight, PageRight
    <3> QED
      BY <1>6, <3>1 DEF Show, IInv, Rights, TypeOK
  <2>2. ASSUME NEW r \in Slots PROVE RequestRight(req'[r])
    <3>1. CASE r = PageOf(k)
      BY <1>6, <3>1, IdleRight, SlotTypes DEF Show, IInv, TypeOK
    <3>2. CASE r = PollOf(k)
      <4> DEFINE p == req[PollOf(k)]
                 q == [p EXCEPT !.here = @ /\ p = Idle]
      <4>1. req'[r] = q
        BY <1>6, <3>2, SlotTypes DEF Show, IInv, TypeOK
      <4>2. /\ q.kind = p.kind /\ q.at = p.at /\ q.copy = p.copy /\ q.table = p.table
            /\ q.order = p.order /\ q.badge = p.badge /\ q.moved = p.moved
        BY <1>0 DEF Request
      <4> HIDE DEF q
      <4> QED
        BY <1>0, <4>1, <4>2 DEF RequestRight, ShownRight, Holds
    <3>3. CASE r # PageOf(k) /\ r # PollOf(k)
      BY <1>6, <3>3 DEF Show, IInv, TypeOK, Rights
    <3> QED
      BY <3>1, <3>2, <3>3
  <2>3. UNCHANGED <<now, table, session, order, newest, bound>> /\ Rights
    BY <1>6 DEF Show, IInv
  <2> QED
    BY <2>1, <2>2, <2>3, OrdersLeft, QuietStep
<1>7. CASE ChipGone(k)
  <2>1. \A j \in Tabs : PageRight(tab'[j])
    <3>1. \A j \in Tabs : tab'[j].moved = tab[j].moved /\ tab'[j].badge = tab[j].badge
      BY <1>7 DEF ChipGone, IInv, TypeOK, Page
    <3> QED
      BY <3>1 DEF PageRight, IInv, Rights
  <2>2. \A r \in Slots : RequestRight(req'[r])
    BY <1>7, IdleRight DEF ChipGone, IInv, TypeOK, Rights
  <2>3. UNCHANGED <<now, table, session, order, newest, bound>> /\ Rights
    BY <1>7 DEF ChipGone, IInv
  <2> QED
    BY <2>1, <2>2, <2>3, OrdersLeft, QuietStep
<1> QED
  BY <1>1, <1>2, <1>3, <1>4, <1>5, <1>6, <1>7

LEMMA LeavesStep ==
  ASSUME IInv, NEW r \in Slots, NEW copy \in Session, NEW old, NEW o,
         Leaves(r, copy, old, o), UNCHANGED order,
         req[r].kind \in {"menu", "chip"}, SessionRight(copy),
         req[r].kind = "menu" /\ ~req[r].moved => req[r].table = MenuTable(session)
  PROVE  Rights'
<1>1. req[r] \in Request
  BY DEF IInv, TypeOK
<1> DEFINE q == [req[r] EXCEPT !.order = o, !.copy = IF copy = old THEN NoCopy ELSE copy,
                               !.at = IF copy = old THEN "answer" ELSE "save"]
<1>2. /\ q.kind = req[r].kind /\ q.table = req[r].table /\ q.moved = req[r].moved
      /\ q.at \in {"save", "answer"}
      /\ q.at = "save" => q.copy = copy
  BY <1>1 DEF Request
<1>3. req' = [req EXCEPT ![r] = q]
  BY DEF Leaves, Advances
<1> HIDE DEF q
<1>4. RequestRight(q)
  BY <1>2 DEF RequestRight, ShownRight, Holds
<1> QED
  BY <1>3, <1>4, SlotStep DEF Leaves, Advances

LEMMA SaveStep == ASSUME IInv, NEW r \in Slots, Save(r) PROVE Rights'
<1> DEFINE q       == req[r]
           rebound == Written(q).table # session.table
           left    == IF q.kind \in {"menu", "chip"}
                      THEN [q EXCEPT !.at = "answer", !.copy = NoCopy] ELSE Idle
           before  == [s \in Slots |-> IF s = r THEN left ELSE req[s]]
<1>0. /\ q \in Request /\ q.at = "save" /\ RequestRight(q) /\ SessionRight(q.copy)
      /\ q.copy \in Session
  BY DEF Save, IInv, Rights, TypeOK, RequestRight, Holds, Request
<1>1. /\ session' = Written(q)
      /\ req' = [s \in Slots |-> Overtaken(before[s], Event(q), rebound)]
      /\ \A k \in Tabs : tab'[k] = [tab[k] EXCEPT !.moved = @ \/ rebound]
      /\ newest' = IF q.kind = "submit" THEN q.order ELSE newest
      /\ bound' = IF q.kind = "scan" THEN q.table ELSE bound
      /\ UNCHANGED <<now, table, order>>
  BY DEF Save
<1>2. /\ Event(q) \in SUBSET {"order", "scan"} /\ rebound \in BOOLEAN
      /\ q.kind = "submit" <=> "order" \in Event(q)
      /\ q.kind = "scan" <=> "scan" \in Event(q)
  BY <1>0, WrittenType DEF Event
<1>3. /\ Written(q).last = IF q.kind = "submit" THEN q.order ELSE q.copy.last
      /\ Written(q).table = IF q.kind = "scan" THEN q.table ELSE q.copy.table
      /\ Written(q).missed = q.copy.missed \ Event(q)
  BY DEF Written
<1>4. "order" \notin Event(q) => newest' = newest /\ Recent' = Recent
  BY <1>1, <1>2 DEF Recent
<1>5. "scan" \notin Event(q) => bound' = bound
  BY <1>1, <1>2
<1>6. SessionRight(session)'
  BY <1>0, <1>1, <1>2, <1>3, <1>4, <1>5 DEF SessionRight
<1>7. ~rebound => MenuTable(session)' = MenuTable(session) /\ session'.table = session.table
  BY <1>1 DEF MenuTable
<1>8. ASSUME NEW k \in Tabs PROVE PageRight(tab[k])'
  <2>1. tab'[k].badge = tab[k].badge /\ tab'[k].moved = (tab[k].moved \/ rebound)
    BY <1>1 DEF IInv, TypeOK, Page
  <2> HIDE DEF rebound, q
  <2> QED
    BY <1>7, <2>1 DEF PageRight, IInv, Rights
<1>9. ASSUME NEW s \in Slots PROVE RequestRight(req[s])'
  <2> DEFINE b == before[s]
  <2>1. /\ left \in Request /\ RequestRight(left)
    <3>1. CASE q.kind \in {"menu", "chip"}
      <4> DEFINE a == [q EXCEPT !.at = "answer", !.copy = NoCopy]
      <4>1. NoCopy \in Session
        BY DEF NoCopy, Session, AnyTable, AnyOrder
      <4>2. a \in Request /\ a.at = "answer" /\ a.kind = q.kind /\ a.moved = q.moved
            /\ a.table = q.table
        BY <1>0, <4>1 DEF Request
      <4> HIDE DEF a
      <4>3. RequestRight(a)
        BY <1>0, <3>1, <4>2 DEF RequestRight, ShownRight, Holds
      <4>4. left = a
        BY <3>1 DEF a
      <4> QED
        BY <4>2, <4>3, <4>4
    <3>2. CASE q.kind \notin {"menu", "chip"}
      BY <3>2, IdleType, IdleRight
    <3> QED
      BY <3>1, <3>2
  <2>2. b \in Request /\ RequestRight(b)
    BY <2>1 DEF IInv, TypeOK, Rights
  <2>3. req'[s] = Overtaken(b, Event(q), rebound)
    BY <1>1
  <2> HIDE DEF b, left, before, rebound, q
  <2>4. /\ req'[s].kind = b.kind /\ req'[s].at = b.at /\ req'[s].table = b.table
        /\ req'[s].order = b.order /\ req'[s].badge = b.badge
        /\ req'[s].copy.table = b.copy.table /\ req'[s].copy.last = b.copy.last
        /\ Holds(b) => req'[s].copy.missed = b.copy.missed \cup Event(q)
        /\ req'[s].moved = (b.moved \/ (rebound /\ b.kind \in {"menu", "submit"}))
    BY <1>2, <2>2, <2>3, OvertakenType
  <2>5. Holds(req[s])' <=> Holds(b)
    BY <2>4 DEF Holds
  <2>6. Holds(req[s])' => SessionRight(req[s].copy)'
    BY <1>4, <1>5, <2>2, <2>4, <2>5 DEF RequestRight, SessionRight
  <2>7. ShownRight(req[s])'
    BY <1>7, <2>2, <2>4, <2>5 DEF RequestRight, ShownRight
  <2>8. (req[s].kind = "chip" /\ req[s].at = "begun"
           => req[s].order \in Orders /\ Expired(req[s].order))'
    BY <1>1, <2>2, <2>4 DEF RequestRight, Expired
  <2> QED
    BY <2>6, <2>7, <2>8 DEF RequestRight
<1> QED
  BY <1>6, <1>8, <1>9 DEF Rights

LEMMA ServerRights ==
  ASSUME IInv, NEW r \in Slots,
         \/ FindTable(r) \/ Bind(r) \/ Look(r) \/ Forget(r) \/ Save(r) \/ Fail(r)
         \/ \E o \in Orders : Commit(r, o)
  PROVE  Rights'
<1>0. /\ req[r] \in Request /\ RequestRight(req[r]) /\ req[r].copy \in Session
      /\ session \in Session /\ SessionRight(session)
  BY DEF IInv, Rights, TypeOK, Request
<1>1. CASE FindTable(r)
  <2> DEFINE q == [req[r] EXCEPT
                     !.at = "table",
                     !.table = IF req[r].kind = "menu" THEN MenuTable(req[r].copy)
                               ELSE _get_table(req[r].copy),
                     !.moved = IF req[r].kind = "menu" THEN req[r].copy.table # session.table
                               ELSE @]
  <2>1. /\ q.kind = req[r].kind /\ q.at = "table" /\ q.copy = req[r].copy
        /\ q.badge = req[r].badge
        /\ q.table = MenuTable(req[r].copy)
        /\ q.moved = IF req[r].kind = "menu" THEN req[r].copy.table # session.table
                     ELSE req[r].moved
    BY <1>0, SameTable DEF Request
  <2>2. req' = [req EXCEPT ![r] = q]
    BY <1>1 DEF FindTable, Advances
  <2> HIDE DEF q
  <2>3. req[r].at = "loaded" /\ Holds(req[r])
    BY <1>1 DEF FindTable, Holds
  <2>4. req[r].copy.table = session.table => MenuTable(req[r].copy) = MenuTable(session)
    BY DEF MenuTable
  <2>5. RequestRight(q)
    BY <1>0, <2>1, <2>3, <2>4 DEF RequestRight, ShownRight
  <2> QED
    BY <1>1, <2>2, <2>5, SlotStep DEF FindTable, Advances
<1>2. CASE Bind(r)
  <2> DEFINE q == [req[r] EXCEPT !.at = "save", !.copy = session]
  <2>1. q.kind = "scan" /\ q.copy = session
    BY <1>0, <1>2 DEF Bind, Request
  <2> HIDE DEF q
  <2>2. RequestRight(q)
    BY <1>0, <2>1 DEF RequestRight, ShownRight
  <2> QED
    BY <1>2, <2>2, SlotStep DEF Bind, Advances, q
<1>3. CASE Look(r)
  <2> DEFINE old  == req[r].copy
             chip == IF old.last # NoOrder /\ status_chip_visible(old.last)
                     THEN old.last ELSE NoOrder
             copy == [old EXCEPT !.last = chip]
  <2>1. copy \in Session /\ copy.missed = old.missed /\ copy.table = old.table /\ copy.last = chip
    BY <1>0 DEF Session, AnyOrder
  <2>2. SessionRight(old)
    BY <1>0, <1>3 DEF Look, RequestRight, Holds
  <2>3. SessionRight(copy)
    <3>1. Recent /\ "order" \notin old.missed => old.last = newest
      BY <2>2 DEF SessionRight
    <3>2. Recent => newest \in Orders /\ status_chip_visible(newest)
      BY RecentVisible DEF Recent, IInv, TypeOK, AnyOrder
    <3>3. Recent /\ "order" \notin old.missed => chip = newest
      BY <3>1, <3>2
    <3> HIDE DEF copy, chip
    <3> QED
      BY <2>1, <2>2, <3>3 DEF SessionRight
  <2>4. req[r].kind = "menu" /\ (~req[r].moved => req[r].table = MenuTable(session))
    BY <1>0, <1>3 DEF Look, RequestRight, ShownRight
  <2>5. Leaves(r, copy, old, chip) /\ UNCHANGED order
    BY <1>3 DEF Look
  <2> HIDE DEF copy, chip, old
  <2> QED
    BY <2>1, <2>3, <2>4, <2>5, LeavesStep
<1>4. CASE Forget(r)
  <2> DEFINE copy == Forgotten(req[r].order)
  <2>1. /\ copy \in Session /\ copy.missed = session.missed /\ copy.table = session.table
        /\ copy.last = IF session.last = req[r].order THEN NoOrder ELSE session.last
    BY <1>0 DEF Forgotten, Session, AnyOrder
  <2>2. Expired(req[r].order)
    BY <1>0, <1>4 DEF Forget, RequestRight
  <2>3. Recent => newest # req[r].order
    BY <2>2, ExpiredNotRecent
  <2>4. Leaves(r, copy, session, req[r].order) /\ UNCHANGED order /\ req[r].kind = "chip"
    BY <1>4 DEF Forget
  <2> HIDE DEF copy
  <2>5. SessionRight(copy)
    BY <1>0, <2>1, <2>3 DEF SessionRight
  <2> QED
    BY <2>1, <2>4, <2>5, LeavesStep
<1>5. CASE Save(r)
  BY <1>5, SaveStep
<1>6. CASE Fail(r)
  BY <1>6, IdleRight, SlotStep DEF Fail
<1>7. ASSUME NEW o \in Orders, Commit(r, o) PROVE Rights'
  <2> DEFINE q == [req[r] EXCEPT !.at = "save", !.order = o]
  <2>1. /\ q.kind = req[r].kind /\ q.at = "save" /\ q.copy = req[r].copy
        /\ q.badge = req[r].badge /\ q.table = req[r].table /\ q.moved = req[r].moved
    BY <1>0 DEF Request
  <2>2. /\ req[r].kind = "submit" /\ req[r].at = "table" /\ order[o] = NoRow
        /\ req' = [req EXCEPT ![r] = q] /\ order' = [order EXCEPT ![o] = Open]
        /\ UNCHANGED <<now, table, session, tab, newest, bound>>
    BY <1>7 DEF Commit, Advances
  <2> HIDE DEF q
  <2>3. RequestRight(q)
    BY <1>0, <2>1, <2>2 DEF RequestRight, ShownRight, Holds
  <2>4. \A p \in Orders : order'[p] = order[p] \/ (order[p] = NoRow /\ order'[p] = Open)
    BY <2>2 DEF IInv, TypeOK
  <2>5. \A p \in Orders : Expired(p) => Expired(p)'
    BY <2>2, <2>4 DEF Expired, NoRow
  <2>6. Recent' => Recent
    <3>1. newest \in AnyOrder
      BY DEF IInv, TypeOK
    <3> QED
      BY <2>2, <2>4, <3>1 DEF Recent, NoRow, AnyOrder
  <2>7. Rights /\ \A s \in Slots : RequestRight(req'[s])
    BY <2>2, <2>3 DEF IInv, TypeOK, Rights
  <2>8. \A k \in Tabs : PageRight(tab'[k])
    BY <2>2 DEF IInv, Rights
  <2> QED
    BY <2>2, <2>5, <2>6, <2>7, <2>8, QuietStep
<1> QED
  BY <1>1, <1>2, <1>3, <1>4, <1>5, <1>6, <1>7

LEMMA EditStep ==
  ASSUME IInv, NEW t \in Tables, NEW row, EditTable(t, row)
  PROVE  Rights'
<1>1. /\ UNCHANGED <<now, session, order, newest, bound>>
      /\ \A k \in Tabs : tab'[k] = [tab[k] EXCEPT !.moved = TRUE]
      /\ \A s \in Slots : req'[s] = Overtaken(req[s], {}, TRUE)
  BY DEF EditTable
<1>2. \A k \in Tabs : PageRight(tab[k])'
  <2>1. ASSUME NEW k \in Tabs PROVE tab'[k].moved = TRUE
    <3>1. tab[k] \in Page /\ tab'[k] = [tab[k] EXCEPT !.moved = TRUE]
      BY <1>1 DEF IInv, TypeOK
    <3> QED
      BY <3>1 DEF Page
  <2> QED
    BY <2>1 DEF PageRight
<1>3. SessionRight(session)'
  BY <1>1 DEF IInv, Rights, SessionRight, Recent
<1>4. ASSUME NEW s \in Slots PROVE RequestRight(req[s])'
  <2>1. req[s] \in Request /\ RequestRight(req[s])
    BY DEF IInv, TypeOK, Rights
  <2>2. /\ req'[s].kind = req[s].kind /\ req'[s].at = req[s].at
        /\ req'[s].order = req[s].order
        /\ req'[s].copy.table = req[s].copy.table /\ req'[s].copy.last = req[s].copy.last
        /\ Holds(req[s]) => req'[s].copy.missed = req[s].copy.missed
        /\ req'[s].kind \in {"menu", "submit"} => req'[s].moved
    <3> DEFINE p == Overtaken(req[s], {}, TRUE)
    <3>1. /\ p.kind = req[s].kind /\ p.at = req[s].at /\ p.order = req[s].order
          /\ p.copy.table = req[s].copy.table /\ p.copy.last = req[s].copy.last
          /\ Holds(req[s]) => p.copy.missed = req[s].copy.missed
          /\ req[s].kind \in {"menu", "submit"} => p.moved = TRUE
      BY <2>1 DEF Overtaken, Request, Session
    <3>2. req'[s] = p
      BY <1>1
    <3> HIDE DEF p
    <3> QED
      BY <3>1, <3>2
  <2>3. Holds(req[s])' <=> Holds(req[s])
    BY <2>2 DEF Holds
  <2>4. Holds(req[s])' => SessionRight(req[s].copy)'
    BY <1>1, <2>1, <2>2, <2>3 DEF RequestRight, SessionRight, Recent
  <2>5. ShownRight(req[s])'
    BY <2>2 DEF ShownRight
  <2>6. (req[s].kind = "chip" /\ req[s].at = "begun"
           => req[s].order \in Orders /\ Expired(req[s].order))'
    BY <1>1, <2>1, <2>2 DEF RequestRight, Expired
  <2> QED
    BY <2>4, <2>5, <2>6 DEF RequestRight
<1> QED
  BY <1>2, <1>3, <1>4 DEF Rights

\* Closing an order, saving it again, and the clock.
LEMMA AgeStep ==
  ASSUME IInv, Tick \/ \E o \in Orders : Close(o) \/ AdminClose(o) \/ AdminSave(o)
  PROVE  Rights'
<1>1. UNCHANGED <<table, session, tab, req, newest, bound>>
  BY DEF Tick, Close, AdminClose, AdminSave, RowSaved
<1>2. newest \in AnyOrder /\ \A o \in Orders : order[o] \in Closed \cup {NoRow, Open}
  BY DEF IInv, TypeOK
<1>3. \A o \in Orders : Expired(o) => Expired(o)'
  <2>1. CASE Tick
    <3>1. order' = order /\ now' = now + 1 /\ now \in Nat
      BY <2>1 DEF Tick, IInv, TypeOK
    <3>2. \A o \in Orders : order[o].state = "closed" => order[o].since \in Nat
      BY <1>2 DEF Closed, NoRow, Open
    <3> QED
      BY <3>1, <3>2 DEF Expired
  <2>2. ASSUME NEW o \in Orders, Close(o) \/ AdminClose(o) PROVE \A p \in Orders : Expired(p) => Expired(p)'
    <3>1. now' = now /\ order[o] = Open /\ \A p \in Orders : p # o => order'[p] = order[p]
      BY <2>2 DEF Close, AdminClose, RowSaved, IInv, TypeOK
    <3> QED
      BY <3>1 DEF Expired, Open
  <2>3. ASSUME NEW o \in Orders, AdminSave(o) PROVE \A p \in Orders : Expired(p) => Expired(p)'
    <3>1. /\ now' = now /\ order'[o].state = "closed" /\ order'[o].since = order[o].since
          /\ \A p \in Orders : p # o => order'[p] = order[p]
      BY <2>3, AdminSaveType DEF AdminSave, RowSaved, IInv, TypeOK
    <3> QED
      BY <3>1 DEF Expired
  <2> QED
    BY <2>1, <2>2, <2>3
<1>4. Recent' => Recent
  <2> SUFFICES ASSUME Recent' PROVE Recent
    OBVIOUS
  <2>1. newest \in Orders
    BY <1>1, <1>2 DEF Recent, AnyOrder
  <2>2. ~Expired(newest)'
    BY ExpiredNotRecent DEF Recent, Expired
  <2>3. ~Expired(newest)
    BY <1>1, <1>3, <2>1, <2>2 DEF Expired
  <2> QED
    BY <2>1, <2>3 DEF Recent, Expired
<1>5. /\ Rights /\ \A r \in Slots : RequestRight(req'[r])
      /\ \A k \in Tabs : PageRight(tab'[k])
  BY <1>1 DEF IInv, Rights
<1> QED
  BY <1>1, <1>3, <1>4, <1>5, QuietStep

LEMMA RightsStep == IInv /\ [Next]_vars => Rights'
<1> SUFFICES ASSUME IInv, [Next]_vars PROVE Rights'
  OBVIOUS
<1>1. CASE Phone
  BY <1>1, PhoneRights DEF Phone
<1>2. CASE Server
  BY <1>2, ServerRights DEF Server
<1>3. CASE Staff
  BY <1>3, EditStep, AgeStep DEF Staff, activate_tables, deactivate_tables, regenerate_token
<1>4. CASE Tick
  BY <1>4, AgeStep
<1>5. CASE UNCHANGED vars
  <2>1. /\ Rights /\ \A r \in Slots : RequestRight(req'[r])
        /\ \A k \in Tabs : PageRight(tab'[k])
    BY <1>5 DEF IInv, Rights, vars
  <2>2. UNCHANGED <<now, table, session, order, newest, bound>>
    BY <1>5 DEF vars
  <2> QED
    BY <2>1, <2>2, OrdersLeft, QuietStep
<1> QED
  BY <1>1, <1>2, <1>3, <1>4, <1>5 DEF Next
-----------------------------------------------------------------------------
\* The invariant holds: every step of phone, server and staff keeps it.
THEOREM Invariance == Spec => []IInv
<1>1. Init => IInv
  <2>1. ASSUME Init PROVE Rights
    <3>1. /\ SessionRight(session) /\ MenuTable(session) = NoTable
          /\ \A k \in Tabs : PageRight(tab[k])
      BY <2>1 DEF Init, SessionRight, Recent, NoCopy, MenuTable, PageRight
    <3> QED
      BY <2>1, <3>1, IdleRight DEF Init, Rights
  <2> QED
    BY <2>1, TypeInit DEF IInv
<1>2. IInv /\ [Next]_vars => IInv'
  BY TypeStep, RightsStep DEF IInv
<1> QED
  BY <1>1, <1>2, PTL DEF Spec

\* Every value stays in its range, and no row was closed after its last save or
\* stamped with another time than that of its closing.
THEOREM TypeCorrect == Spec => []TypeOK
<1> QED
  BY Invariance, PTL DEF IInv

\* An order goes to the table of the badge on the page it was sent from, unless
\* the session was bound to another table or a table edited in between, whatever
\* other requests of the phone overlap.
THEOREM TableAlwaysAsShown == Spec => []TableAsShown
<1>1. IInv => TableAsShown
  BY DEF IInv, Rights, RequestRight, ShownRight, Holds, TableAsShown
<1> QED
  BY <1>1, Invariance, PTL

\* Before its chip's time is up the newest order is taken from the session only
\* by a request that loaded its copy before the order was saved there, and saved
\* it after: every other one keeps it, however many overlap with each other.
THEOREM ChipAlwaysKept == Spec => []ChipKept
<1>1. IInv => ChipKept
  BY DEF IInv, Rights, SessionRight, ChipKept
<1> QED
  BY <1>1, Invariance, PTL

\* The table of the last scan likewise is lost only to a request that loaded its
\* copy before the scan was saved.
THEOREM ScanAlwaysKept == Spec => []ScanKept
<1>1. IInv => ScanKept
  BY DEF IInv, Rights, SessionRight, ScanKept
<1> QED
  BY <1>1, Invariance, PTL
=============================================================================
