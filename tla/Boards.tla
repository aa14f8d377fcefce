------------------------------- MODULE Boards -------------------------------
(***************************************************************************)
(* Pages that follow the orders live: the cashiers' board, the kitchen's   *)
(* display and a guest's status page.  A page is named by the WebSocket    *)
(* group it joins.  static/js/app.js asks for the page's fragment again on *)
(* a timer and on every message of the group, and puts each answer in      *)
(* place of what is there when it comes, in whatever order answers come.   *)
(* The server reads a board column by column, one query each, with no      *)
(* transaction around them.                                                *)
(*                                                                         *)
(* Orders move as the state machine allows; OrderWorkflow has who moves    *)
(* them and how.  What matters here is that a transition is announced      *)
(* after its commit and a new order before it.                             *)
(***************************************************************************)
EXTENDS OrderStates, Naturals, Sequences, FiniteSets, SequencesExt

CONSTANTS
  Orders,       \* orders of the restaurant; an order also names its group
  Pages,        \* browser pages that are open
  Opening,      \* cases to begin with: how many commits each order has behind
                \* it when the pages are opened
  ReadyLimit,   \* ready orders on the kitchen's display (20)
  ServedLimit,  \* served orders on the cashiers' board (25)
  MaxFetches,   \* bound: fetches a page can have in flight
  MaxChanges,   \* bound: commits after the pages were opened
  MaxFaults     \* bound: failures (lost connection, failed fetch, crash, ...)

ASSUME LimitAssumption == ReadyLimit \in Nat \ {0} /\ ServedLimit \in Nat \ {0}
ASSUME BoundAssumption ==
  MaxFetches \in Nat /\ MaxChanges \in Nat /\ MaxFaults \in Nat
ASSUME OpeningAssumption == Opening \subseteq [Orders -> 0..5]
ASSUME OrdersAssumption == IsFiniteSet(Orders)   \* rows of a table
ASSUME NameAssumption  == {"cashier", "kitchen"} \cap Orders = {}

VARIABLES
  order,     \* committed row of each order; since orders the served_at, ready_at
  changes,   \* commits so far: the clock of since
  announced, \* new orders whose order.created is out and whose commit is not
  notices,   \* committed transitions whose _notify is still to come
  group,     \* the group of each page
  socket,    \* pages whose WebSocket is in the group
  pushes,    \* messages on their way to a page
  fetch,     \* the fetches of each page that are in flight, oldest first
  shows,     \* the cards on each page
  displayed, \* (ghost) <<p, o>>: p has had o's present row on it
  missed,    \* (ghost) <<p, o>>: a failure kept p from hearing of that row
  faults     \* failures so far

orderVars == <<order, changes, announced, notices>>
pageVars  == <<socket, pushes, fetch, shows, displayed, missed>>
vars == <<orderVars, group, pageVars, faults>>

Groups == {"cashier", "kitchen"} \cup Orders
-----------------------------------------------------------------------------
\* The event that announces a change to a status; _transition's callers send
\* the same one for start_order_preparation and return_to_preparation.
Event == [new |-> "order.created", confirmed |-> "order.confirmed",
          in_preparation |-> "order.preparation_started",
          ready |-> "order.ready", served |-> "order.served",
          cancelled |-> "order.cancelled", rejected |-> "order.cancelled"]

CASHIER_EVENTS == {"order.created", "order.confirmed", "order.cancelled",
                   "order.ready", "order.served"}
\* (mutant) the kitchen hears what it does itself no more
KITCHEN_EVENTS_OwnStepsOut == {"order.confirmed", "order.cancelled"}
KITCHEN_EVENTS == {"order.confirmed", "order.cancelled",
                   "order.preparation_started", "order.ready"}

\* The groups broadcast_order_event sends to, in its order.
Targets(o, event) ==
  <<o>> \o (IF event \in CASHIER_EVENTS THEN <<"cashier">> ELSE << >>)
        \o (IF event \in KITCHEN_EVENTS THEN <<"kitchen">> ELSE << >>)

\* The first n of them, as the pages that are in them.
Members(o, event, n) ==
  {p \in Pages : \E i \in 1..n : Targets(o, event)[i] = group[p]}
-----------------------------------------------------------------------------
Row == [status : OrderStatus \cup {NoStatus}, version : Nat, since : Nat]
NoRow == [status |-> NoStatus, version |-> 0, since |-> 0]

\* Cards of a board column carry the status of the column.
Card == [order : Orders, status : OrderStatus, version : Nat]
CardOf(o) == [order |-> o, status |-> order[o].status,
              version |-> order[o].version]

\* The columns a group's fragment is made of, each as the statuses it selects,
\* in the order the template evaluates them.
Columns(g) ==
  CASE g = "cashier" -> <<{New}, {Confirmed}, {InPreparation}, {Ready}, {Served}>>
    [] g = "kitchen" -> <<{Confirmed}, {InPreparation}, {Ready}>>
    [] OTHER         -> <<OrderStatus>>

Limit(g, column) ==
  CASE g = "cashier" /\ column = {Served} -> ServedLimit
    [] g = "kitchen" /\ column = {Ready}  -> ReadyLimit
    [] OTHER -> Cardinality(Orders)

\* The orders a column is about, and what its query may answer with: the latest
\* of them where it is limited (the database breaks ties as it likes).
Selected(g, column) ==
  {o \in Orders : order[o].status \in column /\ (g \in Orders => o = g)}
Answers(g, column) ==
  LET all == Selected(g, column)
  IN {some \in SUBSET all :
        /\ \/ some = all
           \/ Cardinality(some) = Limit(g, column)
        /\ Cardinality(some) <= Limit(g, column)
        /\ \A x \in some, y \in all \ some : order[x].since >= order[y].since}

Begun(p) == [left |-> Columns(group[p]), cards |-> {}]
Fetch == [left : Seq(SUBSET OrderStatus), cards : SUBSET Card]

Pairs == Pages \X Orders
Push == [page : Pages, order : Orders, version : Nat]
Notice == [order : Orders, version : Nat, event : {Event[s] : s \in OrderStatus}]

\* Messages are on their way only to pages that are connected.
TypeOK ==
  /\ order \in [Orders -> Row]
  /\ changes \in 0..MaxChanges
  /\ announced \subseteq Orders
  /\ notices \subseteq Notice
  /\ group \in [Pages -> Groups]
  /\ socket \subseteq Pages
  /\ pushes \subseteq Push
  /\ \A m \in pushes : m.page \in socket
  /\ fetch \in [Pages -> Seq(Fetch)]
  /\ shows \in [Pages -> SUBSET Card]
  /\ displayed \subseteq Pairs
  /\ missed \subseteq Pairs
  /\ faults \in 0..MaxFaults

\* The row of an order nothing went wrong with, after v commits.
RowAfter(v) == IF v = 0 THEN NoRow ELSE
  [status |-> <<New, Confirmed, InPreparation, Ready, Served>>[v],
   version |-> v, since |-> 0]

\* The cards are those of some answer to each of the page's columns.
IsBoard(g, cards) ==
  LET about(column) == {c \in cards : c.status \in column}
  IN /\ \A i \in DOMAIN Columns(g) : \E some \in Answers(g, Columns(g)[i]) :
          about(Columns(g)[i]) = {CardOf(o) : o \in some}
     /\ \A c \in cards : \E i \in DOMAIN Columns(g) : c.status \in Columns(g)[i]

\* The pages have been rendered and their scripts are about to connect.
Init ==
  /\ \E v \in Opening : order = [o \in Orders |-> RowAfter(v[o])]
  /\ changes = 0
  /\ announced = {}
  /\ notices = {}
  /\ group \in [Pages -> {g \in Groups : g \in Orders => order[g] # NoRow}]
  /\ socket = {}
  /\ pushes = {}
  /\ fetch = [p \in Pages |-> << >>]
  /\ shows \in [Pages -> SUBSET {CardOf(o) : o \in {x \in Orders : order[x] # NoRow}}]
  /\ \A p \in Pages : IsBoard(group[p], shows[p])
  /\ displayed = Pairs
  /\ missed = {}
  /\ faults = 0
-----------------------------------------------------------------------------
Fail == faults < MaxFaults /\ faults' = faults + 1

Current(m) == m.version = order[m.order].version
Lost(messages) == {<<m.page, m.order>> : m \in {x \in messages : Current(x)}}

\* group_send to the first n groups.  Pages of the group that are not connected,
\* and pages of the groups it does not come to, do not hear of it.
Send(o, version, event, n) ==
  LET message(p) == [page |-> p, order |-> o, version |-> version]
      all  == Members(o, event, Len(Targets(o, event)))
      told == Members(o, event, n) \cap socket
  IN /\ pushes' = pushes \cup {message(p) : p \in told}
     /\ missed' = missed \cup Lost({message(p) : p \in all \ told})

\* The row of o is committed with a new status.
Put(o, status) ==
  /\ changes < MaxChanges
  /\ changes' = changes + 1
  /\ order' = [order EXCEPT ![o] = [status |-> status, version |-> @.version + 1,
                                    since |-> changes + 1]]
  /\ displayed' = displayed \ (Pages \X {o})
  /\ missed' = missed \ (Pages \X {o})

\* create_order calls _notify as its last act, inside its transaction.  The group
\* of the order itself has no page yet.
Announce(o) ==
  /\ order[o] = NoRow
  /\ o \notin announced
  /\ changes < MaxChanges
  /\ announced' = announced \cup {o}
  /\ \/ /\ Send(o, 1, Event[New], Len(Targets(o, Event[New])))
        /\ UNCHANGED faults
     \/ /\ Fail
        /\ UNCHANGED <<pushes, missed>>
  /\ UNCHANGED <<order, changes, notices, group, socket, fetch, shows, displayed>>

CommitOrder(o) ==
  /\ o \in announced
  /\ Put(o, New)
  /\ announced' = announced \ {o}
  /\ UNCHANGED <<notices, group, socket, pushes, fetch, shows, faults>>

\* The server is killed between the two.
RollBack(o) ==
  /\ o \in announced
  /\ Fail
  /\ announced' = announced \ {o}
  /\ UNCHANGED <<order, changes, notices, group, pageVars>>

\* A service of apps/orders/services.py moves the order; _notify follows.
Transition(o, target) ==
  /\ order[o] # NoRow
  /\ can_transition(order[o].status, target)
  /\ Put(o, target)
  /\ notices' = notices \cup {[order |-> o, version |-> order[o].version + 1,
                               event |-> Event[target]]}
  /\ UNCHANGED <<announced, group, socket, pushes, fetch, shows, faults>>

\* _notify: broadcast_order_event comes to the end, or fails on the way, or is
\* never called because the server is killed first.
Notify(n) ==
  /\ n \in notices
  /\ notices' = notices \ {n}
  /\ \/ /\ Send(n.order, n.version, n.event, Len(Targets(n.order, n.event)))
        /\ UNCHANGED faults
     \/ \E i \in 0..(Len(Targets(n.order, n.event)) - 1) :
          Send(n.order, n.version, n.event, i) /\ Fail
  /\ UNCHANGED <<order, changes, announced, group, socket, fetch, shows, displayed>>
-----------------------------------------------------------------------------
\* connectSocket's open, at the start and 3 s after every close; connect joins
\* the group and nothing is fetched.
Connect(p) ==
  /\ p \notin socket
  /\ socket' = socket \cup {p}
  /\ UNCHANGED <<orderVars, group, pushes, fetch, shows, displayed, missed, faults>>

\* The connection is lost, with what is on its way to it.
Disconnect(p) ==
  LET gone == {m \in pushes : m.page = p}
  IN /\ p \in socket
     /\ Fail
     /\ socket' = socket \ {p}
     /\ pushes' = pushes \ gone
     /\ missed' = missed \cup Lost(gone)
     /\ UNCHANGED <<orderVars, group, fetch, shows, displayed>>

Start(p) == /\ Len(fetch[p]) < MaxFetches
            /\ fetch' = [fetch EXCEPT ![p] = Append(@, Begun(p))]

\* onmessage: refresh, whatever the message says and whatever is in flight.
Receive(p, m) ==
  /\ m \in pushes
  /\ m.page = p
  /\ pushes' = pushes \ {m}
  /\ Start(p)
  /\ UNCHANGED <<orderVars, group, socket, shows, displayed, missed, faults>>

\* (mutant) the timer is a fallback only: it does nothing while connected
Poll_WhenDisconnected(p) ==
  /\ p \notin socket
  /\ Start(p)
  /\ UNCHANGED <<orderVars, group, socket, pushes, shows, displayed, missed, faults>>

\* startPolling: the timer fires, connected or not.
Poll(p) ==
  /\ Start(p)
  /\ UNCHANGED <<orderVars, group, socket, pushes, shows, displayed, missed, faults>>

\* The view's template evaluates the next column: one query.
ReadColumn(p, f) ==
  LET q == fetch[p][f]
  IN /\ q.left # << >>
     /\ \E some \in Answers(group[p], Head(q.left)) :
          fetch' = [fetch EXCEPT ![p][f] =
                      [left |-> Tail(q.left), cards |-> q.cards \cup {CardOf(o) : o \in some}]]
     /\ UNCHANGED <<orderVars, group, socket, pushes, shows, displayed, missed, faults>>

\* The answer arrives: el.innerHTML = html.
Replace(p, f) ==
  LET q == fetch[p][f]
  IN /\ q.left = << >>
     /\ shows' = [shows EXCEPT ![p] = q.cards]
     /\ displayed' = displayed \cup {<<p, o>> : o \in {x \in Orders : CardOf(x) \in q.cards}}
     /\ fetch' = [fetch EXCEPT ![p] = RemoveAt(@, f)]
     /\ UNCHANGED <<orderVars, group, socket, pushes, missed, faults>>

\* Fetch f of p has o's present row or will come to it.
Carries(p, f, o) ==
  \/ CardOf(o) \in fetch[p][f].cards
  \/ \E i \in DOMAIN fetch[p][f].left : o \in Selected(group[p], fetch[p][f].left[i])

\* No answer, or not an OK one: the page keeps what it has.
FetchFails(p, f) ==
  /\ Fail
  /\ fetch' = [fetch EXCEPT ![p] = RemoveAt(@, f)]
  /\ missed' = missed \cup {<<p, o>> : o \in {x \in Orders : Carries(p, f, x)}}
  /\ UNCHANGED <<orderVars, group, socket, pushes, shows, displayed>>
-----------------------------------------------------------------------------
Server == \/ \E o \in Orders : Announce(o) \/ CommitOrder(o) \/ RollBack(o)
          \/ \E o \in Orders, target \in OrderStatus : Transition(o, target)
          \/ \E n \in notices : Notify(n)

Browser == \E p \in Pages :
  \/ Connect(p)
  \/ Disconnect(p)
  \/ Poll(p)
  \/ \E m \in pushes : Receive(p, m)
  \/ \E f \in DOMAIN fetch[p] : \/ ReadColumn(p, f)
                               \/ Replace(p, f)
                               \/ FetchFails(p, f)

Next == Server \/ Browser

Spec == Init /\ [][Next]_vars

\* The timer keeps firing, and fetches get on; which of them, and whether each
\* one is ever answered, is left open.
Fairness == \A p \in Pages :
  /\ WF_vars(Poll(p))
  /\ WF_vars(\E f \in DOMAIN fetch[p] : ReadColumn(p, f) \/ Replace(p, f))

FairSpec == Spec /\ Fairness
-----------------------------------------------------------------------------
\* What a page is there to tell its user without a reload: work for the kitchen,
\* orders to be served, and every step of the guest's order.  New orders are not
\* in it, because order.created may be answered before the order is committed.
Awaits(g) == CASE g = "cashier" -> {Ready}
               [] g = "kitchen" -> {Confirmed, InPreparation}
               [] OTHER         -> OrderStatus \ {New}

\* The push of every such step brings it to the page, timer or not: its notice is
\* to come, or a message or a fetch that will have it is on its way, or the page
\* has shown it, or a failure took it.  Overlapping fetches, messages that come in
\* another order than the commits, and orders that move while a board is read
\* column by column do not break this.
PushedInTime ==
  \A p \in Pages : \A o \in Selected(group[p], Awaits(group[p])) :
    \/ <<p, o>> \in displayed \cup missed
    \/ \E n \in notices : n.order = o /\ Current(n)
    \/ \E m \in pushes : m.page = p /\ m.order = o /\ Current(m)
    \/ \E f \in DOMAIN fetch[p] : Carries(p, f, o)

\* When orders stop moving, every page comes to show exactly what is committed
\* and stays so, whatever was lost, whichever answers came late and whatever was
\* announced before its commit: the timer makes up for it (docs/MANUAL_CASHIER.md).
BoardsCatchUp == \A p \in Pages : <>[]IsBoard(group[p], shows[p])
=============================================================================
