---------------------------- MODULE Boards_proofs ----------------------------
(***************************************************************************)
(* A push brings every awaited step to the page, for any number of pages,  *)
(* orders and fetches in flight.  A notice that is still current has to    *)
(* carry the event of the row as it is, or it would not go to the groups   *)
(* that wait for it; and a fetch has to be made of the columns of its      *)
(* page, none of them limited where it shows what is awaited, or it might  *)
(* read past the order it was started for.                                 *)
(***************************************************************************)
EXTENDS Boards, FiniteSetTheorems, SequenceTheorems, TLAPS

USE LimitAssumption, BoundAssumption

\* A notice is never ahead of its row, and tells of the row when it is current.
NoticesRight == \A n \in notices :
  /\ n.version <= order[n.order].version
  /\ Current(n) => n.event = Event[order[n.order].status]

ColumnsOf(g) == {Columns(g)[i] : i \in DOMAIN Columns(g)}

\* What a fetch has yet to read are columns of its page.
FetchesRight == \A p \in Pages : \A f \in 1..Len(fetch[p]) :
  \A i \in 1..Len(fetch[p][f].left) : fetch[p][f].left[i] \in ColumnsOf(group[p])

IInv == TypeOK /\ NoticesRight /\ FetchesRight /\ PushedInTime
-----------------------------------------------------------------------------
(***************************************************************************)
(* The boards.                                                             *)
(***************************************************************************)

LEMMA ColumnsType ==
  ASSUME NEW g
  PROVE  /\ Columns(g) \in Seq(SUBSET OrderStatus)
         /\ ColumnsOf(g) \subseteq SUBSET OrderStatus
<1>1. CASE g = "cashier"
  BY <1>1 DEF Columns, ColumnsOf, OrderStatus
<1>2. CASE g = "kitchen"
  BY <1>2 DEF Columns, ColumnsOf, OrderStatus
<1>3. CASE g # "cashier" /\ g # "kitchen"
  BY <1>3 DEF Columns, ColumnsOf, OrderStatus
<1> QED
  BY <1>1, <1>2, <1>3

\* An order awaited by a group is in a column of it.
LEMMA AwaitedHasColumn ==
  ASSUME NEW g \in Groups, NEW st \in Awaits(g)
  PROVE  \E i \in 1..Len(Columns(g)) : st \in Columns(g)[i]
<1>1. CASE g = "cashier"
  BY <1>1 DEF Columns, Awaits
<1>2. CASE g = "kitchen"
  BY <1>2 DEF Columns, Awaits
<1>3. CASE g # "cashier" /\ g # "kitchen"
  BY <1>3 DEF Columns, Awaits
<1> QED
  BY <1>1, <1>2, <1>3

\* The columns of what is awaited are not limited.
LEMMA AwaitedNotLimited ==
  ASSUME NEW g \in Groups, NEW st \in Awaits(g),
         NEW column \in ColumnsOf(g), st \in column
  PROVE  Limit(g, column) = Cardinality(Orders)
<1>1. CASE g = "cashier"
  BY <1>1 DEF Columns, ColumnsOf, Awaits, Limit, New, Confirmed, InPreparation, Ready, Served
<1>2. CASE g = "kitchen"
  BY <1>2 DEF Columns, ColumnsOf, Awaits, Limit, New, Confirmed, InPreparation, Ready, Served
<1>3. CASE g # "cashier" /\ g # "kitchen"
  BY <1>3 DEF Limit
<1> QED
  BY <1>1, <1>2, <1>3

\* So a query for such a column answers with every order of it.
LEMMA AwaitedIsAnswered ==
  ASSUME NEW g \in Groups, NEW o \in Selected(g, Awaits(g)),
         NEW column \in ColumnsOf(g), o \in Selected(g, column),
         NEW some \in Answers(g, column)
  PROVE  o \in some
<1>1. Limit(g, column) = Cardinality(Orders)
  BY AwaitedNotLimited DEF Selected
<1>2. CASE some = Selected(g, column)
  BY <1>2
<1>3. CASE some # Selected(g, column)
  <2>1. some \subseteq Orders /\ Cardinality(some) = Cardinality(Orders)
    BY <1>1, <1>3 DEF Answers, Selected
  <2>2. some = Orders
    BY <2>1, OrdersAssumption, FS_Subset
  <2> QED
    BY <2>2 DEF Selected
<1> QED
  BY <1>2, <1>3

Has(s, x) == \E i \in 1..Len(s) : s[i] = x

LEMMA ConcatHas ==
  ASSUME NEW S, NEW s \in Seq(S), NEW t \in Seq(S), NEW x, Has(s, x) \/ Has(t, x)
  PROVE  Has(s \o t, x)
<1>1. Len(s) \in Nat /\ Len(t) \in Nat /\ Len(s \o t) = Len(s) + Len(t)
  BY ConcatProperties
<1>2. ASSUME NEW i \in 1..Len(s)
      PROVE  i \in 1..Len(s \o t) /\ (s \o t)[i] = s[i]
  <2>1. i \in 1..(Len(s) + Len(t)) /\ i <= Len(s)
    BY <1>1
  <2> QED
    BY <1>1, <2>1, ConcatProperties
<1>3. ASSUME NEW i \in 1..Len(t)
      PROVE  i + Len(s) \in 1..Len(s \o t) /\ (s \o t)[i + Len(s)] = t[i]
  <2>1. /\ i + Len(s) \in 1..(Len(s) + Len(t)) /\ ~(i + Len(s) <= Len(s))
        /\ (i + Len(s)) - Len(s) = i
    BY <1>1
  <2>2. (s \o t)[i + Len(s)] = t[(i + Len(s)) - Len(s)]
    BY <2>1, ConcatProperties
  <2> QED
    BY <1>1, <2>1, <2>2
<1> QED
  BY <1>2, <1>3 DEF Has

\* The event of a status goes to the groups that await it.
LEMMA AwaitedIsTold ==
  ASSUME NEW g \in Groups, NEW o \in Orders, NEW st \in OrderStatus,
         st \in Awaits(g), g \in Orders => g = o
  PROVE  Has(Targets(o, Event[st]), g)
<1> DEFINE e == Event[st]
           c == IF e \in CASHIER_EVENTS THEN <<"cashier">> ELSE << >>
           k == IF e \in KITCHEN_EVENTS THEN <<"kitchen">> ELSE << >>
<1>1. Targets(o, e) = (<<o>> \o c) \o k
  BY DEF Targets
<1>2. /\ <<o>> \in Seq(Groups) /\ Has(<<o>>, o)
      /\ <<"cashier">> \in Seq(Groups) /\ Has(<<"cashier">>, "cashier")
      /\ <<"kitchen">> \in Seq(Groups) /\ Has(<<"kitchen">>, "kitchen")
      /\ << >> \in Seq(Groups)
  BY DEF Groups, Has
<1>3. c \in Seq(Groups) /\ k \in Seq(Groups) /\ <<o>> \o c \in Seq(Groups)
  <2>1. c \in Seq(Groups) /\ k \in Seq(Groups)
    BY <1>2
  <2> HIDE DEF c, k
  <2> QED
    BY <1>2, <2>1, ConcatProperties
<1>4. \/ g = o
      \/ g = "cashier" /\ Has(c, g)
      \/ g = "kitchen" /\ Has(k, g)
  <2>1. CASE g = "cashier"
    <3>1. e = "order.ready"
      BY <2>1 DEF Awaits, Event, Ready
    <3>2. c = <<"cashier">>
      BY <3>1 DEF CASHIER_EVENTS
    <3> QED
      BY <1>2, <2>1, <3>2
  <2>2. CASE g = "kitchen"
    <3>1. e \in {"order.confirmed", "order.preparation_started"}
      BY <2>2 DEF Awaits, Event, Confirmed, InPreparation
    <3>2. k = <<"kitchen">>
      BY <3>1 DEF KITCHEN_EVENTS
    <3> QED
      BY <1>2, <2>2, <3>2
  <2> QED
    BY <2>1, <2>2 DEF Groups
<1> HIDE DEF c, k
<1>5. Has(<<o>>, g) \/ Has(c, g) => Has(<<o>> \o c, g)
  BY <1>2, <1>3, ConcatHas
<1>6. Has(<<o>> \o c, g) \/ Has(k, g) => Has((<<o>> \o c) \o k, g)
  BY <1>3, ConcatHas
<1> QED
  BY <1>1, <1>2, <1>4, <1>5, <1>6
-----------------------------------------------------------------------------
(***************************************************************************)
(* Fetches.                                                                *)
(***************************************************************************)

\* Taking one of them out leaves the others, one place further to the front.
LEMMA RemoveAtKeeps ==
  ASSUME NEW S, NEW s \in Seq(S), NEW k \in 1..Len(s)
  PROVE  /\ RemoveAt(s, k) \in Seq(S)
         /\ Len(RemoveAt(s, k)) = Len(s) - 1
         /\ \A j \in 1..Len(RemoveAt(s, k)) :
              \E i \in 1..Len(s) : i # k /\ RemoveAt(s, k)[j] = s[i]
         /\ \A i \in 1..Len(s) : i # k =>
              \E j \in 1..Len(RemoveAt(s, k)) : RemoveAt(s, k)[j] = s[i]
<1> DEFINE a == SubSeq(s, 1, k - 1)
           b == SubSeq(s, k + 1, Len(s))
<1>1. a \in Seq(S) /\ Len(a) = k - 1 /\ \A i \in 1..(k - 1) : a[i] = s[i]
  OBVIOUS
<1>2. b \in Seq(S) /\ Len(b) = Len(s) - k /\ \A i \in 1..(Len(s) - k) : b[i] = s[i + k]
  OBVIOUS
<1>3. RemoveAt(s, k) = a \o b
  BY DEF RemoveAt
<1> HIDE DEF a, b
<1>4. /\ a \o b \in Seq(S)
      /\ Len(a \o b) = Len(s) - 1
      /\ \A j \in 1..(k - 1) : (a \o b)[j] = s[j]
      /\ \A j \in k..(Len(s) - 1) : (a \o b)[j] = s[j + 1]
  <2>0. Len(s) \in Nat /\ k \in Nat /\ k >= 1 /\ k <= Len(s)
    OBVIOUS
  <2>1. a \o b \in Seq(S) /\ Len(a \o b) = Len(s) - 1
    <3>1. Len(a \o b) = Len(a) + Len(b)
      BY <1>1, <1>2, ConcatProperties
    <3>2. Len(a) + Len(b) = Len(s) - 1
      BY <1>1, <1>2, <2>0
    <3> QED
      BY <1>1, <1>2, <3>1, <3>2, ConcatProperties
  <2>2. \A j \in 1..(Len(s) - 1) :
          (a \o b)[j] = IF j <= k - 1 THEN a[j] ELSE b[j - (k - 1)]
    <3>1. Len(a) + Len(b) = Len(s) - 1
      BY <1>1, <1>2, <2>0
    <3> QED
      BY <1>1, <1>2, <3>1, ConcatProperties
  <2>3. ASSUME NEW j \in k..(Len(s) - 1)
        PROVE  (a \o b)[j] = s[j + 1]
    <3>1. /\ j \in 1..(Len(s) - 1) /\ ~(j <= k - 1)
          /\ j - (k - 1) \in 1..(Len(s) - k) /\ (j - (k - 1)) + k = j + 1
      BY <2>0
    <3>2. (a \o b)[j] = b[j - (k - 1)]
      BY <2>2, <3>1
    <3>3. b[j - (k - 1)] = s[(j - (k - 1)) + k]
      BY <1>2, <3>1
    <3> QED
      BY <3>1, <3>2, <3>3
  <2>4. ASSUME NEW j \in 1..(k - 1)
        PROVE  (a \o b)[j] = s[j]
    <3>1. j \in 1..(Len(s) - 1) /\ j <= k - 1
      BY <2>0
    <3> QED
      BY <1>1, <2>2, <3>1
  <2> QED
    BY <2>1, <2>3, <2>4
<1>5. ASSUME NEW j \in 1..(Len(s) - 1)
      PROVE  \E i \in 1..Len(s) : i # k /\ (a \o b)[j] = s[i]
  <2>0. j \in Nat /\ k \in Nat /\ Len(s) \in Nat
    OBVIOUS
  <2>1. CASE j < k
    <3>1. j \in 1..(k - 1) /\ j \in 1..Len(s) /\ j # k
      BY <2>1
    <3> QED
      BY <1>4, <3>1
  <2>2. CASE j >= k
    <3>1. j \in k..(Len(s) - 1) /\ j + 1 \in 1..Len(s) /\ j + 1 # k
      BY <2>2
    <3> QED
      BY <1>4, <3>1
  <2>3. j < k \/ j >= k
    BY <2>0
  <2> QED
    BY <2>1, <2>2, <2>3
<1>6. ASSUME NEW i \in 1..Len(s), i # k
      PROVE  \E j \in 1..(Len(s) - 1) : (a \o b)[j] = s[i]
  <2>0. i \in Nat /\ k \in Nat /\ Len(s) \in Nat
    OBVIOUS
  <2>1. CASE i < k
    <3>1. i \in 1..(k - 1) /\ i \in 1..(Len(s) - 1)
      BY <2>1
    <3> QED
      BY <1>4, <3>1
  <2>2. CASE i > k
    <3>1. i - 1 \in k..(Len(s) - 1) /\ (i - 1) + 1 = i /\ i - 1 \in 1..(Len(s) - 1)
      BY <2>2
    <3> QED
      BY <1>4, <3>1
  <2>3. i < k \/ i > k
    BY <1>6, <2>0
  <2> QED
    BY <2>1, <2>2, <2>3
<1> QED
  BY <1>3, <1>4, <1>5, <1>6
LEMMA FetchType ==
  ASSUME TypeOK, NEW p \in Pages
  PROVE  /\ fetch[p] \in Seq(Fetch) /\ Len(fetch[p]) \in Nat
         /\ DOMAIN fetch[p] = 1..Len(fetch[p])
         /\ \A f \in 1..Len(fetch[p]) :
              /\ fetch[p][f] \in Fetch
              /\ fetch[p][f].left \in Seq(SUBSET OrderStatus)
              /\ Len(fetch[p][f].left) \in Nat
              /\ DOMAIN fetch[p][f].left = 1..Len(fetch[p][f].left)
<1>1. fetch[p] \in Seq(Fetch)
  BY DEF TypeOK
<1>2. Len(fetch[p]) \in Nat /\ DOMAIN fetch[p] = 1..Len(fetch[p])
  BY <1>1
<1>3. ASSUME NEW f \in 1..Len(fetch[p])
      PROVE  /\ fetch[p][f] \in Fetch
             /\ fetch[p][f].left \in Seq(SUBSET OrderStatus)
  <2>1. fetch[p][f] \in Fetch
    BY <1>1
  <2> QED
    BY <2>1 DEF Fetch
<1> QED
  BY <1>1, <1>2, <1>3

LEMMA BegunType == ASSUME NEW p PROVE Begun(p) \in Fetch
BY ColumnsType DEF Begun, Fetch

LEMMA CardType ==
  ASSUME TypeOK, NEW o \in Orders, order[o].status \in OrderStatus
  PROVE  CardOf(o) \in Card
BY DEF TypeOK, CardOf, Card, Row

LEMMA OpeningRows ==
  ASSUME NEW v \in 0..5
  PROVE  RowAfter(v) \in Row /\ (RowAfter(v) # NoRow => RowAfter(v).status \in OrderStatus)
<1>1. CASE v = 0
  BY <1>1 DEF RowAfter, Row, NoRow
<1>2. CASE v # 0
  <2>1. v \in Nat /\ v \in 1..5
    BY <1>2
  <2>2. <<New, Confirmed, InPreparation, Ready, Served>>[v] \in OrderStatus
    BY <2>1 DEF OrderStatus
  <2> QED
    BY <1>2, <2>1, <2>2 DEF RowAfter, Row
<1> QED
  BY <1>1, <1>2

LEMMA TypeInit == Init => TypeOK
<1> SUFFICES ASSUME Init PROVE TypeOK
  OBVIOUS
<1>1. /\ order \in [Orders -> Row]
      /\ \A o \in Orders : order[o] # NoRow => order[o].status \in OrderStatus
  <2>1. PICK v \in Opening : order = [o \in Orders |-> RowAfter(v[o])]
    BY DEF Init
  <2>2. \A o \in Orders : v[o] \in 0..5
    BY OpeningAssumption
  <2> QED
    BY <2>1, <2>2, OpeningRows
<1>2. \A o \in Orders : order[o] # NoRow => CardOf(o) \in Card
  BY <1>1 DEF CardOf, Card, Row
<1>3. shows \in [Pages -> SUBSET Card]
  <2>1. {CardOf(o) : o \in {x \in Orders : order[x] # NoRow}} \subseteq Card
    BY <1>2
  <2> QED
    BY <2>1 DEF Init
<1>4. group \in [Pages -> Groups]
  BY DEF Init
<1>5. fetch \in [Pages -> Seq(Fetch)]
  BY DEF Init
<1>6. changes \in 0..MaxChanges /\ faults \in 0..MaxFaults
  BY DEF Init
<1> QED
  BY <1>1, <1>3, <1>4, <1>5, <1>6 DEF Init, TypeOK

LEMMA PutType ==
  ASSUME TypeOK, NEW o \in Orders, NEW status \in OrderStatus, Put(o, status)
  PROVE  /\ order' \in [Orders -> Row] /\ changes' \in 0..MaxChanges
         /\ displayed' \subseteq Pairs /\ missed' \subseteq Pairs
         /\ order'[o].status = status /\ order'[o].version = order[o].version + 1
         /\ \A x \in Orders \ {o} : order'[x] = order[x]
<1>1. order[o].version \in Nat /\ changes \in Nat /\ changes + 1 \in Nat
  BY DEF TypeOK, Row
<1>2. changes' \in 0..MaxChanges
  BY <1>1 DEF Put
<1>3. order' = [order EXCEPT ![o] = [status |-> status, version |-> order[o].version + 1,
                                    since |-> changes + 1]]
  BY DEF Put, TypeOK
<1>4. [status |-> status, version |-> order[o].version + 1, since |-> changes + 1] \in Row
  BY <1>1 DEF Row
<1>5. order \in [Orders -> Row]
  BY DEF TypeOK
<1>6. displayed' \subseteq Pairs /\ missed' \subseteq Pairs
  BY DEF TypeOK, Put
<1>7. /\ order' \in [Orders -> Row]
      /\ order'[o] = [status |-> status, version |-> order[o].version + 1,
                      since |-> changes + 1]
      /\ \A x \in Orders \ {o} : order'[x] = order[x]
  BY <1>3, <1>4, <1>5
<1> QED
  BY <1>2, <1>6, <1>7

LEMMA SendType ==
  ASSUME TypeOK, NEW o \in Orders, NEW version \in Nat, NEW event, NEW n,
         Send(o, version, event, n)
  PROVE  /\ pushes' \subseteq Push /\ missed' \subseteq Pairs
         /\ \A m \in pushes' : m.page \in socket
<1> DEFINE message(p) == [page |-> p, order |-> o, version |-> version]
           all  == Members(o, event, Len(Targets(o, event)))
           told == Members(o, event, n) \cap socket
<1>1. all \subseteq Pages /\ told \subseteq Pages /\ told \subseteq socket
  BY DEF Members
<1>2. /\ pushes' = pushes \cup {message(p) : p \in told}
      /\ missed' = missed \cup Lost({message(p) : p \in all \ told})
  BY DEF Send
<1> HIDE DEF all, told
<1>3. \A p \in Pages : message(p) \in Push
  BY DEF Push
<1>4. Lost({message(p) : p \in all \ told}) \subseteq Pairs
  <2>1. \A m \in {message(p) : p \in all \ told} : m.page \in Pages /\ m.order \in Orders
    BY <1>1
  <2> QED
    BY <2>1 DEF Lost, Pairs
<1> QED
  BY <1>1, <1>2, <1>3, <1>4 DEF TypeOK

LEMMA FailType == TypeOK /\ Fail => faults' \in 0..MaxFaults
BY DEF TypeOK, Fail

LEMMA StartType ==
  ASSUME TypeOK, NEW p \in Pages, Start(p)
  PROVE  /\ fetch' \in [Pages -> Seq(Fetch)]
         /\ fetch' = [fetch EXCEPT ![p] = Append(fetch[p], Begun(p))]
<1>1. Append(fetch[p], Begun(p)) \in Seq(Fetch)
  BY FetchType, BegunType
<1> QED
  BY <1>1 DEF Start, TypeOK

\* What a query adds are orders of the column, as cards.
LEMMA AnswerType ==
  ASSUME TypeOK, NEW p \in Pages, NEW column \in SUBSET OrderStatus,
         NEW some \in Answers(group[p], column)
  PROVE  some \subseteq Orders /\ {CardOf(o) : o \in some} \subseteq Card
BY CardType DEF Answers, Selected

LEMMA ReadType ==
  ASSUME TypeOK, NEW p \in Pages, NEW f \in 1..Len(fetch[p]), ReadColumn(p, f)
  PROVE  /\ fetch' \in [Pages -> Seq(Fetch)]
         /\ fetch[p][f].left # << >>
         /\ \E some \in Answers(group[p], Head(fetch[p][f].left)) :
              fetch' = [fetch EXCEPT ![p] = [fetch[p] EXCEPT ![f] =
                [left |-> Tail(fetch[p][f].left),
                 cards |-> fetch[p][f].cards \cup {CardOf(o) : o \in some}]]]
<1> DEFINE q == fetch[p][f]
<1>1. /\ fetch[p] \in Seq(Fetch) /\ q \in Fetch /\ q.left \in Seq(SUBSET OrderStatus)
  BY FetchType
<1>2. q.left # << >>
  BY DEF ReadColumn
<1>3. PICK some \in Answers(group[p], Head(q.left)) :
        fetch' = [fetch EXCEPT ![p][f] =
          [left |-> Tail(q.left), cards |-> q.cards \cup {CardOf(o) : o \in some}]]
  BY DEF ReadColumn
<1> DEFINE new == [left |-> Tail(q.left), cards |-> q.cards \cup {CardOf(o) : o \in some}]
<1>4. fetch' = [fetch EXCEPT ![p] = [fetch[p] EXCEPT ![f] = new]]
  BY <1>3
<1>5. Head(q.left) \in SUBSET OrderStatus /\ Tail(q.left) \in Seq(SUBSET OrderStatus)
  BY <1>1, <1>2, HeadTailProperties
<1>6. new \in Fetch
  <2>1. {CardOf(o) : o \in some} \subseteq Card
    BY <1>5, AnswerType
  <2> QED
    BY <1>1, <1>5, <2>1 DEF Fetch
<1>7. fetch' \in [Pages -> Seq(Fetch)]
  <2>1. [fetch[p] EXCEPT ![f] = new] \in Seq(Fetch)
    BY <1>1, <1>6, ExceptSeq
  <2> QED
    BY <1>4, <2>1 DEF TypeOK
<1> QED
  BY <1>2, <1>4, <1>7

LEMMA TypeStep == TypeOK /\ [Next]_vars => TypeOK'
<1> SUFFICES ASSUME TypeOK, [Next]_vars PROVE TypeOK'
  OBVIOUS
<1> USE DEF orderVars, pageVars
<1>1. ASSUME NEW o \in Orders, Announce(o) PROVE TypeOK'
  <2>1. announced' \subseteq Orders
    BY <1>1 DEF Announce, TypeOK
  <2>2. /\ pushes' \subseteq Push /\ missed' \subseteq Pairs
        /\ \A m \in pushes' : m.page \in socket
        /\ faults' \in 0..MaxFaults
    <3>1. CASE /\ Send(o, 1, Event[New], Len(Targets(o, Event[New])))
               /\ UNCHANGED faults
      BY <3>1, SendType DEF TypeOK
    <3>2. CASE Fail /\ UNCHANGED <<pushes, missed>>
      BY <3>2, FailType DEF TypeOK
    <3> QED
      BY <1>1, <3>1, <3>2 DEF Announce
  <2>3. UNCHANGED <<order, changes, notices, group, socket, fetch, shows, displayed>>
    BY <1>1 DEF Announce
  <2> QED
    BY <2>1, <2>2, <2>3 DEF TypeOK
<1>2. ASSUME NEW o \in Orders, CommitOrder(o) PROVE TypeOK'
  <2>1. Put(o, New) /\ announced' \subseteq Orders
    BY <1>2 DEF CommitOrder, TypeOK
  <2>2. /\ order' \in [Orders -> Row] /\ changes' \in 0..MaxChanges
        /\ displayed' \subseteq Pairs /\ missed' \subseteq Pairs
    BY <2>1, PutType DEF OrderStatus
  <2>3. UNCHANGED <<notices, group, socket, pushes, fetch, shows, faults>>
    BY <1>2 DEF CommitOrder
  <2> QED
    BY <2>1, <2>2, <2>3 DEF TypeOK
<1>3. ASSUME NEW o \in Orders, RollBack(o) PROVE TypeOK'
  <2>1. announced' \subseteq Orders /\ faults' \in 0..MaxFaults
    BY <1>3, FailType DEF RollBack, TypeOK
  <2> QED
    BY <1>3, <2>1 DEF RollBack, TypeOK
<1>4. ASSUME NEW o \in Orders, NEW target \in OrderStatus, Transition(o, target)
      PROVE  TypeOK'
  <2>1. Put(o, target)
    BY <1>4 DEF Transition
  <2>2. /\ order' \in [Orders -> Row] /\ changes' \in 0..MaxChanges
        /\ displayed' \subseteq Pairs /\ missed' \subseteq Pairs
    BY <2>1, PutType
  <2>3. notices' \subseteq Notice
    <3>1. order[o].version + 1 \in Nat
      BY DEF TypeOK, Row
    <3> QED
      BY <1>4, <3>1 DEF Transition, TypeOK, Notice
  <2>4. UNCHANGED <<announced, group, socket, pushes, fetch, shows, faults>>
    BY <1>4 DEF Transition
  <2> QED
    BY <2>2, <2>3, <2>4 DEF TypeOK
<1>5. ASSUME NEW n \in notices, Notify(n) PROVE TypeOK'
  <2>1. n.order \in Orders /\ n.version \in Nat /\ notices' \subseteq Notice
    BY <1>5 DEF Notify, TypeOK, Notice
  <2>2. /\ pushes' \subseteq Push /\ missed' \subseteq Pairs
        /\ \A m \in pushes' : m.page \in socket
        /\ faults' \in 0..MaxFaults
    <3>1. CASE /\ Send(n.order, n.version, n.event, Len(Targets(n.order, n.event)))
               /\ UNCHANGED faults
      BY <2>1, <3>1, SendType DEF TypeOK
    <3>2. CASE \E i \in 0..(Len(Targets(n.order, n.event)) - 1) :
                 Send(n.order, n.version, n.event, i) /\ Fail
      BY <2>1, <3>2, SendType, FailType
    <3> QED
      BY <1>5, <3>1, <3>2 DEF Notify
  <2>3. UNCHANGED <<order, changes, announced, group, socket, fetch, shows, displayed>>
    BY <1>5 DEF Notify
  <2> QED
    BY <2>1, <2>2, <2>3 DEF TypeOK
<1>6. ASSUME NEW p \in Pages, Connect(p) PROVE TypeOK'
  BY <1>6 DEF Connect, TypeOK
<1>7. ASSUME NEW p \in Pages, Disconnect(p) PROVE TypeOK'
  <2>1. faults' \in 0..MaxFaults
    BY <1>7, FailType DEF Disconnect
  <2>2. missed' \subseteq Pairs
    <3>1. Lost({m \in pushes : m.page = p}) \subseteq Pairs
      BY DEF Lost, TypeOK, Push, Pairs
    <3> QED
      BY <1>7, <3>1 DEF Disconnect, TypeOK
  <2>3. /\ socket' \subseteq Pages /\ pushes' \subseteq Push
        /\ \A m \in pushes' : m.page \in socket'
    BY <1>7 DEF Disconnect, TypeOK
  <2>4. UNCHANGED <<orderVars, group, fetch, shows, displayed>>
    BY <1>7 DEF Disconnect
  <2> QED
    BY <2>1, <2>2, <2>3, <2>4 DEF TypeOK
<1>8. ASSUME NEW p \in Pages, Poll(p) PROVE TypeOK'
  <2>1. fetch' \in [Pages -> Seq(Fetch)]
    BY <1>8, StartType DEF Poll
  <2> QED
    BY <1>8, <2>1 DEF Poll, TypeOK
<1>9. ASSUME NEW p \in Pages, NEW m \in pushes, Receive(p, m) PROVE TypeOK'
  <2>1. fetch' \in [Pages -> Seq(Fetch)]
    BY <1>9, StartType DEF Receive
  <2> QED
    BY <1>9, <2>1 DEF Receive, TypeOK
<1>10. ASSUME NEW p \in Pages, NEW f \in DOMAIN fetch[p], ReadColumn(p, f)
       PROVE  TypeOK'
  <2>1. fetch' \in [Pages -> Seq(Fetch)]
    BY <1>10, FetchType, ReadType
  <2>2. UNCHANGED <<orderVars, group, socket, pushes, shows, displayed, missed, faults>>
    BY <1>10 DEF ReadColumn
  <2> QED
    BY <2>1, <2>2 DEF TypeOK
<1>11. ASSUME NEW p \in Pages, NEW f \in DOMAIN fetch[p], Replace(p, f)
       PROVE  TypeOK'
  <2>1. f \in 1..Len(fetch[p]) /\ fetch[p] \in Seq(Fetch) /\ fetch[p][f] \in Fetch
    BY FetchType
  <2>2. RemoveAt(fetch[p], f) \in Seq(Fetch)
    BY <2>1, RemoveAtKeeps
  <2>3. fetch' \in [Pages -> Seq(Fetch)]
    BY <1>11, <2>2 DEF Replace, TypeOK
  <2>4. shows' \in [Pages -> SUBSET Card]
    BY <1>11, <2>1 DEF Replace, TypeOK, Fetch
  <2>5. displayed' \subseteq Pairs
    BY <1>11 DEF Replace, TypeOK, Pairs
  <2>6. UNCHANGED <<orderVars, group, socket, pushes, missed, faults>>
    BY <1>11 DEF Replace
  <2> QED
    BY <2>3, <2>4, <2>5, <2>6 DEF TypeOK
<1>12. ASSUME NEW p \in Pages, NEW f \in DOMAIN fetch[p], FetchFails(p, f)
       PROVE  TypeOK'
  <2>1. RemoveAt(fetch[p], f) \in Seq(Fetch)
    BY FetchType, RemoveAtKeeps
  <2>2. fetch' \in [Pages -> Seq(Fetch)]
    BY <1>12, <2>1 DEF FetchFails, TypeOK
  <2>3. missed' \subseteq Pairs /\ faults' \in 0..MaxFaults
    BY <1>12, FailType DEF FetchFails, TypeOK, Pairs
  <2>4. UNCHANGED <<orderVars, group, socket, pushes, shows, displayed>>
    BY <1>12 DEF FetchFails
  <2> QED
    BY <2>2, <2>3, <2>4 DEF TypeOK
<1>13. CASE UNCHANGED vars
  BY <1>13 DEF vars, TypeOK
<1> QED
  BY <1>1, <1>2, <1>3, <1>4, <1>5, <1>6, <1>7, <1>8, <1>9, <1>10, <1>11, <1>12, <1>13
     DEF Next, Server, Browser

\* Every reachable state is well typed: messages are on their way to connected
\* pages only, and pages show cards of orders that exist.
THEOREM TypeCorrect == Spec => []TypeOK
BY TypeInit, TypeStep, PTL DEF Spec
-----------------------------------------------------------------------------
(***************************************************************************)
(* Notices.                                                                *)
(***************************************************************************)

\* Only a commit changes rows, and only one row.
LEMMA RowSteps ==
  ASSUME TypeOK, [Next]_vars
  PROVE  /\ group' = group
         /\ \/ UNCHANGED <<order, displayed, missed>> /\ notices' \subseteq notices
            \/ UNCHANGED order /\ notices' \subseteq notices
            \/ \E o \in Orders : CommitOrder(o)
            \/ \E o \in Orders, target \in OrderStatus : Transition(o, target)
BY DEF Next, Server, Browser, vars, orderVars, pageVars, Announce, CommitOrder, RollBack,
       Transition, Notify, Connect, Disconnect, Poll, Receive, ReadColumn, Replace, FetchFails

\* A notice that was right stays right: its row is as it was, or ahead of it.
LEMMA PutKeepsNotices ==
  ASSUME TypeOK, NoticesRight, NEW o \in Orders, NEW status \in OrderStatus,
         Put(o, status), NEW n \in notices
  PROVE  /\ n.version <= order'[n.order].version
         /\ n.version = order'[n.order].version =>
              n.event = Event[order'[n.order].status]
<1>1. n.order \in Orders /\ n.version \in Nat /\ order[o].version \in Nat
  BY DEF TypeOK, Notice, Row
<1>2. /\ n.version <= order[n.order].version
      /\ n.version = order[n.order].version => n.event = Event[order[n.order].status]
  BY DEF NoticesRight, Current
<1>3. /\ order'[o].version = order[o].version + 1
      /\ \A x \in Orders \ {o} : order'[x] = order[x]
  BY PutType
<1>4. CASE n.order = o
  BY <1>1, <1>2, <1>3, <1>4
<1>5. CASE n.order # o
  BY <1>1, <1>2, <1>3, <1>5
<1> QED
  BY <1>4, <1>5

LEMMA NoticesStep == TypeOK /\ NoticesRight /\ [Next]_vars => NoticesRight'
<1> SUFFICES ASSUME TypeOK, NoticesRight, [Next]_vars, NEW n \in notices'
             PROVE  /\ n.version <= order'[n.order].version
                    /\ n.version = order'[n.order].version =>
                         n.event = Event[order'[n.order].status]
  BY DEF NoticesRight, Current
<1>1. CASE UNCHANGED order /\ notices' \subseteq notices
  BY <1>1 DEF NoticesRight, Current
<1>2. ASSUME NEW o \in Orders, CommitOrder(o)
      PROVE  /\ n.version <= order'[n.order].version
             /\ n.version = order'[n.order].version =>
                  n.event = Event[order'[n.order].status]
  <2>1. Put(o, New) /\ New \in OrderStatus /\ n \in notices
    BY <1>2 DEF CommitOrder, OrderStatus
  <2> QED
    BY <2>1, PutKeepsNotices
<1>3. ASSUME NEW o \in Orders, NEW target \in OrderStatus, Transition(o, target)
      PROVE  /\ n.version <= order'[n.order].version
             /\ n.version = order'[n.order].version =>
                  n.event = Event[order'[n.order].status]
  <2>1. Put(o, target)
    BY <1>3 DEF Transition
  <2>2. \/ n \in notices
        \/ n = [order |-> o, version |-> order[o].version + 1, event |-> Event[target]]
    BY <1>3 DEF Transition
  <2>3. CASE n \in notices
    BY <2>1, <2>3, PutKeepsNotices
  <2>4. CASE n = [order |-> o, version |-> order[o].version + 1, event |-> Event[target]]
    <3>1. order'[o].version = order[o].version + 1 /\ order'[o].status = target
      BY <2>1, PutType
    <3>2. order[o].version \in Nat
      BY DEF TypeOK, Row
    <3> QED
      BY <2>4, <3>1, <3>2
  <2> QED
    BY <2>2, <2>3, <2>4
<1> QED
  BY <1>1, <1>2, <1>3, RowSteps
-----------------------------------------------------------------------------
(***************************************************************************)
(* Fetches in flight.                                                      *)
(***************************************************************************)

\* What may become of the fetches of a page.
Begins(p) == fetch' = [fetch EXCEPT ![p] = Append(fetch[p], Begun(p))]

LEMMA FetchSteps ==
  ASSUME TypeOK, [Next]_vars, NEW p \in Pages
  PROVE  \/ fetch'[p] = fetch[p]
         \/ Begins(p)
         \/ \E f \in 1..Len(fetch[p]) : ReadColumn(p, f) \/ Replace(p, f) \/ FetchFails(p, f)
<1>1. /\ \A q \in Pages : DOMAIN fetch[q] = 1..Len(fetch[q])
      /\ fetch \in [Pages -> Seq(Fetch)]
  BY FetchType DEF TypeOK
<1>2. \/ fetch' = fetch
      \/ \E q \in Pages : Begins(q)
      \/ \E q \in Pages : \E f \in 1..Len(fetch[q]) :
           ReadColumn(q, f) \/ Replace(q, f) \/ FetchFails(q, f)
  BY <1>1 DEF Next, Server, Browser, vars, orderVars, pageVars, Announce, CommitOrder,
       RollBack, Transition, Notify, Connect, Disconnect, Poll, Receive, Start, Begins
<1>3. ASSUME NEW q \in Pages, q # p,
             \/ Begins(q)
             \/ \E f \in 1..Len(fetch[q]) :
                  ReadColumn(q, f) \/ Replace(q, f) \/ FetchFails(q, f)
      PROVE  fetch'[p] = fetch[p]
  BY <1>1, <1>3, ReadType DEF Begins, Replace, FetchFails
<1> QED
  BY <1>2, <1>3

LEMMA BeginsKeeps ==
  ASSUME TypeOK, NEW p \in Pages, Begins(p)
  PROVE  /\ \A q \in Pages \ {p} : fetch'[q] = fetch[q]
         /\ Len(fetch'[p]) = Len(fetch[p]) + 1
         /\ fetch'[p][Len(fetch[p]) + 1] = Begun(p)
         /\ \A f \in 1..Len(fetch[p]) : fetch'[p][f] = fetch[p][f]
<1>1. fetch[p] \in Seq(Fetch) /\ Begun(p) \in Fetch /\ fetch \in [Pages -> Seq(Fetch)]
  BY FetchType, BegunType DEF TypeOK
<1>2. fetch'[p] = Append(fetch[p], Begun(p))
  BY <1>1 DEF Begins
<1> QED
  BY <1>1, <1>2, AppendProperties DEF Begins

LEMMA FetchesStep == TypeOK /\ FetchesRight /\ [Next]_vars => FetchesRight'
<1> SUFFICES ASSUME TypeOK, FetchesRight, [Next]_vars
             PROVE  FetchesRight'
  OBVIOUS
<1>0. group' = group
  BY RowSteps
<1> SUFFICES ASSUME NEW q \in Pages, NEW g \in 1..Len(fetch'[q]),
                    NEW i \in 1..Len(fetch'[q][g].left)
             PROVE  fetch'[q][g].left[i] \in ColumnsOf(group[q])
  BY <1>0 DEF FetchesRight
<1>1. ASSUME NEW f \in 1..Len(fetch[q]), fetch'[q][g] = fetch[q][f]
      PROVE  fetch'[q][g].left[i] \in ColumnsOf(group[q])
  BY <1>1 DEF FetchesRight
<1>2. CASE fetch'[q] = fetch[q]
  BY <1>1, <1>2
<1>3. ASSUME Begins(q) PROVE fetch'[q][g].left[i] \in ColumnsOf(group[q])
  <2>1. g \in 1..Len(fetch[q]) \/ g = Len(fetch[q]) + 1
    BY <1>3, BeginsKeeps, FetchType
  <2>2. CASE g \in 1..Len(fetch[q])
    BY <1>1, <1>3, <2>2, BeginsKeeps
  <2>3. CASE g = Len(fetch[q]) + 1
    <3>1. fetch'[q][g] = Begun(q)
      BY <1>3, <2>3, BeginsKeeps
    <3>2. fetch'[q][g].left = Columns(group[q])
      BY <3>1 DEF Begun
    <3>3. DOMAIN Columns(group[q]) = 1..Len(Columns(group[q]))
      BY ColumnsType
    <3> QED
      BY <3>2, <3>3 DEF ColumnsOf
  <2> QED
    BY <2>1, <2>2, <2>3
<1>4. ASSUME NEW f \in 1..Len(fetch[q]), ReadColumn(q, f)
      PROVE  fetch'[q][g].left[i] \in ColumnsOf(group[q])
  <2>1. PICK cards : fetch' = [fetch EXCEPT ![q] = [fetch[q] EXCEPT ![f] =
                       [left |-> Tail(fetch[q][f].left), cards |-> cards]]]
    BY <1>4, ReadType
  <2>2. fetch[q] \in Seq(Fetch) /\ fetch \in [Pages -> Seq(Fetch)]
    BY FetchType DEF TypeOK
  <2>3. fetch'[q] = [fetch[q] EXCEPT ![f] = [left |-> Tail(fetch[q][f].left), cards |-> cards]]
    BY <2>1, <2>2
  <2>4. g \in 1..Len(fetch[q])
    BY <2>2, <2>3
  <2>5. CASE g # f
    BY <1>1, <2>2, <2>3, <2>4, <2>5
  <2>6. CASE g = f
    <3>1. fetch'[q][g].left = Tail(fetch[q][f].left)
      BY <2>2, <2>3, <2>6
    <3>2. fetch[q][f].left \in Seq(SUBSET OrderStatus) /\ fetch[q][f].left # << >>
      BY <1>4, FetchType DEF ReadColumn
    <3>3. /\ i + 1 \in 1..Len(fetch[q][f].left)
          /\ Tail(fetch[q][f].left)[i] = fetch[q][f].left[i + 1]
      BY <3>1, <3>2
    <3> QED
      BY <3>1, <3>3 DEF FetchesRight
  <2> QED
    BY <2>5, <2>6
<1>5. ASSUME NEW f \in 1..Len(fetch[q]), Replace(q, f) \/ FetchFails(q, f)
      PROVE  fetch'[q][g].left[i] \in ColumnsOf(group[q])
  <2>1. fetch'[q] = RemoveAt(fetch[q], f)
    BY <1>5 DEF Replace, FetchFails, TypeOK
  <2>2. fetch[q] \in Seq(Fetch)
    BY FetchType
  <2>3. \A j \in 1..Len(RemoveAt(fetch[q], f)) :
          \E h \in 1..Len(fetch[q]) : h # f /\ RemoveAt(fetch[q], f)[j] = fetch[q][h]
    BY <2>2, RemoveAtKeeps
  <2> QED
    BY <1>1, <2>1, <2>3
<1> QED
  BY <1>2, <1>3, <1>4, <1>5, FetchSteps
-----------------------------------------------------------------------------
(***************************************************************************)
(* Pushes in time.                                                         *)
(***************************************************************************)

Awaited(p, o) == o \in Selected(group[p], Awaits(group[p]))

Reached(p, o) ==
  \/ <<p, o>> \in displayed \cup missed
  \/ \E n \in notices : n.order = o /\ Current(n)
  \/ \E m \in pushes : m.page = p /\ m.order = o /\ Current(m)
  \/ \E f \in 1..Len(fetch[p]) : Carries(p, f, o)

LEMMA PushedParts ==
  TypeOK => (PushedInTime <=> \A p \in Pages, o \in Orders : Awaited(p, o) => Reached(p, o))
BY FetchType DEF PushedInTime, Awaited, Reached, Selected

LEMMA PushedPartsNext ==
  (TypeOK => (PushedInTime <=> \A p \in Pages, o \in Orders : Awaited(p, o) => Reached(p, o)))'
BY PushedParts, PTL

\* A fetch that is left alone carries what it did, wherever it is now.
LEMMA CarriesOn ==
  ASSUME NEW p, NEW o, group' = group, order'[o] = order[o], NEW f, NEW h,
         fetch'[p][h] = fetch[p][f], Carries(p, f, o)
  PROVE  Carries(p, h, o)'
BY DEF Carries, CardOf, Selected

\* A fetch of all columns has what is awaited in one of them.
LEMMA BegunCarries ==
  ASSUME TypeOK, NEW p \in Pages, NEW o \in Orders, Awaited(p, o), Begins(p),
         group' = group, order'[o] = order[o]
  PROVE  \E f \in 1..Len(fetch'[p]) : Carries(p, f, o)'
<1>1. PICK new \in 1..Len(fetch'[p]) : fetch'[p][new] = Begun(p)
  <2>1. Len(fetch[p]) + 1 \in 1..Len(fetch'[p])
    BY BeginsKeeps, FetchType
  <2> QED
    BY <2>1, BeginsKeeps
<1>2. fetch'[p][new].left = Columns(group[p])
  BY <1>1 DEF Begun
<1>3. group[p] \in Groups /\ order[o].status \in Awaits(group[p])
      /\ (group[p] \in Orders => o = group[p])
  BY DEF Awaited, Selected, TypeOK
<1>4. PICK i \in 1..Len(Columns(group[p])) : order[o].status \in Columns(group[p])[i]
  BY <1>3, AwaitedHasColumn
<1>5. i \in DOMAIN Columns(group[p])
  BY ColumnsType
<1>6. Carries(p, new, o)'
  BY <1>2, <1>3, <1>4, <1>5 DEF Carries, Selected
<1> QED
  BY <1>1, <1>6

\* A fetch that has an awaited row, or will come to it, brings it to the page or
\* is lost.
LEMMA FetchCarries ==
  ASSUME TypeOK, FetchesRight, [Next]_vars, NEW p \in Pages, NEW o \in Orders,
         Awaited(p, o), order'[o] = order[o],
         NEW f \in 1..Len(fetch[p]), Carries(p, f, o)
  PROVE  \/ <<p, o>> \in displayed' \cup missed'
         \/ \E h \in 1..Len(fetch'[p]) : Carries(p, h, o)'
<1>0. group' = group /\ fetch[p] \in Seq(Fetch) /\ Len(fetch[p]) \in Nat
  BY RowSteps, FetchType
<1>1. CASE fetch'[p] = fetch[p]
  BY <1>0, <1>1, CarriesOn
<1>2. CASE Begins(p)
  <2>1. fetch'[p][f] = fetch[p][f] /\ f \in 1..Len(fetch'[p])
    BY <1>0, <1>2, BeginsKeeps
  <2> QED
    BY <1>0, <2>1, CarriesOn
<1>3. ASSUME NEW g \in 1..Len(fetch[p]), g # f, Replace(p, g) \/ FetchFails(p, g)
      PROVE  \E h \in 1..Len(fetch'[p]) : Carries(p, h, o)'
  <2>1. fetch'[p] = RemoveAt(fetch[p], g)
    BY <1>3 DEF Replace, FetchFails, TypeOK
  <2>2. \A k \in 1..Len(fetch[p]) : k # g =>
          \E h \in 1..Len(RemoveAt(fetch[p], g)) : RemoveAt(fetch[p], g)[h] = fetch[p][k]
    BY <1>0, RemoveAtKeeps
  <2>3. PICK h \in 1..Len(fetch'[p]) : fetch'[p][h] = fetch[p][f]
    BY <1>3, <2>1, <2>2
  <2> QED
    BY <1>0, <2>3, CarriesOn
<1>4. ASSUME Replace(p, f) PROVE <<p, o>> \in displayed'
  <2>1. CardOf(o) \in fetch[p][f].cards
    BY <1>4 DEF Replace, Carries
  <2> QED
    BY <1>4, <2>1 DEF Replace
<1>5. ASSUME FetchFails(p, f) PROVE <<p, o>> \in missed'
  BY <1>5 DEF FetchFails
<1>6. ASSUME NEW g \in 1..Len(fetch[p]), ReadColumn(p, g)
      PROVE  \E h \in 1..Len(fetch'[p]) : Carries(p, h, o)'
  <2> DEFINE q == fetch[p][g]
  <2>1. PICK some \in Answers(group[p], Head(q.left)) :
          fetch' = [fetch EXCEPT ![p] = [fetch[p] EXCEPT ![g] =
            [left |-> Tail(q.left), cards |-> q.cards \cup {CardOf(x) : x \in some}]]]
    BY <1>6, ReadType
  <2>2. fetch'[p] = [fetch[p] EXCEPT ![g] =
          [left |-> Tail(q.left), cards |-> q.cards \cup {CardOf(x) : x \in some}]]
    BY <2>1 DEF TypeOK
  <2>3. f \in 1..Len(fetch'[p]) /\ (f # g => fetch'[p][f] = fetch[p][f])
    BY <1>0, <2>2
  <2>4. CASE f # g
    BY <1>0, <2>3, <2>4, CarriesOn
  <2>5. CASE f = g
    <3>1. /\ fetch'[p][f].left = Tail(q.left)
          /\ fetch'[p][f].cards = q.cards \cup {CardOf(x) : x \in some}
      BY <1>0, <2>2, <2>5
    <3>2. CardOf(o)' = CardOf(o)
      BY DEF CardOf
    <3>3. CASE CardOf(o) \in q.cards
      BY <2>3, <3>1, <3>2, <3>3 DEF Carries
    <3>4. ASSUME NEW i \in DOMAIN q.left, o \in Selected(group[p], q.left[i])
          PROVE  Carries(p, f, o)'
      <4>1. /\ q.left \in Seq(SUBSET OrderStatus) /\ q.left # << >>
            /\ i \in 1..Len(q.left) /\ Len(q.left) \in Nat
        BY <1>6, FetchType DEF ReadColumn
      <4>2. CASE i = 1
        <5>1. Head(q.left) = q.left[i] /\ Head(q.left) \in ColumnsOf(group[p])
          BY <4>1, <4>2 DEF FetchesRight
        <5>2. group[p] \in Groups
          BY DEF TypeOK
        <5>3. o \in some
          BY <2>1, <3>4, <5>1, <5>2, AwaitedIsAnswered DEF Awaited
        <5> QED
          BY <3>1, <3>2, <5>3 DEF Carries
      <4>3. CASE i # 1
        <5>1. /\ i - 1 \in DOMAIN Tail(q.left)
              /\ Tail(q.left)[i - 1] = q.left[i]
          BY <4>1, <4>3
        <5>2. order'[o].status \in Tail(q.left)[i - 1] /\ (group'[p] \in Orders => o = group'[p])
          BY <1>0, <3>4, <5>1 DEF Selected
        <5> QED
          BY <3>1, <5>1, <5>2 DEF Carries, Selected
      <4> QED
        BY <4>2, <4>3
    <3> QED
      BY <2>3, <2>5, <3>3, <3>4 DEF Carries
  <2> QED
    BY <2>4, <2>5
<1> QED
  BY <1>1, <1>2, <1>3, <1>4, <1>5, <1>6, FetchSteps

\* A current message starts a fetch, or is lost with its connection.
LEMMA PushCarries ==
  ASSUME TypeOK, [Next]_vars, NEW p \in Pages, NEW o \in Orders,
         Awaited(p, o), order'[o] = order[o],
         NEW m \in pushes, m.page = p, m.order = o, Current(m)
  PROVE  \/ <<p, o>> \in missed'
         \/ m \in pushes'
         \/ \E f \in 1..Len(fetch'[p]) : Carries(p, f, o)'
<1>0. group' = group
  BY RowSteps
<1>1. ASSUME Receive(p, m)
      PROVE  \E f \in 1..Len(fetch'[p]) : Carries(p, f, o)'
  <2>1. Begins(p)
    BY <1>1 DEF Receive, Start, Begins
  <2> QED
    BY <1>0, <2>1, BegunCarries
<1>2. ASSUME Disconnect(p)
      PROVE  <<p, o>> \in missed'
  BY <1>2 DEF Disconnect, Lost
<1>3. m \in pushes' \/ Receive(p, m) \/ Disconnect(p)
  <2>1. ASSUME NEW q \in Pages, Disconnect(q) PROVE m \in pushes' \/ Disconnect(p)
    BY <2>1 DEF Disconnect
  <2>2. ASSUME NEW q \in Pages, NEW x \in pushes, Receive(q, x)
        PROVE  m \in pushes' \/ Receive(p, m)
    BY <2>2 DEF Receive
  <2>3. \/ \E q \in Pages : Disconnect(q)
        \/ \E q \in Pages, x \in pushes : Receive(q, x)
        \/ pushes \subseteq pushes'
    BY DEF Next, Server, Browser, vars, orderVars, pageVars, Announce, CommitOrder, RollBack,
         Transition, Notify, Connect, Poll, ReadColumn, Replace, FetchFails, Send
  <2> QED
    BY <2>1, <2>2, <2>3
<1> QED
  BY <1>1, <1>2, <1>3

\* A current notice is sent to the pages that await its order, or is missed.
LEMMA NoticeCarries ==
  ASSUME TypeOK, NoticesRight, [Next]_vars, NEW p \in Pages, NEW o \in Orders,
         Awaited(p, o), order'[o] = order[o],
         NEW n \in notices, n.order = o, Current(n)
  PROVE  \/ <<p, o>> \in missed'
         \/ n \in notices'
         \/ \E m \in pushes' : m.page = p /\ m.order = o /\ m.version = order'[o].version
<1>1. n \in notices' \/ Notify(n)
  BY DEF Next, Server, Browser, vars, orderVars, pageVars, Announce, CommitOrder, RollBack,
       Transition, Notify, Connect, Disconnect, Poll, Receive, ReadColumn, Replace, FetchFails
<1>2. ASSUME NEW i, Send(o, n.version, n.event, i)
      PROVE  \/ <<p, o>> \in missed'
             \/ \E m \in pushes' : m.page = p /\ m.order = o /\ m.version = order'[o].version
  <2> DEFINE message(q) == [page |-> q, order |-> o, version |-> n.version]
             all  == Members(o, n.event, Len(Targets(o, n.event)))
             told == Members(o, n.event, i) \cap socket
  <2>1. n.event = Event[order[o].status] /\ n.version = order[o].version
    BY DEF NoticesRight, Current
  <2>2. order[o].status \in OrderStatus /\ order[o].status \in Awaits(group[p])
        /\ group[p] \in Groups /\ (group[p] \in Orders => group[p] = o)
    <3>1. Awaits(group[p]) \subseteq OrderStatus
      BY DEF Awaits, OrderStatus
    <3> QED
      BY <3>1 DEF Awaited, Selected, TypeOK
  <2>3. Has(Targets(o, n.event), group[p])
    BY <2>1, <2>2, AwaitedIsTold
  <2>4. p \in all
    BY <2>3 DEF Members, Has
  <2>5. /\ pushes' = pushes \cup {message(q) : q \in told}
        /\ missed' = missed \cup Lost({message(q) : q \in all \ told})
    BY <1>2 DEF Send
  <2> HIDE DEF all, told
  <2>6. CASE p \in told
    <3>1. message(p) \in pushes'
      BY <2>5, <2>6
    <3> QED
      BY <2>1, <3>1
  <2>7. CASE p \notin told
    <3>1. message(p) \in {message(q) : q \in all \ told}
      BY <2>4, <2>7
    <3>2. Current(message(p))
      BY <2>1 DEF Current
    <3>3. <<p, o>> \in Lost({message(q) : q \in all \ told})
      <4> DEFINE mine == message(p)
                 sent == {message(q) : q \in all \ told}
      <4>1. mine.page = p /\ mine.order = o
        OBVIOUS
      <4>2. mine \in {x \in sent : Current(x)}
        BY <3>1, <3>2
      <4> HIDE DEF mine, sent
      <4>3. <<mine.page, mine.order>> \in {<<x.page, x.order>> : x \in {y \in sent : Current(y)}}
        BY <4>2
      <4> QED
        BY <4>1, <4>3 DEF Lost, sent
    <3> QED
      BY <2>5, <3>3
  <2> QED
    BY <2>6, <2>7
<1> QED
  BY <1>1, <1>2 DEF Notify

\* A step either commits a change to o, or leaves its row and what is remembered.
LEMMA RowStep ==
  ASSUME TypeOK, [Next]_vars, NEW o \in Orders
  PROVE  \/ CommitOrder(o)
         \/ \E target \in OrderStatus : Transition(o, target)
         \/ /\ order'[o] = order[o]
            /\ \A p \in Pages : <<p, o>> \in displayed \cup missed =>
                                <<p, o>> \in displayed' \cup missed'
<1>1. ASSUME NEW x \in Orders, x # o, NEW status \in OrderStatus, Put(x, status)
      PROVE  /\ order'[o] = order[o]
             /\ \A p \in Pages : <<p, o>> \in displayed \cup missed =>
                                 <<p, o>> \in displayed' \cup missed'
  BY <1>1 DEF Put, TypeOK
<1>2. ASSUME NEW x \in Orders, x # o, CommitOrder(x)
      PROVE  \E status \in OrderStatus : Put(x, status)
  BY <1>2 DEF CommitOrder, OrderStatus
<1>3. \/ \E x \in Orders : CommitOrder(x)
      \/ \E x \in Orders, target \in OrderStatus : Transition(x, target)
      \/ order' = order /\ displayed \subseteq displayed' /\ missed \subseteq missed'
  BY DEF Next, Server, Browser, vars, orderVars, pageVars, Announce, RollBack, Notify, Send,
       Connect, Disconnect, Poll, Receive, ReadColumn, Replace, FetchFails
<1> QED
  BY <1>1, <1>2, <1>3 DEF Transition

LEMMA PushedStep ==
  TypeOK /\ NoticesRight /\ FetchesRight /\ PushedInTime /\ [Next]_vars => PushedInTime'
<1> SUFFICES ASSUME TypeOK, NoticesRight, FetchesRight, PushedInTime, [Next]_vars,
                    TypeOK', NEW p \in Pages, NEW o \in Orders, Awaited(p, o)'
             PROVE  Reached(p, o)'
  BY TypeStep, PushedPartsNext
<1>0. group' = group
  BY RowSteps
<1>1. ASSUME CommitOrder(o) PROVE FALSE
  <2>1. order'[o].status = New
    BY <1>1, PutType DEF CommitOrder, OrderStatus
  <2>2. New \notin Awaits(group'[p])
    BY DEF Awaits, OrderStatus, New, Confirmed, InPreparation, Ready
  <2> QED
    BY <2>1, <2>2 DEF Awaited, Selected
<1>2. ASSUME NEW target \in OrderStatus, Transition(o, target)
      PROVE  Reached(p, o)'
  <2> DEFINE n == [order |-> o, version |-> order[o].version + 1, event |-> Event[target]]
  <2>1. n \in notices'
    BY <1>2 DEF Transition
  <2>2. order'[o].version = n.version
    BY <1>2, PutType DEF Transition
  <2> QED
    BY <2>1, <2>2 DEF Reached, Current
<1>3. ASSUME order'[o] = order[o],
             <<p, o>> \in displayed \cup missed => <<p, o>> \in displayed' \cup missed'
      PROVE  Reached(p, o)'
  <2>1. Awaited(p, o)
    BY <1>0, <1>3 DEF Awaited, Selected
  <2>2. Reached(p, o)
    BY <2>1, PushedParts
  <2>3. CASE <<p, o>> \in displayed \cup missed
    BY <1>3, <2>3 DEF Reached
  <2>4. ASSUME NEW n \in notices, n.order = o, Current(n)
        PROVE  Reached(p, o)'
    BY <1>3, <2>1, <2>4, NoticeCarries DEF Reached, Current
  <2>5. ASSUME NEW m \in pushes, m.page = p, m.order = o, Current(m)
        PROVE  Reached(p, o)'
    BY <1>3, <2>1, <2>5, PushCarries DEF Reached, Current
  <2>6. ASSUME NEW f \in 1..Len(fetch[p]), Carries(p, f, o)
        PROVE  Reached(p, o)'
    BY <1>3, <2>1, <2>6, FetchCarries DEF Reached
  <2> QED
    BY <2>2, <2>3, <2>4, <2>5, <2>6 DEF Reached
<1> QED
  BY <1>1, <1>2, <1>3, RowStep

LEMMA InitRight == Init => NoticesRight /\ FetchesRight /\ PushedInTime
<1> SUFFICES ASSUME Init PROVE NoticesRight /\ FetchesRight /\ PushedInTime
  OBVIOUS
<1>1. NoticesRight
  BY DEF Init, NoticesRight
<1>2. FetchesRight
  BY DEF Init, FetchesRight
<1>3. PushedInTime
  BY DEF Init, PushedInTime, Pairs, Selected
<1> QED
  BY <1>1, <1>2, <1>3

\* The inductive invariant: types, notices that tell of their rows, fetches of
\* their pages' columns, and PushedInTime.
THEOREM Invariance == Spec => []IInv
<1>1. Init => IInv
  BY TypeInit, InitRight DEF IInv
<1>2. IInv /\ [Next]_vars => IInv'
  BY TypeStep, NoticesStep, FetchesStep, PushedStep DEF IInv
<1> QED
  BY <1>1, <1>2, PTL DEF Spec

\* Whatever is lost, overtaken or read column by column, a step that a page is
\* there to tell of is on the page, on its way to it, or known to be missed.
THEOREM StepsAlwaysPushedInTime == Spec => []PushedInTime
<1>1. IInv => PushedInTime
  BY DEF IInv
<1> QED
  BY <1>1, Invariance, PTL
=============================================================================
