-------------------------- MODULE OrderCheckout_proofs --------------------------
(***************************************************************************)
(* Proofs about OrderCheckout, for any number of guests, lines, keys,      *)
(* requests and days, with faults, several tabs and menu changes.  The     *)
(* invariants rest on three lemmas about steps: where a request's next     *)
(* state comes from (RequestSteps), who adds orders (OrdersGrow), and who  *)
(* writes sessions (SessionSteps).                                         *)
(***************************************************************************)
EXTENDS OrderCheckout, FiniteSetTheorems, TLAPS

USE ItemAssumption, KeyAssumption, DayAssumption, ChoiceAssumption DEF InPhase

\* A request that is not idle is active, with fields of their types.
LEMMA RequestType ==
  ASSUME TypeOK, NEW r \in Requests, req[r].phase # "idle"
  PROVE  /\ req[r] \in Active /\ req[r].phase \in Phases
         /\ req[r].session \in Sessions /\ req[r].copy \in Session
         /\ req[r].key \in Keys \cup {NoKey} /\ req[r].number \in Number
         /\ req[r].created \in Nat
         /\ req[r].todo \subseteq Lines /\ req[r].taken \subseteq Lines
<1>1. req[r] \in Active \cup {Idle}
  BY DEF TypeOK
<1>2. req[r] \in Active
  BY <1>1 DEF Idle
<1> QED
  BY <1>2 DEF Active

\* Of the requests, only r moves.
Only(r) == /\ req' = [req EXCEPT ![r] = req'[r]]
           /\ \A q \in Requests \ {r} : req'[q] = req[q]

\* What create_order does to its request, whichever statement is next.
Advances(r) ==
  LET a == req[r]
      b == req'[r]
  IN /\ a \in Active /\ b \in Active
     /\ b.session = a.session /\ b.copy = a.copy /\ b.key = a.key
     /\ \/ /\ a.phase = "lookup" /\ b.phase = "respond"
           /\ \E o \in orders : o.key = a.key /\ o.number = b.number
        \/ /\ a.phase = "lookup" /\ b.phase = "count"
           /\ b.todo = a.todo /\ b.taken = a.taken
        \/ /\ a.phase = "count" /\ b.phase = "insert"
           /\ b.number = next_order_number
           /\ b.todo = a.todo /\ b.taken = a.taken
        \/ /\ Insert(r) /\ b.phase = "items" /\ b.created = today
           /\ b.number = a.number
           /\ b.todo = a.todo /\ b.taken = a.taken
        \/ a.phase \in {"insert", "items", "commit"} /\ b.phase = "error"
        \/ /\ a.phase = "items" /\ b.phase = "items"
           /\ b.number = a.number /\ b.created = a.created
           /\ \E l \in a.todo : /\ b.todo = a.todo \ {l}
                                /\ b.taken = a.taken \cup {l}
        \/ /\ a.phase = "items" /\ b.phase = "commit" /\ a.todo = {}
           /\ b.number = a.number /\ b.created = a.created
           /\ b.todo = a.todo /\ b.taken = a.taken
           /\ <<a.number, a.key>> \in announced' \cup lost'
        \/ /\ Commit(r) /\ b.phase = "respond" /\ b.number = a.number

\* What a guest's request is when it starts.
Begins(r, s) ==
  LET b == req'[r]
  IN /\ req[r] = Idle /\ b \in Active
     /\ b.session = s /\ b.taken = {} /\ b.todo = session[s].lines
     /\ b.copy.last \in {session[s].last, NoNumber}
     /\ \/ /\ b.phase \in {"save", "chip"}
        \/ /\ b.phase = "lookup" /\ b.copy = session[s]
           /\ b.key \in SubmitKeys(s) /\ b.key \in Keys
           /\ session[s].lines # {}

LEMMA GuestBegins ==
  ASSUME TypeOK, NEW r \in Requests, NEW s \in Sessions, Guest(r, s)
  PROVE  /\ Begins(r, s)
         /\ Only(r)
         /\ UNCHANGED <<orders, session, menu, today, announced, lost>>
         /\ shown' \subseteq shown
         /\ drawn' \subseteq Lines \cup Keys /\ drawn \subseteq drawn'
<1> DEFINE new(phase, copy, key) ==
             [phase |-> phase, session |-> s, copy |-> copy, key |-> key,
              number |-> NoNumber, created |-> 0,
              todo |-> session[s].lines, taken |-> {}]
<1>1. /\ session[s] \in Session /\ session[s].lines \subseteq Lines
      /\ session[s].idem \in Keys \cup {NoKey} /\ session[s].last \in Number
      /\ NoNumber \in Number
  BY DEF TypeOK, Session, Number, NoNumber
<1>2. ASSUME NEW phase \in Phases, NEW copy \in Session, NEW key \in Keys \cup {NoKey},
             Begin(r, s, phase, copy, key), req[r] = Idle
      PROVE  /\ req'[r] = new(phase, copy, key) /\ req'[r] \in Active
             /\ req'[r].phase = phase /\ req'[r].copy = copy /\ req'[r].key = key
             /\ req'[r].session = s /\ req'[r].taken = {}
             /\ req'[r].todo = session[s].lines
             /\ Only(r)
  <2>1. new(phase, copy, key) \in Active
    BY <1>1 DEF Active
  <2>2. req' = [req EXCEPT ![r] = new(phase, copy, key)]
    BY <1>2 DEF Begin
  <2> QED
    BY <2>1, <2>2 DEF TypeOK, Only
<1> HIDE DEF new
<1>3. ASSUME NEW copy \in Session, NEW key \in Keys \cup {NoKey},
             CartRequest(r, s, copy, key),
             copy.last \in {session[s].last, NoNumber}
      PROVE  /\ Begins(r, s)
             /\ Only(r)
             /\ UNCHANGED <<orders, session, menu, today, announced, lost>>
             /\ shown' \subseteq shown
  <2>1. "save" \in Phases
    BY DEF Phases
  <2> QED
    BY <1>2, <1>3, <2>1 DEF CartRequest, Begins, Leave
<1>4. CASE CartDetail(r, s)
  <2>1. PICK k \in Keys \ drawn :
          /\ CartRequest(r, s, [session[s] EXCEPT !.idem = k],
                         IF HasButton(s) THEN k ELSE NoKey)
          /\ drawn' = drawn \cup {k}
    BY <1>4 DEF CartDetail
  <2>2. /\ [session[s] EXCEPT !.idem = k] \in Session
        /\ [session[s] EXCEPT !.idem = k].last = session[s].last
    BY <1>1 DEF Session
  <2> QED
    BY <1>3, <2>1, <2>2 DEF TypeOK
<1>5. CASE CartAdd(r, s)
  <2>1. PICK l \in Lines \ drawn, edited \in SUBSET session[s].lines :
          /\ CartRequest(r, s, [session[s] EXCEPT !.lines = (@ \cup {l}) \ edited], NoKey)
          /\ drawn' = drawn \cup {l}
    BY <1>5 DEF CartAdd
  <2>2. /\ [session[s] EXCEPT !.lines = (@ \cup {l}) \ edited] \in Session
        /\ [session[s] EXCEPT !.lines = (@ \cup {l}) \ edited].last = session[s].last
    BY <1>1 DEF Session
  <2> QED
    BY <1>3, <2>1, <2>2 DEF TypeOK
<1>6. CASE CartChange(r, s)
  <2>1. PICK l \in session[s].lines, keep \in BOOLEAN :
          /\ CartRequest(r, s, [session[s] EXCEPT
                                  !.lines = IF keep THEN @ ELSE @ \ {l}], NoKey)
          /\ drawn' = drawn
    BY <1>6 DEF CartChange
  <2>2. /\ [session[s] EXCEPT !.lines = IF keep THEN @ ELSE @ \ {l}] \in Session
        /\ [session[s] EXCEPT !.lines = IF keep THEN @ ELSE @ \ {l}].last
             = session[s].last
    BY <1>1 DEF Session
  <2> QED
    BY <1>3, <2>1, <2>2 DEF TypeOK
<1>7. CASE LastOrderExpires(r, s)
  <2> DEFINE copy == [session[s] EXCEPT !.last = NoNumber]
  <2>1. copy \in Session /\ copy.last = NoNumber
    BY <1>1 DEF Session
  <2>2. "chip" \in Phases
    BY DEF Phases
  <2> HIDE DEF copy
  <2>3. CASE CartRequest(r, s, copy, NoKey) /\ drawn' = drawn
    BY <1>3, <2>1, <2>3 DEF TypeOK
  <2>4. CASE /\ req[r] = Idle /\ Begin(r, s, "chip", copy, NoKey)
             /\ UNCHANGED <<orders, session, shown, menu, today, announced, lost, drawn>>
    BY <1>2, <2>1, <2>2, <2>4 DEF Begins, TypeOK
  <2> QED
    BY <1>7, <2>3, <2>4 DEF LastOrderExpires, copy
<1>8. CASE Submit(r, s)
  <2>1. PICK k \in SubmitKeys(s) :
          /\ req[r] = Idle /\ session[s].lines # {}
          /\ Begin(r, s, "lookup", session[s], k)
          /\ drawn' = drawn \cup {k}
          /\ UNCHANGED <<orders, session, shown, menu, today, announced, lost>>
    BY <1>8 DEF Submit
  <2>2. k \in Keys /\ "lookup" \in Phases
    BY <1>1 DEF SubmitKeys, Phases
  <2> QED
    BY <1>1, <1>2, <2>1, <2>2 DEF Begins, TypeOK
<1> QED
  BY <1>4, <1>5, <1>6, <1>7, <1>8 DEF Guest

\* create_order's own steps.  A line that cannot be ordered answers the request.
LEMMA CreateAdvances ==
  ASSUME TypeOK, IsFiniteSet(orders), NEW r \in Requests, CreateOrder(r)
  PROVE  /\ Advances(r) \/ (req[r].phase = "items" /\ req'[r] = Idle)
         /\ Only(r)
         /\ UNCHANGED <<session, shown, menu, today, drawn>>
         /\ announced \subseteq announced' /\ lost \subseteq lost'
         /\ announced' \subseteq Number \X Keys \cup {<<req[r].number, req[r].key>>}
         /\ lost' \subseteq Number \X Keys \cup {<<req[r].number, req[r].key>>}
         /\ orders' = orders \/ Commit(r)
<1>0. /\ req[r] \in Active /\ req[r].phase \in Phases
      /\ req[r].todo \subseteq Lines /\ req[r].taken \subseteq Lines
  <2>1. req[r].phase # "idle"
    BY DEF CreateOrder, Lookup, Count, Insert, Refuse, TakeLine, LineUnavailable,
           LineGone, Announce, Commit, CommitRefused
  <2> QED
    BY <2>1, RequestType
<1>1. /\ {"lookup", "count", "insert", "items", "commit", "respond", "error"}
           \subseteq Phases
      /\ r \in DOMAIN req
  BY DEF Phases, TypeOK
<1>2. ASSUME NEW b \in Active, req' = [req EXCEPT ![r] = b]
      PROVE  /\ req'[r] = b /\ req'[r] \in Active
             /\ Only(r)
  BY <1>1, <1>2 DEF TypeOK, Only
<1>3. announced \subseteq Number \X Keys /\ lost \subseteq Number \X Keys
  BY DEF TypeOK
<1>4. CASE Lookup(r)
  <2>1. CASE \E o \in orders : /\ o.key = req[r].key
               /\ req' = [req EXCEPT ![r].phase = "respond", ![r].number = o.number]
    <3>1. PICK o \in orders : /\ o.key = req[r].key
               /\ req' = [req EXCEPT ![r].phase = "respond", ![r].number = o.number]
      BY <2>1
    <3> DEFINE b == [req[r] EXCEPT !.phase = "respond", !.number = o.number]
    <3>2. o.number \in Number
      BY DEF TypeOK, Order
    <3>3. /\ b \in Active /\ req' = [req EXCEPT ![r] = b]
          /\ b.session = req[r].session /\ b.copy = req[r].copy /\ b.key = req[r].key
          /\ b.phase = "respond" /\ b.number = o.number
      BY <1>0, <1>1, <3>1, <3>2 DEF Active
    <3> HIDE DEF b
    <3> QED
      BY <1>0, <1>2, <1>3, <1>4, <3>1, <3>3 DEF Lookup, Advances
  <2>2. CASE req' = [req EXCEPT ![r].phase = "count"]
    <3> DEFINE b == [req[r] EXCEPT !.phase = "count"]
    <3>1. /\ b \in Active /\ req' = [req EXCEPT ![r] = b]
          /\ b.session = req[r].session /\ b.copy = req[r].copy /\ b.key = req[r].key
          /\ b.phase = "count" /\ b.todo = req[r].todo /\ b.taken = req[r].taken
      BY <1>0, <1>1, <2>2 DEF Active
    <3> HIDE DEF b
    <3> QED
      BY <1>0, <1>2, <1>3, <1>4, <3>1 DEF Lookup, Advances
  <2> QED
    BY <1>4, <2>1, <2>2 DEF Lookup
<1>5. CASE Count(r)
  <2> DEFINE b == [req[r] EXCEPT !.phase = "insert", !.number = next_order_number]
  <2>1. next_order_number \in Number
    <3>1. IsFiniteSet({o \in orders : o.created = today})
      BY FS_Subset
    <3>2. Cardinality({o \in orders : o.created = today}) \in Nat
      BY <3>1, FS_CardinalityType
    <3> QED
      BY <3>2 DEF next_order_number, Number, TypeOK
  <2>2. /\ b \in Active /\ req' = [req EXCEPT ![r] = b]
        /\ b.session = req[r].session /\ b.copy = req[r].copy /\ b.key = req[r].key
        /\ b.phase = "insert" /\ b.number = next_order_number
        /\ b.todo = req[r].todo /\ b.taken = req[r].taken
    BY <1>0, <1>1, <1>5, <2>1 DEF Count, Active
  <2> HIDE DEF b
  <2> QED
    BY <1>0, <1>2, <1>3, <1>5, <2>2 DEF Count, Advances
<1>6. CASE Insert(r)
  <2> DEFINE b == [req[r] EXCEPT !.phase = "items", !.created = today]
  <2>1. today \in Nat
    BY DEF TypeOK
  <2>2. /\ b \in Active /\ req' = [req EXCEPT ![r] = b]
        /\ b.session = req[r].session /\ b.copy = req[r].copy /\ b.key = req[r].key
        /\ b.phase = "items" /\ b.created = today /\ b.number = req[r].number
        /\ b.todo = req[r].todo /\ b.taken = req[r].taken
    BY <1>0, <1>1, <1>6, <2>1 DEF Insert, Active
  <2> HIDE DEF b
  <2>3. UNCHANGED <<orders, session, shown, menu, today, drawn, announced, lost>>
    BY <1>6 DEF Insert
  <2> QED
    BY <1>0, <1>2, <1>3, <1>6, <2>2, <2>3 DEF Advances
<1>7. CASE Refuse(r) \/ (\E l \in Lines : LineGone(r, l)) \/ CommitRefused(r)
  <2> DEFINE b == [req[r] EXCEPT !.phase = "error"]
  <2>1. /\ req' = [req EXCEPT ![r].phase = "error"]
        /\ req[r].phase \in {"insert", "items", "commit"}
        /\ UNCHANGED <<orders, session, shown, menu, today, drawn, announced, lost>>
    BY <1>7 DEF Refuse, LineGone, CommitRefused
  <2>2. /\ b \in Active /\ req' = [req EXCEPT ![r] = b]
        /\ b.session = req[r].session /\ b.copy = req[r].copy /\ b.key = req[r].key
        /\ b.phase = "error"
    BY <1>0, <1>1, <2>1 DEF Active
  <2> HIDE DEF b
  <2> QED
    BY <1>0, <1>2, <1>3, <2>1, <2>2 DEF Advances
<1>8. ASSUME NEW l \in Lines, TakeLine(r, l)
      PROVE  /\ Advances(r)
             /\ Only(r)
             /\ UNCHANGED <<orders, session, shown, menu, today, drawn, announced, lost>>
  <2> DEFINE b == [req[r] EXCEPT !.todo = @ \ {l}, !.taken = @ \cup {l}]
  <2>1. /\ b \in Active /\ req' = [req EXCEPT ![r] = b]
        /\ b.session = req[r].session /\ b.copy = req[r].copy /\ b.key = req[r].key
        /\ b.phase = "items" /\ b.number = req[r].number /\ b.created = req[r].created
        /\ b.todo = req[r].todo \ {l} /\ b.taken = req[r].taken \cup {l}
    BY <1>0, <1>1, <1>8 DEF TakeLine, Active
  <2> HIDE DEF b
  <2> QED
    BY <1>0, <1>2, <1>8, <2>1 DEF TakeLine, Advances
<1>9. ASSUME NEW l \in Lines, LineUnavailable(r, l)
      PROVE  /\ req[r].phase = "items" /\ req'[r] = Idle
             /\ Only(r)
             /\ UNCHANGED <<orders, session, shown, menu, today, drawn, announced, lost>>
  BY <1>1, <1>9 DEF LineUnavailable, Finish, TypeOK, Only
<1>10. CASE Announce(r)
  <2> DEFINE b == [req[r] EXCEPT !.phase = "commit"]
             event == <<req[r].number, req[r].key>>
  <2>1. /\ b \in Active /\ req' = [req EXCEPT ![r] = b]
        /\ b.session = req[r].session /\ b.copy = req[r].copy /\ b.key = req[r].key
        /\ b.phase = "commit" /\ b.number = req[r].number /\ b.created = req[r].created
        /\ b.todo = req[r].todo /\ b.taken = req[r].taken
    BY <1>0, <1>1, <1>10 DEF Announce, Active
  <2>2. /\ announced' = announced \/ announced' = announced \cup {event}
        /\ lost' = lost \/ lost' = lost \cup {event}
        /\ event \in announced' \cup lost'
        /\ UNCHANGED <<orders, session, shown, menu, today, drawn>>
        /\ req[r].phase = "items" /\ req[r].todo = {}
    BY <1>10 DEF Announce
  <2> HIDE DEF b
  <2> QED
    BY <1>0, <1>2, <1>3, <2>1, <2>2 DEF Advances
<1>11. CASE Commit(r)
  <2> DEFINE b == [req[r] EXCEPT !.phase = "respond"]
  <2>1. /\ b \in Active /\ req' = [req EXCEPT ![r] = b]
        /\ b.session = req[r].session /\ b.copy = req[r].copy /\ b.key = req[r].key
        /\ b.phase = "respond" /\ b.number = req[r].number
    BY <1>0, <1>1, <1>11 DEF Commit, Active
  <2>2. UNCHANGED <<session, shown, menu, today, drawn, announced, lost>>
    BY <1>11 DEF Commit
  <2> HIDE DEF b
  <2> QED
    BY <1>0, <1>2, <1>3, <1>11, <2>1, <2>2 DEF Advances
<1> QED
  BY <1>3, <1>4, <1>5, <1>6, <1>7, <1>8, <1>9, <1>10, <1>11 DEF CreateOrder

LEMMA CommitAdds ==
  ASSUME TypeOK, NEW r \in Requests, Commit(r)
  PROVE  LET new == [number |-> req[r].number, key |-> req[r].key,
                     created |-> req[r].created, lines |-> req[r].taken,
                     cart |-> req[r].copy.lines]
         IN /\ orders' = orders \cup {new}
            /\ req[r].phase = "commit" /\ req[r] \in Active
BY RequestType DEF Commit

\* What is saved into session s by request r.
Saves(r, s) ==
  /\ req[r] \in Active /\ req[r].session = s /\ req'[r] = Idle
  /\ \/ req[r].phase \in {"save", "chip"} /\ session'[s] = req[r].copy
     \/ req[r].phase = "respond" /\ session'[s] = Emptied(r)

LEMMA SaveSaves ==
  ASSUME TypeOK, NEW r \in Requests, SaveSession(r)
  PROVE  LET s == req[r].session
         IN /\ s \in Sessions /\ Saves(r, s)
            /\ \A p \in Sessions \ {s} : session'[p] = session[p]
            /\ Only(r)
            /\ session'[s] \in Session
            /\ session' \in [Sessions -> Session]
            /\ shown' \subseteq Sessions
            /\ UNCHANGED <<orders, menu, today, drawn, announced, lost>>
<1> DEFINE s == req[r].session
<1>1. req[r].phase \in {"save", "chip", "respond"}
  BY DEF SaveSession
<1>2. /\ req[r] \in Active /\ s \in Sessions /\ req[r].copy \in Session
      /\ req[r].number \in Number
  BY <1>1, RequestType
<1>3. Emptied(r) \in Session
  BY <1>2 DEF Emptied, NewSession, Session
<1>4. /\ req'[r] = Idle /\ Only(r)
      /\ UNCHANGED <<orders, menu, today, drawn, announced, lost>>
  BY DEF SaveSession, Finish, TypeOK, Only
<1>5. shown' \subseteq Sessions
  BY <1>2 DEF SaveSession, Leave, TypeOK
<1>6. CASE /\ req[r].phase \in {"save", "chip"}
           /\ session' = [session EXCEPT ![s] = req[r].copy]
  BY <1>2, <1>4, <1>5, <1>6 DEF Saves, TypeOK
<1>7. CASE /\ req[r].phase = "respond"
           /\ session' = [session EXCEPT ![s] = Emptied(r)]
  BY <1>2, <1>3, <1>4, <1>5, <1>7 DEF Saves, TypeOK
<1> QED
  BY <1>6, <1>7 DEF SaveSession

\* A request that is making an order has a key.
Creating == {"lookup", "count", "insert", "items", "commit", "respond"}
KeyKnown == \A r \in Requests : req[r].phase \in Creating => req[r].key \in Keys

\* Types are inductive only with the orders being finitely many, as the number
\* of an order is a count of them, and with creators having a key.
Typed == TypeOK /\ IsFiniteSet(orders) /\ KeyKnown

LEMMA TypedInit == Init => Typed
BY FS_EmptySet DEF Init, Typed, TypeOK, NewSession, Session, Number, NoNumber,
   KeyKnown, Idle, Creating

\* The steps of one request among the others.
LEMMA RequestSteps ==
  ASSUME Typed, [Next]_vars, NEW q \in Requests
  PROVE  \/ req'[q] = req[q]
         \/ req'[q] = Idle
         \/ \E s \in Sessions : Begins(q, s)
         \/ Advances(q)
<1>1. ASSUME NEW r \in Requests, NEW s \in Sessions, Guest(r, s)
      PROVE  req'[q] = req[q] \/ Begins(q, s)
  BY <1>1, GuestBegins DEF Typed, Only
<1>2. ASSUME NEW r \in Requests, CreateOrder(r)
      PROVE  req'[q] = req[q] \/ Advances(q) \/ req'[q] = Idle
  BY <1>2, CreateAdvances DEF Typed, Only
<1>3. ASSUME NEW r \in Requests, SaveSession(r) \/ ServerError(r)
      PROVE  req'[q] = req[q] \/ req'[q] = Idle
  BY <1>3 DEF SaveSession, ServerError, Finish, Typed, TypeOK
<1> QED
  BY <1>1, <1>2, <1>3
  DEF Next, CartDetailAgain, EditMenu, NextDay, Crash, vars

\* Orders are only ever added, by a commit.
LEMMA OrdersGrow ==
  ASSUME Typed, [Next]_vars
  PROVE  /\ orders' = orders \/ \E r \in Requests : Commit(r)
         /\ orders \subseteq orders'
         /\ announced \subseteq announced' /\ lost \subseteq lost'
         /\ today' \in {today, today + 1}
<1>1. ASSUME NEW r \in Requests, NEW s \in Sessions, Guest(r, s)
      PROVE  UNCHANGED <<orders, announced, lost, today>>
  BY <1>1, GuestBegins DEF Typed
<1>2. ASSUME NEW r \in Requests, CreateOrder(r)
      PROVE  /\ orders' = orders \/ Commit(r)
             /\ announced \subseteq announced' /\ lost \subseteq lost' /\ today' = today
  BY <1>2, CreateAdvances DEF Typed
<1>3. ASSUME NEW r \in Requests, SaveSession(r) \/ ServerError(r)
      PROVE  UNCHANGED <<orders, announced, lost, today>>
  BY <1>3 DEF SaveSession, ServerError
<1>4. ASSUME NEW r \in Requests, Commit(r) PROVE orders \subseteq orders'
  BY <1>4, CommitAdds DEF Typed
<1> QED
  BY <1>1, <1>2, <1>3, <1>4
  DEF Next, CartDetailAgain, EditMenu, NextDay, Crash, vars

\* A session is written only by the request that ends.
LEMMA SessionSteps ==
  ASSUME Typed, [Next]_vars, NEW s \in Sessions
  PROVE  session'[s] = session[s] \/ \E r \in Requests : Saves(r, s)
<1>1. ASSUME NEW r \in Requests, NEW p \in Sessions, Guest(r, p)
      PROVE  session' = session
  BY <1>1, GuestBegins DEF Typed
<1>2. ASSUME NEW r \in Requests, CreateOrder(r) PROVE session' = session
  BY <1>2, CreateAdvances DEF Typed
<1>3. ASSUME NEW r \in Requests, SaveSession(r)
      PROVE  session'[s] = session[s] \/ Saves(r, s)
  BY <1>3, SaveSaves DEF Typed
<1> QED
  BY <1>1, <1>2, <1>3
  DEF Next, CartDetailAgain, EditMenu, NextDay, Crash, ServerError, vars

LEMMA KeyStep == Typed /\ [Next]_vars => KeyKnown'
<1> SUFFICES ASSUME Typed, [Next]_vars, NEW q \in Requests,
                    req'[q].phase \in Creating
             PROVE  req'[q].key \in Keys
  BY DEF KeyKnown
<1>1. CASE req'[q] = req[q]
  BY <1>1 DEF Typed, KeyKnown
<1>2. ASSUME NEW s \in Sessions, Begins(q, s) PROVE req'[q].key \in Keys
  BY <1>2 DEF Begins, Creating
<1>3. CASE Advances(q)
  <2>1. req[q].phase \in Creating
    BY <1>3 DEF Advances, Creating, Insert, Commit
  <2> QED
    BY <1>3, <2>1 DEF Advances, Typed, KeyKnown
<1> QED
  BY <1>1, <1>2, <1>3, RequestSteps DEF Idle, Creating

LEMMA TypedStep == Typed /\ [Next]_vars => Typed'
<1> SUFFICES ASSUME Typed, [Next]_vars PROVE Typed'
  OBVIOUS
<1>0. TypeOK /\ IsFiniteSet(orders) /\ KeyKnown
  BY DEF Typed
<1> DEFINE ReqTyped == req' \in [Requests -> Active \cup {Idle}]
           RestTyped ==
      /\ session' \in [Sessions -> Session] /\ shown' \subseteq Sessions
      /\ menu' \in [Items -> {"on", "off", "gone"}]
      /\ today' \in 1..MaxDay /\ drawn' \subseteq Lines \cup Keys
      /\ announced' \subseteq Number \X Keys /\ lost' \subseteq Number \X Keys
<1>1. ReqTyped
  <2>1. \A q \in Requests : req'[q] \in Active \cup {Idle}
    BY <1>0, RequestSteps DEF Begins, Advances, TypeOK
  <2>2. ASSUME NEW r \in Requests, Only(r) PROVE ReqTyped
    BY <1>0, <2>1, <2>2 DEF Only, TypeOK
  <2>3. ASSUME NEW r \in Requests, NEW s \in Sessions, Guest(r, s) PROVE Only(r)
    BY <1>0, <2>3, GuestBegins
  <2>4. ASSUME NEW r \in Requests,
               CreateOrder(r) \/ SaveSession(r) \/ ServerError(r)
        PROVE  Only(r)
    BY <1>0, <2>4, CreateAdvances, SaveSaves DEF ServerError, Finish, Only, TypeOK
  <2> QED
    BY <1>0, <2>2, <2>3, <2>4
    DEF Next, CartDetailAgain, EditMenu, NextDay, Crash, vars, TypeOK
<1>2. orders' \subseteq Order /\ IsFiniteSet(orders')
  <2>1. ASSUME NEW r \in Requests, Commit(r)
        PROVE  orders' \subseteq Order /\ IsFiniteSet(orders')
    <3> DEFINE new == [number |-> req[r].number, key |-> req[r].key,
                       created |-> req[r].created, lines |-> req[r].taken,
                       cart |-> req[r].copy.lines]
    <3>1. req[r].phase = "commit" /\ orders' = orders \cup {new}
      BY <1>0, <2>1, CommitAdds
    <3>2. /\ req[r].key \in Keys /\ req[r].number \in Number /\ req[r].created \in Nat
          /\ req[r].taken \subseteq Lines /\ req[r].copy.lines \subseteq Lines
      BY <1>0, <3>1, RequestType DEF KeyKnown, Creating, Session
    <3>3. new \in Order
      BY <3>2 DEF Order
    <3> HIDE DEF new
    <3> QED
      BY <1>0, <3>1, <3>3, FS_AddElement DEF TypeOK
  <2> QED
    BY <1>0, <2>1, OrdersGrow DEF TypeOK
<1>3. RestTyped
  <2>1. ASSUME NEW r \in Requests, NEW s \in Sessions, Guest(r, s) PROVE RestTyped
    BY <1>0, <2>1, GuestBegins DEF TypeOK
  <2>2. ASSUME NEW r \in Requests, CreateOrder(r) PROVE RestTyped
    <3>1. /\ UNCHANGED <<session, shown, menu, today, drawn>>
          /\ announced' \subseteq Number \X Keys \cup {<<req[r].number, req[r].key>>}
          /\ lost' \subseteq Number \X Keys \cup {<<req[r].number, req[r].key>>}
      BY <1>0, <2>2, CreateAdvances
    <3>2. CASE UNCHANGED <<announced, lost>>
      BY <1>0, <3>1, <3>2 DEF TypeOK
    <3>3. CASE Announce(r)
      <4>1. req[r].phase = "items"
        BY <3>3 DEF Announce
      <4>2. req[r].number \in Number /\ req[r].key \in Keys
        BY <1>0, <4>1, RequestType DEF KeyKnown, Creating
      <4> QED
        BY <1>0, <3>1, <4>2 DEF TypeOK
    <3> QED
      BY <2>2, <3>2, <3>3
      DEF CreateOrder, Lookup, Count, Insert, Refuse, TakeLine, LineUnavailable,
          LineGone, Commit, CommitRefused
  <2>3. ASSUME NEW r \in Requests, SaveSession(r) PROVE RestTyped
    BY <1>0, <2>3, SaveSaves DEF TypeOK
  <2>4. CASE UNCHANGED vars \/ NextDay \/ Crash \/ \E r \in Requests : ServerError(r)
    BY <1>0, <2>4 DEF vars, NextDay, Crash, ServerError, TypeOK
  <2>5. ASSUME NEW i \in Items, NEW state \in {"on", "off", "gone"}, EditMenu(i, state)
        PROVE  RestTyped
    BY <1>0, <2>5 DEF EditMenu, TypeOK
  <2>6. ASSUME NEW s \in Sessions, CartDetailAgain(s) PROVE RestTyped
    BY <1>0, <2>6 DEF CartDetailAgain, TypeOK
  <2> QED
    BY <2>1, <2>2, <2>3, <2>4, <2>5, <2>6 DEF Next
<1> QED
  BY <1>0, <1>1, <1>2, <1>3, KeyStep DEF Typed, TypeOK

\* Every order, session, request and announcement has its type.
THEOREM TypeCorrect == Spec => []TypeOK
<1>1. Typed => TypeOK
  BY DEF Typed
<1> QED
  BY <1>1, TypedInit, TypedStep, PTL DEF Spec
-----------------------------------------------------------------------------
\* A committed or uncommitted row clashes with no other, uncommitted ones
\* included: the unique indexes at work.
RowsUnique ==
  /\ \A o, p \in orders : SameUnique(o, p) => o = p
  /\ \A q \in Requests : HoldsRow(q) => \A o \in orders : ~SameUnique(o, req[q])
  /\ \A q, r \in Requests :
       HoldsRow(q) /\ HoldsRow(r) /\ SameUnique(req[q], req[r]) => q = r

\* Who holds a row has inserted it just now, or goes on with the same row.
LEMMA RowHolders ==
  ASSUME Typed, [Next]_vars, NEW q \in Requests, HoldsRow(q)'
  PROVE  /\ req'[q].number = req[q].number /\ req'[q].key = req[q].key
         /\ \/ Insert(q) /\ req'[q].created = today
            \/ HoldsRow(q) /\ req'[q].created = req[q].created /\ ~Commit(q)
<1>1. req'[q].phase \in {"items", "commit"}
  BY DEF HoldsRow
<1>2. CASE req'[q] = req[q]
  <2>1. ~Commit(q)
    <3> SUFFICES ASSUME Commit(q) PROVE FALSE
      OBVIOUS
    <3>1. req'[q] = [req[q] EXCEPT !.phase = "respond"] /\ req[q] \in Active
      BY CommitAdds DEF Commit, Typed, TypeOK
    <3> QED
      BY <1>1, <3>1 DEF Active
  <2> QED
    BY <1>1, <1>2, <2>1 DEF HoldsRow
<1>3. CASE Advances(q)
  <2>1. CASE Insert(q)
    BY <1>1, <1>3, <2>1 DEF Advances, Insert, Commit
  <2>2. CASE ~Insert(q)
    BY <1>1, <1>3, <2>2 DEF Advances, HoldsRow, Commit
  <2> QED
    BY <2>1, <2>2
<1>4. ASSUME NEW s \in Sessions, Begins(q, s) PROVE FALSE
  BY <1>1, <1>4 DEF Begins
<1> QED
  BY <1>1, <1>2, <1>3, <1>4, RequestSteps DEF Idle

LEMMA RowsUniqueInit == Init => RowsUnique
BY DEF Init, RowsUnique, HoldsRow, Idle

\* Only one request moves, and an INSERT looks at the rows of all others.
LEMMA OneInserts ==
  ASSUME Typed, NEW q \in Requests, Insert(q)
  PROVE  /\ \A r \in Requests \ {q} : req'[r] = req[r]
         /\ orders' = orders /\ ~HoldsRow(q)
         /\ \A r \in Requests : HoldsRow(r) => ~SameUnique(req[r], req[q])
         /\ \A o \in orders : ~SameUnique(o, req[q])
BY DEF Insert, Typed, TypeOK, HoldsRow

LEMMA RowsUniqueStep == Typed /\ RowsUnique /\ [Next]_vars => RowsUnique'
<1> SUFFICES ASSUME Typed, RowsUnique, [Next]_vars PROVE RowsUnique'
  OBVIOUS
<1>1. ASSUME NEW r \in Requests, Commit(r) PROVE RowsUnique'
  <2> DEFINE new == [number |-> req[r].number, key |-> req[r].key,
                     created |-> req[r].created, lines |-> req[r].taken,
                     cart |-> req[r].copy.lines]
  <2>1. orders' = orders \cup {new} /\ HoldsRow(r)
    BY <1>1, CommitAdds DEF Typed, HoldsRow
  <2>2. new.number = req[r].number /\ new.key = req[r].key
    OBVIOUS
  <2>3. ASSUME NEW q \in Requests, HoldsRow(q)'
        PROVE  /\ HoldsRow(q) /\ q # r
               /\ req'[q].number = req[q].number /\ req'[q].key = req[q].key
    <3>1. ~Insert(q)
      BY <1>1, <2>3 DEF Typed, Commit, Insert, TypeOK, HoldsRow
    <3> QED
      BY <1>1, <2>3, <3>1, RowHolders
  <2> HIDE DEF new
  <2>4. \A o \in orders : ~SameUnique(o, new) /\ ~SameUnique(new, o)
    BY <2>1, <2>2 DEF RowsUnique, SameUnique
  <2>5. \A o, p \in orders' : SameUnique(o, p) => o = p
    BY <2>1, <2>4 DEF RowsUnique
  <2>6. ASSUME NEW q \in Requests, HoldsRow(q)', NEW o \in orders'
        PROVE  ~SameUnique(o, req'[q])
    BY <2>1, <2>2, <2>3, <2>6 DEF RowsUnique, SameUnique
  <2>7. ASSUME NEW q \in Requests, NEW p \in Requests, HoldsRow(q)', HoldsRow(p)',
               SameUnique(req'[q], req'[p])
        PROVE  q = p
    BY <2>3, <2>7 DEF RowsUnique, SameUnique
  <2> QED
    BY <2>5, <2>6, <2>7 DEF RowsUnique, HoldsRow
<1>2. ASSUME NEW r \in Requests, Insert(r) PROVE RowsUnique'
  <2>1. ASSUME NEW q \in Requests, HoldsRow(q)'
        PROVE  /\ q = r \/ HoldsRow(q)
               /\ req'[q].number = req[q].number /\ req'[q].key = req[q].key
    <3>1. q # r => req'[q] = req[q]
      BY <1>2, OneInserts
    <3> QED
      BY <2>1, <3>1, RowHolders DEF HoldsRow
  <2>2. /\ orders' = orders
        /\ \A q \in Requests : HoldsRow(q) => ~SameUnique(req[q], req[r])
        /\ \A o \in orders : ~SameUnique(o, req[r])
    BY <1>2, OneInserts
  <2>3. ASSUME NEW q \in Requests, HoldsRow(q)', NEW o \in orders
        PROVE  ~SameUnique(o, req'[q])
    BY <2>1, <2>2, <2>3 DEF RowsUnique, SameUnique
  <2>4. ASSUME NEW q \in Requests, NEW p \in Requests, HoldsRow(q)', HoldsRow(p)',
               SameUnique(req'[q], req'[p])
        PROVE  q = p
    BY <2>1, <2>2, <2>4 DEF RowsUnique, SameUnique
  <2> QED
    BY <2>2, <2>3, <2>4 DEF RowsUnique, HoldsRow
<1>3. ASSUME \A r \in Requests : ~Commit(r) /\ ~Insert(r) PROVE RowsUnique'
  <2>1. orders' = orders
    BY <1>3, OrdersGrow
  <2>2. ASSUME NEW q \in Requests, HoldsRow(q)'
        PROVE  /\ HoldsRow(q)
               /\ req'[q].number = req[q].number /\ req'[q].key = req[q].key
    BY <1>3, <2>2, RowHolders
  <2> QED
    BY <2>1, <2>2 DEF RowsUnique, SameUnique, HoldsRow
<1> QED
  BY <1>1, <1>2, <1>3

\* No two committed orders share a number or an idempotency key, whatever
\* creators race: inductive when uncommitted rows are counted in.
THEOREM OrdersAlwaysUnique == Spec => []UniqueOrders
<1>1. RowsUnique => UniqueOrders
  BY DEF RowsUnique, UniqueOrders, SameUnique
<1>2. Typed /\ RowsUnique /\ [Next]_vars => (Typed /\ RowsUnique)'
  BY TypedStep, RowsUniqueStep
<1> QED
  BY <1>1, <1>2, TypedInit, RowsUniqueInit, PTL DEF Spec
-----------------------------------------------------------------------------
On(placed, d) == {o \in placed : o.created = d}

\* Numbers stay behind the count they come from.  An order is numbered on the
\* day it is created or on an earlier one (over midnight, when it was counted
\* before and inserted after); a number of the day of creation is at most the
\* number of that day's orders, a creator's own included.
NumbersBehind ==
  /\ \A o \in orders :
       /\ o.number[1] <= o.created /\ o.created <= today
       /\ o.number[1] = o.created => o.number[2] <= Cardinality(On(orders, o.created))
  /\ \A q \in Requests : InPhase(q, "insert") =>
       /\ req[q].number[1] <= today
       /\ req[q].number[1] = today =>
            req[q].number[2] <= Cardinality(On(orders, today)) + 1
  /\ \A q \in Requests : HoldsRow(q) =>
       /\ req[q].number[1] <= req[q].created /\ req[q].created <= today
       /\ req[q].number[1] = req[q].created =>
            req[q].number[2] <= Cardinality(On(orders, req[q].created)) + 1

\* A day's orders are counted by a natural number, which never goes down.
LEMMA CountsGrow ==
  ASSUME Typed, [Next]_vars, NEW d
  PROVE  /\ Cardinality(On(orders, d)) \in Nat /\ Cardinality(On(orders', d)) \in Nat
         /\ Cardinality(On(orders, d)) <= Cardinality(On(orders', d))
<1>1. IsFiniteSet(On(orders, d))
  BY FS_Subset DEF On, Typed
<1>2. IsFiniteSet(On(orders', d))
  BY TypedStep, FS_Subset DEF On, Typed
<1>3. On(orders, d) \subseteq On(orders', d)
  BY OrdersGrow DEF On
<1> QED
  BY <1>1, <1>2, <1>3, FS_CardinalityType, FS_Subset

\* A commit adds one to the count of its day.
LEMMA CommitCounts ==
  ASSUME Typed, RowsUnique, NEW r \in Requests, Commit(r), NEW d, d = req[r].created
  PROVE  Cardinality(On(orders', d)) = Cardinality(On(orders, d)) + 1
<1> DEFINE new == [number |-> req[r].number, key |-> req[r].key,
                   created |-> req[r].created, lines |-> req[r].taken,
                   cart |-> req[r].copy.lines]
<1>1. orders' = orders \cup {new} /\ HoldsRow(r) /\ new.created = d
  BY CommitAdds DEF Typed, HoldsRow
<1>2. new \notin orders
  <2>1. SameUnique(new, req[r])
    BY DEF SameUnique
  <2> QED
    BY <1>1, <2>1 DEF RowsUnique
<1> HIDE DEF new
<1>3. On(orders', d) = On(orders, d) \cup {new}
  BY <1>1 DEF On
<1>6. IsFiniteSet(On(orders, d)) /\ new \notin On(orders, d)
  BY <1>2, FS_Subset DEF On, Typed
<1> QED
  BY <1>3, <1>6, FS_AddElement

LEMMA NumbersInit == Init => NumbersBehind
BY DEF Init, NumbersBehind, HoldsRow, Idle

LEMMA NumbersStep ==
  ASSUME Typed, RowsUnique, NumbersBehind, [Next]_vars
  PROVE  NumbersBehind'
<1>0. today \in Nat /\ today' \in {today, today + 1}
  BY OrdersGrow DEF Typed, TypeOK
<1>1. ASSUME NEW d
      PROVE  /\ Cardinality(On(orders, d)) \in Nat /\ Cardinality(On(orders', d)) \in Nat
             /\ Cardinality(On(orders, d)) <= Cardinality(On(orders', d))
  BY CountsGrow
<1>2. ASSUME NEW o \in orders
      PROVE  /\ o.number[1] <= o.created /\ o.created <= today'
             /\ o.number[1] = o.created =>
                  o.number[2] <= Cardinality(On(orders', o.created))
  <2>1. /\ o.number[1] \in Nat /\ o.number[2] \in Nat /\ o.created \in Nat
    BY DEF Typed, TypeOK, Order, Number
  <2>2. /\ o.number[1] <= o.created /\ o.created <= today
        /\ o.number[1] = o.created =>
             o.number[2] <= Cardinality(On(orders, o.created))
    BY DEF NumbersBehind
  <2> QED
    BY <1>0, <1>1, <2>1, <2>2
<1>3. ASSUME NEW r \in Requests, Commit(r), NEW o \in orders', o \notin orders
      PROVE  /\ o.number[1] <= o.created /\ o.created <= today'
             /\ o.number[1] = o.created =>
                  o.number[2] <= Cardinality(On(orders', o.created))
  <2>1. /\ o.number = req[r].number /\ o.created = req[r].created
        /\ HoldsRow(r) /\ req[r].phase # "idle"
    BY <1>3, CommitAdds DEF Typed, HoldsRow
  <2>2. o.number[1] \in Nat /\ o.number[2] \in Nat /\ o.created \in Nat
    BY <2>1, RequestType DEF Typed, Number
  <2>3. /\ o.number[1] <= o.created /\ o.created <= today
        /\ o.number[1] = o.created =>
             o.number[2] <= Cardinality(On(orders, o.created)) + 1
    BY <2>1 DEF NumbersBehind
  <2>4. Cardinality(On(orders', o.created)) = Cardinality(On(orders, o.created)) + 1
    BY <1>3, <2>1, CommitCounts
  <2> QED
    BY <1>0, <2>2, <2>3, <2>4
<1>4. ASSUME NEW q \in Requests, InPhase(q, "insert")'
      PROVE  /\ req'[q].number[1] <= today'
             /\ req'[q].number[1] = today' =>
                  req'[q].number[2] <= Cardinality(On(orders', today')) + 1
  <2>1. req'[q].number \in Number
    BY <1>4, TypedStep, RequestType DEF Typed, TypeOK, Active, Idle
  <2>2. req'[q].number[1] \in Nat /\ req'[q].number[2] \in Nat
    BY <2>1 DEF Number
  <2>3. /\ req'[q].number[1] <= today
        /\ req'[q].number[1] = today =>
             req'[q].number[2] <= Cardinality(On(orders, today)) + 1
    <3>1. CASE req'[q] = req[q]
      BY <1>4, <3>1 DEF NumbersBehind
    <3>2. CASE Advances(q)
      <4>1. req'[q].number = next_order_number
        BY <1>4, <3>2 DEF Advances
      <4>2. next_order_number = <<today, Cardinality(On(orders, today)) + 1>>
        BY DEF next_order_number, On
      <4> QED
        BY <1>0, <1>1, <4>1, <4>2
    <3> QED
      BY <1>4, <3>1, <3>2, RequestSteps DEF Begins, Idle
  <2> QED
    BY <1>0, <1>1, <2>2, <2>3
<1>6. ASSUME NEW q \in Requests, HoldsRow(q)'
      PROVE  /\ req'[q].number[1] <= req'[q].created /\ req'[q].created <= today'
             /\ req'[q].number[1] = req'[q].created =>
                  req'[q].number[2] <= Cardinality(On(orders', req'[q].created)) + 1
  <2> DEFINE d == req'[q].created
  <2>1. req'[q].number[1] \in Nat /\ req'[q].number[2] \in Nat /\ d \in Nat
    <3>1. req'[q] \in Active
      BY <1>6, TypedStep DEF Typed, TypeOK, Idle, HoldsRow
    <3> QED
      BY <3>1 DEF Active, Number
  <2>2. /\ req'[q].number[1] <= d /\ d <= today
        /\ req'[q].number[1] = d =>
             req'[q].number[2] <= Cardinality(On(orders, d)) + 1
    <3>1. CASE Insert(q) /\ d = today
      <4>1. InPhase(q, "insert")
        BY <3>1 DEF Insert
      <4>2. req'[q].number = req[q].number
        BY <1>6, RowHolders
      <4> QED
        BY <1>0, <3>1, <4>1, <4>2 DEF NumbersBehind
    <3>2. CASE HoldsRow(q) /\ d = req[q].created
      BY <1>6, <3>2, RowHolders DEF NumbersBehind
    <3>3. \/ Insert(q) /\ d = today
          \/ HoldsRow(q) /\ d = req[q].created
      BY <1>6, RowHolders
    <3> QED
      BY <3>1, <3>2, <3>3
  <2> HIDE DEF d
  <2>3. req'[q].number[1] = d => req'[q].number[2] <= Cardinality(On(orders', d)) + 1
    BY <1>1, <2>1, <2>2
  <2> QED
    BY <1>0, <2>1, <2>2, <2>3 DEF d
<1>7. \A o \in orders' :
        /\ o.number[1] <= o.created /\ o.created <= today'
        /\ o.number[1] = o.created => o.number[2] <= Cardinality(On(orders', o.created))
  BY <1>2, <1>3, OrdersGrow
<1> QED
  BY <1>4, <1>6, <1>7 DEF NumbersBehind, HoldsRow, On

\* The number that would be given next is always free, over midnight too: an
\* order with today's date in its number was created today, and its sequence
\* is at most the count of today's orders.
THEOREM NextNumberAlwaysFree == Spec => []NextNumberFree
<1>1. ASSUME Typed, NumbersBehind PROVE NextNumberFree
  <2> SUFFICES ASSUME NEW o \in orders, o.number = next_order_number PROVE FALSE
    BY DEF NextNumberFree
  <2>1. /\ o.number[1] = today
        /\ o.number[2] = Cardinality(On(orders, today)) + 1
    BY DEF next_order_number, On
  <2>2. /\ o.created \in Nat /\ today \in Nat
        /\ Cardinality(On(orders, today)) \in Nat
    <3>1. IsFiniteSet(On(orders, today))
      BY <1>1, FS_Subset DEF On, Typed
    <3> QED
      BY <1>1, <3>1, FS_CardinalityType DEF Typed, TypeOK, Order
  <2>3. o.created = today
    BY <1>1, <2>1, <2>2 DEF NumbersBehind
  <2> QED
    BY <1>1, <2>1, <2>2, <2>3 DEF NumbersBehind
<1>2. Typed /\ RowsUnique /\ NumbersBehind /\ [Next]_vars
        => (Typed /\ RowsUnique /\ NumbersBehind)'
  BY TypedStep, RowsUniqueStep, NumbersStep
<1> QED
  BY <1>1, <1>2, TypedInit, RowsUniqueInit, NumbersInit, PTL DEF Spec
-----------------------------------------------------------------------------
\* Between the submit and the commit no line of the submitted cart is missed:
\* it is in the order or still to be put there; and _notify has run before the
\* commit.
CartsWhole ==
  /\ WholeCart
  /\ \A q \in Requests :
       req[q].phase \in {"lookup", "count", "insert", "items", "commit"} =>
         /\ req[q].copy.lines # {}
         /\ req[q].taken \cup req[q].todo = req[q].copy.lines
         /\ req[q].phase = "commit" => req[q].todo = {}

CommitsAnnounced ==
  /\ EveryOrderAnnounced
  /\ \A q \in Requests : InPhase(q, "commit") =>
       <<req[q].number, req[q].key>> \in announced \cup lost

LEMMA CartsWholeInit == Init => CartsWhole /\ CommitsAnnounced
BY DEF Init, CartsWhole, CommitsAnnounced, WholeCart, EveryOrderAnnounced, Idle

LEMMA CartsWholeStep == Typed /\ CartsWhole /\ [Next]_vars => CartsWhole'
<1> SUFFICES ASSUME Typed, CartsWhole, [Next]_vars PROVE CartsWhole'
  OBVIOUS
<1>1. WholeCart'
  <2>1. ASSUME NEW r \in Requests, Commit(r) PROVE WholeCart'
    <3> DEFINE new == [number |-> req[r].number, key |-> req[r].key,
                       created |-> req[r].created, lines |-> req[r].taken,
                       cart |-> req[r].copy.lines]
    <3>1. orders' = orders \cup {new} /\ req[r].phase = "commit"
      BY <2>1, CommitAdds DEF Typed
    <3>2. new.lines = new.cart /\ new.lines # {}
      BY <3>1 DEF CartsWhole
    <3> HIDE DEF new
    <3> QED
      BY <3>1, <3>2 DEF CartsWhole, WholeCart
  <2> QED
    BY <2>1, OrdersGrow DEF CartsWhole, WholeCart
<1>2. ASSUME NEW q \in Requests,
             req'[q].phase \in {"lookup", "count", "insert", "items", "commit"}
      PROVE  /\ req'[q].copy.lines # {}
             /\ req'[q].taken \cup req'[q].todo = req'[q].copy.lines
             /\ req'[q].phase = "commit" => req'[q].todo = {}
  <2>1. CASE req'[q] = req[q]
    BY <1>2, <2>1 DEF CartsWhole
  <2>2. ASSUME NEW s \in Sessions, Begins(q, s)
        PROVE  /\ req'[q].copy.lines # {}
               /\ req'[q].taken \cup req'[q].todo = req'[q].copy.lines
               /\ req'[q].phase = "commit" => req'[q].todo = {}
    BY <1>2, <2>2 DEF Begins
  <2>3. CASE Advances(q)
    <3>1. /\ req[q].phase \in {"lookup", "count", "insert", "items", "commit"}
          /\ req'[q].copy = req[q].copy
          /\ req'[q].taken \cup req'[q].todo = req[q].taken \cup req[q].todo
          /\ req'[q].phase = "commit" => req'[q].todo = {}
      BY <1>2, <2>3 DEF Advances, Insert, Commit
    <3> QED
      BY <3>1 DEF CartsWhole
  <2> QED
    BY <1>2, <2>1, <2>2, <2>3, RequestSteps DEF Idle
<1> QED
  BY <1>1, <1>2 DEF CartsWhole

LEMMA CommitsAnnouncedStep ==
  Typed /\ CommitsAnnounced /\ [Next]_vars => CommitsAnnounced'
<1> SUFFICES ASSUME Typed, CommitsAnnounced, [Next]_vars PROVE CommitsAnnounced'
  OBVIOUS
<1>1. announced \cup lost \subseteq announced' \cup lost'
  BY OrdersGrow
<1>2. EveryOrderAnnounced'
  <2>1. ASSUME NEW r \in Requests, Commit(r) PROVE EveryOrderAnnounced'
    <3> DEFINE new == [number |-> req[r].number, key |-> req[r].key,
                       created |-> req[r].created, lines |-> req[r].taken,
                       cart |-> req[r].copy.lines]
    <3>1. /\ orders' = orders \cup {new} /\ req[r].phase = "commit"
          /\ new.number = req[r].number /\ new.key = req[r].key
      BY <2>1, CommitAdds DEF Typed
    <3> HIDE DEF new
    <3> QED
      BY <1>1, <3>1 DEF CommitsAnnounced, EveryOrderAnnounced
  <2> QED
    BY <1>1, <2>1, OrdersGrow DEF CommitsAnnounced, EveryOrderAnnounced
<1>3. ASSUME NEW q \in Requests, InPhase(q, "commit")'
      PROVE  <<req'[q].number, req'[q].key>> \in announced' \cup lost'
  <2>1. CASE req'[q] = req[q]
    BY <1>1, <1>3, <2>1 DEF CommitsAnnounced
  <2>2. CASE Advances(q)
    BY <1>3, <2>2 DEF Advances
  <2> QED
    BY <1>3, <2>1, <2>2, RequestSteps DEF Begins, Idle
<1> QED
  BY <1>2, <1>3 DEF CommitsAnnounced

\* An order is the whole cart it was submitted from, or there is no order.
THEOREM OrdersAlwaysWhole == Spec => []WholeCart
<1>1. CartsWhole => WholeCart
  BY DEF CartsWhole
<1>2. Typed /\ CartsWhole /\ [Next]_vars => (Typed /\ CartsWhole)'
  BY TypedStep, CartsWholeStep
<1> QED
  BY <1>1, <1>2, TypedInit, CartsWholeInit, PTL DEF Spec

\* Staff screens are told of each order unless its broadcast failed.
THEOREM OrdersAlwaysAnnounced == Spec => []EveryOrderAnnounced
<1>1. CommitsAnnounced => EveryOrderAnnounced
  BY DEF CommitsAnnounced
<1>2. Typed /\ CommitsAnnounced /\ [Next]_vars => (Typed /\ CommitsAnnounced)'
  BY TypedStep, CommitsAnnouncedStep
<1> QED
  BY <1>1, <1>2, TypedInit, CartsWholeInit, PTL DEF Spec
-----------------------------------------------------------------------------
\* The last order that a request will write back into its session exists too.
AnswersExist ==
  /\ AnsweredOrderExists
  /\ \A q \in Requests : req[q] # Idle /\ req[q].copy.last # NoNumber =>
       \E o \in orders : o.number = req[q].copy.last

LEMMA AnswersExistInit == Init => AnswersExist
BY DEF Init, AnswersExist, AnsweredOrderExists, Idle, NewSession

LEMMA AnswersExistStep == Typed /\ AnswersExist /\ [Next]_vars => AnswersExist'
<1> SUFFICES ASSUME Typed, AnswersExist, [Next]_vars PROVE AnswersExist'
  OBVIOUS
<1>0. orders \subseteq orders'
  BY OrdersGrow
<1>1. ASSUME NEW q \in Requests, InPhase(q, "respond")'
      PROVE  \E o \in orders' : o.number = req'[q].number /\ o.key = req'[q].key
  <2>1. CASE req'[q] = req[q]
    BY <1>0, <1>1, <2>1 DEF AnswersExist, AnsweredOrderExists
  <2>2. CASE Advances(q)
    <3>1. CASE Commit(q) /\ req'[q].number = req[q].number /\ req'[q].key = req[q].key
      <4> DEFINE new == [number |-> req[q].number, key |-> req[q].key,
                         created |-> req[q].created, lines |-> req[q].taken,
                         cart |-> req[q].copy.lines]
      <4>1. new \in orders' /\ new.number = req[q].number /\ new.key = req[q].key
        BY <3>1, CommitAdds DEF Typed
      <4> QED
        BY <3>1, <4>1
    <3>2. CASE \E o \in orders : o.key = req'[q].key /\ o.number = req'[q].number
      BY <1>0, <3>2
    <3> QED
      BY <1>1, <2>2, <3>1, <3>2 DEF Advances
  <2> QED
    BY <1>1, <2>1, <2>2, RequestSteps DEF Begins, Idle
<1>2. ASSUME NEW q \in Requests, req'[q] # Idle, req'[q].copy.last # NoNumber
      PROVE  \E o \in orders' : o.number = req'[q].copy.last
  <2>1. CASE req'[q] = req[q]
    BY <1>0, <1>2, <2>1 DEF AnswersExist
  <2>2. CASE Advances(q)
    <3>1. req[q] # Idle /\ req'[q].copy = req[q].copy
      BY <2>2 DEF Advances, Active, Idle, Phases
    <3> QED
      BY <1>0, <1>2, <3>1 DEF AnswersExist
  <2>3. ASSUME NEW s \in Sessions, Begins(q, s)
        PROVE  \E o \in orders : o.number = req'[q].copy.last
    BY <1>2, <2>3 DEF Begins, AnswersExist, AnsweredOrderExists
  <2> QED
    BY <1>0, <1>2, <2>1, <2>2, <2>3, RequestSteps
<1>3. ASSUME NEW s \in Sessions, session'[s].last # NoNumber
      PROVE  \E o \in orders' : o.number = session'[s].last
  <2>1. CASE session'[s] = session[s]
    BY <1>0, <1>3, <2>1 DEF AnswersExist, AnsweredOrderExists
  <2>2. ASSUME NEW r \in Requests, Saves(r, s)
        PROVE  \E o \in orders : o.number = session'[s].last
    <3>1. CASE session'[s] = req[r].copy
      <4>1. req[r] # Idle
        BY <2>2 DEF Saves, Active, Idle, Phases
      <4> QED
        BY <1>3, <3>1, <4>1 DEF AnswersExist
    <3>2. CASE req[r].phase = "respond" /\ session'[s] = Emptied(r)
      <4>1. session'[s].last = req[r].number
        BY <3>2 DEF Emptied, NewSession
      <4> QED
        BY <3>2, <4>1 DEF AnswersExist, AnsweredOrderExists
    <3> QED
      BY <2>2, <3>1, <3>2 DEF Saves
  <2> QED
    BY <1>0, <2>1, <2>2, SessionSteps
<1> QED
  BY <1>1, <1>2, <1>3 DEF AnswersExist, AnsweredOrderExists

\* Guests are only sent to orders that are committed, with the key they
\* submitted; no session names an order that is not.
THEOREM AnsweredOrdersExist == Spec => []AnsweredOrderExists
<1>1. AnswersExist => AnsweredOrderExists
  BY DEF AnswersExist
<1>2. Typed /\ AnswersExist /\ [Next]_vars => (Typed /\ AnswersExist)'
  BY TypedStep, AnswersExistStep
<1> QED
  BY <1>1, <1>2, TypedInit, AnswersExistInit, PTL DEF Spec
-----------------------------------------------------------------------------
(***************************************************************************)
(* No cart line gets into two orders when each guest waits for one page    *)
(* before asking for another (OneTab) and no background poll writes the    *)
(* session meanwhile.  It is what the idempotency key is for: as long as a *)
(* line that has been ordered is still in a session or in a request, the   *)
(* key of its order is there with it.                                      *)
(***************************************************************************)

Submitting == {"lookup", "count", "insert", "items", "commit", "respond", "error"}
Submits(q) == req[q].phase \in Submitting

\* A cart request starts: its guest was waiting for nothing else.
SaveBegins(r, s) ==
  LET b == req'[r]
  IN /\ req[r] = Idle /\ b \in Active /\ b.phase = "save" /\ b.session = s
     /\ \A q \in Requests : req[q] # Idle => req[q].phase = "chip" \/ req[q].session # s
     /\ b.copy.lines \subseteq session[s].lines \cup (drawn' \ drawn)
     /\ b.copy.lines \subseteq session[s].lines \cup drawn'
     /\ b.copy.idem = session[s].idem \/ session[s].idem = NoKey
     /\ b.key # NoKey => b.copy.idem # NoKey
     /\ shown' = shown \ {s}

\* A submit starts, from an open cart page.
SubmitBegins(r, s) ==
  LET b == req'[r]
  IN /\ req[r] = Idle /\ b \in Active /\ b.phase = "lookup" /\ b.session = s
     /\ b.copy = session[s] /\ b.key \in SubmitKeys(s)
     /\ s \in shown /\ session[s].lines # {}
     /\ \A q \in Requests : req[q].phase = "save" => req[q].session # s
     /\ shown' = shown

LEMMA GuestSteps ==
  ASSUME Typed, OneTab, ~ChipPolls, NEW r \in Requests, NEW s \in Sessions, Guest(r, s)
  PROVE  /\ SaveBegins(r, s) \/ SubmitBegins(r, s)
         /\ Only(r) /\ UNCHANGED <<orders, session>>
         /\ drawn \subseteq drawn'
<1>0. /\ Only(r) /\ UNCHANGED <<orders, session>> /\ drawn \subseteq drawn'
      /\ req'[r] \in Active /\ req[r] = Idle /\ req'[r].session = s
  BY GuestBegins DEF Typed, Begins
<1>1. /\ session[s] \in Session /\ r \in DOMAIN req
      /\ session[s].idem \in Keys \cup {NoKey}
  BY DEF Typed, TypeOK, Session
<1>2. ASSUME NEW copy, NEW key, CartRequest(r, s, copy, key),
             copy.lines \subseteq session[s].lines \cup (drawn' \ drawn),
             copy.idem = session[s].idem \/ session[s].idem = NoKey,
             key # NoKey => copy.idem # NoKey
      PROVE  SaveBegins(r, s)
  <2>1. req'[r].phase = "save" /\ req'[r].copy = copy /\ req'[r].key = key
    BY <1>1, <1>2 DEF CartRequest, Begin
  <2>2. shown' = shown \ {s} /\ Waiting(s) = {}
    BY <1>2 DEF CartRequest, Leave
  <2>3. \A q \in Requests : req[q] # Idle => req[q].phase = "chip" \/ req[q].session # s
    BY <2>2 DEF Waiting
  <2> QED
    BY <1>0, <1>2, <2>1, <2>2, <2>3 DEF SaveBegins
<1>3. CASE CartDetail(r, s)
  <2>1. PICK k \in Keys \ drawn :
          /\ session[s].idem = NoKey
          /\ CartRequest(r, s, [session[s] EXCEPT !.idem = k],
                         IF HasButton(s) THEN k ELSE NoKey)
    BY <1>3 DEF CartDetail
  <2>2. /\ [session[s] EXCEPT !.idem = k].lines = session[s].lines
        /\ [session[s] EXCEPT !.idem = k].idem = k /\ k # NoKey
    BY <1>1 DEF Session
  <2> QED
    BY <1>0, <1>2, <2>1, <2>2
<1>4. CASE CartAdd(r, s)
  <2>1. PICK l \in Lines \ drawn, edited \in SUBSET session[s].lines :
          /\ CartRequest(r, s, [session[s] EXCEPT !.lines = (@ \cup {l}) \ edited], NoKey)
          /\ drawn' = drawn \cup {l}
    BY <1>4 DEF CartAdd
  <2> DEFINE copy == [session[s] EXCEPT !.lines = (@ \cup {l}) \ edited]
  <2>2. /\ copy.lines = (session[s].lines \cup {l}) \ edited
        /\ copy.idem = session[s].idem
    BY <1>1 DEF Session
  <2>3. CartRequest(r, s, copy, NoKey)
    BY <2>1
  <2> HIDE DEF copy
  <2> QED
    BY <1>0, <1>2, <2>1, <2>2, <2>3
<1>5. CASE CartChange(r, s)
  <2>1. PICK l \in session[s].lines, keep \in BOOLEAN :
          CartRequest(r, s, [session[s] EXCEPT
                               !.lines = IF keep THEN @ ELSE @ \ {l}], NoKey)
    BY <1>5 DEF CartChange
  <2> DEFINE copy == [session[s] EXCEPT !.lines = IF keep THEN @ ELSE @ \ {l}]
  <2>2. copy.lines \subseteq session[s].lines /\ copy.idem = session[s].idem
    BY <1>1 DEF Session
  <2>3. CartRequest(r, s, copy, NoKey)
    BY <2>1
  <2> HIDE DEF copy
  <2> QED
    BY <1>0, <1>2, <2>2, <2>3
<1>6. CASE LastOrderExpires(r, s)
  <2> DEFINE copy == [session[s] EXCEPT !.last = NoNumber]
  <2>1. copy.lines = session[s].lines /\ copy.idem = session[s].idem
    BY <1>1 DEF Session
  <2>2. CartRequest(r, s, copy, NoKey)
    BY <1>6 DEF LastOrderExpires
  <2> HIDE DEF copy
  <2> QED
    BY <1>0, <1>2, <2>1, <2>2
<1>7. CASE Submit(r, s)
  <2>1. PICK k \in SubmitKeys(s) :
          /\ MaySubmit(s) /\ session[s].lines # {} /\ shown' = shown
          /\ Begin(r, s, "lookup", session[s], k)
    BY <1>7 DEF Submit
  <2>2. /\ req'[r].phase = "lookup" /\ req'[r].copy = session[s] /\ req'[r].key = k
    BY <1>1, <2>1 DEF Begin
  <2>3. /\ s \in shown
        /\ \A q \in Requests : req[q].phase = "save" => req[q].session # s
    BY <2>1 DEF MaySubmit, Waiting, Idle
  <2> QED
    BY <1>0, <2>1, <2>2, <2>3 DEF SubmitBegins
<1> QED
  BY <1>0, <1>3, <1>4, <1>5, <1>6, <1>7 DEF Guest
-----------------------------------------------------------------------------
\* The kinds of steps, as far as lines and keys can tell them apart.
Quiet == /\ \A q \in Requests : req'[q] \in {req[q], Idle}
         /\ UNCHANGED <<orders, session, shown, drawn>>

OpensPage(s) ==
  /\ session[s].idem # NoKey
  /\ \A q \in Requests : req[q].phase = "save" => req[q].session # s
  /\ shown' = shown \cup {s}
  /\ UNCHANGED <<orders, session, req, drawn>>

Starts(r, s) ==
  /\ SaveBegins(r, s) \/ SubmitBegins(r, s)
  /\ Only(r) /\ UNCHANGED <<orders, session>>
  /\ drawn \subseteq drawn'

Works(r) ==
  /\ Only(r) /\ UNCHANGED <<session, shown, drawn>>
  /\ Submits(r) /\ Submits(r)'
  /\ req'[r].session = req[r].session /\ req'[r].copy = req[r].copy
  /\ req'[r].key = req[r].key
  /\ orders' = orders \/ Commit(r)

Ends(r) ==
  LET s == req[r].session
  IN /\ s \in Sessions /\ Only(r) /\ req'[r] = Idle
     /\ UNCHANGED <<orders, drawn>>
     /\ \A p \in Sessions \ {s} : session'[p] = session[p]
     /\ \/ /\ req[r].phase \in {"save", "chip"} /\ session'[s] = req[r].copy
           /\ shown' = IF req[r].key # NoKey THEN shown \cup {s} ELSE shown
        \/ /\ req[r].phase = "respond"
           /\ session'[s].lines = {} /\ session'[s].idem = NoKey
           /\ shown' = shown \ {s}

LEMMA StepKinds ==
  ASSUME Typed, OneTab, ~ChipPolls, [Next]_vars
  PROVE  \/ Quiet
         \/ \E s \in Sessions : OpensPage(s)
         \/ \E r \in Requests, s \in Sessions : Starts(r, s)
         \/ \E r \in Requests : Works(r)
         \/ \E r \in Requests : Ends(r)
<1>1. ASSUME NEW r \in Requests, NEW s \in Sessions, Guest(r, s) PROVE Starts(r, s)
  BY <1>1, GuestSteps DEF Starts
<1>2. ASSUME NEW s \in Sessions, CartDetailAgain(s) PROVE OpensPage(s)
  BY <1>2 DEF CartDetailAgain, OpensPage, Waiting, Idle
<1>3. ASSUME NEW r \in Requests, CreateOrder(r) PROVE Works(r) \/ Quiet
  <2>1. /\ Advances(r) \/ (req[r].phase = "items" /\ req'[r] = Idle)
        /\ Only(r) /\ UNCHANGED <<session, shown, drawn>>
        /\ orders' = orders \/ Commit(r)
    BY <1>3, CreateAdvances DEF Typed
  <2>2. CASE Advances(r)
    <3>1. Submits(r) /\ Submits(r)'
      BY <2>2 DEF Advances, Submits, Submitting, Insert, Commit
    <3> QED
      BY <2>1, <2>2, <3>1 DEF Advances, Works
  <2>3. CASE req[r].phase = "items" /\ req'[r] = Idle
    BY <2>1, <2>3 DEF Quiet, Only, Commit
  <2> QED
    BY <2>1, <2>2, <2>3
<1>4. ASSUME NEW r \in Requests, SaveSession(r) PROVE Ends(r)
  <2>1. LET s == req[r].session
        IN /\ s \in Sessions /\ Saves(r, s) /\ Only(r)
           /\ \A p \in Sessions \ {s} : session'[p] = session[p]
           /\ UNCHANGED <<orders, drawn>>
    BY <1>4, SaveSaves DEF Typed
  <2>2. /\ Emptied(r).lines = {} /\ Emptied(r).idem = NoKey
    BY DEF Emptied, NewSession
  <2>3. shown' = IF req[r].phase = "respond" THEN shown \ {req[r].session}
                 ELSE IF req[r].key # NoKey THEN shown \cup {req[r].session}
                      ELSE shown
    BY <1>4 DEF SaveSession, Leave
  <2> QED
    BY <2>1, <2>2, <2>3 DEF Ends, Saves
<1>5. ASSUME NEW r \in Requests, ServerError(r) PROVE Quiet
  BY <1>5 DEF ServerError, Finish, Quiet, Typed, TypeOK
<1>6. CASE \/ UNCHANGED vars \/ NextDay \/ Crash
           \/ \E i \in Items, state \in {"on", "off", "gone"} : EditMenu(i, state)
  BY <1>6 DEF vars, NextDay, Crash, EditMenu, Quiet
<1> QED
  BY <1>1, <1>2, <1>3, <1>4, <1>5, <1>6 DEF Next
-----------------------------------------------------------------------------
(***************************************************************************)
(* The inductive invariant.                                                *)
(***************************************************************************)

\* Lines come from the pool: a new line is in nobody's hands.
LinesDrawn ==
  /\ \A s \in Sessions : session[s].lines \subseteq drawn
  /\ \A q \in Requests : req[q] # Idle => req[q].copy.lines \subseteq drawn
  /\ \A o \in orders : o.cart \subseteq drawn

\* Each line belongs to one guest.
OwnedBy(own) ==
  /\ \A s \in Sessions : \A l \in session[s].lines : own[l] = s
  /\ \A q \in Requests : req[q] # Idle =>
       \A l \in req[q].copy.lines : own[l] = req[q].session
LinesOwned == \E own : OwnedBy(own)

\* A request that changes the cart is the guest's only one, with no cart page
\* open; an open cart page has a key, and one to open will have.
TabsInOrder ==
  /\ \A s \in shown : session[s].idem # NoKey
  /\ \A q \in Requests :
       /\ req[q].phase # "chip"
       /\ req[q].phase = "save" =>
            /\ req[q].session \notin shown
            /\ req[q].key # NoKey => req[q].copy.idem # NoKey
            /\ \A r \in Requests \ {q} :
                 req[r] = Idle \/ req[r].session # req[q].session

\* A submit under way has the guest's cart and key, or the cart is ordered and
\* gone.
SubmitsCurrent ==
  \A q \in Requests : Submits(q) =>
    \/ session[req[q].session].lines = {}
    \/ /\ session[req[q].session].lines = req[q].copy.lines
       /\ session[req[q].session].idem = req[q].key

\* Whatever shares a line has the same key.
Meet(a, b) == a \cap b # {}
KeysAgree ==
  /\ \A q, r \in Requests :
       Submits(q) /\ Submits(r) /\ Meet(req[q].copy.lines, req[r].copy.lines)
         => req[q].key = req[r].key
  /\ \A o \in orders :
       /\ \A s \in Sessions :
            Meet(o.cart, session[s].lines) => o.key = session[s].idem
       /\ \A q \in Requests :
            /\ req[q].phase = "save" /\ Meet(o.cart, req[q].copy.lines)
                 => o.key = req[q].copy.idem
            /\ Submits(q) /\ Meet(o.cart, req[q].copy.lines)
                 => o.key = req[q].key
       /\ \A p \in orders : Meet(o.cart, p.cart) => o.key = p.key

LinesInv == LinesDrawn /\ LinesOwned /\ TabsInOrder /\ SubmitsCurrent /\ KeysAgree

LEMMA LinesInit == Init => LinesInv
BY DEF Init, LinesInv, LinesDrawn, LinesOwned, OwnedBy, TabsInOrder, SubmitsCurrent,
       KeysAgree, Meet, Submits, Submitting, Idle, NewSession

\* A request with one of these phases is not idle.
LEMMA NotIdle ==
  ASSUME NEW q \in Requests, Submits(q) \/ req[q].phase \in {"save", "chip"}
  PROVE  req[q] # Idle
BY DEF Submits, Submitting, Idle

LEMMA LinesDrawnStep ==
  ASSUME Typed, OneTab, ~ChipPolls, LinesDrawn, [Next]_vars
  PROVE  LinesDrawn'
<1>1. CASE Quiet
  BY <1>1 DEF Quiet, LinesDrawn
<1>2. ASSUME NEW s \in Sessions, OpensPage(s) PROVE LinesDrawn'
  BY <1>2 DEF OpensPage, LinesDrawn
<1>3. ASSUME NEW r \in Requests, NEW s \in Sessions, Starts(r, s) PROVE LinesDrawn'
  <2>1. req'[r].copy.lines \subseteq drawn'
    BY <1>3 DEF Starts, SaveBegins, SubmitBegins, LinesDrawn
  <2> QED
    BY <1>3, <2>1 DEF Starts, Only, LinesDrawn
<1>4. ASSUME NEW r \in Requests, Works(r) PROVE LinesDrawn'
  <2>1. req[r] # Idle
    BY <1>4, NotIdle DEF Works
  <2>2. \A q \in Requests : req'[q] # Idle => req'[q].copy.lines \subseteq drawn
    BY <1>4, <2>1 DEF Works, Only, LinesDrawn
  <2>3. \A o \in orders' : o.cart \subseteq drawn
    BY <1>4, <2>1, CommitAdds DEF Works, LinesDrawn, Typed
  <2> QED
    BY <1>4, <2>2, <2>3 DEF Works, LinesDrawn
<1>5. ASSUME NEW r \in Requests, Ends(r) PROVE LinesDrawn'
  BY <1>5, NotIdle DEF Ends, Only, LinesDrawn
<1> QED
  BY <1>1, <1>2, <1>3, <1>4, <1>5, StepKinds

LEMMA LinesOwnedStep ==
  ASSUME Typed, OneTab, ~ChipPolls, LinesDrawn, LinesOwned, [Next]_vars
  PROVE  LinesOwned'
<1>0. PICK own : OwnedBy(own)
  BY DEF LinesOwned
<1>1. CASE Quiet
  <2>1. OwnedBy(own)'
    BY <1>0, <1>1 DEF Quiet, OwnedBy
  <2> QED
    BY <2>1 DEF LinesOwned
<1>2. ASSUME NEW s \in Sessions, OpensPage(s) PROVE LinesOwned'
  <2>1. OwnedBy(own)'
    BY <1>0, <1>2 DEF OpensPage, OwnedBy
  <2> QED
    BY <2>1 DEF LinesOwned
<1>3. ASSUME NEW r \in Requests, NEW s \in Sessions, Starts(r, s) PROVE LinesOwned'
  <2>1. PICK new : /\ \A l \in drawn : new[l] = own[l]
                   /\ \A l \in drawn' \ drawn : new[l] = s
    <3> DEFINE f == [l \in drawn' |-> IF l \in drawn THEN own[l] ELSE s]
    <3>1. /\ \A l \in drawn : f[l] = own[l]
          /\ \A l \in drawn' \ drawn : f[l] = s
      BY <1>3 DEF Starts
    <3> HIDE DEF f
    <3> QED
      BY <3>1
  <2>2. /\ req'[r].session = s
        /\ req'[r].copy.lines \subseteq session[s].lines \cup (drawn' \ drawn)
        /\ UNCHANGED session
        /\ \A q \in Requests \ {r} : req'[q] = req[q]
    BY <1>3 DEF Starts, SaveBegins, SubmitBegins, Only
  <2>3. \A p \in Sessions : \A l \in session[p].lines : new[l] = p
    BY <1>0, <2>1 DEF OwnedBy, LinesDrawn
  <2>4. \A q \in Requests : req'[q] # Idle =>
          \A l \in req'[q].copy.lines : new[l] = req'[q].session
    BY <1>0, <2>1, <2>2, <2>3 DEF OwnedBy, LinesDrawn
  <2>5. OwnedBy(new)'
    BY <2>2, <2>3, <2>4 DEF OwnedBy
  <2> QED
    BY <2>5 DEF LinesOwned
<1>4. ASSUME NEW r \in Requests, Works(r) PROVE LinesOwned'
  <2>1. req[r] # Idle
    BY <1>4, NotIdle DEF Works
  <2>2. OwnedBy(own)'
    BY <1>0, <1>4, <2>1 DEF Works, Only, OwnedBy
  <2> QED
    BY <2>2 DEF LinesOwned
<1>5. ASSUME NEW r \in Requests, Ends(r) PROVE LinesOwned'
  <2>1. \A l \in session'[req[r].session].lines : own[l] = req[r].session
    <3>1. CASE /\ req[r].phase \in {"save", "chip"}
               /\ session'[req[r].session] = req[r].copy
      BY <1>0, <3>1, NotIdle DEF OwnedBy
    <3>2. CASE session'[req[r].session].lines = {}
      BY <3>2
    <3> QED
      BY <1>5, <3>1, <3>2 DEF Ends
  <2>2. \A s \in Sessions : \A l \in session'[s].lines : own[l] = s
    BY <1>0, <1>5, <2>1 DEF Ends, OwnedBy
  <2>3. \A q \in Requests : req'[q] # Idle => req'[q] = req[q]
    BY <1>5 DEF Ends, Only
  <2>4. OwnedBy(own)'
    BY <1>0, <2>2, <2>3 DEF OwnedBy
  <2> QED
    BY <2>4 DEF LinesOwned
<1> QED
  BY <1>1, <1>2, <1>3, <1>4, <1>5, StepKinds

LEMMA TabsInOrderStep ==
  ASSUME Typed, OneTab, ~ChipPolls, TabsInOrder, [Next]_vars
  PROVE  TabsInOrder'
<1>1. CASE Quiet
  BY <1>1 DEF Quiet, TabsInOrder, Idle
<1>2. ASSUME NEW s \in Sessions, OpensPage(s) PROVE TabsInOrder'
  BY <1>2 DEF OpensPage, TabsInOrder
<1>3. ASSUME NEW r \in Requests, NEW s \in Sessions, Starts(r, s) PROVE TabsInOrder'
  <2>1. CASE SaveBegins(r, s)
    <3>1. /\ shown' = shown \ {s} /\ session' = session
          /\ req'[r].session = s /\ req'[r].phase = "save"
          /\ req'[r].key # NoKey => req'[r].copy.idem # NoKey
          /\ \A q \in Requests \ {r} : req'[q] = req[q]
      BY <1>3, <2>1 DEF Starts, SaveBegins, Only
    <3>2. \A q \in Requests \ {r} : req[q] = Idle \/ req[q].session # s
      BY <2>1 DEF SaveBegins, TabsInOrder
    <3>3. \A p \in shown' : session'[p].idem # NoKey
      BY <3>1 DEF TabsInOrder
    <3>4. ASSUME NEW q \in Requests, q # r, req[q].phase = "save"
          PROVE  /\ req[q].session \notin shown'
                 /\ req[q].session # req'[r].session
      BY <3>1, <3>2, <3>4, NotIdle DEF TabsInOrder
    <3> QED
      BY <3>1, <3>2, <3>3, <3>4 DEF TabsInOrder
  <2>2. CASE SubmitBegins(r, s)
    BY <1>3, <2>2 DEF Starts, SubmitBegins, Only, TabsInOrder
  <2> QED
    BY <1>3, <2>1, <2>2 DEF Starts
<1>4. ASSUME NEW r \in Requests, Works(r) PROVE TabsInOrder'
  <2>1. req[r] # Idle
    BY <1>4, NotIdle DEF Works
  <2>2. req'[r].phase \notin {"save", "chip"}
    BY <1>4 DEF Works, Submits, Submitting
  <2> QED
    BY <1>4, <2>1, <2>2 DEF Works, Only, TabsInOrder
<1>5. ASSUME NEW r \in Requests, Ends(r) PROVE TabsInOrder'
  <2>1. req[r] # Idle /\ req[r].phase # "chip"
    BY <1>5, NotIdle DEF Ends, TabsInOrder, Idle
  <2>2. \A p \in shown' : session'[p].idem # NoKey
    BY <1>5, <2>1 DEF Ends, TabsInOrder, Typed, TypeOK
  <2>3. ASSUME NEW q \in Requests, req'[q].phase = "save"
        PROVE  req'[q] = req[q] /\ q # r /\ req[q].session # req[r].session
    BY <1>5, <2>1, <2>3 DEF Ends, Only, TabsInOrder, Idle
  <2> QED
    BY <1>5, <2>2, <2>3 DEF Ends, Only, TabsInOrder, Idle
<1> QED
  BY <1>1, <1>2, <1>3, <1>4, <1>5, StepKinds

LEMMA SubmitsCurrentStep ==
  ASSUME Typed, OneTab, ~ChipPolls, TabsInOrder, SubmitsCurrent, [Next]_vars
  PROVE  SubmitsCurrent'
<1>1. CASE Quiet
  BY <1>1 DEF Quiet, SubmitsCurrent, Submits, Submitting, Idle
<1>2. ASSUME NEW s \in Sessions, OpensPage(s) PROVE SubmitsCurrent'
  BY <1>2 DEF OpensPage, SubmitsCurrent, Submits
<1>3. ASSUME NEW r \in Requests, NEW s \in Sessions, Starts(r, s) PROVE SubmitsCurrent'
  <2>1. CASE SaveBegins(r, s)
    BY <1>3, <2>1 DEF Starts, SaveBegins, Only, SubmitsCurrent, Submits, Submitting
  <2>2. CASE SubmitBegins(r, s)
    <3>1. req'[r].key = session[s].idem
      BY <2>2 DEF SubmitBegins, SubmitKeys, TabsInOrder
    <3>2. /\ req'[r].session = s /\ req'[r].copy = session[s] /\ session' = session
          /\ \A q \in Requests \ {r} : req'[q] = req[q]
      BY <1>3, <2>2 DEF Starts, SubmitBegins, Only
    <3> SUFFICES ASSUME NEW q \in Requests, Submits(q)'
                 PROVE  \/ session'[req'[q].session].lines = {}
                        \/ /\ session'[req'[q].session].lines = req'[q].copy.lines
                           /\ session'[req'[q].session].idem = req'[q].key
      BY DEF SubmitsCurrent
    <3>3. CASE q = r
      BY <3>1, <3>2, <3>3
    <3>4. CASE q # r
      BY <3>2, <3>4 DEF SubmitsCurrent, Submits
    <3> QED
      BY <3>3, <3>4
  <2> QED
    BY <1>3, <2>1, <2>2 DEF Starts
<1>4. ASSUME NEW r \in Requests, Works(r) PROVE SubmitsCurrent'
  BY <1>4 DEF Works, Only, SubmitsCurrent, Submits
<1>5. ASSUME NEW r \in Requests, Ends(r) PROVE SubmitsCurrent'
  <2> SUFFICES ASSUME NEW q \in Requests, Submits(q)'
               PROVE  \/ session'[req'[q].session].lines = {}
                      \/ /\ session'[req'[q].session].lines = req'[q].copy.lines
                         /\ session'[req'[q].session].idem = req'[q].key
    BY DEF SubmitsCurrent
  <2>1. q # r /\ req'[q] = req[q] /\ Submits(q)
    BY <1>5 DEF Ends, Only, Submits, Submitting, Idle
  <2>2. req[q] # Idle /\ req[q].session \in Sessions
    BY <2>1, NotIdle, RequestType DEF Typed, Submits, Submitting, Idle
  <2>3. CASE req[r].phase = "save"
    BY <1>5, <2>1, <2>2, <2>3 DEF Ends, TabsInOrder, SubmitsCurrent
  <2>4. CASE req[r].phase = "respond"
    BY <1>5, <2>1, <2>2, <2>4 DEF Ends, SubmitsCurrent
  <2> QED
    BY <1>5, <2>3, <2>4 DEF Ends, TabsInOrder
<1> QED
  BY <1>1, <1>2, <1>3, <1>4, <1>5, StepKinds

\* Lines in two hands are of one guest.
LEMMA MeetingIsOwn ==
  ASSUME LinesOwned
  PROVE  /\ \A s \in Sessions, q \in Requests :
              req[q] # Idle /\ Meet(session[s].lines, req[q].copy.lines)
                => s = req[q].session
         /\ \A q, r \in Requests :
              (/\ req[q] # Idle /\ req[r] # Idle
               /\ Meet(req[q].copy.lines, req[r].copy.lines))
                => req[q].session = req[r].session
<1>1. PICK own : OwnedBy(own)
  BY DEF LinesOwned
<1>2. ASSUME NEW s \in Sessions, NEW q \in Requests, req[q] # Idle,
             NEW l \in session[s].lines, l \in req[q].copy.lines
      PROVE  s = req[q].session
  BY <1>1, <1>2 DEF OwnedBy
<1>3. ASSUME NEW q \in Requests, NEW r \in Requests, req[q] # Idle, req[r] # Idle,
             NEW l \in req[q].copy.lines, l \in req[r].copy.lines
      PROVE  req[q].session = req[r].session
  BY <1>1, <1>3 DEF OwnedBy
<1> QED
  BY <1>2, <1>3 DEF Meet

\* A submit that starts has the key of whatever it meets.
LEMMA KeysAgreeStarts ==
  ASSUME Typed, LinesInv, NEW r \in Requests, NEW s \in Sessions, Starts(r, s)
  PROVE  KeysAgree'
<1>0. LinesDrawn /\ LinesOwned /\ TabsInOrder /\ SubmitsCurrent /\ KeysAgree
  BY DEF LinesInv
<1>1. /\ UNCHANGED <<orders, session>> /\ req[r] = Idle
      /\ \A q \in Requests \ {r} : req'[q] = req[q]
  BY DEF Starts, SaveBegins, SubmitBegins, Only
<1>2. \A o \in orders : o.key # NoKey
  BY DEF Typed, TypeOK, Order
<1>3. CASE SaveBegins(r, s)
  <2>1. ASSUME NEW o \in orders, Meet(o.cart, req'[r].copy.lines)
        PROVE  o.key = req'[r].copy.idem
    <3>1. Meet(o.cart, session[s].lines)
      BY <1>0, <1>3, <2>1 DEF SaveBegins, LinesDrawn, Meet
    <3>2. o.key = session[s].idem
      BY <1>0, <3>1 DEF KeysAgree
    <3> QED
      BY <1>2, <1>3, <3>2 DEF SaveBegins
  <2>2. ~Submits(r)'
    BY <1>3 DEF SaveBegins, Submits, Submitting
  <2> QED
    BY <1>0, <1>1, <2>1, <2>2 DEF KeysAgree, Submits
<1>4. CASE SubmitBegins(r, s)
  <2>1. /\ req'[r].copy = session[s] /\ req'[r].key = session[s].idem
        /\ req'[r].phase # "save" /\ session[s].lines # {}
    BY <1>0, <1>4 DEF SubmitBegins, SubmitKeys, TabsInOrder
  <2>2. ASSUME NEW o \in orders, Meet(o.cart, req'[r].copy.lines)
        PROVE  o.key = req'[r].key
    BY <1>0, <2>1, <2>2 DEF KeysAgree
  <2>3. ASSUME NEW q \in Requests, q # r, Submits(q),
               Meet(session[s].lines, req[q].copy.lines)
        PROVE  req[q].key = req'[r].key
    <3>1. s = req[q].session
      BY <1>0, <2>3, MeetingIsOwn, NotIdle
    <3> QED
      BY <1>0, <2>1, <2>3, <3>1 DEF SubmitsCurrent
  <2>4. ASSUME NEW q \in Requests, q # r, Submits(q),
               Meet(req[q].copy.lines, session[s].lines)
        PROVE  req[q].key = req'[r].key
    BY <2>3, <2>4 DEF Meet
  <2>5. ASSUME NEW q \in Requests, NEW p \in Requests, Submits(q)', Submits(p)',
               Meet(req'[q].copy.lines, req'[p].copy.lines)
        PROVE  req'[q].key = req'[p].key
    <3>1. CASE q = r
      BY <1>1, <2>1, <2>3, <2>5, <3>1 DEF Submits
    <3>2. CASE p = r /\ q # r
      BY <1>1, <2>1, <2>4, <2>5, <3>2 DEF Submits
    <3>3. CASE q # r /\ p # r
      BY <1>0, <1>1, <2>5, <3>3 DEF Submits, KeysAgree
    <3> QED
      BY <3>1, <3>2, <3>3
  <2>6. ASSUME NEW o \in orders, NEW q \in Requests
        PROVE  /\ req'[q].phase = "save" /\ Meet(o.cart, req'[q].copy.lines)
                    => o.key = req'[q].copy.idem
               /\ Submits(q)' /\ Meet(o.cart, req'[q].copy.lines)
                    => o.key = req'[q].key
    BY <1>0, <1>1, <2>1, <2>2 DEF KeysAgree, Submits
  <2> QED
    BY <1>0, <1>1, <2>5, <2>6 DEF KeysAgree, Submits
<1> QED
  BY <1>3, <1>4 DEF Starts

\* The order that a submit commits has the key of whatever shares its lines.
LEMMA KeysAgreeCommit ==
  ASSUME Typed, LinesInv, NEW r \in Requests, Works(r), Commit(r)
  PROVE  \A o \in orders' :
           /\ \A s \in Sessions :
                Meet(o.cart, session[s].lines) => o.key = session[s].idem
           /\ \A q \in Requests :
                /\ req[q].phase = "save" /\ Meet(o.cart, req[q].copy.lines)
                     => o.key = req[q].copy.idem
                /\ Submits(q) /\ Meet(o.cart, req[q].copy.lines)
                     => o.key = req[q].key
           /\ \A p \in orders' : Meet(o.cart, p.cart) => o.key = p.key
<1>0. LinesOwned /\ TabsInOrder /\ SubmitsCurrent /\ KeysAgree
  BY DEF LinesInv
<1>1. Submits(r) /\ req[r] # Idle /\ req[r].phase # "save"
  BY NotIdle DEF Works, Commit
<1> DEFINE lines == req[r].copy.lines
           key == req[r].key
<1>2. PICK new : orders' = orders \cup {new} /\ new.cart = lines /\ new.key = key
  <2> DEFINE row == [number |-> req[r].number, key |-> req[r].key,
                     created |-> req[r].created, lines |-> req[r].taken,
                     cart |-> req[r].copy.lines]
  <2>1. orders' = orders \cup {row} /\ row.cart = lines /\ row.key = key
    BY CommitAdds DEF Typed
  <2> HIDE DEF row, lines, key
  <2> QED
    BY <2>1
<1>3. ASSUME NEW s \in Sessions, Meet(lines, session[s].lines)
      PROVE  key = session[s].idem
  <2>1. Meet(session[s].lines, lines) /\ session[s].lines # {}
    BY <1>3 DEF Meet
  <2>2. s = req[r].session
    BY <1>0, <1>1, <2>1, MeetingIsOwn
  <2> QED
    BY <1>0, <1>1, <2>1, <2>2 DEF SubmitsCurrent
<1>4. ASSUME NEW q \in Requests, req[q].phase = "save", Meet(lines, req[q].copy.lines)
      PROVE  FALSE
  <2>1. req[q].session = req[r].session
    BY <1>0, <1>1, <1>4, NotIdle, MeetingIsOwn
  <2> QED
    BY <1>0, <1>1, <1>4, <2>1 DEF TabsInOrder
<1>5. ASSUME NEW q \in Requests, Submits(q), Meet(lines, req[q].copy.lines)
      PROVE  key = req[q].key
  BY <1>0, <1>1, <1>5 DEF KeysAgree
<1>6. ASSUME NEW p \in orders, Meet(lines, p.cart) \/ Meet(p.cart, lines)
      PROVE  p.key = key
  <2>1. Meet(p.cart, lines)
    BY <1>6 DEF Meet
  <2> QED
    BY <1>0, <1>1, <2>1 DEF KeysAgree
<1> HIDE DEF lines, key
<1>7. \A p \in orders' : Meet(lines, p.cart) => key = p.key
  BY <1>2, <1>6
<1>8. \A o \in orders, p \in orders' : Meet(o.cart, p.cart) => o.key = p.key
  BY <1>0, <1>2, <1>6 DEF KeysAgree
<1>9. \A o \in orders :
        /\ \A s \in Sessions :
             Meet(o.cart, session[s].lines) => o.key = session[s].idem
        /\ \A q \in Requests :
             /\ req[q].phase = "save" /\ Meet(o.cart, req[q].copy.lines)
                  => o.key = req[q].copy.idem
             /\ Submits(q) /\ Meet(o.cart, req[q].copy.lines)
                  => o.key = req[q].key
  BY <1>0 DEF KeysAgree
<1>10. ASSUME NEW o \in orders', o = new
       PROVE  /\ \A s \in Sessions :
                   Meet(o.cart, session[s].lines) => o.key = session[s].idem
              /\ \A q \in Requests :
                   /\ req[q].phase = "save" /\ Meet(o.cart, req[q].copy.lines)
                        => o.key = req[q].copy.idem
                   /\ Submits(q) /\ Meet(o.cart, req[q].copy.lines)
                        => o.key = req[q].key
              /\ \A p \in orders' : Meet(o.cart, p.cart) => o.key = p.key
  BY <1>2, <1>3, <1>4, <1>5, <1>7, <1>10
<1> QED
  BY <1>2, <1>8, <1>9, <1>10

LEMMA KeysAgreeStep ==
  ASSUME Typed, OneTab, ~ChipPolls, LinesInv, [Next]_vars
  PROVE  KeysAgree'
<1>0. LinesDrawn /\ LinesOwned /\ TabsInOrder /\ SubmitsCurrent /\ KeysAgree
  BY DEF LinesInv
<1>1. CASE Quiet
  BY <1>0, <1>1 DEF Quiet, KeysAgree, Submits, Submitting, Idle
<1>2. ASSUME NEW s \in Sessions, OpensPage(s) PROVE KeysAgree'
  BY <1>0, <1>2 DEF OpensPage, KeysAgree, Submits
<1>3. ASSUME NEW r \in Requests, NEW s \in Sessions, Starts(r, s) PROVE KeysAgree'
  BY <1>3, KeysAgreeStarts
<1>4. ASSUME NEW r \in Requests, Works(r) PROVE KeysAgree'
  <2>1. /\ \A q \in Requests : /\ req'[q].copy = req[q].copy
                               /\ req'[q].key = req[q].key
                               /\ Submits(q)' = Submits(q)
                               /\ req'[q].phase = "save" => req[q].phase = "save"
        /\ session' = session
    BY <1>4 DEF Works, Only, Submits, Submitting
  <2>2. CASE orders' = orders
    BY <1>0, <2>1, <2>2 DEF KeysAgree
  <2>3. CASE Commit(r)
    <3>1. \A o \in orders' :
           /\ \A s \in Sessions :
                Meet(o.cart, session[s].lines) => o.key = session[s].idem
           /\ \A q \in Requests :
                /\ req[q].phase = "save" /\ Meet(o.cart, req[q].copy.lines)
                     => o.key = req[q].copy.idem
                /\ Submits(q) /\ Meet(o.cart, req[q].copy.lines)
                     => o.key = req[q].key
           /\ \A p \in orders' : Meet(o.cart, p.cart) => o.key = p.key
      BY <1>4, <2>3, KeysAgreeCommit
    <3> QED
      BY <1>0, <2>1, <3>1 DEF KeysAgree
  <2> QED
    BY <1>4, <2>2, <2>3 DEF Works
<1>5. ASSUME NEW r \in Requests, Ends(r) PROVE KeysAgree'
  <2>1. /\ orders' = orders
        /\ \A q \in Requests : req'[q] \in {req[q], Idle}
    BY <1>5 DEF Ends, Only
  <2>2. ASSUME NEW o \in orders, NEW s \in Sessions, Meet(o.cart, session'[s].lines)
        PROVE  o.key = session'[s].idem
    <3>1. CASE session'[s] = session[s]
      BY <1>0, <2>2, <3>1 DEF KeysAgree
    <3>2. CASE s = req[r].session
      BY <1>0, <1>5, <2>2, <3>2 DEF Ends, TabsInOrder, KeysAgree, Meet
    <3> QED
      BY <1>5, <3>1, <3>2 DEF Ends
  <2> QED
    BY <1>0, <2>1, <2>2 DEF KeysAgree, Submits, Submitting, Idle
<1> QED
  BY <1>1, <1>2, <1>3, <1>4, <1>5, StepKinds

LEMMA LinesStep == OneTab /\ ~ChipPolls /\ Typed /\ LinesInv /\ [Next]_vars => LinesInv'
BY LinesDrawnStep, LinesOwnedStep, TabsInOrderStep, SubmitsCurrentStep,
   KeysAgreeStep DEF LinesInv

\* In one tab, however often the guest submits, retries or finds the server
\* restarted, no cart line is ever in two orders: orders that share a line have
\* one key, and orders with one key are one order.
THEOREM LinesAlwaysOrderedOnce ==
  OneTab /\ ~ChipPolls => (Spec => []LineOrderedOnce)
<1> SUFFICES ASSUME OneTab, ~ChipPolls PROVE Spec => []LineOrderedOnce
  OBVIOUS
<1> DEFINE Inv == Typed /\ RowsUnique /\ CartsWhole /\ LinesInv
<1>1. Init => Inv
  BY TypedInit, RowsUniqueInit, CartsWholeInit, LinesInit
<1>2. Inv /\ [Next]_vars => Inv'
  BY TypedStep, RowsUniqueStep, CartsWholeStep, LinesStep
<1>3. Inv => LineOrderedOnce
  <2> SUFFICES ASSUME Inv, NEW o \in orders, NEW p \in orders, o # p
               PROVE  o.lines \cap p.lines = {}
    BY DEF LineOrderedOnce
  <2>1. o.lines = o.cart /\ p.lines = p.cart
    BY DEF CartsWhole, WholeCart
  <2>2. o.key # p.key
    BY DEF RowsUnique, SameUnique
  <2> QED
    BY <2>1, <2>2 DEF LinesInv, KeysAgree, Meet
<1> QED
  BY <1>1, <1>2, <1>3, PTL DEF Spec
=============================================================================
