------------------------ MODULE OrderWorkflow_proofs ------------------------
(***************************************************************************)
(* Proofs about OrderWorkflow.  TypeCorrect is its own induction;          *)
(* everything else rests on the inductive invariant IInv below: the        *)
(* locking, the refinement of OrderLifecycle, and then what is written     *)
(* down about an order beside its status.                                  *)
(***************************************************************************)
EXTENDS OrderWorkflow, SequenceTheorems, TLAPS

USE RoleAssumption DEF InPhase, Exists

\* A row stays a row when a service saves over it.
LEMMA SavedType ==
  ASSUME NEW row \in Row, NEW s \in Services, NEW u \in Users
  PROVE  /\ Saved(row, s, u) \in Row
         /\ Saved(row, s, u).status = Target[s]
         /\ Saved(row, s, u).version = row.version + 1
         /\ Target[s] \in OrderStatus
<1>1. Target[s] \in OrderStatus
  BY DEF Services, Target, OrderStatus, New, Confirmed, InPreparation, Ready,
         Served, Cancelled, Rejected
<1>2. row.version + 1 \in Nat
  BY DEF Row
<1> DEFINE new == Saved(row, s, u)
<1>3. /\ new.status = Target[s] /\ new.version = row.version + 1
      /\ new.confirmed_at \in Nat /\ new.preparation_started_at \in Nat
      /\ new.ready_at \in Nat /\ new.served_at \in Nat /\ new.cancelled_at \in Nat
  BY <1>2 DEF Saved, Row
<1>4. new.confirmed_by \in Users \cup {NoUser} /\ new.cancelled_by \in Users \cup {NoUser}
  BY DEF Saved, Row
<1>5. new = [status |-> new.status, version |-> new.version,
             confirmed_at |-> new.confirmed_at,
             preparation_started_at |-> new.preparation_started_at,
             ready_at |-> new.ready_at, served_at |-> new.served_at,
             cancelled_at |-> new.cancelled_at, confirmed_by |-> new.confirmed_by,
             cancelled_by |-> new.cancelled_by]
  BY DEF Saved, Row
<1> QED
  BY <1>1, <1>2, <1>3, <1>4, <1>5 DEF Row

\* A request that is not idle is active, with fields of their types.
LEMMA RequestType ==
  ASSUME TypeOK, NEW r \in Requests, req[r].phase # "idle"
  PROVE  /\ req[r] \in Active
         /\ req[r].service \in Services /\ req[r].user \in Users
         /\ req[r].order \in Orders /\ req[r].row \in Row
         /\ req[r].expected \in Nat
         /\ req[r].seen \in OrderStatus \cup {NoStatus}
<1>1. req[r] \in Active \cup {Idle}
  BY DEF TypeOK
<1>2. req[r] \in Active
  BY <1>1 DEF Idle
<1> QED
  BY <1>2 DEF Active

LEMMA TypeInit == Init => TypeOK
<1> SUFFICES ASSUME Init PROVE TypeOK
  OBVIOUS
<1>1. NoRow \in Row
  BY DEF NoRow, Row, Never
<1>2. order \in [Orders -> Row] /\ history \in [Orders -> Seq(Entry)]
  BY <1>1 DEF Init
<1>3. page \in [Users -> [Orders -> Shown]]
  BY DEF Init, Shown
<1>4. req \in [Requests -> Active \cup {Idle}]
  BY DEF Init
<1>5. FollowUpsTyped
  BY DEF Init, FollowUpsTyped, FollowUpsLeft, Idle
<1> QED
  BY <1>2, <1>3, <1>4, <1>5 DEF Init, TypeOK

\* Each action keeps the types.
LEMMA TypeStep == TypeOK /\ [Next]_vars => TypeOK'
<1> SUFFICES ASSUME TypeOK, [Next]_vars PROVE TypeOK'
  OBVIOUS
<1>1. ASSUME NEW o \in Orders, CreateOrder(o) PROVE TypeOK'
  <2>1. order' \in [Orders -> Row]
    <3>1. NewRow \in Row
      BY DEF NewRow, NoRow, Row, Never, OrderStatus
    <3> QED
      BY <1>1, <3>1 DEF CreateOrder, TypeOK
  <2>2. history' \in [Orders -> Seq(Entry)]
    <3> DEFINE e == [previous_status |-> NoStatus, new_status |-> New,
                     changed_by |-> NoUser]
    <3>1. e \in Entry
      BY DEF Entry, OrderStatus
    <3> HIDE DEF e
    <3>2. history' = [history EXCEPT ![o] = Append(@, e)]
      BY <1>1 DEF CreateOrder, e
    <3> QED
      BY <3>1, <3>2 DEF TypeOK
  <2>3. sent' \subseteq Broadcasts
    <3>1. [order |-> o, version |-> 1, status |-> New,
           event |-> "order.created"] \in Broadcasts
      BY DEF Broadcasts, OrderStatus
    <3> QED
      BY <1>1, <3>1 DEF CreateOrder, TypeOK
  <2>4. lost' \subseteq FollowUp
    BY <1>1 DEF CreateOrder, TypeOK, FollowUp
  <2> QED
    BY <1>1, <2>1, <2>2, <2>3, <2>4
    DEF CreateOrder, TypeOK, FollowUpsTyped, FollowUpsLeft
<1>2. ASSUME NEW u \in Users, NEW o \in Orders, ShowPage(u, o) PROVE TypeOK'
  <2>1. [status |-> order[o].status, version |-> order[o].version] \in Shown
    BY DEF TypeOK, Row, Shown
  <2>2. page' \in [Users -> [Orders -> Shown]]
    BY <1>2, <2>1 DEF ShowPage, TypeOK
  <2> QED
    BY <1>2, <2>2 DEF ShowPage, TypeOK, FollowUpsTyped, FollowUpsLeft
<1>3. ASSUME NEW r \in Requests, NEW u \in Users, NEW o \in Orders,
             NEW s \in Services, NEW v \in Nat,
             NEW st \in OrderStatus \cup {NoStatus}, Post(r, u, o, s, v, st)
      PROVE  TypeOK'
  <2>1. [phase |-> "posted", service |-> s, user |-> u, order |-> o,
         expected |-> v, seen |-> st, row |-> NoRow] \in Active
    BY DEF Active, NoRow, Row, Never
  <2>2. req' \in [Requests -> Active \cup {Idle}]
    BY <1>3, <2>1 DEF Post, TypeOK
  <2>3. FollowUpsTyped'
    BY <1>3 DEF Post, TypeOK, FollowUpsTyped, FollowUpsLeft
  <2> QED
    BY <1>3, <2>2, <2>3 DEF Post, TypeOK
<1>4. ASSUME NEW r \in Requests, NEW u \in Users, NEW o \in Orders,
             NEW s \in Services, PressButton(r, u, o, s)
      PROVE  TypeOK'
  <2>1. page[u][o].version \in Nat /\ page[u][o].status \in OrderStatus \cup {NoStatus}
    BY DEF TypeOK, Shown
  <2> QED
    BY <1>3, <1>4, <2>1 DEF PressButton
<1>5. ASSUME NEW r \in Requests, NEW u \in Users, NEW o \in Orders,
             NEW s \in Services, PostBare(r, u, o, s)
      PROVE  TypeOK'
  BY <1>3, <1>5 DEF PostBare
<1>6. ASSUME NEW r \in Requests, LockRow(r) PROVE TypeOK'
  <2> DEFINE q == [req[r] EXCEPT !.phase = "locked", !.row = order[req[r].order]]
  <2>1. req[r] \in Active /\ order[req[r].order] \in Row
    BY <1>6, RequestType DEF LockRow, TypeOK
  <2>2. q \in Active
    BY <2>1 DEF Active
  <2>3. req' = [req EXCEPT ![r] = q]
    BY <1>6 DEF LockRow, TypeOK
  <2> HIDE DEF q
  <2>4. req' \in [Requests -> Active \cup {Idle}]
    BY <2>2, <2>3 DEF TypeOK
  <2>5. FollowUpsTyped'
    BY <1>6 DEF LockRow, TypeOK, FollowUpsTyped, FollowUpsLeft
  <2> QED
    BY <1>6, <2>4, <2>5 DEF LockRow, TypeOK
<1>7. ASSUME NEW r \in Requests, Respond(r),
             UNCHANGED <<order, history, page, audit>>,
             sent' \subseteq Broadcasts,
             lost' \subseteq FollowUp
      PROVE  TypeOK'
  BY <1>7 DEF Respond, TypeOK, FollowUpsTyped, FollowUpsLeft, Idle
<1>8. ASSUME NEW r \in Requests, Commit(r) PROVE TypeOK'
  <2> DEFINE new == Saved(req[r].row, req[r].service, req[r].user)
             e == [previous_status |-> req[r].row.status,
                   new_status |-> new.status, changed_by |-> req[r].user]
             q == [req[r] EXCEPT !.phase = IF req[r].service \in AuditedServices
                                             THEN "audit" ELSE "notify",
                                 !.row = new]
  <2>1. req[r] \in Active /\ req[r].order \in Orders
    BY <1>8, RequestType DEF Commit
  <2>2. new \in Row /\ new.status \in OrderStatus
    BY <1>8, RequestType, SavedType DEF Commit
  <2>3. e \in Entry
    BY <1>8, <2>2, RequestType DEF Commit, Entry, Row
  <2>4. q \in Active
    BY <2>1, <2>2 DEF Active
  <2>5. /\ order' = [order EXCEPT ![req[r].order] = new]
        /\ history' = [history EXCEPT ![req[r].order] = Append(@, e)]
    BY <1>8 DEF Commit
  <2>6. req' = [req EXCEPT ![r] = q]
    BY <1>8 DEF Commit, TypeOK
  <2> HIDE DEF new, e, q
  <2>7. order' \in [Orders -> Row] /\ history' \in [Orders -> Seq(Entry)]
    BY <2>1, <2>2, <2>3, <2>5 DEF TypeOK
  <2>8. req' \in [Requests -> Active \cup {Idle}]
    BY <2>4, <2>6 DEF TypeOK
  <2>9. FollowUpsTyped'
    BY <1>8, <2>2, <2>6 DEF TypeOK, FollowUpsTyped, FollowUpsLeft, q
  <2> QED
    BY <1>8, <2>7, <2>8, <2>9 DEF Commit, TypeOK
<1>9. ASSUME NEW r \in Requests, Audit(r) PROVE TypeOK'
  <2>1. /\ req[r] \in Active /\ req[r].service \in Services /\ req[r].user \in Users
        /\ req[r].order \in Orders /\ req[r].row.version \in Nat
    BY <1>9, RequestType DEF Audit, Row
  <2>2. req' \in [Requests -> Active \cup {Idle}]
    BY <1>9, <2>1 DEF Audit, TypeOK, Active
  <2>3. [order |-> req[r].order, user |-> req[r].user,
         version |-> req[r].row.version, action |-> req[r].service]
           \in AuditRecords
    <3>1. req[r].service \in AuditedServices
      BY <1>9 DEF Audit, TypeOK, FollowUpsTyped, FollowUpsLeft
    <3> QED
      BY <2>1, <3>1 DEF AuditRecords
  <2>4. lost' \subseteq FollowUp
    BY <1>9, <2>1 DEF Audit, TypeOK, FollowUp
  <2>5. audit' \subseteq AuditRecords
    BY <1>9, <2>3 DEF Audit, TypeOK
  <2>6. FollowUpsTyped'
    BY <1>9 DEF Audit, TypeOK, FollowUpsTyped, FollowUpsLeft
  <2> QED
    BY <1>9, <2>2, <2>4, <2>5, <2>6 DEF Audit, TypeOK
<1>10. ASSUME NEW r \in Requests, Notify(r) PROVE TypeOK'
  <2>1. /\ req[r].order \in Orders /\ req[r].row.version \in Nat
        /\ req[r].row.status \in OrderStatus
        /\ req[r].service \in Services
    BY <1>10, RequestType
    DEF Notify, Row, TypeOK, FollowUpsTyped, FollowUpsLeft
  <2>2. [order |-> req[r].order, status |-> req[r].row.status,
         version |-> req[r].row.version, event |-> Event[req[r].service]]
           \in Broadcasts
    BY <2>1 DEF Broadcasts
  <2>3. sent' \subseteq Broadcasts
    BY <1>10, <2>2 DEF Notify, TypeOK
  <2>4. lost' \subseteq FollowUp
    BY <1>10, <2>1 DEF Notify, TypeOK, FollowUp
  <2> QED
    BY <1>7, <1>10, <2>3, <2>4 DEF Notify
<1>11. CASE Crash
  <2>1. lost' \subseteq FollowUp
    <3> SUFFICES ASSUME NEW r \in Requests, FollowUpsLeft(r)
                 PROVE  Pending(r) \subseteq FollowUp
      BY <1>11 DEF Crash, TypeOK
    <3>1. req[r].order \in Orders /\ req[r].row.version \in Nat
      BY RequestType DEF FollowUpsLeft, Row
    <3> QED
      BY <3>1 DEF Pending, FollowUp
  <2> QED
    BY <1>11, <2>1 DEF Crash, TypeOK, FollowUpsTyped, FollowUpsLeft, Idle
<1>12. CASE UNCHANGED vars
  BY <1>12 DEF vars, TypeOK, FollowUpsTyped, FollowUpsLeft
<1> QED
  BY <1>1, <1>2, <1>4, <1>5, <1>6, <1>7, <1>8, <1>9, <1>10, <1>11, <1>12
  DEF Next, Staff, Serve, Finish, Conflict, InvalidTransition, TypeOK

\* Every column, history entry, page, request and log record has its type.
THEOREM TypeCorrect == Spec => []TypeOK
<1> QED
  BY TypeInit, TypeStep, PTL DEF Spec

-----------------------------------------------------------------------------
(***************************************************************************)
(* The inductive invariant.  LegalTrail alone is not inductive: that a     *)
(* commit continues the history needs the row it was decided on to be the  *)
(* committed one (LockHolderIsCurrent), the committed row to agree with    *)
(* the history (RowMatchesTrail), and, for what pages showed, that a       *)
(* version has named one status ever since it was reached (PagesArePast).  *)
(***************************************************************************)
IInv == /\ TypeOK
        /\ RowMatchesTrail
        /\ LegalTrail
        /\ LockHolderIsCurrent
        /\ PagesArePast

\* CreateOrder and Commit both enter a status: order o gets row, one version
\* up, and its history one entry, by the user given, in the same step.
Enters(o, row, by) ==
  /\ order' = [order EXCEPT ![o] = row]
  /\ history' = [history EXCEPT ![o] =
                   Append(@, [previous_status |-> order[o].status,
                              new_status |-> row.status, changed_by |-> by])]
  /\ row.version = order[o].version + 1
  /\ IF Exists(o) THEN can_transition(order[o].status, row.status)
                  ELSE order[o].status = NoStatus /\ row.status = New

\* What entering a status does to the histories.
LEMMA EntersHistory ==
  ASSUME TypeOK, RowMatchesTrail, NEW o \in Orders,
         NEW row \in Row, NEW by \in Users \cup {NoUser}, Enters(o, row, by)
  PROVE  /\ Len(history'[o]) = Len(history[o]) + 1
         /\ history'[o][Len(history[o]) + 1] =
              [previous_status |-> order[o].status, new_status |-> row.status,
               changed_by |-> by]
         /\ \A i \in 1..Len(history[o]) : history'[o][i] = history[o][i]
         /\ \A p \in Orders \ {o} : history'[p] = history[p] /\ order'[p] = order[p]
         /\ order'[o] = row
<1>1. history[o] \in Seq(Entry) /\ o \in DOMAIN history /\ o \in DOMAIN order
  BY DEF TypeOK
<1> DEFINE e == [previous_status |-> order[o].status, new_status |-> row.status,
                 changed_by |-> by]
<1>2. history'[o] = Append(history[o], e)
  BY <1>1 DEF Enters, TypeOK
<1>3. \A p \in Orders \ {o} : history'[p] = history[p] /\ order'[p] = order[p]
  BY DEF Enters, TypeOK
<1>4. order'[o] = row
  BY <1>1 DEF Enters
<1> HIDE DEF e
<1>5. /\ Len(Append(history[o], e)) = Len(history[o]) + 1
      /\ Append(history[o], e)[Len(history[o]) + 1] = e
      /\ \A i \in 1..Len(history[o]) : Append(history[o], e)[i] = history[o][i]
  BY <1>1
<1> QED
  BY <1>2, <1>3, <1>4, <1>5 DEF e

\* It keeps row and history in agreement and the history legal, and it leaves
\* every version the order has been at what it was.
LEMMA EntersKeepsTrail ==
  ASSUME TypeOK, RowMatchesTrail, LegalTrail, NEW o \in Orders,
         NEW row \in Row, NEW by \in Users \cup {NoUser}, Enters(o, row, by)
  PROVE  /\ RowMatchesTrail'
         /\ LegalTrail'
         /\ \A p \in Orders : \A v, st :
              WasAt(history[p], v, st) => WasAt(history'[p], v, st)
         /\ \A p \in Orders : Exists(p) => Exists(p)'
<1> DEFINE n == Len(history[o])
<1>1. n \in Nat /\ order[o].version = n /\ row.version = n + 1
  BY DEF TypeOK, RowMatchesTrail, Enters
<1>2. /\ Len(history'[o]) = n + 1
      /\ history'[o][n + 1].new_status = row.status
      /\ history'[o][n + 1].previous_status = order[o].status
      /\ \A i \in 1..n : history'[o][i] = history[o][i]
      /\ \A p \in Orders \ {o} : history'[p] = history[p] /\ order'[p] = order[p]
      /\ order'[o] = row
  <2>1. /\ history'[o][n + 1] =
              [previous_status |-> order[o].status, new_status |-> row.status,
               changed_by |-> by]
        /\ Len(history'[o]) = n + 1
        /\ \A i \in 1..n : history'[o][i] = history[o][i]
        /\ \A p \in Orders \ {o} : history'[p] = history[p] /\ order'[p] = order[p]
        /\ order'[o] = row
    BY EntersHistory
  <2> QED
    BY <2>1
<1>3. RowMatchesTrail'
  BY <1>1, <1>2 DEF RowMatchesTrail
<1>4. Continues(history'[o], n + 1)
  <2>1. CASE n = 0
    BY <1>1, <1>2, <2>1 DEF Continues, Enters
  <2>2. CASE n # 0
    <3>1. order[o].status = history'[o][n].new_status
      BY <1>1, <1>2, <2>2 DEF RowMatchesTrail
    <3>2. can_transition(order[o].status, row.status)
      BY <1>1, <2>2 DEF Enters
    <3> QED
      BY <1>1, <1>2, <2>2, <3>1, <3>2 DEF Continues
  <2> QED
    BY <2>1, <2>2
<1>5. ASSUME NEW i \in 1..n PROVE Continues(history'[o], i)
  <2>1. Continues(history[o], i)
    BY DEF LegalTrail
  <2>2. i # 1 => i - 1 \in 1..n
    BY <1>1
  <2> QED
    BY <1>2, <2>1, <2>2 DEF Continues
<1>6. LegalTrail'
  BY <1>1, <1>2, <1>4, <1>5 DEF LegalTrail
<1>7. \A p \in Orders : \A v, st : WasAt(history[p], v, st) => WasAt(history'[p], v, st)
  <2> SUFFICES ASSUME NEW p \in Orders, NEW v, NEW st, WasAt(history[p], v, st)
               PROVE  WasAt(history'[p], v, st)
    OBVIOUS
  <2>1. CASE p = o
    BY <1>1, <1>2, <2>1 DEF WasAt
  <2>2. CASE p # o
    BY <1>2, <2>2 DEF WasAt
  <2> QED
    BY <2>1, <2>2
<1>8. \A p \in Orders : Exists(p) => Exists(p)'
  BY <1>1, <1>2
<1> QED
  BY <1>3, <1>6, <1>7, <1>8

\* The same for what screens and posts were shown.
LEMMA EntersKeepsPast ==
  ASSUME TypeOK, RowMatchesTrail, LegalTrail, PagesArePast, NEW o \in Orders,
         NEW row \in Row, NEW by \in Users \cup {NoUser}, Enters(o, row, by),
         UNCHANGED page,
         \A r \in Requests : req'[r] # Idle =>
           /\ req[r] # Idle
           /\ req'[r].order = req[r].order
           /\ req'[r].expected = req[r].expected
           /\ req'[r].seen = req[r].seen
  PROVE  PagesArePast'
<1>1. /\ \A p \in Orders : \A v, st :
           WasAt(history[p], v, st) => WasAt(history'[p], v, st)
      /\ \A p \in Orders : Exists(p) => Exists(p)'
  BY EntersKeepsTrail
<1>2. ASSUME NEW u \in Users, NEW p \in Orders, page'[u][p].version # 0
      PROVE  WasAt(history'[p], page'[u][p].version, page'[u][p].status)
  BY <1>1, <1>2 DEF PagesArePast
<1>3. ASSUME NEW r \in Requests, req'[r] # Idle
      PROVE  /\ order'[req'[r].order].version > 0
             /\ req'[r].expected # 0 =>
                  WasAt(history'[req'[r].order], req'[r].expected, req'[r].seen)
  <2>1. req[r].order \in Orders
    BY <1>3, RequestType DEF Idle, TypeOK, Active
  <2>2. /\ Exists(req[r].order)
        /\ req[r].expected # 0 =>
             WasAt(history[req[r].order], req[r].expected, req[r].seen)
    BY <1>3 DEF PagesArePast
  <2> QED
    BY <1>1, <1>3, <2>1, <2>2
<1> QED
  BY <1>2, <1>3 DEF PagesArePast

LEMMA IInit == Init => IInv
<1> SUFFICES ASSUME Init PROVE IInv
  OBVIOUS
<1>1. TypeOK
  BY TypeInit
<1>2. RowMatchesTrail /\ LegalTrail
  BY DEF Init, RowMatchesTrail, LegalTrail, NoRow
<1>3. LockHolderIsCurrent /\ PagesArePast
  BY DEF Init, LockHolderIsCurrent, PagesArePast, Idle
<1> QED
  BY <1>1, <1>2, <1>3 DEF IInv

\* A commit enters the status its service aims at.
LEMMA CommitEnters ==
  ASSUME IInv, NEW r \in Requests, Commit(r)
  PROVE  /\ req[r].order \in Orders
         /\ Saved(req[r].row, req[r].service, req[r].user) \in Row
         /\ req[r].user \in Users \cup {NoUser}
         /\ Enters(req[r].order, Saved(req[r].row, req[r].service, req[r].user),
                   req[r].user)
<1> DEFINE row == Saved(req[r].row, req[r].service, req[r].user)
<1>1. /\ req[r].order \in Orders /\ req[r].service \in Services
      /\ req[r].user \in Users /\ req[r].row \in Row
  BY RequestType DEF IInv, Commit
<1>2. /\ row \in Row /\ row.status = Target[req[r].service]
      /\ row.version = req[r].row.version + 1
  BY <1>1, SavedType
<1>3. req[r].row = order[req[r].order] /\ Exists(req[r].order)
  BY DEF IInv, LockHolderIsCurrent, PagesArePast, Commit, Idle
<1>4. Enters(req[r].order, row, req[r].user)
  BY <1>2, <1>3 DEF Commit, Enters
<1> QED
  BY <1>1, <1>2, <1>4

\* So does the creation of an order.
LEMMA CreateEnters ==
  ASSUME IInv, NEW o \in Orders, CreateOrder(o)
  PROVE  NewRow \in Row /\ Enters(o, NewRow, NoUser)
<1>1. order[o] = NoRow
  BY DEF IInv, RowMatchesTrail, CreateOrder
<1>2. NewRow \in Row /\ NewRow.status = New /\ NewRow.version = 1
  BY DEF NewRow, NoRow, Row, Never, OrderStatus
<1> QED
  BY <1>1, <1>2 DEF CreateOrder, Enters, NoRow

LEMMA IStep == IInv /\ [Next]_vars => IInv'
<1> SUFFICES ASSUME IInv, [Next]_vars PROVE IInv'
  OBVIOUS
<1>0. TypeOK'
  BY TypeStep DEF IInv
<1> USE <1>0 DEF IInv
<1>1. ASSUME NEW o \in Orders, CreateOrder(o) PROVE IInv'
  <2>1. RowMatchesTrail' /\ LegalTrail'
    BY <1>1, CreateEnters, EntersKeepsTrail
  <2>2. PagesArePast'
    BY <1>1, CreateEnters, EntersKeepsPast DEF CreateOrder
  <2>3. LockHolderIsCurrent'
    <3>1. \A r \in Requests : req[r] # Idle => req[r].order # o
      BY <1>1 DEF PagesArePast, CreateOrder
    <3> QED
      BY <1>1, <3>1 DEF CreateOrder, LockHolderIsCurrent, Idle, TypeOK
  <2> QED
    BY <2>1, <2>2, <2>3
<1>2. ASSUME UNCHANGED <<order, history>> PROVE RowMatchesTrail' /\ LegalTrail'
  BY <1>2 DEF RowMatchesTrail, LegalTrail
<1>3. ASSUME NEW u \in Users, NEW o \in Orders, ShowPage(u, o) PROVE IInv'
  <2>1. WasAt(history[o], order[o].version, order[o].status)
    BY <1>3 DEF ShowPage, WasAt, RowMatchesTrail, TypeOK
  <2>2. PagesArePast'
    BY <1>3, <2>1 DEF ShowPage, PagesArePast, TypeOK
  <2>3. LockHolderIsCurrent'
    BY <1>3 DEF ShowPage, LockHolderIsCurrent
  <2> QED
    BY <1>2, <1>3, <2>2, <2>3 DEF ShowPage
<1>4. ASSUME NEW r \in Requests, NEW u \in Users, NEW o \in Orders,
             NEW s \in Services, NEW v, NEW st, Post(r, u, o, s, v, st),
             Exists(o), v # 0 => WasAt(history[o], v, st)
      PROVE  IInv'
  <2>1. PagesArePast'
    BY <1>4 DEF Post, PagesArePast, TypeOK
  <2>2. LockHolderIsCurrent'
    BY <1>4 DEF Post, LockHolderIsCurrent, TypeOK, Idle
  <2> QED
    BY <1>2, <1>4, <2>1, <2>2 DEF Post
<1>5. ASSUME NEW r \in Requests, NEW u \in Users, NEW o \in Orders,
             NEW s \in Services, PressButton(r, u, o, s)
      PROVE  IInv'
  <2>1. WasAt(history[o], page[u][o].version, page[u][o].status)
    BY <1>5 DEF PressButton, PagesArePast
  <2>2. Exists(o)
    BY <2>1 DEF WasAt, RowMatchesTrail, TypeOK
  <2> QED
    BY <1>4, <1>5, <2>1, <2>2 DEF PressButton
<1>6. ASSUME NEW r \in Requests, NEW u \in Users, NEW o \in Orders,
             NEW s \in Services, PostBare(r, u, o, s)
      PROVE  IInv'
  BY <1>4, <1>6, BoundAssumption DEF PostBare
<1>7. ASSUME NEW r \in Requests, LockRow(r) PROVE IInv'
  <2>1. PagesArePast'
    BY <1>7 DEF LockRow, PagesArePast, TypeOK, Idle
  <2>2. LockHolderIsCurrent'
    BY <1>7 DEF LockRow, LockHolderIsCurrent, TypeOK
  <2> QED
    BY <1>2, <1>7, <2>1, <2>2 DEF LockRow
<1>8. ASSUME NEW r \in Requests, Respond(r), UNCHANGED <<order, history, page>>
      PROVE  IInv'
  <2>1. PagesArePast'
    BY <1>8 DEF Respond, PagesArePast, TypeOK
  <2>2. LockHolderIsCurrent'
    BY <1>8 DEF Respond, LockHolderIsCurrent, TypeOK, Idle
  <2> QED
    BY <1>2, <1>8, <2>1, <2>2
<1>9. ASSUME NEW r \in Requests, Commit(r) PROVE IInv'
  <2>1. RowMatchesTrail' /\ LegalTrail'
    BY <1>9, CommitEnters, EntersKeepsTrail
  <2>2. PagesArePast'
    <3>1. req[r] \in Active
      BY <1>9, RequestType DEF Commit
    <3>2. \A q \in Requests : req'[q] # Idle =>
            /\ req[q] # Idle
            /\ req'[q].order = req[q].order
            /\ req'[q].expected = req[q].expected
            /\ req'[q].seen = req[q].seen
      BY <1>9, <3>1 DEF Commit, TypeOK, Active, Idle
    <3> QED
      BY <1>9, <3>2, CommitEnters, EntersKeepsPast DEF Commit
  <2>3. LockHolderIsCurrent'
    <3> SUFFICES ASSUME NEW q \in Requests, InPhase(q, "locked")'
                 PROVE  /\ req'[q].row = order'[req'[q].order]
                        /\ \A p \in Requests :
                             /\ InPhase(p, "locked")'
                             /\ req'[p].order = req'[q].order
                             => p = q
      BY DEF LockHolderIsCurrent
    <3>1. \A p \in Requests : InPhase(p, "locked")' =>
            p # r /\ req'[p] = req[p]
      BY <1>9 DEF Commit, TypeOK
    <3>2. req[q].order # req[r].order
      BY <1>9, <3>1 DEF Commit, LockHolderIsCurrent
    <3>3. order'[req[q].order] = order[req[q].order]
      BY <1>9, <3>2 DEF Commit, TypeOK
    <3> QED
      BY <3>1, <3>3 DEF LockHolderIsCurrent
  <2> QED
    BY <2>1, <2>2, <2>3
<1>10. ASSUME NEW r \in Requests, Audit(r) PROVE IInv'
  <2>1. PagesArePast'
    BY <1>10 DEF Audit, PagesArePast, TypeOK, Idle
  <2>2. LockHolderIsCurrent'
    BY <1>10 DEF Audit, LockHolderIsCurrent, TypeOK
  <2> QED
    BY <1>2, <1>10, <2>1, <2>2 DEF Audit
<1>11. CASE Crash
  <2>1. PagesArePast' /\ LockHolderIsCurrent'
    BY <1>11 DEF Crash, PagesArePast, LockHolderIsCurrent, Idle
  <2> QED
    BY <1>2, <1>11, <2>1 DEF Crash
<1>12. CASE UNCHANGED vars
  BY <1>2, <1>12 DEF vars, PagesArePast, LockHolderIsCurrent
<1> QED
  BY <1>1, <1>3, <1>5, <1>6, <1>7, <1>8, <1>9, <1>10, <1>11, <1>12
  DEF Next, Staff, Serve, Finish, Conflict, InvalidTransition, Notify

\* The inductive invariant: types, and row, lock, pages and history in step.
THEOREM Invariance == Spec => []IInv
<1> QED
  BY IInit, IStep, PTL DEF Spec
-----------------------------------------------------------------------------
(***************************************************************************)
(* What follows from the invariant.                                        *)
(***************************************************************************)

\* The row of an order always agrees with its history, whatever requests race
\* and wherever the server is killed.
THEOREM RowAlwaysMatchesTrail == Spec => []RowMatchesTrail
<1> QED
  BY Invariance, PTL DEF IInv

\* Every history is one legal walk: no update is ever lost.
THEOREM TrailAlwaysLegal == Spec => []LegalTrail
<1> QED
  BY Invariance, PTL DEF IInv

\* The row lock works: its holder is alone and decides on the committed row.
THEOREM LockHolderAlwaysCurrent == Spec => []LockHolderIsCurrent
<1> QED
  BY Invariance, PTL DEF IInv

\* A version names one status for ever.
THEOREM PagesAlwaysPast == Spec => []PagesArePast
<1> QED
  BY Invariance, PTL DEF IInv

\* The only step by which a request gets past its commit is Commit.
LEMMA OnlyCommitCommits ==
  ASSUME TypeOK, Next, NEW r \in Requests, Commits(r)
  PROVE  Commit(r)
<1>1. req'[r] # req[r] /\ req'[r] # Idle
  BY DEF Commits, Idle
<1>2. ASSUME NEW o \in Orders, CreateOrder(o) PROVE FALSE
  BY <1>1, <1>2 DEF CreateOrder
<1>3. ASSUME NEW u \in Users, NEW o \in Orders, Staff(u, o) PROVE FALSE
  BY <1>1, <1>3 DEF Staff, ShowPage, PressButton, PostBare, Post, Commits, Idle,
                    TypeOK
<1>4. ASSUME NEW q \in Requests, Serve(q) PROVE Commit(r)
  BY <1>1, <1>4 DEF Serve, LockRow, Finish, Conflict, InvalidTransition, Respond,
                    Audit, Notify, Commit, Commits, TypeOK
<1>5. ~Crash
  BY <1>1 DEF Crash
<1> QED
  BY <1>2, <1>3, <1>4, <1>5 DEF Next

\* A step that changes an order's row or history creates it or commits a
\* request about it.
LEMMA WhoChangesAnOrder ==
  ASSUME IInv, Next, NEW o \in Orders,
         order'[o] # order[o] \/ history'[o] # history[o]
  PROVE  \/ CreateOrder(o)
         \/ \E r \in Requests : Commit(r) /\ req[r].order = o
<1>1. ASSUME NEW p \in Orders, CreateOrder(p) PROVE p = o
  BY <1>1, CreateEnters DEF Enters, IInv, TypeOK
<1>2. ASSUME NEW r \in Requests, Commit(r) PROVE req[r].order = o
  BY <1>2, CommitEnters DEF Enters, IInv, TypeOK
<1> QED
  BY <1>1, <1>2 DEF Next, Staff, ShowPage, PressButton, PostBare, Post, Serve,
                    LockRow, Finish, Conflict, InvalidTransition, Audit, Notify,
                    Crash

\* Optimistic locking, for every number of users, requests and orders: a
\* transition asked for from a page is one the user saw the order ready for.
THEOREM UsersActOnWhatTheySaw == Spec => ActsOnWhatWasShown
<1> DEFINE Seen == \A r \in Requests :
                     Commits(r) /\ req[r].expected # 0
                       => order[req[r].order].status = req[r].seen
<1>1. IInv /\ [Next]_vars => [Seen]_vars
  <2> SUFFICES ASSUME IInv, Next, NEW r \in Requests, Commits(r),
                      req[r].expected # 0
               PROVE  order[req[r].order].status = req[r].seen
    OBVIOUS
  <2>1. Commit(r)
    BY OnlyCommitCommits DEF IInv
  <2> DEFINE o == req[r].order
  <2>2. o \in Orders /\ req[r].row = order[o] /\ order[o].version = req[r].expected
    BY <2>1, RequestType DEF IInv, Commit, LockHolderIsCurrent, VersionMatches
  <2>3. WasAt(history[o], req[r].expected, req[r].seen) /\ Exists(o)
    BY <2>1 DEF IInv, PagesArePast, Commit, Idle
  <2> QED
    BY <2>2, <2>3 DEF WasAt, IInv, RowMatchesTrail
<1> QED
  BY <1>1, Invariance, PTL DEF Spec, ActsOnWhatWasShown

\* A served, cancelled or rejected order never changes again.
THEOREM ClosedOrdersStayClosed == Spec => ClosedIsFinal
<1> DEFINE Final == \A o \in Orders : order[o].status \in CLOSED_STATUSES
                      => order'[o] = order[o] /\ history'[o] = history[o]
<1>1. IInv /\ [Next]_vars => [Final]_vars
  <2> SUFFICES ASSUME IInv, Next, NEW o \in Orders,
                      order[o].status \in CLOSED_STATUSES,
                      order'[o] # order[o] \/ history'[o] # history[o]
               PROVE  FALSE
    OBVIOUS
  <2>1. CASE CreateOrder(o)
    <3>1. order[o] = NoRow
      BY <2>1 DEF CreateOrder, IInv, RowMatchesTrail
    <3>2. NoRow.status \notin CLOSED_STATUSES
      BY DEF NoRow, NoStatus, CLOSED_STATUSES, Served, Cancelled, Rejected
    <3> QED
      BY <3>1, <3>2
  <2>2. ASSUME NEW r \in Requests, Commit(r), req[r].order = o PROVE FALSE
    <3>1. can_transition(order[o].status, Target[req[r].service])
      BY <2>2 DEF Commit, IInv, LockHolderIsCurrent
    <3>2. ALLOWED_TRANSITIONS[Served] = {} /\ ALLOWED_TRANSITIONS[Cancelled] = {}
            /\ ALLOWED_TRANSITIONS[Rejected] = {}
      BY DEF ALLOWED_TRANSITIONS, Served, Cancelled, Rejected
    <3> QED
      BY <3>1, <3>2 DEF can_transition, CLOSED_STATUSES
  <2> QED
    BY <2>1, <2>2, WhoChangesAnOrder
<1> QED
  BY <1>1, Invariance, PTL DEF Spec, ClosedIsFinal

\* Nobody is told of a conflict that is not there.
THEOREM ConflictsAreReal == Spec => ConflictIsReal
<1> DEFINE Real == \A r \in Requests :
                     Conflict(r) => Len(history[req[r].order]) > req[r].expected
<1>1. IInv => Real
  <2> SUFFICES ASSUME IInv, NEW r \in Requests, Conflict(r)
               PROVE  Len(history[req[r].order]) > req[r].expected
    OBVIOUS
  <2> DEFINE o == req[r].order
  <2>1. o \in Orders /\ req[r].expected # 0 /\ order[o].version # req[r].expected
    BY RequestType DEF IInv, Conflict, VersionMatches, LockHolderIsCurrent
  <2>2. WasAt(history[o], req[r].expected, req[r].seen)
    BY <2>1 DEF IInv, PagesArePast, Conflict, Idle
  <2> QED
    BY <2>1, <2>2 DEF WasAt, IInv, RowMatchesTrail, TypeOK
<1> QED
  BY <1>1, Invariance, PTL DEF ConflictIsReal

-----------------------------------------------------------------------------
(***************************************************************************)
(* Refinement: every step enters one status, or changes nothing that       *)
(* OrderLifecycle shows.                                                   *)
(***************************************************************************)
StatusOf == [o \in Orders |-> order[o].status]
Statuses(h) == [i \in 1..Len(h) |-> h[i].new_status]
TrailOf == [o \in Orders |-> Statuses(history[o])]

\* The statuses of a longer history are those of the shorter one and the new.
LEMMA StatusesAppend ==
  ASSUME NEW h \in Seq(Entry), NEW g \in Seq(Entry), Len(g) = Len(h) + 1,
         \A i \in 1..Len(h) : g[i] = h[i]
  PROVE  Statuses(g) = Append(Statuses(h), g[Len(g)].new_status)
<1> DEFINE n == Len(h)
           t == Append(Statuses(h), g[Len(g)].new_status)
<1>1. n \in Nat /\ \A i \in 1..n : h[i] \in Entry /\ g[i] \in Entry
  OBVIOUS
<1>2. Statuses(h) \in [1..n -> OrderStatus]
  BY <1>1 DEF Statuses, Entry
<1>3. Statuses(h) \in Seq(OrderStatus) /\ Len(Statuses(h)) = n
  BY <1>1, <1>2, SeqDef
<1>4. g[n + 1].new_status \in OrderStatus
  <2>1. g[n + 1] \in Entry
    BY <1>1
  <2> QED
    BY <2>1 DEF Entry
<1>5. /\ t \in Seq(OrderStatus) /\ Len(t) = n + 1
      /\ \A i \in 1..n : t[i] = Statuses(h)[i]
      /\ t[n + 1] = g[n + 1].new_status
  BY <1>3, <1>4, AppendProperties
<1>6. t = [i \in 1..(n + 1) |-> t[i]]
  BY <1>5, LenProperties
<1>7. \A i \in 1..(n + 1) : t[i] = g[i].new_status
  BY <1>1, <1>5 DEF Statuses
<1> QED
  BY <1>6, <1>7 DEF Statuses

\* The state machine of OrderLifecycle is that of OrderStates.
LEMMA SameTable ==
  /\ Lifecycle!OrderStatus = OrderStatus
  /\ \A a, b : Lifecycle!can_transition(a, b) = can_transition(a, b)
<1>1. /\ Lifecycle!New = New /\ Lifecycle!Confirmed = Confirmed
      /\ Lifecycle!InPreparation = InPreparation /\ Lifecycle!Ready = Ready
      /\ Lifecycle!Served = Served /\ Lifecycle!Cancelled = Cancelled
      /\ Lifecycle!Rejected = Rejected
  BY DEF Lifecycle!New, New, Lifecycle!Confirmed, Confirmed,
         Lifecycle!InPreparation, InPreparation, Lifecycle!Ready, Ready,
         Lifecycle!Served, Served, Lifecycle!Cancelled, Cancelled,
         Lifecycle!Rejected, Rejected
<1>2. Lifecycle!ALLOWED_TRANSITIONS = ALLOWED_TRANSITIONS
  BY <1>1 DEF Lifecycle!ALLOWED_TRANSITIONS, ALLOWED_TRANSITIONS
<1> QED
  BY <1>1, <1>2 DEF Lifecycle!OrderStatus, OrderStatus,
                    Lifecycle!can_transition, can_transition

\* Transitions lead to statuses.
LEMMA TargetsAreStatuses ==
  \A a \in OrderStatus : ALLOWED_TRANSITIONS[a] \subseteq OrderStatus
BY DEF ALLOWED_TRANSITIONS, OrderStatus, New, Confirmed, InPreparation, Ready,
       Served, Cancelled, Rejected

\* An order that exists has a status.
LEMMA ExistingStatus ==
  ASSUME TypeOK, RowMatchesTrail, NEW o \in Orders, Exists(o)
  PROVE  order[o].status \in OrderStatus /\ order[o].status # NoStatus
<1>1. order[o].version \in 1..Len(history[o]) /\ history[o] \in Seq(Entry)
  <2>1. order[o].version \in Nat /\ order[o].version = Len(history[o])
    BY DEF TypeOK, Row, RowMatchesTrail
  <2>2. order[o].version > 0
    OBVIOUS
  <2> QED
    BY <2>1, <2>2 DEF TypeOK
<1>2. history[o][order[o].version] \in Entry
  BY <1>1
<1>3. order[o].status = history[o][order[o].version].new_status
  BY DEF RowMatchesTrail
<1>4. order[o].status \in OrderStatus
  BY <1>2, <1>3 DEF Entry
<1> QED
  BY <1>4 DEF OrderStatus, NoStatus, New, Confirmed, InPreparation, Ready,
              Served, Cancelled, Rejected

\* Entering a status is a step of OrderLifecycle.
LEMMA EntersImplements ==
  ASSUME IInv, IInv', NEW o \in Orders, NEW row \in Row,
         NEW by \in Users \cup {NoUser}, Enters(o, row, by)
  PROVE  Lifecycle!Next
<1>0. TypeOK /\ RowMatchesTrail /\ TypeOK' /\ RowMatchesTrail'
  BY DEF IInv
<1>1. StatusOf' = [StatusOf EXCEPT ![o] = row.status]
  <2>1. order'[o] = row /\ \A p \in Orders \ {o} : order'[p] = order[p]
    BY <1>0, EntersHistory
  <2> QED
    BY <2>1 DEF StatusOf
<1>2. TrailOf' = [TrailOf EXCEPT ![o] = Append(@, row.status)]
  <2>1. history[o] \in Seq(Entry) /\ history'[o] \in Seq(Entry)
    BY <1>0 DEF TypeOK
  <2>2. /\ Len(history'[o]) = Len(history[o]) + 1
        /\ history'[o][Len(history[o]) + 1] =
              [previous_status |-> order[o].status, new_status |-> row.status,
               changed_by |-> by]
        /\ \A i \in 1..Len(history[o]) : history'[o][i] = history[o][i]
        /\ \A p \in Orders \ {o} : history'[p] = history[p]
    BY <1>0, EntersHistory
  <2>3. history'[o][Len(history'[o])].new_status = row.status
    BY <2>2
  <2>4. Statuses(history'[o]) = Append(Statuses(history[o]), row.status)
    BY <2>1, <2>2, <2>3, StatusesAppend
  <2> QED
    BY <2>2, <2>4 DEF TrailOf
<1>3. StatusOf[o] = order[o].status
  BY DEF StatusOf
<1>4. CASE ~Exists(o)
  <2>1. StatusOf[o] = NoStatus /\ row.status = New
    BY <1>3, <1>4 DEF Enters
  <2> QED
    BY <1>1, <1>2, <2>1
    DEF Lifecycle!Next, Lifecycle!Create, Lifecycle!Enter, Lifecycle!NoStatus,
        Lifecycle!New, NoStatus, New, StatusOf, TrailOf, Statuses
<1>5. CASE Exists(o)
  <2>1. can_transition(StatusOf[o], row.status)
    BY <1>3, <1>5 DEF Enters
  <2>2. StatusOf[o] \in OrderStatus /\ StatusOf[o] # NoStatus
    BY <1>0, <1>3, <1>5, ExistingStatus
  <2>3. row.status \in OrderStatus
    BY <2>1, <2>2, TargetsAreStatuses DEF can_transition
  <2> QED
    BY <1>1, <1>2, <2>1, <2>2, <2>3, SameTable
    DEF Lifecycle!Next, Lifecycle!Advance, Lifecycle!Enter, Lifecycle!NoStatus,
        NoStatus, StatusOf, TrailOf, Statuses
<1> QED
  BY <1>4, <1>5

\* The services, their locks and versions implement the promised life cycle.
THEOREM ImplementsLifecycle == Spec => LifecycleSpec
<1>1. Init => Lifecycle!Init
  <2> SUFFICES ASSUME Init PROVE Lifecycle!Init
    OBVIOUS
  <2>1. StatusOf = [o \in Orders |-> NoStatus]
    BY DEF Init, StatusOf, NoRow
  <2>2. \A o \in Orders : Statuses(history[o]) = << >>
    BY DEF Init, Statuses
  <2>3. TrailOf = [o \in Orders |-> << >>]
    BY <2>2 DEF TrailOf
  <2> QED
    BY <2>1, <2>3
    DEF Lifecycle!Init, Lifecycle!NoStatus, NoStatus, StatusOf, TrailOf, Statuses
<1>2. IInv /\ IInv' /\ [Next]_vars => [Lifecycle!Next]_<<StatusOf, TrailOf>>
  <2> SUFFICES ASSUME IInv, IInv', Next, ~UNCHANGED <<order, history>>
               PROVE  Lifecycle!Next
    BY DEF vars, StatusOf, TrailOf
  <2>1. PICK o \in Orders : order'[o] # order[o] \/ history'[o] # history[o]
    BY DEF IInv, TypeOK
  <2>2. CASE CreateOrder(o)
    BY <2>2, CreateEnters, EntersImplements
  <2>3. ASSUME NEW r \in Requests, Commit(r) PROVE Lifecycle!Next
    BY <2>3, CommitEnters, EntersImplements
  <2> QED
    BY <2>1, <2>2, <2>3, WhoChangesAnOrder
<1> QED
  BY <1>1, <1>2, Invariance, PTL
  DEF Spec, LifecycleSpec, Lifecycle!Spec, StatusOf, TrailOf, Statuses

-----------------------------------------------------------------------------
(***************************************************************************)
(* Timestamps and signatures: what the columns of an order tell is what    *)
(* its history tells.                                                      *)
(***************************************************************************)

\* A status is closed for good: in a legal history only the last entry can be
\* one of a closed status.
LEMMA ClosedEntryIsLast ==
  ASSUME TypeOK, LegalTrail, NEW o \in Orders, NEW i \in 1..Len(history[o]),
         history[o][i].new_status \in CLOSED_STATUSES
  PROVE  i = Len(history[o])
<1>0. Len(history[o]) \in Nat
  BY DEF TypeOK
<1> SUFFICES ASSUME i # Len(history[o]) PROVE FALSE
  OBVIOUS
<1>1. i + 1 \in 1..Len(history[o]) /\ i + 1 # 1 /\ (i + 1) - 1 = i
  BY <1>0
<1>2. Continues(history[o], i + 1)
  BY <1>1 DEF LegalTrail
<1>3. can_transition(history[o][i].new_status, history[o][i + 1].new_status)
  BY <1>1, <1>2 DEF Continues
<1> QED
  BY <1>3 DEF can_transition, ALLOWED_TRANSITIONS, CLOSED_STATUSES, Served,
              Cancelled, Rejected

\* A confirmed entry is the second of its history, after the creation.
LEMMA ConfirmedIsSecond ==
  ASSUME TypeOK, LegalTrail, NEW o \in Orders, NEW i \in 1..Len(history[o]),
         history[o][i].new_status = Confirmed
  PROVE  i = 2 /\ history[o][1].new_status = New
<1>0. Len(history[o]) \in Nat /\ history[o] \in Seq(Entry)
  BY DEF TypeOK
<1>1. Continues(history[o], i) /\ i # 1
  BY DEF LegalTrail, Continues, New, Confirmed
<1>2. i - 1 \in 1..Len(history[o])
  BY <1>0, <1>1
<1>3. can_transition(history[o][i - 1].new_status, Confirmed)
  BY <1>1 DEF Continues
<1>4. history[o][i - 1].new_status \in OrderStatus
  <2>1. history[o][i - 1] \in Entry
    BY <1>0, <1>2
  <2> QED
    BY <2>1 DEF Entry
<1>5. history[o][i - 1].new_status = New
  BY <1>3, <1>4 DEF can_transition, ALLOWED_TRANSITIONS, OrderStatus, New,
     Confirmed, InPreparation, Ready, Served, Cancelled, Rejected
<1>6. Continues(history[o], i - 1)
  BY <1>2 DEF LegalTrail
<1>7. i - 1 = 1
  <2> SUFFICES ASSUME i - 1 # 1 PROVE FALSE
    OBVIOUS
  <2>1. (i - 1) - 1 \in 1..Len(history[o])
    BY <1>0, <1>2
  <2>2. can_transition(history[o][(i - 1) - 1].new_status, New)
    BY <1>5, <1>6 DEF Continues
  <2>3. history[o][(i - 1) - 1].new_status \in OrderStatus
    <3>1. history[o][(i - 1) - 1] \in Entry
      BY <1>0, <2>1
    <3> QED
      BY <3>1 DEF Entry
  <2> QED
    BY <2>2, <2>3 DEF can_transition, ALLOWED_TRANSITIONS, OrderStatus, New,
       Confirmed, InPreparation, Ready, Served, Cancelled, Rejected
<1> QED
  BY <1>5, <1>7

\* What entering a status does to the versions at which o entered S.
LEMMA EntersEntered ==
  ASSUME TypeOK, RowMatchesTrail, NEW o \in Orders,
         NEW row \in Row, NEW by \in Users \cup {NoUser}, Enters(o, row, by),
         NEW S
  PROVE  /\ Entered(o, S)' = IF row.status \in S
                               THEN Entered(o, S) \cup {row.version}
                               ELSE Entered(o, S)
         /\ \A p \in Orders \ {o} : Entered(p, S)' = Entered(p, S)
         /\ \A i \in Entered(o, S) : i \in Nat \ {0} /\ i < row.version
         /\ history'[o][row.version].changed_by = by
         /\ \A i \in 1..Len(history[o]) : history'[o][i] = history[o][i]
<1> DEFINE n == Len(history[o])
<1>1. n \in Nat /\ row.version = n + 1
  BY DEF TypeOK, RowMatchesTrail, Enters
<1>2. /\ Len(history'[o]) = n + 1
      /\ history'[o][n + 1] =
              [previous_status |-> order[o].status, new_status |-> row.status,
               changed_by |-> by]
      /\ \A i \in 1..n : history'[o][i] = history[o][i]
      /\ \A p \in Orders \ {o} : history'[p] = history[p]
  BY EntersHistory
<1>3. /\ history'[o][n + 1].new_status = row.status
      /\ history'[o][n + 1].changed_by = by
  BY <1>2
<1>4. Entered(o, S)' = IF row.status \in S THEN Entered(o, S) \cup {n + 1}
                                           ELSE Entered(o, S)
  BY <1>1, <1>2, <1>3 DEF Entered
<1>5. \A i \in Entered(o, S) : i \in Nat \ {0} /\ i < n + 1
  BY <1>1 DEF Entered
<1>6. \A p \in Orders \ {o} : Entered(p, S)' = Entered(p, S)
  BY <1>2 DEF Entered
<1> QED
  BY <1>1, <1>2, <1>3, <1>4, <1>5, <1>6

\* A column that is set exactly when its statuses are entered goes on telling
\* the latest entry into them, and who made it.
LEMMA EntersStamp ==
  ASSUME TypeOK, RowMatchesTrail, NEW o \in Orders,
         NEW row \in Row, NEW by \in Users \cup {NoUser}, Enters(o, row, by),
         NEW S, NEW at \in Nat, NEW who, NEW newAt, NEW newWho,
         StampedLast(o, at, S), SignedBy(o, at, who),
         newAt = IF row.status \in S THEN row.version ELSE at,
         newWho = IF row.status \in S THEN by ELSE who
  PROVE  /\ IF newAt = Never
              THEN Entered(o, S)' = {}
              ELSE newAt \in Entered(o, S)' /\ \A i \in Entered(o, S)' : i <= newAt
         /\ newWho = IF newAt = Never THEN NoUser ELSE history'[o][newAt].changed_by
<1>1. /\ Entered(o, S)' = IF row.status \in S THEN Entered(o, S) \cup {row.version}
                                              ELSE Entered(o, S)
      /\ \A i \in Entered(o, S) : i \in Nat \ {0} /\ i < row.version
      /\ history'[o][row.version].changed_by = by
      /\ \A i \in 1..Len(history[o]) : history'[o][i] = history[o][i]
  BY EntersEntered
<1>2. row.version \in Nat \ {0}
  BY DEF Enters, TypeOK, Row
<1>3. CASE row.status \in S
  BY <1>1, <1>2, <1>3 DEF Never
<1>4. CASE row.status \notin S
  <2>1. at # Never => at \in 1..Len(history[o])
    BY DEF StampedLast, Entered
  <2> QED
    BY <1>1, <1>4, <2>1 DEF StampedLast, SignedBy
<1> QED
  BY <1>3, <1>4

\* The part of StampsMatchTrail about one order.
StampsMatch(o) ==
  LET row == order[o]
  IN /\ StampedLast(o, row.confirmed_at, {Confirmed})
     /\ StampedLast(o, row.ready_at, {Ready})
     /\ StampedLast(o, row.served_at, {Served})
     /\ StampedLast(o, row.cancelled_at, {Cancelled, Rejected})
     /\ SignedBy(o, row.confirmed_at, row.confirmed_by)
     /\ SignedBy(o, row.cancelled_at, row.cancelled_by)
     /\ row.served_at = Never \/ row.cancelled_at = Never

\* row has the columns of old, but for those of its own status, which it sets.
Stamps(row, old, by) ==
  /\ row.confirmed_at = IF row.status \in {Confirmed} THEN row.version
                                                      ELSE old.confirmed_at
  /\ row.ready_at = IF row.status \in {Ready} THEN row.version ELSE old.ready_at
  /\ row.served_at = IF row.status \in {Served} THEN row.version ELSE old.served_at
  /\ row.cancelled_at = IF row.status \in {Cancelled, Rejected} THEN row.version
                                                     ELSE old.cancelled_at
  /\ row.confirmed_by = IF row.status \in {Confirmed} THEN by ELSE old.confirmed_by
  /\ row.cancelled_by = IF row.status \in {Cancelled, Rejected} THEN by
                                                     ELSE old.cancelled_by

\* An order that can still move has been neither served nor cancelled.
LEMMA OpenHasNoClosingStamp ==
  ASSUME IInv, NEW o \in Orders, StampsMatch(o),
         order[o].status \notin CLOSED_STATUSES
  PROVE  order[o].served_at = Never /\ order[o].cancelled_at = Never
<1>1. ASSUME NEW S, S \subseteq CLOSED_STATUSES, NEW at, StampedLast(o, at, S),
             at # Never
      PROVE  FALSE
  <2>1. at \in 1..Len(history[o]) /\ history[o][at].new_status \in CLOSED_STATUSES
    BY <1>1 DEF StampedLast, Entered
  <2>2. at = Len(history[o])
    BY <2>1, ClosedEntryIsLast DEF IInv
  <2>3. order[o].version = at /\ at > 0
    BY <2>1, <2>2 DEF IInv, RowMatchesTrail, TypeOK
  <2> QED
    BY <2>1, <2>3 DEF IInv, RowMatchesTrail
<1> QED
  BY <1>1 DEF StampsMatch, CLOSED_STATUSES

LEMMA EntersKeepsStamps ==
  ASSUME IInv, NEW o \in Orders, StampsMatch(o),
         NEW row \in Row, NEW by \in Users \cup {NoUser}, Enters(o, row, by),
         Stamps(row, order[o], by)
  PROVE  StampsMatch(o)'
<1>0. TypeOK /\ RowMatchesTrail
  BY DEF IInv
<1>1. order'[o] = row
  BY <1>0, EntersHistory
<1>2. /\ order[o].confirmed_at \in Nat /\ order[o].ready_at \in Nat
      /\ order[o].served_at \in Nat /\ order[o].cancelled_at \in Nat
  BY <1>0 DEF TypeOK, Row
<1>3. /\ StampedLast(o, order[o].confirmed_at, {Confirmed})
      /\ SignedBy(o, order[o].confirmed_at, order[o].confirmed_by)
      /\ StampedLast(o, order[o].ready_at, {Ready})
      /\ StampedLast(o, order[o].served_at, {Served})
      /\ StampedLast(o, order[o].cancelled_at, {Cancelled, Rejected})
      /\ SignedBy(o, order[o].cancelled_at, order[o].cancelled_by)
  BY DEF StampsMatch
<1>4. ASSUME NEW S, NEW at \in Nat, NEW who, NEW newAt, NEW newWho,
             StampedLast(o, at, S), SignedBy(o, at, who),
             newAt = IF row.status \in S THEN row.version ELSE at,
             newWho = IF row.status \in S THEN by ELSE who
      PROVE  StampedLast(o, newAt, S)' /\ SignedBy(o, newAt, newWho)'
  <2>1. /\ IF newAt = Never
             THEN Entered(o, S)' = {}
             ELSE newAt \in Entered(o, S)' /\ \A i \in Entered(o, S)' : i <= newAt
        /\ newWho = IF newAt = Never THEN NoUser ELSE history'[o][newAt].changed_by
    BY <1>0, <1>4, EntersStamp
  <2> QED
    BY <2>1 DEF StampedLast, SignedBy
<1>5. /\ StampedLast(o, row.confirmed_at, {Confirmed})'
      /\ SignedBy(o, row.confirmed_at, row.confirmed_by)'
  BY <1>2, <1>3, <1>4 DEF Stamps
<1>6. /\ StampedLast(o, row.cancelled_at, {Cancelled, Rejected})'
      /\ SignedBy(o, row.cancelled_at, row.cancelled_by)'
  BY <1>2, <1>3, <1>4 DEF Stamps
<1>7. StampedLast(o, row.ready_at, {Ready})' /\ StampedLast(o, row.served_at, {Served})'
  <2>1. ASSUME NEW S, NEW at \in Nat, NEW newAt, StampedLast(o, at, S),
               newAt = IF row.status \in S THEN row.version ELSE at
        PROVE  StampedLast(o, newAt, S)'
    <3> DEFINE who == IF at = Never THEN NoUser ELSE history[o][at].changed_by
               newWho == IF row.status \in S THEN by ELSE who
    <3>1. SignedBy(o, at, who)
      BY DEF SignedBy
    <3> HIDE DEF who
    <3> QED
      BY <1>4, <2>1, <3>1
  <2> QED
    BY <1>2, <1>3, <2>1 DEF Stamps
<1>8. row.served_at = Never \/ row.cancelled_at = Never
  <2>1. order[o].status \notin CLOSED_STATUSES
    <3>1. /\ ALLOWED_TRANSITIONS[Served] = {}
          /\ ALLOWED_TRANSITIONS[Cancelled] = {}
          /\ ALLOWED_TRANSITIONS[Rejected] = {}
      BY DEF ALLOWED_TRANSITIONS, Served, Cancelled, Rejected
    <3>2. NoStatus \notin CLOSED_STATUSES
      BY DEF NoStatus, CLOSED_STATUSES, Served, Cancelled, Rejected
    <3> QED
      BY <3>1, <3>2 DEF Enters, can_transition, CLOSED_STATUSES
  <2>2. order[o].served_at = Never /\ order[o].cancelled_at = Never
    BY <2>1, OpenHasNoClosingStamp
  <2> QED
    BY <2>2 DEF Stamps, Served, Cancelled, Rejected
<1> QED
  BY <1>1, <1>5, <1>6, <1>7, <1>8 DEF StampsMatch, StampedLast, SignedBy

\* A service sets the columns of the status it aims at, and no others.
LEMMA SavedStamps ==
  ASSUME NEW row \in Row, NEW s \in Services, NEW u \in Users
  PROVE  Stamps(Saved(row, s, u), row, u)
<1>1. /\ Target[s] = Confirmed <=> s = "confirm"
      /\ Target[s] = Ready <=> s = "ready"
      /\ Target[s] = Served <=> s = "serve"
  BY DEF Services, Target, Confirmed, InPreparation, Ready, Served, Cancelled,
         Rejected
<1> QED
  BY <1>1 DEF Saved, Stamps

LEMMA StampsStep ==
  ASSUME IInv, IInv', StampsMatchTrail, [Next]_vars
  PROVE  StampsMatchTrail'
<1> SUFFICES ASSUME NEW o \in Orders PROVE StampsMatch(o)'
  BY DEF StampsMatchTrail, StampsMatch
<1>1. StampsMatch(o)
  BY DEF StampsMatchTrail, StampsMatch
<1>2. CASE order'[o] = order[o] /\ history'[o] = history[o]
  BY <1>1, <1>2 DEF StampsMatch, StampedLast, SignedBy, Entered
<1>3. CASE CreateOrder(o)
  <2>1. NewRow \in Row /\ Enters(o, NewRow, NoUser) /\ order[o] = NoRow
    BY <1>3, CreateEnters DEF IInv, RowMatchesTrail, CreateOrder
  <2>2. Stamps(NewRow, order[o], NoUser)
    BY <2>1 DEF Stamps, NewRow, NoRow, New, Confirmed, Ready, Served, Cancelled,
                Rejected
  <2> QED
    BY <1>1, <2>1, <2>2, EntersKeepsStamps
<1>4. ASSUME NEW r \in Requests, Commit(r), req[r].order = o
      PROVE  StampsMatch(o)'
  <2> DEFINE row == Saved(req[r].row, req[r].service, req[r].user)
  <2>1. /\ req[r].row \in Row /\ req[r].service \in Services /\ req[r].user \in Users
        /\ req[r].row = order[o]
    BY <1>4, RequestType DEF IInv, Commit, LockHolderIsCurrent
  <2>2. Stamps(row, order[o], req[r].user)
    BY <2>1, SavedStamps
  <2>3. /\ row \in Row /\ req[r].user \in Users \cup {NoUser}
        /\ Enters(o, row, req[r].user)
    BY <1>4, CommitEnters
  <2> HIDE DEF row
  <2> QED
    BY <1>1, <2>2, <2>3, EntersKeepsStamps
<1> QED
  BY <1>2, <1>3, <1>4, WhoChangesAnOrder DEF vars

LEMMA StampsInit == Init => StampsMatchTrail
<1> SUFFICES ASSUME Init, NEW o \in Orders PROVE StampsMatch(o)
  BY DEF StampsMatchTrail, StampsMatch
<1>1. history[o] = << >> /\ order[o] = NoRow
  BY DEF Init
<1>2. \A S : Entered(o, S) = {}
  BY <1>1 DEF Entered
<1> QED
  BY <1>1, <1>2 DEF StampsMatch, StampedLast, SignedBy, NoRow, Never

\* The columns of an order tell what its history tells, whatever requests
\* race, on whatever path the order went.
THEOREM StampsAlwaysMatchTrail == Spec => []StampsMatchTrail
<1>1. IInv /\ IInv' /\ StampsMatchTrail /\ [Next]_vars => StampsMatchTrail'
  BY StampsStep
<1> QED
  BY <1>1, StampsInit, Invariance, PTL DEF Spec
-----------------------------------------------------------------------------
(***************************************************************************)
(* The start of preparation.  That a service runs in the status its button *)
(* is shown in needs posts to come from pages: BarePosts is excluded.      *)
(***************************************************************************)

\* Every post in flight has the version of a page that had its button.
FromPages ==
  \A r \in Requests : req[r] # Idle =>
    req[r].expected # 0 /\ req[r].seen \in ButtonShownIn[req[r].service]

LEMMA FromPagesStep ==
  ASSUME ~BarePosts, TypeOK, FromPages, [Next]_vars
  PROVE  FromPages'
<1>1. ASSUME NEW r \in Requests, NEW u \in Users, NEW o \in Orders,
             NEW s \in Services, PressButton(r, u, o, s)
      PROVE  FromPages'
  <2>1. page[u][o].version # 0 /\ page[u][o].status \in ButtonShownIn[s]
    BY <1>1, BoundAssumption DEF PressButton
  <2> QED
    BY <1>1, <2>1 DEF PressButton, Post, FromPages, TypeOK
<1>2. ASSUME NEW r \in Requests, Serve(r) PROVE FromPages'
  <2>1. req[r] # Idle
    BY <1>2 DEF Serve, LockRow, Finish, Conflict, InvalidTransition, Commit,
                Audit, Notify, Idle
  <2>2. req[r] \in Active
    BY <2>1 DEF TypeOK
  <2>3. \/ req'[r] = Idle
        \/ /\ req'[r].expected = req[r].expected
           /\ req'[r].seen = req[r].seen
           /\ req'[r].service = req[r].service
    BY <1>2, <2>2 DEF Serve, LockRow, Finish, Conflict, InvalidTransition, Commit,
                Audit, Notify, Respond, TypeOK, Active
  <2>4. \A q \in Requests \ {r} : req'[q] = req[q]
    BY <1>2 DEF Serve, LockRow, Finish, Conflict, InvalidTransition, Commit,
                Audit, Notify, Respond, TypeOK
  <2> QED
    BY <2>1, <2>3, <2>4 DEF FromPages
<1>3. ASSUME UNCHANGED req PROVE FromPages'
  BY <1>3 DEF FromPages
<1>4. CASE Crash
  BY <1>4 DEF Crash, FromPages
<1> QED
  BY <1>1, <1>2, <1>3, <1>4
  DEF Next, Staff, PostBare, CreateOrder, ShowPage, vars

\* An order that is confirmed has not been in preparation.
LEMMA ConfirmedNotStarted ==
  ASSUME IInv, NEW o \in Orders, order[o].status = Confirmed
  PROVE  Entered(o, {InPreparation}) = {}
<1>1. Exists(o) /\ order[o].version = Len(history[o])
  <2>1. NoRow.status # Confirmed
    BY DEF NoRow, NoStatus, Confirmed
  <2> QED
    BY <2>1 DEF IInv, RowMatchesTrail
<1>2. Len(history[o]) \in 1..Len(history[o])
      /\ history[o][Len(history[o])].new_status = Confirmed
  BY <1>1 DEF IInv, RowMatchesTrail, TypeOK
<1>3. Len(history[o]) = 2 /\ history[o][1].new_status = New
  BY <1>2, ConfirmedIsSecond DEF IInv
<1> QED
  BY <1>2, <1>3 DEF Entered, New, Confirmed, InPreparation

\* An order that is ready has been in preparation.
LEMMA ReadyWasStarted ==
  ASSUME IInv, NEW o \in Orders, order[o].status = Ready
  PROVE  Entered(o, {InPreparation}) # {}
<1> DEFINE n == Len(history[o])
<1>0. Exists(o) /\ order[o].version = n
  <2>1. NoRow.status # Ready
    BY DEF NoRow, NoStatus, Ready
  <2> QED
    BY <2>1 DEF IInv, RowMatchesTrail
<1>1. n \in 1..n /\ n \in Nat /\ history[o][n].new_status = Ready
  BY <1>0 DEF IInv, TypeOK, RowMatchesTrail
<1> HIDE DEF n
<1>2. Continues(history[o], n) /\ n # 1
  <2>1. Continues(history[o], n)
    BY <1>1 DEF IInv, LegalTrail, n
  <2> QED
    BY <1>1, <2>1 DEF Continues, New, Ready
<1>3. n - 1 \in 1..n /\ can_transition(history[o][n - 1].new_status, Ready)
  BY <1>1, <1>2 DEF Continues
<1>4. history[o][n - 1].new_status \in OrderStatus
  <2>1. history[o][n - 1] \in Entry
    BY <1>3 DEF IInv, TypeOK, n
  <2> QED
    BY <2>1 DEF Entry
<1>5. history[o][n - 1].new_status = InPreparation
  BY <1>3, <1>4 DEF can_transition, ALLOWED_TRANSITIONS, OrderStatus, New,
     Confirmed, InPreparation, Ready, Served, Cancelled, Rejected
<1> QED
  BY <1>3, <1>5 DEF Entered, n

\* The part of PreparationStartKept about one order.
StartKept(o) ==
  LET at == order[o].preparation_started_at
      starts == Entered(o, {InPreparation})
  IN IF at = Never THEN starts = {}
                   ELSE at \in starts /\ \A i \in starts : at <= i

LEMMA StartStep ==
  ASSUME IInv, IInv', FromPages, PreparationStartKept, [Next]_vars
  PROVE  PreparationStartKept'
<1> SUFFICES ASSUME NEW o \in Orders PROVE StartKept(o)'
  BY DEF PreparationStartKept, StartKept
<1>1. StartKept(o)
  BY DEF PreparationStartKept, StartKept
<1>2. CASE order'[o] = order[o] /\ history'[o] = history[o]
  BY <1>1, <1>2 DEF StartKept, Entered
<1>3. CASE CreateOrder(o)
  <2>1. NewRow \in Row /\ Enters(o, NewRow, NoUser) /\ order[o] = NoRow
    BY <1>3, CreateEnters DEF IInv, RowMatchesTrail, CreateOrder
  <2>2. Entered(o, {InPreparation})' = Entered(o, {InPreparation})
    BY <2>1, EntersEntered DEF IInv, NewRow, NoRow, New, InPreparation
  <2>3. order'[o] = NewRow
    BY <2>1, EntersHistory DEF IInv
  <2> QED
    BY <1>1, <2>1, <2>2, <2>3 DEF StartKept, NewRow, NoRow
<1>4. ASSUME NEW r \in Requests, Commit(r), req[r].order = o
      PROVE  StartKept(o)'
  <2> DEFINE s == req[r].service
             row == Saved(order[o], s, req[r].user)
  <2>1. /\ s \in Services /\ req[r].row = order[o] /\ req[r].user \in Users
        /\ order[o] \in Row
    BY <1>4, RequestType DEF IInv, Commit, LockHolderIsCurrent
  <2>2. /\ row \in Row /\ Enters(o, row, req[r].user)
        /\ req[r].user \in Users \cup {NoUser}
    BY <1>4, <2>1, CommitEnters
  <2>3. row.status = Target[s] /\ row.version = order[o].version + 1
    BY <2>1, SavedType
  <2>4. order[o].status \in ButtonShownIn[s]
    <3>1. /\ req[r].expected # 0 /\ req[r].seen \in ButtonShownIn[s]
          /\ WasAt(history[o], req[r].expected, req[r].seen)
          /\ order[o].version = req[r].expected
      BY <1>4, <2>1 DEF FromPages, Commit, Idle, IInv, PagesArePast, VersionMatches
    <3> QED
      BY <3>1 DEF WasAt, IInv, RowMatchesTrail
  <2>5. order'[o] = row
    BY <2>2, EntersHistory DEF IInv
  <2>6. /\ Entered(o, {InPreparation})' =
             IF Target[s] = InPreparation
               THEN Entered(o, {InPreparation}) \cup {row.version}
               ELSE Entered(o, {InPreparation})
        /\ \A i \in Entered(o, {InPreparation}) : i \in Nat \ {0} /\ i < row.version
    <3> HIDE DEF row
    <3>1. TypeOK /\ RowMatchesTrail
      BY DEF IInv
    <3>2. row.status \in {InPreparation} <=> Target[s] = InPreparation
      BY <2>3
    <3> QED
      BY <2>2, <3>1, <3>2, EntersEntered
  <2>7. row.preparation_started_at = IF s = "start" THEN row.version
                                       ELSE order[o].preparation_started_at
    BY <2>3 DEF Saved
  <2>8. row.version \in Nat \ {0} /\ order[o].preparation_started_at \in Nat
    BY <2>1, <2>3 DEF Row
  <2> HIDE DEF row
  <2>9. CASE s = "start"
    <3>1. ButtonShownIn[s] = {Confirmed} /\ Target[s] = InPreparation
      BY <2>9 DEF ButtonShownIn, Target
    <3>2. Entered(o, {InPreparation}) = {}
      BY <2>4, <3>1, ConfirmedNotStarted
    <3> QED
      BY <2>5, <2>6, <2>7, <2>8, <2>9, <3>1, <3>2 DEF StartKept, Never
  <2>10. CASE s = "back"
    <3>1. ButtonShownIn[s] = {Ready} /\ Target[s] = InPreparation
      BY <2>10 DEF ButtonShownIn, Target
    <3>2. Entered(o, {InPreparation}) # {}
      BY <2>4, <3>1, ReadyWasStarted
    <3> QED
      BY <1>1, <2>5, <2>6, <2>7, <2>8, <2>10, <3>1, <3>2 DEF StartKept, Never
  <2>11. CASE s \notin {"start", "back"}
    <3>1. Target[s] # InPreparation
      BY <2>1, <2>11 DEF Services, Target, InPreparation, Confirmed, Ready, Served,
                         Cancelled, Rejected
    <3> QED
      BY <1>1, <2>5, <2>6, <2>7, <2>11, <3>1 DEF StartKept
  <2> QED
    BY <2>9, <2>10, <2>11
<1> QED
  BY <1>2, <1>3, <1>4, WhoChangesAnOrder DEF vars

\* When posts come from pages, preparation_started_at is the first time the
\* kitchen started, however often the order was sent back.
THEOREM StartAlwaysKept == ~BarePosts => (Spec => []PreparationStartKept)
<1> SUFFICES ASSUME ~BarePosts PROVE Spec => []PreparationStartKept
  OBVIOUS
<1>1. Init => FromPages /\ PreparationStartKept
  BY DEF Init, FromPages, PreparationStartKept, Entered, NoRow, Never
<1>2. TypeOK /\ FromPages /\ [Next]_vars => FromPages'
  BY FromPagesStep
<1>3. IInv /\ IInv' /\ FromPages /\ PreparationStartKept /\ [Next]_vars
        => PreparationStartKept'
  BY StartStep
<1> QED
  BY <1>1, <1>2, <1>3, TypeCorrect, Invariance, PTL DEF Spec
-----------------------------------------------------------------------------
(***************************************************************************)
(* Follow-ups: what runs after a commit and outside of its transaction is  *)
(* done, in hand or lost, and never made up.                               *)
(***************************************************************************)

AuditedStatuses == {Confirmed, Rejected, Cancelled}

\* The follow-ups of entering status st at version v of o.
FollowUpsOf(o, v, st) ==
  {<<"notify", o, v>>} \cup (IF st \in AuditedStatuses THEN {<<"audit", o, v>>} ELSE {})

\* The follow-ups of the entries of o.
DueOf(o) == UNION {FollowUpsOf(o, i, history[o][i].new_status) : i \in 1..Len(history[o])}

LEMMA DueIsUnion == Due = UNION {DueOf(o) : o \in Orders}
<1>1. ASSUME NEW o \in Orders
      PROVE  DueOf(o) = {<<"notify", o, i>> : i \in 1..Len(history[o])} \cup
                        {<<"audit", o, i>> : i \in Entered(o, AuditedStatuses)}
  <2> DEFINE n == 1..Len(history[o])
  <2>1. \A x : x \in DueOf(o) <=>
          \E i \in n : \/ x = <<"notify", o, i>>
                       \/ x = <<"audit", o, i>> /\ history[o][i].new_status \in AuditedStatuses
    BY DEF DueOf, FollowUpsOf
  <2>2. \A i : i \in Entered(o, AuditedStatuses)
          <=> i \in n /\ history[o][i].new_status \in AuditedStatuses
    BY DEF Entered
  <2> HIDE DEF n
  <2> QED
    BY <2>1, <2>2 DEF n
<1>2. Due = UNION {{<<"notify", o, i>> : i \in 1..Len(history[o])} \cup
                   {<<"audit", o, i>> : i \in Entered(o, AuditedStatuses)} : o \in Orders}
  BY DEF Due, AuditedStatuses
<1> QED
  BY <1>1, <1>2

LEMMA DueIsUnionNext == (Due = UNION {DueOf(o) : o \in Orders})'
BY DueIsUnion, PTL

\* Entering a status makes its own follow-ups due, which were not before.
LEMMA EntersDue ==
  ASSUME TypeOK, RowMatchesTrail, NEW o \in Orders,
         NEW row \in Row, NEW by \in Users \cup {NoUser}, Enters(o, row, by)
  PROVE  /\ Due' = Due \cup FollowUpsOf(o, row.version, row.status)
         /\ Due \cap FollowUpsOf(o, row.version, row.status) = {}
<1> DEFINE n == Len(history[o])
           new == FollowUpsOf(o, row.version, row.status)
<1>1. n \in Nat /\ row.version = n + 1
  BY DEF TypeOK, RowMatchesTrail, Enters
<1>2. /\ Len(history'[o]) = n + 1
      /\ history'[o][n + 1].new_status = row.status
      /\ \A i \in 1..n : history'[o][i] = history[o][i]
      /\ \A p \in Orders \ {o} : history'[p] = history[p]
  <2>1. history'[o][n + 1] =
          [previous_status |-> order[o].status, new_status |-> row.status,
           changed_by |-> by]
    BY EntersHistory
  <2> QED
    BY <2>1, EntersHistory
<1>3. \A p \in Orders \ {o} : DueOf(p)' = DueOf(p)
  BY <1>2 DEF DueOf
<1>4. DueOf(o)' = DueOf(o) \cup new
  <2>1. DueOf(o)' = UNION {FollowUpsOf(o, i, history'[o][i].new_status) : i \in 1..(n + 1)}
    BY <1>2 DEF DueOf, FollowUpsOf
  <2>2. 1..(n + 1) = (1..n) \cup {n + 1}
    BY <1>1
  <2> DEFINE old(i) == FollowUpsOf(o, i, history[o][i].new_status)
             now(i) == FollowUpsOf(o, i, history'[o][i].new_status)
  <2>3. now(n + 1) = new /\ \A i \in 1..n : now(i) = old(i)
    BY <1>1, <1>2
  <2>4. DueOf(o) = UNION {old(i) : i \in 1..n}
    BY DEF DueOf
  <2>5. DueOf(o)' = UNION {now(i) : i \in (1..n) \cup {n + 1}}
    BY <2>1, <2>2
  <2> HIDE DEF old, now, n, new
  <2> QED
    BY <2>3, <2>4, <2>5
<1>5. Due' = UNION {DueOf(p)' : p \in Orders}
  BY DueIsUnionNext
<1>6. Due' = Due \cup new
  <2> HIDE DEF new
  <2>1. \A x : x \in Due' <=> \E p \in Orders : x \in DueOf(p)'
    BY <1>5
  <2>2. \A x : x \in Due <=> \E p \in Orders : x \in DueOf(p)
    BY DueIsUnion
  <2>3. \A x : x \in Due' <=> x \in Due \/ x \in new
    BY <1>3, <1>4, <2>1, <2>2
  <2> QED
    BY <2>3
<1>7. Due \cap new = {}
  <2> SUFFICES ASSUME NEW x \in new, NEW p \in Orders, x \in DueOf(p) PROVE FALSE
    BY DueIsUnion
  <2>1. x[2] = o /\ x[3] = n + 1
    BY <1>1 DEF FollowUpsOf
  <2>2. x[2] = p /\ x[3] \in 1..Len(history[p])
    BY DEF DueOf, FollowUpsOf
  <2> QED
    BY <1>1, <2>1, <2>2
<1> QED
  BY <1>6, <1>7

\* No step rewrites or removes a history entry.
LEMMA HistoryKept ==
  ASSUME IInv, [Next]_vars, NEW o \in Orders, NEW i \in 1..Len(history[o])
  PROVE  i \in 1..Len(history'[o]) /\ history'[o][i] = history[o][i]
<1>0. Len(history[o]) \in Nat /\ TypeOK /\ RowMatchesTrail
  BY DEF IInv, TypeOK
<1>1. CASE history'[o] = history[o]
  BY <1>1
<1>2. ASSUME NEW row \in Row, NEW by \in Users \cup {NoUser}, Enters(o, row, by)
      PROVE  i \in 1..Len(history'[o]) /\ history'[o][i] = history[o][i]
  <2>1. /\ Len(history'[o]) = Len(history[o]) + 1
        /\ \A j \in 1..Len(history[o]) : history'[o][j] = history[o][j]
    BY <1>0, <1>2, EntersHistory
  <2> QED
    BY <1>0, <2>1
<1>3. CASE CreateOrder(o)
  BY <1>2, <1>3, CreateEnters
<1>4. ASSUME NEW r \in Requests, Commit(r), req[r].order = o
      PROVE  i \in 1..Len(history'[o]) /\ history'[o][i] = history[o][i]
  BY <1>2, <1>4, CommitEnters
<1> QED
  BY <1>1, <1>3, <1>4, WhoChangesAnOrder DEF vars
-----------------------------------------------------------------------------
\* What r has in hand.
Hand(r) == IF FollowUpsLeft(r) THEN Pending(r) ELSE {}

LEMMA InHandIsUnion == InHand = UNION {Hand(r) : r \in Requests}
BY DEF InHand, Hand

LEMMA InHandIsUnionNext == (InHand = UNION {Hand(r) : r \in Requests})'
BY InHandIsUnion, PTL

\* A request past its commit has the row of the entry it made; no two have
\* the same.
HandsRight ==
  /\ \A r \in Requests : FollowUpsLeft(r) =>
       LET h == history[req[r].order]
           v == req[r].row.version
       IN /\ v \in 1..Len(h)
          /\ h[v].new_status = req[r].row.status
          /\ h[v].changed_by = req[r].user
          /\ req[r].row.status = Target[req[r].service]
  /\ \A r, q \in Requests :
       /\ FollowUpsLeft(r) /\ FollowUpsLeft(q)
       /\ req[r].order = req[q].order /\ req[r].row.version = req[q].row.version
       => r = q

\* When only r's hand changes, the others' stay as they are, and apart from it.
LEMMA OneHandMoves ==
  ASSUME HandsRight, NEW r \in Requests,
         \A q \in Requests \ {r} : Hand(q)' = Hand(q)
  PROVE  \E others : /\ InHand = others \cup Hand(r)
                     /\ InHand' = others \cup Hand(r)'
                     /\ others \cap Hand(r) = {}
<1> DEFINE others == UNION {Hand(q) : q \in Requests \ {r}}
<1>1. InHand = others \cup Hand(r)
  BY InHandIsUnion
<1>2. InHand' = others \cup Hand(r)'
  BY InHandIsUnionNext
<1>3. others \cap Hand(r) = {}
  <2> SUFFICES ASSUME NEW q \in Requests \ {r}, NEW x \in Hand(q), x \in Hand(r)
               PROVE  FALSE
    OBVIOUS
  <2>1. FollowUpsLeft(r) /\ FollowUpsLeft(q)
    BY DEF Hand
  <2>2. x[2] = req[r].order /\ x[3] = req[r].row.version
    BY <2>1 DEF Hand, Pending
  <2>3. x[2] = req[q].order /\ x[3] = req[q].row.version
    BY <2>1 DEF Hand, Pending
  <2> QED
    BY <2>1, <2>2, <2>3 DEF HandsRight
<1> QED
  BY <1>1, <1>2, <1>3

\* A commit takes its follow-ups in hand, all of them and no others.
LEMMA CommitTakes ==
  ASSUME IInv, NEW r \in Requests, Commit(r)
  PROVE  LET row == Saved(req[r].row, req[r].service, req[r].user)
         IN /\ Hand(r) = {}
            /\ Hand(r)' = FollowUpsOf(req[r].order, row.version, row.status)
            /\ \A q \in Requests \ {r} : Hand(q)' = Hand(q)
            /\ req'[r].row = row /\ FollowUpsLeft(r)' /\ ~FollowUpsLeft(r)
            /\ req'[r].order = req[r].order /\ req'[r].user = req[r].user
            /\ req'[r].service = req[r].service
<1> DEFINE row == Saved(req[r].row, req[r].service, req[r].user)
<1>1. /\ req[r] \in Active /\ req[r].service \in Services /\ req[r].user \in Users
      /\ req[r].row \in Row
  BY RequestType DEF IInv, Commit
<1>2. row.status = Target[req[r].service]
  BY <1>1, SavedType
<1>3. req[r].service \in AuditedServices <=> row.status \in AuditedStatuses
  BY <1>1, <1>2 DEF AuditedServices, AuditedStatuses, Services, Target, Confirmed,
     InPreparation, Ready, Served, Cancelled, Rejected
<1> HIDE DEF row
<1>4. /\ req'[r].row = row /\ req'[r].order = req[r].order
      /\ req'[r].user = req[r].user /\ req'[r].service = req[r].service
      /\ req'[r].phase = IF req[r].service \in AuditedServices THEN "audit"
                                                               ELSE "notify"
      /\ \A q \in Requests \ {r} : req'[q] = req[q]
  BY <1>1 DEF Commit, IInv, TypeOK, Active, row
<1>5. ~FollowUpsLeft(r) /\ FollowUpsLeft(r)'
  BY <1>4 DEF FollowUpsLeft, Commit
<1>6. Hand(r)' = FollowUpsOf(req[r].order, row.version, row.status)
  BY <1>3, <1>4, <1>5 DEF Hand, Pending, FollowUpsOf
<1>7. \A q \in Requests \ {r} : Hand(q)' = Hand(q)
  BY <1>4 DEF Hand, Pending, FollowUpsLeft
<1> QED
  BY <1>4, <1>5, <1>6, <1>7 DEF Hand, row

\* What a request past its commit knows of it.
SameHand(q) == /\ FollowUpsLeft(q)
               /\ req'[q].row = req[q].row /\ req'[q].order = req[q].order
               /\ req'[q].user = req[q].user /\ req'[q].service = req[q].service

\* Only a commit brings a request into the follow-ups.
LEMMA OthersFinish ==
  ASSUME TypeOK, [Next]_vars, NEW q \in Requests, FollowUpsLeft(q)'
  PROVE  Commit(q) \/ SameHand(q)
<1> SUFFICES ASSUME ~Commit(q) PROVE SameHand(q)
  OBVIOUS
<1>1. ASSUME req'[q] = req[q] PROVE SameHand(q)
  BY <1>1 DEF SameHand, FollowUpsLeft
<1>2. ASSUME NEW r \in Requests, NEW u \in Users, NEW o \in Orders,
             NEW s \in Services, NEW v, NEW st, Post(r, u, o, s, v, st)
      PROVE  req'[q] = req[q]
  BY <1>2 DEF Post, FollowUpsLeft, TypeOK
<1>3. ASSUME NEW r \in Requests, Serve(r), r # q PROVE req'[q] = req[q]
  BY <1>3 DEF Serve, LockRow, Finish, Conflict, InvalidTransition, Respond, Commit,
              Audit, Notify, TypeOK
<1>4. CASE Serve(q)
  <2>0. q \in DOMAIN req /\ (req'[q].phase = "audit" \/ req'[q].phase = "notify")
    BY DEF FollowUpsLeft, TypeOK
  <2>1. /\ ~Conflict(q) /\ ~InvalidTransition(q) /\ ~Notify(q)
        /\ ~LockRow(q)
    <3>1. ~Respond(q)
      BY <2>0 DEF Respond, Idle
    <3>2. ~LockRow(q)
      <4> SUFFICES ASSUME LockRow(q) PROVE FALSE
        OBVIOUS
      <4>1. req[q] \in Active
        BY RequestType DEF LockRow
      <4>2. req'[q].phase = "locked"
        BY <2>0, <4>1 DEF LockRow, Active
      <4> QED
        BY <2>0, <4>2
    <3> QED
      BY <3>1, <3>2 DEF Conflict, InvalidTransition, Notify
  <2>2. Audit(q)
    BY <1>4, <2>1 DEF Serve, Finish
  <2>3. req[q] \in Active
    BY <2>2, RequestType DEF Audit
  <2> QED
    BY <2>2, <2>3 DEF Audit, SameHand, FollowUpsLeft, TypeOK, Active
<1>5. ~Crash
  BY DEF Crash, FollowUpsLeft, Idle
<1> QED
  BY <1>1, <1>2, <1>3, <1>4, <1>5
  DEF Next, Staff, CreateOrder, ShowPage, PressButton, PostBare, vars

LEMMA HandsStep ==
  ASSUME IInv, HandsRight, [Next]_vars
  PROVE  HandsRight'
<1>1. ASSUME NEW q \in Requests, SameHand(q)
      PROVE  LET h == history'[req[q].order]
                 v == req[q].row.version
             IN /\ v \in 1..Len(h)
                /\ h[v].new_status = req[q].row.status
                /\ h[v].changed_by = req[q].user
                /\ req[q].row.status = Target[req[q].service]
                /\ v \in 1..Len(history[req[q].order])
  <2>1. req[q].order \in Orders
    BY <1>1, RequestType DEF SameHand, FollowUpsLeft, IInv
  <2> QED
    BY <1>1, <2>1, HistoryKept DEF HandsRight, SameHand
<1>2. ASSUME NEW q \in Requests, Commit(q)
      PROVE  LET h == history'[req[q].order]
                 v == req'[q].row.version
             IN /\ v \in 1..Len(h)
                /\ h[v].new_status = req'[q].row.status
                /\ h[v].changed_by = req[q].user
                /\ req'[q].row.status = Target[req[q].service]
                /\ v = Len(history[req[q].order]) + 1
                /\ \A p \in Requests \ {q} : ~Commit(p)
  <2> DEFINE row == Saved(req[q].row, req[q].service, req[q].user)
             o == req[q].order
  <2>1. req'[q].row = row
    BY <1>2, CommitTakes
  <2>2. row.status = Target[req[q].service]
    BY <1>2, RequestType, SavedType DEF IInv, Commit
  <2>3. /\ o \in Orders /\ row \in Row /\ req[q].user \in Users \cup {NoUser}
        /\ Enters(o, row, req[q].user)
    BY <1>2, CommitEnters
  <2> HIDE DEF row
  <2>4. /\ Len(history'[o]) = Len(history[o]) + 1 /\ Len(history[o]) \in Nat
        /\ history'[o][Len(history[o]) + 1] =
              [previous_status |-> order[o].status, new_status |-> row.status,
               changed_by |-> req[q].user]
    <3>1. TypeOK /\ RowMatchesTrail
      BY DEF IInv
    <3>2. Len(history[o]) \in Nat
      BY <2>3 DEF IInv, TypeOK
    <3> HIDE DEF o
    <3> QED
      BY ONLY <2>3, <3>1, <3>2, EntersHistory
  <2>5. row.version = Len(history[o]) + 1
    BY <2>3 DEF Enters, IInv, RowMatchesTrail
  <2>6. ASSUME NEW p \in Requests \ {q}, Commit(p) PROVE FALSE
    <3>1. ~FollowUpsLeft(q) /\ FollowUpsLeft(q)'
      BY <1>2, CommitTakes
    <3>2. req'[q] = req[q]
      BY <2>6 DEF Commit, IInv, TypeOK
    <3> QED
      BY <3>1, <3>2 DEF FollowUpsLeft
  <2> QED
    BY <2>1, <2>2, <2>4, <2>5, <2>6
<1>3. ASSUME NEW q \in Requests, FollowUpsLeft(q)'
      PROVE  LET h == history'[req'[q].order]
                 v == req'[q].row.version
             IN /\ v \in 1..Len(h)
                /\ h[v].new_status = req'[q].row.status
                /\ h[v].changed_by = req'[q].user
                /\ req'[q].row.status = Target[req'[q].service]
  <2>1. CASE Commit(q)
    BY <1>2, <2>1, CommitTakes
  <2>2. CASE SameHand(q)
    BY <1>1, <2>2 DEF SameHand
  <2> QED
    BY <1>3, <2>1, <2>2, OthersFinish DEF IInv
<1>4. ASSUME NEW r \in Requests, NEW q \in Requests, FollowUpsLeft(r)', FollowUpsLeft(q)',
             req'[r].order = req'[q].order, req'[r].row.version = req'[q].row.version,
             r # q
      PROVE  FALSE
  <2>1. CASE Commit(r)
    <3>1. SameHand(q)
      BY <1>2, <1>4, <2>1, OthersFinish DEF IInv
    <3>2. /\ req'[r].order = req[r].order
          /\ req[q].row.version \in 1..Len(history[req[q].order])
          /\ req'[r].row.version = Len(history[req[r].order]) + 1
      BY <1>1, <1>2, <2>1, <3>1, CommitTakes
    <3>3. Len(history[req[r].order]) \in Nat
      BY <2>1, RequestType DEF Commit, IInv, TypeOK
    <3> QED
      BY <1>4, <3>1, <3>2, <3>3 DEF SameHand
  <2>2. CASE Commit(q)
    <3>1. SameHand(r)
      BY <1>2, <1>4, <2>2, OthersFinish DEF IInv
    <3>2. /\ req'[q].order = req[q].order
          /\ req[r].row.version \in 1..Len(history[req[r].order])
          /\ req'[q].row.version = Len(history[req[q].order]) + 1
      BY <1>1, <1>2, <2>2, <3>1, CommitTakes
    <3>3. Len(history[req[q].order]) \in Nat
      BY <2>2, RequestType DEF Commit, IInv, TypeOK
    <3>4. /\ req[r].order = req[q].order
          /\ req[r].row.version = Len(history[req[q].order]) + 1
      BY <1>4, <3>1, <3>2 DEF SameHand
    <3> QED
      BY <3>2, <3>3, <3>4
  <2>3. CASE SameHand(r) /\ SameHand(q)
    BY <1>4, <2>3 DEF SameHand, HandsRight
  <2> QED
    BY <1>4, <2>1, <2>2, <2>3, OthersFinish DEF IInv
<1> QED
  BY <1>3, <1>4 DEF HandsRight
-----------------------------------------------------------------------------
\* The two parts of FollowUpsAccounted: the balance, and what records say.
Balanced == /\ Due = Done \cup InHand \cup lost
            /\ Done \cap InHand = {} /\ Done \cap lost = {} /\ InHand \cap lost = {}

RecordsTrue ==
  /\ \A a \in audit :
       /\ history[a.order][a.version].changed_by = a.user
       /\ history[a.order][a.version].new_status = Target[a.action]
  /\ \A e \in sent : history[e.order][e.version].new_status = e.status

LEMMA AccountedParts == FollowUpsAccounted <=> Balanced /\ RecordsTrue
BY DEF FollowUpsAccounted, Balanced, RecordsTrue

LEMMA AccountedPartsNext == (FollowUpsAccounted <=> Balanced /\ RecordsTrue)'
BY AccountedParts, PTL

\* With the histories as they were, the same follow-ups are due.
LEMMA DueKept == ASSUME history' = history PROVE Due' = Due
BY DEF Due, Entered

\* Audit and Notify take one follow-up out of r's hand: it is done or lost.
LEMMA OneFinishes ==
  ASSUME HandsRight, Balanced, NEW r \in Requests, NEW x \in Hand(r),
         history' = history,
         \A q \in Requests \ {r} : req'[q] = req[q],
         Hand(r)' = Hand(r) \ {x},
         \/ Done' = Done \cup {x} /\ lost' = lost
         \/ lost' = lost \cup {x} /\ Done' = Done
  PROVE  Balanced'
<1>1. \A q \in Requests \ {r} : Hand(q)' = Hand(q)
  BY DEF Hand, Pending, FollowUpsLeft
<1>2. PICK others : /\ InHand = others \cup Hand(r)
                    /\ InHand' = others \cup Hand(r)'
                    /\ others \cap Hand(r) = {}
  BY <1>1, OneHandMoves
<1>3. Due' = Due
  BY DueKept
<1>4. InHand' = InHand \ {x} /\ x \in InHand
  BY <1>2
<1> QED
  BY <1>3, <1>4 DEF Balanced

LEMMA BalanceStep ==
  ASSUME IInv, HandsRight, Balanced, [Next]_vars
  PROVE  Balanced'
<1>0. TypeOK /\ RowMatchesTrail
  BY DEF IInv
<1>1. ASSUME NEW o \in Orders, CreateOrder(o) PROVE Balanced'
  <2> DEFINE x == <<"notify", o, 1>>
  <2>1. InHand' = InHand
    BY <1>1 DEF CreateOrder, InHand, Pending, FollowUpsLeft
  <2>2. /\ NewRow \in Row /\ NoUser \in Users \cup {NoUser} /\ Enters(o, NewRow, NoUser)
        /\ NewRow.version = 1 /\ NewRow.status = New
    BY <1>0, <1>1, CreateEnters DEF NewRow, NoRow
  <2>3. FollowUpsOf(o, NewRow.version, NewRow.status) = {x}
    BY <2>2 DEF FollowUpsOf, AuditedStatuses, New, Confirmed, Rejected, Cancelled
  <2>4. Due' = Due \cup {x} /\ Due \cap {x} = {}
    BY <1>0, <2>2, <2>3, EntersDue
  <2>5. \/ Done' = Done \cup {x} /\ lost' = lost
        \/ Done' = Done /\ lost' = lost \cup {x}
    <3> DEFINE e == [order |-> o, version |-> 1, status |-> New,
                     event |-> "order.created"]
    <3>1. CASE lost' = lost /\ sent' = sent \cup {e}
      <4>1. x = <<"notify", e.order, e.version>> /\ audit' = audit
        BY <1>1 DEF CreateOrder
      <4> HIDE DEF x, e
      <4> QED
        BY <3>1, <4>1 DEF Done
    <3>2. CASE sent' = sent /\ lost' = lost \cup {x}
      BY <1>1, <3>2 DEF CreateOrder, Done
    <3> QED
      BY <1>1, <3>1, <3>2 DEF CreateOrder
  <2> HIDE DEF x
  <2> QED
    BY <2>1, <2>4, <2>5 DEF Balanced
<1>2. ASSUME Due' = Due, Done' = Done, lost' = lost,
             \A q \in Requests : Hand(q)' = Hand(q)
      PROVE  Balanced'
  <2>1. InHand' = InHand
    BY <1>2, InHandIsUnion, InHandIsUnionNext
  <2> QED
    BY <1>2, <2>1 DEF Balanced
<1>3. ASSUME NEW u \in Users, NEW o \in Orders, ShowPage(u, o) PROVE Balanced'
  BY <1>2, <1>3, DueKept DEF ShowPage, Done, Hand, Pending, FollowUpsLeft
<1>4. ASSUME NEW r \in Requests, UNCHANGED <<history, audit, sent, lost>>,
             \A q \in Requests \ {r} : req'[q] = req[q],
             ~FollowUpsLeft(r), ~FollowUpsLeft(r)'
      PROVE  Balanced'
  <2>1. \A q \in Requests : Hand(q)' = Hand(q)
    BY <1>4 DEF Hand, Pending, FollowUpsLeft
  <2> QED
    BY <1>2, <1>4, <2>1, DueKept DEF Done
<1>5. ASSUME NEW r \in Requests, NEW u \in Users, NEW o \in Orders,
             NEW s \in Services, NEW v, NEW st, Post(r, u, o, s, v, st)
      PROVE  Balanced'
  BY <1>0, <1>4, <1>5 DEF Post, TypeOK, FollowUpsLeft, Idle
<1>6. ASSUME NEW r \in Requests, LockRow(r) PROVE Balanced'
  <2>1. req[r] \in Active
    BY <1>0, <1>6, RequestType DEF LockRow
  <2>2. req'[r].phase = "locked"
    BY <1>0, <1>6, <2>1 DEF LockRow, TypeOK, Active
  <2> QED
    BY <1>0, <1>4, <1>6, <2>2 DEF LockRow, TypeOK, FollowUpsLeft
<1>7. ASSUME NEW r \in Requests, Conflict(r) \/ InvalidTransition(r) PROVE Balanced'
  BY <1>0, <1>4, <1>7
  DEF Conflict, InvalidTransition, Respond, TypeOK, FollowUpsLeft, Idle
<1>8. ASSUME NEW r \in Requests, Commit(r) PROVE Balanced'
  <2> DEFINE row == Saved(req[r].row, req[r].service, req[r].user)
             new == FollowUpsOf(req[r].order, row.version, row.status)
  <2>1. /\ Hand(r) = {} /\ Hand(r)' = new
        /\ \A q \in Requests \ {r} : Hand(q)' = Hand(q)
    BY <1>8, CommitTakes
  <2>2. InHand' = InHand \cup new
    BY <2>1, OneHandMoves
  <2>3. /\ req[r].order \in Orders /\ row \in Row /\ req[r].user \in Users \cup {NoUser}
        /\ Enters(req[r].order, row, req[r].user)
    BY <1>8, CommitEnters
  <2>4. Due' = Due \cup new /\ Due \cap new = {}
    <3> HIDE DEF row
    <3> QED
      BY <1>0, <2>3, EntersDue
  <2>5. Done' = Done /\ lost' = lost
    BY <1>8 DEF Commit, Done
  <2> HIDE DEF new
  <2> QED
    BY <2>2, <2>4, <2>5 DEF Balanced
<1>9. ASSUME NEW r \in Requests, Audit(r) PROVE Balanced'
  <2> DEFINE o == req[r].order
             v == req[r].row.version
  <2>1. req[r] \in Active
    BY <1>0, <1>9, RequestType DEF Audit
  <2>2. /\ req'[r].phase = "notify" /\ req'[r].row = req[r].row
        /\ req'[r].order = req[r].order
        /\ \A q \in Requests \ {r} : req'[q] = req[q]
    BY <1>0, <1>9, <2>1 DEF Audit, TypeOK, Active
  <2>3. Hand(r) = {<<"audit", o, v>>, <<"notify", o, v>>}
    BY <1>9 DEF Audit, Hand, Pending, FollowUpsLeft
  <2>4. Hand(r)' = {<<"notify", o, v>>}
    BY <2>2 DEF Hand, Pending, FollowUpsLeft
  <2>5. Hand(r)' = Hand(r) \ {<<"audit", o, v>>}
    BY <2>3, <2>4
  <2>6. \/ Done' = Done \cup {<<"audit", o, v>>} /\ lost' = lost
        \/ lost' = lost \cup {<<"audit", o, v>>} /\ Done' = Done
    <3> DEFINE a == [order |-> o, user |-> req[r].user, version |-> v,
                     action |-> req[r].service]
    <3>1. a.order = o /\ a.version = v /\ sent' = sent
      BY <1>9 DEF Audit
    <3>2. \/ audit' = audit \cup {a} /\ lost' = lost
          \/ audit' = audit /\ lost' = lost \cup {<<"audit", o, v>>}
      BY <1>9 DEF Audit
    <3> HIDE DEF a
    <3> QED
      BY <3>1, <3>2 DEF Done
  <2>7. history' = history
    BY <1>9 DEF Audit
  <2>8. PICK x : x = <<"audit", o, v>>
    OBVIOUS
  <2>9. x \in Hand(r)
    BY <2>3, <2>8
  <2> QED
    BY <2>2, <2>5, <2>6, <2>7, <2>8, <2>9, OneFinishes
<1>10. ASSUME NEW r \in Requests, Notify(r) PROVE Balanced'
  <2> DEFINE o == req[r].order
             v == req[r].row.version
  <2>2. /\ req'[r] = Idle
        /\ \A q \in Requests \ {r} : req'[q] = req[q]
    BY <1>0, <1>10 DEF Notify, Respond, TypeOK
  <2>3. Hand(r) = {<<"notify", o, v>>}
    BY <1>10 DEF Notify, Hand, Pending, FollowUpsLeft
  <2>4. Hand(r)' = {}
    BY <2>2 DEF Hand, FollowUpsLeft, Idle
  <2>5. Hand(r)' = Hand(r) \ {<<"notify", o, v>>}
    BY <2>3, <2>4
  <2>6. \/ Done' = Done \cup {<<"notify", o, v>>} /\ lost' = lost
        \/ lost' = lost \cup {<<"notify", o, v>>} /\ Done' = Done
    <3> DEFINE e == [order |-> o, status |-> req[r].row.status, version |-> v,
                     event |-> Event[req[r].service]]
    <3>1. e.order = o /\ e.version = v /\ audit' = audit
      BY <1>10 DEF Notify
    <3>2. \/ sent' = sent \cup {e} /\ lost' = lost
          \/ sent' = sent /\ lost' = lost \cup {<<"notify", o, v>>}
      BY <1>10 DEF Notify
    <3> HIDE DEF e
    <3> QED
      BY <3>1, <3>2 DEF Done
  <2>7. history' = history
    BY <1>10 DEF Notify
  <2>8. PICK x : x = <<"notify", o, v>>
    OBVIOUS
  <2>9. x \in Hand(r)
    BY <2>3, <2>8
  <2> QED
    BY <2>2, <2>5, <2>6, <2>7, <2>8, <2>9, OneFinishes
<1>11. CASE Crash
  <2>1. InHand' = {}
    BY <1>11 DEF Crash, InHand, FollowUpsLeft, Idle
  <2>2. lost' = lost \cup InHand
    BY <1>11 DEF Crash, InHand
  <2>3. Due' = Due /\ Done' = Done
    BY <1>11, DueKept DEF Crash, Done
  <2> QED
    BY <2>1, <2>2, <2>3 DEF Balanced
<1>12. CASE UNCHANGED vars
  BY <1>2, <1>12, DueKept DEF vars, Done, Hand, Pending, FollowUpsLeft
<1> QED
  BY <1>1, <1>3, <1>5, <1>6, <1>7, <1>8, <1>9, <1>10, <1>11, <1>12
  DEF Next, Staff, Serve, Finish, PressButton, PostBare

\* Old records keep naming entries that are not rewritten; new ones are made
\* from a request whose row is that of its entry.
LEMMA RecordsStep ==
  ASSUME IInv, HandsRight, Balanced, RecordsTrue, [Next]_vars
  PROVE  RecordsTrue'
<1>0. TypeOK
  BY DEF IInv
<1>1. ASSUME NEW a \in audit
      PROVE  /\ history'[a.order][a.version].changed_by = a.user
             /\ history'[a.order][a.version].new_status = Target[a.action]
  <2>1. <<"audit", a.order, a.version>> \in Due
    BY DEF Balanced, Done
  <2>2. a.version \in 1..Len(history[a.order])
    BY <2>1 DEF Due, Entered
  <2>3. a.order \in Orders
    BY <1>0 DEF TypeOK, AuditRecords
  <2> QED
    BY <2>2, <2>3, HistoryKept DEF RecordsTrue
<1>2. ASSUME NEW e \in sent
      PROVE  history'[e.order][e.version].new_status = e.status
  <2>1. <<"notify", e.order, e.version>> \in Due
    BY DEF Balanced, Done
  <2>2. e.version \in 1..Len(history[e.order])
    BY <2>1 DEF Due, Entered
  <2>3. e.order \in Orders
    BY <1>0 DEF TypeOK, Broadcasts
  <2> QED
    BY <2>2, <2>3, HistoryKept DEF RecordsTrue
<1>3. CASE UNCHANGED <<audit, sent>>
  BY <1>1, <1>2, <1>3 DEF RecordsTrue
<1>4. ASSUME NEW o \in Orders, CreateOrder(o) PROVE RecordsTrue'
  <2> DEFINE new == [order |-> o, version |-> 1, status |-> New,
                     event |-> "order.created"]
  <2>1. /\ NewRow \in Row /\ NoUser \in Users \cup {NoUser} /\ Enters(o, NewRow, NoUser)
        /\ NewRow.version = 1 /\ NewRow.status = New
    BY <1>0, <1>4, CreateEnters DEF NewRow, NoRow
  <2>2. Len(history[o]) = 0
    BY <2>1 DEF Enters, IInv, RowMatchesTrail, TypeOK
  <2>3. history'[o][Len(history[o]) + 1] =
              [previous_status |-> order[o].status, new_status |-> New,
               changed_by |-> NoUser]
    BY <2>1, EntersHistory DEF IInv
  <2>4. history'[o][1].new_status = New
    BY <2>2, <2>3
  <2>5. /\ sent' \subseteq sent \cup {new} /\ audit' = audit
        /\ new.order = o /\ new.version = 1 /\ new.status = New
    BY <1>4 DEF CreateOrder
  <2> HIDE DEF new
  <2> QED
    BY <1>1, <1>2, <2>4, <2>5 DEF RecordsTrue
<1>5. ASSUME NEW r \in Requests, Audit(r) PROVE RecordsTrue'
  <2> DEFINE new == [order |-> req[r].order, user |-> req[r].user,
                     version |-> req[r].row.version, action |-> req[r].service]
  <2>1. /\ audit' \subseteq audit \cup {new} /\ sent' = sent /\ history' = history
        /\ new.order = req[r].order /\ new.version = req[r].row.version
        /\ new.user = req[r].user /\ new.action = req[r].service
        /\ FollowUpsLeft(r)
    BY <1>5 DEF Audit, FollowUpsLeft
  <2>2. /\ history'[new.order][new.version].changed_by = new.user
        /\ history'[new.order][new.version].new_status = Target[new.action]
    BY <2>1 DEF HandsRight
  <2> HIDE DEF new
  <2> QED
    BY <1>1, <1>2, <2>1, <2>2 DEF RecordsTrue
<1>6. ASSUME NEW r \in Requests, Notify(r) PROVE RecordsTrue'
  <2> DEFINE new == [order |-> req[r].order, status |-> req[r].row.status,
                     version |-> req[r].row.version,
                     event |-> Event[req[r].service]]
  <2>1. /\ sent' \subseteq sent \cup {new} /\ audit' = audit /\ history' = history
        /\ new.order = req[r].order /\ new.version = req[r].row.version
        /\ new.status = req[r].row.status
        /\ FollowUpsLeft(r)
    BY <1>6 DEF Notify, FollowUpsLeft
  <2>2. history'[new.order][new.version].new_status = new.status
    BY <2>1 DEF HandsRight
  <2> HIDE DEF new
  <2> QED
    BY <1>1, <1>2, <2>1, <2>2 DEF RecordsTrue
<1> QED
  BY <1>3, <1>4, <1>5, <1>6
  DEF Next, Staff, Serve, Finish, PressButton, PostBare, Post, ShowPage, LockRow,
      Conflict, InvalidTransition, Commit, Crash, vars

LEMMA AccountedInit == Init => HandsRight /\ FollowUpsAccounted
<1> SUFFICES ASSUME Init PROVE HandsRight /\ FollowUpsAccounted
  OBVIOUS
<1>1. \A r \in Requests : ~FollowUpsLeft(r)
  BY DEF Init, FollowUpsLeft, Idle
<1>2. \A o \in Orders : 1..Len(history[o]) = {}
  BY DEF Init
<1>3. Due = {}
  BY <1>2 DEF Due, Entered
<1>4. Done = {} /\ InHand = {} /\ lost = {} /\ audit = {} /\ sent = {}
  BY <1>1 DEF Done, InHand, Init
<1> QED
  BY <1>1, <1>3, <1>4 DEF HandsRight, FollowUpsAccounted

\* Whatever fails and whenever the server is killed, every follow-up due is
\* done, in hand or lost, never two of these, and every audit record and
\* broadcast is about a transition that happened.  The balance is inductive
\* only with HandsRight: two requests never have the same follow-up in hand,
\* and the row a request goes on with is that of the entry it made.
THEOREM FollowUpsAlwaysAccounted == Spec => []FollowUpsAccounted
<1>1. Init => IInv /\ HandsRight /\ FollowUpsAccounted
  BY IInit, AccountedInit
<1>2. IInv /\ HandsRight /\ FollowUpsAccounted /\ [Next]_vars
        => (IInv /\ HandsRight /\ FollowUpsAccounted)'
  BY IStep, HandsStep, BalanceStep, RecordsStep, AccountedParts, AccountedPartsNext
<1> QED
  BY <1>1, <1>2, PTL DEF Spec
=============================================================================
