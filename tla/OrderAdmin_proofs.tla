--------------------------- MODULE OrderAdmin_proofs ---------------------------
(***************************************************************************)
(* What still holds when administrators save change forms over running     *)
(* transitions.  The row and the history no longer agree, so IInv of the   *)
(* workflow is lost; what is left rests on how rows and forms were read.   *)
(***************************************************************************)
EXTENDS OrderAdmin, OrderWorkflow_proofs

USE RoleAssumption, EditsAssumption DEF InPhase, Exists

\* An order that exists has a status and a history; one that does not, neither.
OrdersStarted ==
  \A o \in Orders : IF Exists(o) THEN order[o].status \in OrderStatus
                                 ELSE history[o] = << >>

\* No row that somebody read and may write back is ahead of the history.
ReadsWithinTrail ==
  /\ \A r \in Requests : InPhase(r, "locked") =>
       req[r].row.version <= Len(history[req[r].order])
  /\ \A a \in Admins : form[a] # NoForm =>
       /\ Exists(form[a].order)
       /\ form[a].phase = "posted" =>
            /\ form[a].row.version > 0
            /\ form[a].row.version <= Len(history[form[a].order])

AdminInv == /\ AdminTypeOK
            /\ OrdersStarted
            /\ EveryEntryAllowed
            /\ VersionWithinTrail
            /\ ReadsWithinTrail

LEMMA FormType ==
  ASSUME AdminTypeOK, NEW a \in Admins, form[a] # NoForm
  PROVE  /\ form[a] \in Form /\ form[a].order \in Orders
         /\ form[a].status \in OrderStatus /\ form[a].row \in Row
         /\ form[a].confirmed_by \in Users \cup {NoUser}
         /\ form[a].cancelled_by \in Users \cup {NoUser}
BY DEF AdminTypeOK, Form

\* A step of the workflow leaves o's row and history alone, or adds one entry
\* with a row no more than one version ahead.
AddsEntry(o, e) ==
  /\ e \in Entry
  /\ history'[o] = Append(history[o], e)
  /\ order'[o].version > 0
  /\ order'[o].version <= Len(history[o]) + 1
  /\ order'[o].status \in OrderStatus
  /\ history[o] = << >> \/ can_transition(e.previous_status, e.new_status)

LEMMA WorkflowAdds ==
  ASSUME AdminInv, Next, NEW o \in Orders
  PROVE  \/ order'[o] = order[o] /\ history'[o] = history[o]
         \/ \E e \in Entry : AddsEntry(o, e)
<1>0. TypeOK /\ history[o] \in Seq(Entry) /\ Len(history[o]) \in Nat
  BY DEF AdminInv, AdminTypeOK, TypeOK
<1>1. ASSUME NEW p \in Orders, CreateOrder(p), p = o
      PROVE  \E e \in Entry : AddsEntry(o, e)
  <2> DEFINE e == [previous_status |-> NoStatus, new_status |-> New,
                   changed_by |-> NoUser]
  <2>1. e \in Entry
    BY DEF Entry, OrderStatus
  <2>2. history'[o] = Append(history[o], e) /\ history[o] = << >>
    BY <1>0, <1>1 DEF CreateOrder, TypeOK, AdminInv, OrdersStarted
  <2>3. order'[o].version = 1 /\ order'[o].status \in OrderStatus
    BY <1>0, <1>1 DEF CreateOrder, TypeOK, NewRow, NoRow, OrderStatus
  <2> HIDE DEF e
  <2> QED
    BY <1>0, <2>1, <2>2, <2>3 DEF AddsEntry
<1>2. ASSUME NEW r \in Requests, Commit(r), req[r].order = o
      PROVE  \E e \in Entry : AddsEntry(o, e)
  <2> DEFINE row == Saved(req[r].row, req[r].service, req[r].user)
             e == [previous_status |-> req[r].row.status,
                   new_status |-> row.status, changed_by |-> req[r].user]
  <2>1. /\ req[r].row \in Row /\ req[r].service \in Services /\ req[r].user \in Users
        /\ InPhase(r, "locked")
    BY <1>0, <1>2, RequestType DEF Commit
  <2>2. /\ row.status = Target[req[r].service] /\ row.status \in OrderStatus
        /\ row.version = req[r].row.version + 1 /\ req[r].row.version \in Nat
    BY <2>1, SavedType DEF Row
  <2>3. e \in Entry
    BY <2>1, <2>2 DEF Entry, Row
  <2>4. /\ history'[o] = Append(history[o], e) /\ order'[o] = row
        /\ can_transition(req[r].row.status, Target[req[r].service])
    BY <1>0, <1>2 DEF Commit, TypeOK
  <2>5. req[r].row.version <= Len(history[o])
    BY <1>2, <2>1 DEF AdminInv, ReadsWithinTrail
  <2>6. can_transition(e.previous_status, e.new_status)
    BY <2>2, <2>4
  <2> HIDE DEF e, row
  <2> QED
    BY <1>0, <2>2, <2>3, <2>4, <2>5, <2>6 DEF AddsEntry
<1>3. ASSUME NEW p \in Orders, CreateOrder(p), p # o
      PROVE  order'[o] = order[o] /\ history'[o] = history[o]
  BY <1>0, <1>3 DEF CreateOrder, TypeOK
<1>4. ASSUME NEW r \in Requests, Commit(r), req[r].order # o
      PROVE  order'[o] = order[o] /\ history'[o] = history[o]
  BY <1>0, <1>4 DEF Commit, TypeOK
<1>5. CASE \E p \in Orders : CreateOrder(p)
  BY <1>1, <1>3, <1>5
<1>6. CASE \E r \in Requests : Commit(r)
  BY <1>2, <1>4, <1>6
<1>7. CASE UNCHANGED <<order, history>>
  BY <1>7
<1>8. \/ \E p \in Orders : CreateOrder(p)
      \/ \E r \in Requests : Commit(r)
      \/ UNCHANGED <<order, history>>
  <2>1. ASSUME NEW u \in Users, NEW p \in Orders, Staff(u, p)
        PROVE  UNCHANGED <<order, history>>
    BY <2>1 DEF Staff, ShowPage, PressButton, PostBare, Post
  <2>2. ASSUME NEW r \in Requests, Serve(r)
        PROVE  Commit(r) \/ UNCHANGED <<order, history>>
    BY <2>2 DEF Serve, LockRow, Finish, Conflict, InvalidTransition, Audit, Notify
  <2>3. CASE Crash
    BY <2>3 DEF Crash
  <2> QED
    BY <2>1, <2>2, <2>3 DEF Next
<1> QED
  BY <1>5, <1>6, <1>7, <1>8

\* What adding an entry does to the history.
LEMMA AddedEntry ==
  ASSUME TypeOK, NEW o \in Orders, NEW e \in Entry, AddsEntry(o, e)
  PROVE  /\ Len(history[o]) \in Nat /\ Len(history'[o]) = Len(history[o]) + 1
         /\ history'[o][Len(history[o]) + 1] = e
         /\ \A i \in 1..Len(history[o]) : history'[o][i] = history[o][i]
<1>1. history[o] \in Seq(Entry)
  BY DEF TypeOK
<1> QED
  BY <1>1 DEF AddsEntry

\* Histories only get longer.
LEMMA HistoriesGrow ==
  ASSUME AdminInv, Next, NEW o \in Orders
  PROVE  /\ Len(history[o]) \in Nat /\ Len(history'[o]) \in Nat
         /\ Len(history[o]) <= Len(history'[o])
         /\ order[o].version \in Nat /\ order'[o].version \in Nat
         /\ Exists(o) => order'[o].version > 0
         /\ order'[o].version <= Len(history'[o])
<1>1. TypeOK /\ TypeOK'
  BY TypeStep DEF AdminInv, AdminTypeOK
<1>2. /\ Len(history[o]) \in Nat /\ Len(history'[o]) \in Nat
      /\ order[o].version \in Nat /\ order'[o].version \in Nat
  BY <1>1 DEF TypeOK, Row
<1>3. order[o].version <= Len(history[o])
  BY DEF AdminInv, VersionWithinTrail
<1>4. ASSUME NEW e \in Entry, AddsEntry(o, e)
      PROVE  /\ Len(history'[o]) = Len(history[o]) + 1
             /\ order'[o].version > 0 /\ order'[o].version <= Len(history[o]) + 1
  BY <1>1, <1>4, AddedEntry DEF AddsEntry
<1> QED
  BY <1>2, <1>3, <1>4, WorkflowAdds

LEMMA WorkflowKeeps ==
  ASSUME AdminInv, Next, UNCHANGED <<form, edits>>
  PROVE  AdminInv'
<1>0. TypeOK /\ TypeOK' /\ AdminTypeOK /\ AdminTypeOK'
  BY TypeStep DEF AdminInv, AdminTypeOK
<1>1. OrdersStarted'
  <2> SUFFICES ASSUME NEW o \in Orders
               PROVE  IF order'[o].version > 0 THEN order'[o].status \in OrderStatus
                                               ELSE history'[o] = << >>
    BY DEF OrdersStarted
  <2> QED
    BY WorkflowAdds DEF AddsEntry, AdminInv, OrdersStarted
<1>2. EveryEntryAllowed'
  <2> SUFFICES ASSUME NEW o \in Orders, NEW i \in 2..Len(history'[o])
               PROVE  can_transition(history'[o][i].previous_status,
                                     history'[o][i].new_status)
    BY DEF EveryEntryAllowed
  <2>1. CASE history'[o] = history[o]
    BY <2>1 DEF AdminInv, EveryEntryAllowed
  <2>2. ASSUME NEW e \in Entry, AddsEntry(o, e)
        PROVE  can_transition(history'[o][i].previous_status,
                              history'[o][i].new_status)
    <3>1. /\ Len(history[o]) \in Nat /\ Len(history'[o]) = Len(history[o]) + 1
          /\ history'[o][Len(history[o]) + 1] = e
          /\ \A j \in 1..Len(history[o]) : history'[o][j] = history[o][j]
      BY <1>0, <2>2, AddedEntry
    <3>2. CASE i \in 2..Len(history[o])
      <4>1. history'[o][i] = history[o][i]
        BY <3>1, <3>2
      <4> QED
        BY <3>2, <4>1 DEF AdminInv, EveryEntryAllowed
    <3>3. CASE i = Len(history[o]) + 1
      <4>1. history[o] # << >>
        BY <3>1, <3>3
      <4> QED
        BY <2>2, <3>1, <3>3, <4>1 DEF AddsEntry
    <3> QED
      BY <3>1, <3>2, <3>3
  <2> QED
    BY <2>1, <2>2, WorkflowAdds
<1>3. VersionWithinTrail'
  <2>1. ASSUME NEW u \in Users, NEW o \in Orders
        PROVE  page'[u][o].version <= Len(history'[o])
    <3>1. page[u][o].version \in Nat /\ page[u][o].version <= Len(history[o])
      BY <1>0 DEF TypeOK, Shown, AdminInv, VersionWithinTrail
    <3>2. CASE page'[u][o] = page[u][o]
      BY <3>1, <3>2, HistoriesGrow
    <3>3. ASSUME NEW v \in Users, NEW p \in Orders, ShowPage(v, p)
          PROVE  page'[u][o].version <= Len(history'[o])
      <4>1. page'[u][o] = page[u][o] \/ page'[u][o].version = order[o].version
        BY <1>0, <3>3 DEF ShowPage, TypeOK
      <4>2. history' = history /\ order' = order
        BY <3>3 DEF ShowPage
      <4> QED
        BY <3>2, <4>1, <4>2, HistoriesGrow
    <3>4. ASSUME NEW v \in Users, NEW p \in Orders, Staff(v, p)
          PROVE  ShowPage(v, p) \/ page' = page
      BY <3>4 DEF Staff, PressButton, PostBare, Post
    <3>5. ASSUME NEW r \in Requests, Serve(r)
          PROVE  page' = page
      BY <3>5 DEF Serve, LockRow, Finish, Conflict, InvalidTransition, Commit,
         Audit, Notify
    <3>6. CASE (\E p \in Orders : CreateOrder(p)) \/ Crash
      BY <3>2, <3>6 DEF CreateOrder, Crash
    <3> QED
      BY <3>2, <3>3, <3>4, <3>5, <3>6 DEF Next
  <2> QED
    BY <2>1, HistoriesGrow DEF VersionWithinTrail
<1>4. ReadsWithinTrail'
  <2>1. ASSUME NEW r \in Requests, req'[r].phase = "locked"
        PROVE  req'[r].row.version <= Len(history'[req'[r].order])
    <3>1. CASE req'[r] = req[r]
      <4>1. req[r].order \in Orders /\ req[r].row.version \in Nat
        BY <1>0, <2>1, <3>1, RequestType DEF Row
      <4> QED
        BY <2>1, <3>1, <4>1, HistoriesGrow DEF AdminInv, ReadsWithinTrail
    <3>2. CASE LockRow(r)
      <4>1. req[r] \in Active /\ req[r].order \in Orders
        BY <1>0, <3>2, RequestType DEF LockRow
      <4>2. /\ req'[r].row = order[req[r].order] /\ req'[r].order = req[r].order
            /\ history' = history
        BY <1>0, <3>2, <4>1 DEF LockRow, TypeOK, Active
      <4> QED
        BY <4>1, <4>2 DEF AdminInv, VersionWithinTrail
    <3>3. CASE req' = req
      BY <3>1, <3>3
    <3>4. ASSUME NEW q \in Requests, NEW new, req' = [req EXCEPT ![q] = new],
                 q = r => new.phase # "locked"
          PROVE  req'[r] = req[r]
      BY <1>0, <2>1, <3>4 DEF TypeOK
    <3>5. ASSUME NEW q \in Requests, Serve(q), ~LockRow(q)
          PROVE  req'[r] = req[r]
      <4>1. Conflict(q) \/ InvalidTransition(q) \/ Notify(q) => req'[r] = req[r]
        BY <3>4 DEF Conflict, InvalidTransition, Notify, Respond, Idle
      <4>2. Commit(q) \/ Audit(q) => req'[r] = req[r]
        BY <1>0, <2>1, RequestType DEF Commit, Audit, TypeOK, Active
      <4> QED
        BY <3>5, <4>1, <4>2 DEF Serve, Finish
    <3>6. ASSUME NEW q \in Requests, LockRow(q), q # r
          PROVE  req'[r] = req[r]
      BY <1>0, <3>6 DEF LockRow, TypeOK
    <3>7. ASSUME NEW q \in Requests, NEW u \in Users, NEW o \in Orders,
                 NEW s \in Services, PressButton(q, u, o, s) \/ PostBare(q, u, o, s)
          PROVE  req'[r] = req[r]
      BY <3>4, <3>7 DEF PressButton, PostBare, Post
    <3> QED
      BY <2>1, <3>1, <3>2, <3>3, <3>5, <3>6, <3>7
      DEF Next, Staff, CreateOrder, ShowPage, Crash, Idle
  <2>2. ASSUME NEW a \in Admins, form'[a] # NoForm
        PROVE  /\ order'[form'[a].order].version > 0
               /\ form'[a].phase = "posted" =>
                    /\ form'[a].row.version > 0
                    /\ form'[a].row.version <= Len(history'[form'[a].order])
    <3>1. form'[a] = form[a] /\ form[a].order \in Orders /\ form[a].row.version \in Nat
      BY <1>0, <2>2, FormType DEF Row
    <3> QED
      BY <2>2, <3>1, HistoriesGrow DEF AdminInv, ReadsWithinTrail
  <2> QED
    BY <2>1, <2>2 DEF ReadsWithinTrail
<1> QED
  BY <1>0, <1>1, <1>2, <1>3, <1>4 DEF AdminInv

LEMMA AdminStarts == AdminInit => AdminInv
<1> SUFFICES ASSUME AdminInit PROVE AdminInv
  OBVIOUS
<1>1. AdminTypeOK
  BY TypeInit DEF AdminInit, AdminTypeOK, NoForm
<1>2. OrdersStarted /\ EveryEntryAllowed
  BY DEF AdminInit, Init, OrdersStarted, EveryEntryAllowed, NoRow
<1>3. VersionWithinTrail /\ ReadsWithinTrail
  BY DEF AdminInit, Init, VersionWithinTrail, ReadsWithinTrail, NoRow, Idle
<1> QED
  BY <1>1, <1>2, <1>3 DEF AdminInv

\* A form that is opened or posted holds what was read of the order.
LEMMA FormsKeep ==
  ASSUME AdminInv, NEW a \in Admins,
         \/ \E o \in Orders : OpenForm(a, o)
         \/ \E s \in OrderStatus : SubmitForm(a, s)
  PROVE  AdminInv'
<1>0. UNCHANGED vars /\ AdminTypeOK /\ TypeOK
  BY DEF OpenForm, SubmitForm, AdminInv, AdminTypeOK
<1>1. OrdersStarted' /\ EveryEntryAllowed' /\ VersionWithinTrail' /\ TypeOK'
  BY <1>0 DEF vars, AdminInv, OrdersStarted, EveryEntryAllowed, VersionWithinTrail,
              TypeOK, FollowUpsTyped, FollowUpsLeft
<1> DEFINE Held == /\ form'[a] \in Form /\ form' = [form EXCEPT ![a] = form'[a]]
                   /\ order[form'[a].order].version > 0
                   /\ form'[a].phase = "posted" =>
                        /\ form'[a].row.version > 0
                        /\ form'[a].row.version <= Len(history[form'[a].order])
                   /\ edits' \in 0..MaxEdits
<1>2. Held
  <2>1. ASSUME NEW o \in Orders, OpenForm(a, o) PROVE Held
    <3>1. NoRow \in Row
      BY DEF NoRow, Row, Never
    <3>2. order[o] \in Row /\ order[o].status \in OrderStatus
      BY <1>0, <2>1 DEF OpenForm, TypeOK, AdminInv, OrdersStarted
    <3> DEFINE f == [phase |-> "open", order |-> o, status |-> order[o].status,
                     confirmed_by |-> order[o].confirmed_by,
                     cancelled_by |-> order[o].cancelled_by, row |-> NoRow]
    <3>3. f \in Form
      BY <3>1, <3>2 DEF Form, Row
    <3>4. f.order = o /\ f.phase = "open"
      OBVIOUS
    <3>5. form' = [form EXCEPT ![a] = f] /\ form'[a] = f /\ edits' = edits
      BY <1>0, <2>1 DEF OpenForm, AdminTypeOK
    <3> HIDE DEF f
    <3> QED
      BY <1>0, <2>1, <3>3, <3>4, <3>5 DEF OpenForm, AdminTypeOK
  <2>2. ASSUME NEW s \in OrderStatus, SubmitForm(a, s) PROVE Held
    <3>0. /\ form[a].phase = "open" /\ edits < MaxEdits /\ edits' = edits + 1
          /\ form' = [form EXCEPT ![a].phase = "posted", ![a].status = s,
                                  ![a].row = order[form[a].order]]
      BY <2>2 DEF SubmitForm
    <3>1. form[a] # NoForm
      BY <3>0 DEF NoForm
    <3>2. form[a] \in Form /\ form[a].order \in Orders /\ Exists(form[a].order)
      BY <1>0, <3>1, FormType DEF AdminInv, ReadsWithinTrail
    <3>3. /\ order[form[a].order] \in Row /\ order[form[a].order].version > 0
          /\ order[form[a].order].version <= Len(history[form[a].order])
      BY <1>0, <3>2 DEF TypeOK, AdminInv, VersionWithinTrail
    <3> DEFINE f == [form[a] EXCEPT !.phase = "posted", !.status = s,
                                    !.row = order[form[a].order]]
    <3>4. f \in Form
      BY <3>2, <3>3 DEF Form
    <3>5. f.order = form[a].order /\ f.row = order[form[a].order]
      BY <3>2 DEF Form
    <3>6. form' = [form EXCEPT ![a] = f] /\ form'[a] = f
      <4>1. form' = [form EXCEPT ![a] = f]
        BY <1>0, <3>0, <3>2 DEF AdminTypeOK, Form
      <4> HIDE DEF f
      <4> QED
        BY <1>0, <4>1 DEF AdminTypeOK
    <3>7. edits' \in 0..MaxEdits
      BY <1>0, <3>0 DEF AdminTypeOK
    <3> HIDE DEF f
    <3> QED
      BY <3>2, <3>3, <3>4, <3>5, <3>6, <3>7
  <2> QED
    BY <2>1, <2>2
<1>3. AdminTypeOK'
  BY <1>0, <1>1, <1>2 DEF AdminTypeOK
<1>4. ReadsWithinTrail'
  BY <1>0, <1>2 DEF vars, AdminTypeOK, AdminInv, ReadsWithinTrail
<1> QED
  BY <1>1, <1>3, <1>4 DEF AdminInv

\* A saved form overwrites the row, but with a version that was once read.
LEMMA SavesKeep ==
  ASSUME AdminInv, NEW a \in Admins, SaveForm(a)
  PROVE  AdminInv'
<1> DEFINE o == form[a].order
           row == [form[a].row EXCEPT !.status = form[a].status,
                                      !.confirmed_by = form[a].confirmed_by,
                                      !.cancelled_by = form[a].cancelled_by]
<1>0. /\ AdminTypeOK /\ TypeOK /\ form[a] # NoForm
      /\ form' = [form EXCEPT ![a] = NoForm]
      /\ order' = [order EXCEPT ![o] = row]
      /\ UNCHANGED <<history, page, req, audit, sent, lost, edits>>
  BY DEF SaveForm, NoForm, AdminInv, AdminTypeOK
<1>1. /\ o \in Orders /\ Exists(o)
      /\ row \in Row /\ row.status \in OrderStatus
      /\ row.version = form[a].row.version
  BY <1>0, FormType DEF AdminInv, ReadsWithinTrail, Row
<1>2. row.version > 0 /\ row.version <= Len(history[o])
  BY <1>0, <1>1 DEF AdminInv, ReadsWithinTrail, SaveForm
<1> HIDE DEF row, o
<1>3. order'[o] = row /\ \A p \in Orders \ {o} : order'[p] = order[p]
  BY <1>0, <1>1 DEF TypeOK
<1>4. AdminTypeOK'
  BY <1>0, <1>1 DEF AdminTypeOK, TypeOK, FollowUpsTyped, FollowUpsLeft
<1>5. OrdersStarted' /\ EveryEntryAllowed'
  BY <1>0, <1>1, <1>2, <1>3 DEF AdminInv, OrdersStarted, EveryEntryAllowed
<1>6. VersionWithinTrail'
  BY <1>0, <1>1, <1>2, <1>3 DEF AdminInv, VersionWithinTrail
<1>7. ReadsWithinTrail'
  <2>1. ASSUME NEW b \in Admins, form'[b] # NoForm
        PROVE  form'[b] = form[b] /\ form[b].order \in Orders
    BY <1>0, <2>1, FormType DEF AdminTypeOK
  <2>2. \A p \in Orders : Exists(p) => order'[p].version > 0
    BY <1>2, <1>3
  <2> QED
    BY <1>0, <2>1, <2>2 DEF AdminInv, ReadsWithinTrail
<1> QED
  BY <1>4, <1>5, <1>6, <1>7 DEF AdminInv

LEMMA AdminKeeps == AdminInv /\ [AdminNext]_adminVars => AdminInv'
<1> SUFFICES ASSUME AdminInv, [AdminNext]_adminVars PROVE AdminInv'
  OBVIOUS
<1>1. CASE UNCHANGED adminVars
  BY <1>1 DEF adminVars, vars, AdminInv, AdminTypeOK, TypeOK, FollowUpsTyped,
              FollowUpsLeft, OrdersStarted, EveryEntryAllowed, VersionWithinTrail,
              ReadsWithinTrail
<1> QED
  BY <1>1, WorkflowKeeps, FormsKeep, SavesKeep DEF AdminNext, AdminStep

\* The invariant holds: services and saved forms keep it.
THEOREM AdminInvariance == AdminSpec => []AdminInv
<1> QED
  BY AdminStarts, AdminKeeps, PTL DEF AdminSpec

\* Every value stays in its range while forms and services write the same rows.
THEOREM AdminTypeCorrect == AdminSpec => []AdminTypeOK
<1> QED
  BY AdminInvariance, PTL DEF AdminInv

\* Whatever forms are saved over running transitions, every entry _transition
\* adds to a history is one that states.py allows.
THEOREM EntriesAlwaysAllowed == AdminSpec => []EveryEntryAllowed
<1> QED
  BY AdminInvariance, PTL DEF AdminInv

\* No form sets a version ahead of the history, so no page carries a version
\* that is still to come.
THEOREM VersionsAlwaysWithinTrail == AdminSpec => []VersionWithinTrail
<1> QED
  BY AdminInvariance, PTL DEF AdminInv
=============================================================================
