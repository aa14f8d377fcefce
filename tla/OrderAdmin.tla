----------------------------- MODULE OrderAdmin -----------------------------
(***************************************************************************)
(* OrderWorkflow with the change form that Django's admin site builds from *)
(* OrderAdmin (apps/orders/admin.py).  The form's editable fields include  *)
(* status, confirmed_by and cancelled_by; version and the timestamps are   *)
(* read-only.  A POST of the form reads the row without a lock, puts the   *)
(* form's values in it and saves every column; no service is called.       *)
(***************************************************************************)
EXTENDS OrderWorkflow

CONSTANTS
  Admins,         \* users of the admin site, one form each
  ChangesStatus,  \* whether administrators pick another status in the form
  MaxEdits        \* bound: how many forms are posted

ASSUME EditsAssumption == MaxEdits \in Nat /\ ChangesStatus \in BOOLEAN
\* A crash only loses forms being served; this module leaves it out.
ASSUME NoFaultsAssumption == ~Faults

VARIABLES
  form,    \* the change form on an administrator's screen, or being saved
  edits    \* how many forms have been posted

adminVars == <<vars, form, edits>>

\* closed; open with the values it was rendered with; posted and holding the
\* row read for the POST.
NoForm == [phase |-> "closed"]
Form == [phase : {"open", "posted"}, order : Orders, status : OrderStatus,
         confirmed_by : Users \cup {NoUser}, cancelled_by : Users \cup {NoUser},
         row : Row]

AdminTypeOK == /\ TypeOK
               /\ form \in [Admins -> Form \cup {NoForm}]
               /\ edits \in 0..MaxEdits

AdminInit == Init /\ form = [a \in Admins |-> NoForm] /\ edits = 0

OpenForm(a, o) ==
  /\ form[a] = NoForm
  /\ Exists(o)
  /\ form' = [form EXCEPT ![a] =
                [phase |-> "open", order |-> o, status |-> order[o].status,
                 confirmed_by |-> order[o].confirmed_by,
                 cancelled_by |-> order[o].cancelled_by, row |-> NoRow]]
  /\ UNCHANGED <<vars, edits>>

\* The administrator saves the form, with the status it shows or another; the
\* view reads the order it is about to change.
SubmitForm(a, status) ==
  /\ form[a].phase = "open"
  /\ edits < MaxEdits
  /\ ChangesStatus \/ status = form[a].status
  /\ form' = [form EXCEPT ![a].phase = "posted", ![a].status = status,
                          ![a].row = order[form[a].order]]
  /\ edits' = edits + 1
  /\ UNCHANGED vars

\* (mutant) a saved form counts as a version, though no history is recorded
SaveForm_BumpsVersion(a) ==
  LET f == form[a]
  IN /\ f.phase = "posted"
     /\ order' = [order EXCEPT ![f.order].status = f.status,
                               ![f.order].version = @ + 1]
     /\ form' = [form EXCEPT ![a] = NoForm]
     /\ UNCHANGED <<history, page, req, audit, sent, lost, edits>>

\* obj.save(): an UPDATE of every column, which waits for the row lock of a
\* transition but then overwrites what that transition wrote.
SaveForm(a) ==
  LET f == form[a]
  IN /\ f.phase = "posted"
     /\ \A r \in Requests : InPhase(r, "locked") => req[r].order # f.order
     /\ order' = [order EXCEPT ![f.order] =
                    [f.row EXCEPT !.status = f.status,
                                  !.confirmed_by = f.confirmed_by,
                                  !.cancelled_by = f.cancelled_by]]
     /\ form' = [form EXCEPT ![a] = NoForm]
     /\ UNCHANGED <<history, page, req, audit, sent, lost, edits>>

AdminStep ==
  \E a \in Admins : \/ \E o \in Orders : OpenForm(a, o)
                    \/ \E s \in OrderStatus : SubmitForm(a, s)
                    \/ SaveForm(a)

AdminNext == (Next /\ UNCHANGED <<form, edits>>) \/ AdminStep

AdminSpec == AdminInit /\ [][AdminNext]_adminVars

-----------------------------------------------------------------------------
\* Even with forms saved over running transitions, no history entry records a
\* change the state machine forbids: _transition judges the status it locked.
EveryEntryAllowed ==
  \A o \in Orders : \A i \in 2..Len(history[o]) :
    can_transition(history[o][i].previous_status, history[o][i].new_status)

\* A form can set an order's version back (it saves the version it read) but
\* never ahead of the history, so no page can carry a version still to come.
VersionWithinTrail ==
  /\ \A o \in Orders : order[o].version <= Len(history[o])
  /\ \A u \in Users, o \in Orders : page[u][o].version <= Len(history[o])

\* states.py on its table of transitions: "Any change not listed here is
\* rejected."  A form that shows an old status undoes what was done since,
\* without its administrator having touched the status.
OnlyListedChanges ==
  [][\A o \in Orders :
       Exists(o) /\ order'[o].status # order[o].status
         => can_transition(order[o].status, order'[o].status)]_adminVars
=============================================================================
