--------------------------- MODULE OrderWorkflow ---------------------------
(***************************************************************************)
(* The life of orders once they exist: staff look at order pages and       *)
(* boards, press buttons that post the version they were shown, and the    *)
(* services of apps/orders/services.py move the order under a row lock.    *)
(* Several requests run at once (Django views in a thread pool); the       *)
(* server may be killed between any two steps.                             *)
(*                                                                         *)
(* A timestamp column holds the version its transition produced, and Never *)
(* where the code has NULL: within an order, wall-clock order is version   *)
(* order, because both are taken under the row lock.                       *)
(***************************************************************************)
EXTENDS OrderStates, Naturals, Sequences

CONSTANTS
  Orders,      \* orders that may be placed
  Cashiers,    \* users with is_cashier
  Kitchen,     \* users with is_kitchen; an administrator is in both sets
  NoUser,      \* NULL in confirmed_by, cancelled_by and changed_by
  Requests,    \* slots for POSTs in flight
  BarePosts,   \* whether a POST may come without a version field
  Faults,      \* whether follow-ups may fail and the server may be killed
  MaxVersion   \* bound: nobody posts about an order at this version or beyond

Users == Cashiers \cup Kitchen

ASSUME RoleAssumption  == NoUser \notin Users
ASSUME FlagsAssumption == BarePosts \in BOOLEAN /\ Faults \in BOOLEAN
ASSUME BoundAssumption == MaxVersion \in Nat

VARIABLES
  order,     \* committed row of each order; version 0 before it is created
  history,   \* OrderStatusHistory of each order, oldest entry first
  page,      \* page[u][o]: status and version of o on u's screen
  req,       \* the POSTs in flight
  audit,     \* rows of the audit log
  sent,      \* events handed to the channel layer
  lost       \* (ghost) follow-ups that a crash or a swallowed error dropped

vars == <<order, history, page, req, audit, sent, lost>>
-----------------------------------------------------------------------------
(***************************************************************************)
(* The seven services.  Each is one call of _transition with its target    *)
(* and timestamp column, followed by _audit (three of them) and _notify.   *)
(***************************************************************************)
Services == {"confirm", "reject", "cancel", "start", "ready", "back", "serve"}
CashierServices == {"confirm", "reject", "cancel", "serve"}
KitchenServices == {"start", "ready", "back"}
\* (mutant) reject_order without its _audit call
AuditedServices_NoReject == {"confirm", "cancel"}
AuditedServices == {"confirm", "reject", "cancel"}

Target == [confirm |-> Confirmed, reject |-> Rejected, cancel |-> Cancelled,
           start |-> InPreparation, ready |-> Ready, back |-> InPreparation,
           serve |-> Served]

Event == [confirm |-> "order.confirmed", reject |-> "order.cancelled",
          cancel |-> "order.cancelled", start |-> "order.preparation_started",
          ready |-> "order.ready", back |-> "order.preparation_started",
          serve |-> "order.served"]

\* role_required on the views: who may call which service.
MayCall(u, s) == \/ u \in Cashiers /\ s \in CashierServices
                 \/ u \in Kitchen  /\ s \in KitchenServices

\* The statuses in which a page offers the button of a service.
ButtonShownIn == [confirm |-> {New}, reject |-> {New},
                  cancel  |-> OrderStatus \ CLOSED_STATUSES,
                  start   |-> {Confirmed}, ready |-> {InPreparation},
                  back    |-> {Ready}, serve |-> {Ready}]
-----------------------------------------------------------------------------
Never == 0

Row == [status : OrderStatus \cup {NoStatus}, version : Nat,
        confirmed_at : Nat, preparation_started_at : Nat, ready_at : Nat,
        served_at : Nat, cancelled_at : Nat,
        confirmed_by : Users \cup {NoUser}, cancelled_by : Users \cup {NoUser}]

NoRow == [status |-> NoStatus, version |-> 0,
          confirmed_at |-> Never, preparation_started_at |-> Never,
          ready_at |-> Never, served_at |-> Never, cancelled_at |-> Never,
          confirmed_by |-> NoUser, cancelled_by |-> NoUser]

\* The row create_order inserts.
NewRow == [NoRow EXCEPT !.status = New, !.version = 1]

Entry == [previous_status : OrderStatus \cup {NoStatus},
          new_status : OrderStatus, changed_by : Users \cup {NoUser}]

Shown == [status : OrderStatus \cup {NoStatus}, version : Nat]

\* A request: posted, then holding the row lock with the row it read, then
\* committed with _audit and _notify still to run on the row it saved.
\* expected is expected_version, 0 for None; seen is what the page displayed.
Idle == [phase |-> "idle"]
Active == [phase : {"posted", "locked", "audit", "notify"}, service : Services,
           user : Users, order : Orders, expected : Nat,
           seen : OrderStatus \cup {NoStatus}, row : Row]

\* A follow-up of a transition is named by the order and the version it made.
FollowUp == {"audit", "notify"} \X Orders \X Nat

InPhase(r, p) == req[r].phase = p
FollowUpsLeft(r) == InPhase(r, "audit") \/ InPhase(r, "notify")

AuditRecords == [order : Orders, version : Nat, user : Users,
                 action : AuditedServices]
Broadcasts == [order : Orders, version : Nat, status : OrderStatus,
               event : {"order.created"} \cup {Event[s] : s \in Services}]

\* A request past its commit has saved a row with a status, and only one of an
\* audited service is to call _audit.
FollowUpsTyped ==
  \A r \in Requests : FollowUpsLeft(r) =>
    /\ req[r].row.status \in OrderStatus
    /\ InPhase(r, "audit") => req[r].service \in AuditedServices

TypeOK ==
  /\ order \in [Orders -> Row]
  /\ history \in [Orders -> Seq(Entry)]
  /\ page \in [Users -> [Orders -> Shown]]
  /\ req \in [Requests -> Active \cup {Idle}]
  /\ audit \subseteq AuditRecords
  /\ sent \subseteq Broadcasts
  /\ lost \subseteq FollowUp
  /\ FollowUpsTyped

Init ==
  /\ order = [o \in Orders |-> NoRow]
  /\ history = [o \in Orders |-> << >>]
  /\ page = [u \in Users |-> [o \in Orders |->
                                [status |-> NoStatus, version |-> 0]]]
  /\ req = [r \in Requests |-> Idle]
  /\ audit = {}
  /\ sent = {}
  /\ lost = {}
-----------------------------------------------------------------------------
Exists(o) == order[o].version > 0

\* (mutant) the first history entry repeats the blank status
CreateOrder_BlankEntry(o) ==
  /\ ~Exists(o)
  /\ order' = [order EXCEPT ![o] = NewRow]
  /\ history' = [history EXCEPT ![o] =
                   Append(@, [previous_status |-> NoStatus,
                              new_status |-> NoStatus, changed_by |-> NoUser])]
  /\ UNCHANGED <<page, req, audit, sent, lost>>

\* create_order as others see it: one commit with the row, its first history
\* entry and its event (OrderCheckout has the steps inside it).
CreateOrder(o) ==
  /\ ~Exists(o)
  /\ order' = [order EXCEPT ![o] = NewRow]
  /\ history' = [history EXCEPT ![o] =
                   Append(@, [previous_status |-> NoStatus, new_status |-> New,
                              changed_by |-> NoUser])]
  /\ \/ /\ sent' = sent \cup {[order |-> o, version |-> 1, status |-> New,
                               event |-> "order.created"]}
        /\ UNCHANGED lost
     \/ /\ Faults
        /\ lost' = lost \cup {<<"notify", o, 1>>}
        /\ UNCHANGED sent
  /\ UNCHANGED <<page, req, audit>>

\* A board or a detail page is rendered (opened, polled or refreshed).
ShowPage(u, o) ==
  /\ Exists(o)
  /\ page' = [page EXCEPT ![u][o] = [status  |-> order[o].status,
                                     version |-> order[o].version]]
  /\ UNCHANGED <<order, history, req, audit, sent, lost>>

Post(r, u, o, s, expected, seen) ==
  /\ req[r] = Idle
  /\ MayCall(u, s)
  /\ req' = [req EXCEPT ![r] = [phase |-> "posted", service |-> s, user |-> u,
                                order |-> o, expected |-> expected,
                                seen |-> seen, row |-> NoRow]]
  /\ UNCHANGED <<order, history, page, audit, sent, lost>>

\* A button is pressed; its form carries the version the page was given.
\* Pressing twice, or on a page that is out of date, is not prevented.
PressButton(r, u, o, s) ==
  /\ page[u][o].version \in 1..(MaxVersion - 1)
  /\ page[u][o].status \in ButtonShownIn[s]
  /\ Post(r, u, o, s, page[u][o].version, page[u][o].status)

\* A POST without a version field: _version answers None.
PostBare(r, u, o, s) ==
  /\ BarePosts
  /\ order[o].version \in 1..(MaxVersion - 1)
  /\ Post(r, u, o, s, 0, NoStatus)
-----------------------------------------------------------------------------
\* (mutant) the row is read without FOR UPDATE
LockRow_NoWait(r) ==
  /\ InPhase(r, "posted")
  /\ req' = [req EXCEPT ![r].phase = "locked", ![r].row = order[req[r].order]]
  /\ UNCHANGED <<order, history, page, audit, sent, lost>>

\* _transition: SELECT ... FOR UPDATE.  Waits while another holds the row.
LockRow(r) ==
  /\ InPhase(r, "posted")
  /\ \A q \in Requests : InPhase(q, "locked") => req[q].order # req[r].order
  /\ req' = [req EXCEPT ![r].phase = "locked", ![r].row = order[req[r].order]]
  /\ UNCHANGED <<order, history, page, audit, sent, lost>>

\* (mutant) the version field is ignored
VersionMatches_Ignored(q) == TRUE
\* (mutant) compared with the version the transition is about to write
VersionMatches_AfterBump(q) == q.expected # 0 => q.row.version + 1 = q.expected

VersionMatches(q) == q.expected # 0 => q.row.version = q.expected

Respond(r) == req' = [req EXCEPT ![r] = Idle]

\* (mutant) the conflict is raised but the transaction is left open
Conflict_KeepsLock(r) ==
  InPhase(r, "locked") /\ ~VersionMatches(req[r]) /\ UNCHANGED vars

\* OrderConflictError: the transaction rolls back, the row lock is released.
Conflict(r) ==
  /\ InPhase(r, "locked")
  /\ ~VersionMatches(req[r])
  /\ Respond(r)
  /\ UNCHANGED <<order, history, page, audit, sent, lost>>

\* InvalidStatusTransition: likewise.
InvalidTransition(r) ==
  /\ InPhase(r, "locked")
  /\ VersionMatches(req[r])
  /\ ~can_transition(req[r].row.status, Target[req[r].service])
  /\ Respond(r)
  /\ UNCHANGED <<order, history, page, audit, sent, lost>>

\* (mutants) no version bump; a rejection not stamped; return_to_preparation
\* stamping preparation_started_at as start_order_preparation does, or going
\* back to CONFIRMED
Saved_NoBump(row, s, u) ==
  [row EXCEPT !.status = Target[s],
              !.confirmed_by = IF s = "confirm" THEN u ELSE @]
Saved_RejectUnsigned(row, s, u) ==
  [row EXCEPT !.status = Target[s],
              !.version = @ + 1,
              !.confirmed_at = IF s = "confirm" THEN row.version + 1 ELSE @,
              !.confirmed_by = IF s = "confirm" THEN u ELSE @]
Saved_BackRestamps(row, s, u) ==
  [row EXCEPT !.status = Target[s],
              !.version = @ + 1,
              !.preparation_started_at =
                 IF Target[s] = InPreparation THEN row.version + 1 ELSE @]
Saved_BackToConfirmed(row, s, u) ==
  [row EXCEPT !.status = IF s = "back" THEN Confirmed ELSE Target[s],
              !.version = @ + 1]

\* The row that service s of user u saves over row.
Saved(row, s, u) ==
  LET v == row.version + 1
      t == Target[s]
  IN [status |-> t,
      version |-> v,
      confirmed_at |-> IF s = "confirm" THEN v ELSE row.confirmed_at,
      preparation_started_at |-> IF s = "start" THEN v
                                   ELSE row.preparation_started_at,
      ready_at |-> IF s = "ready" THEN v ELSE row.ready_at,
      served_at |-> IF s = "serve" THEN v ELSE row.served_at,
      cancelled_at |-> IF t \in {Cancelled, Rejected} THEN v
                         ELSE row.cancelled_at,
      confirmed_by |-> IF t = Confirmed THEN u ELSE row.confirmed_by,
      cancelled_by |-> IF t \in {Cancelled, Rejected} THEN u
                         ELSE row.cancelled_by]

\* The transition commits: row and history entry together.
Commit(r) ==
  LET q   == req[r]
      new == Saved(q.row, q.service, q.user)
  IN /\ InPhase(r, "locked")
     /\ VersionMatches(q)
     /\ can_transition(q.row.status, Target[q.service])
     /\ order' = [order EXCEPT ![q.order] = new]
     /\ history' = [history EXCEPT ![q.order] =
                      Append(@, [previous_status |-> q.row.status,
                                 new_status |-> new.status,
                                 changed_by |-> q.user])]
     /\ req' = [req EXCEPT ![r].phase = IF q.service \in AuditedServices
                                          THEN "audit" ELSE "notify",
                           ![r].row = new]
     /\ UNCHANGED <<page, audit, sent, lost>>

\* _audit, after the commit; its exceptions are swallowed.
Audit(r) ==
  LET q == req[r]
  IN /\ InPhase(r, "audit")
     /\ req' = [req EXCEPT ![r].phase = "notify"]
     /\ \/ /\ audit' = audit \cup {[order |-> q.order, user |-> q.user,
                                    version |-> q.row.version,
                                    action |-> q.service]}
           /\ UNCHANGED lost
        \/ /\ Faults
           /\ lost' = lost \cup {<<"audit", q.order, q.row.version>>}
           /\ UNCHANGED audit
     /\ UNCHANGED <<order, history, page, sent>>

\* _notify, last; its exceptions are swallowed; then the redirect is answered.
Notify(r) ==
  LET q == req[r]
  IN /\ InPhase(r, "notify")
     /\ Respond(r)
     /\ \/ /\ sent' = sent \cup {[order |-> q.order, status |-> q.row.status,
                                  version |-> q.row.version,
                                  event |-> Event[q.service]]}
           /\ UNCHANGED lost
        \/ /\ Faults
           /\ lost' = lost \cup {<<"notify", q.order, q.row.version>>}
           /\ UNCHANGED sent
     /\ UNCHANGED <<order, history, page, audit>>

\* What request r still has to do after its commit.
Pending(r) ==
  {<<f, req[r].order, req[r].row.version>> : f \in
     IF InPhase(r, "audit") THEN {"audit", "notify"} ELSE {"notify"}}

\* The server process is killed: open transactions roll back, committed ones
\* stand, and whatever was to follow them never happens.
Crash ==
  /\ Faults
  /\ req' = [r \in Requests |-> Idle]
  /\ lost' = lost \cup UNION {Pending(r) : r \in {q \in Requests : FollowUpsLeft(q)}}
  /\ UNCHANGED <<order, history, page, audit, sent>>
-----------------------------------------------------------------------------
Finish(r) == Conflict(r) \/ InvalidTransition(r) \/ Commit(r)

Serve(r) == LockRow(r) \/ Finish(r) \/ Audit(r) \/ Notify(r)

Staff(u, o) ==
  \/ ShowPage(u, o)
  \/ \E r \in Requests, s \in Services :
       PressButton(r, u, o, s) \/ PostBare(r, u, o, s)

Next == \/ \E o \in Orders : CreateOrder(o)
        \/ \E u \in Users, o \in Orders : Staff(u, o)
        \/ \E r \in Requests : Serve(r)
        \/ Crash

Spec == Init /\ [][Next]_vars

\* A thread that can run does; PostgreSQL queues waiters on a row lock, so one
\* that keeps finding the row free between other holders gets it.
Fairness == \A r \in Requests : /\ SF_vars(LockRow(r))
                                /\ WF_vars(Finish(r))
                                /\ WF_vars(Audit(r))
                                /\ WF_vars(Notify(r))

FairSpec == Spec /\ Fairness
-----------------------------------------------------------------------------
(***************************************************************************)
(* Properties.                                                             *)
(***************************************************************************)

\* The row and the history never disagree: an order has as many history
\* entries as its version says and its status is the last one's, although
\* _transition writes them in two statements of a transaction.
RowMatchesTrail ==
  \A o \in Orders :
    /\ order[o].version = Len(history[o])
    /\ IF Exists(o)
         THEN order[o].status = history[o][order[o].version].new_status
         ELSE order[o] = NoRow

\* Entry i of a history continues entry i - 1 by an allowed transition.
Continues(h, i) ==
  /\ h[i].previous_status = IF i = 1 THEN NoStatus ELSE h[i - 1].new_status
  /\ IF i = 1 THEN h[i].new_status = New
              ELSE can_transition(h[i].previous_status, h[i].new_status)

\* Whatever requests race, each order's history is one unbroken walk through
\* the state machine from its creation: no entry starts from a status the
\* order had already left (a lost update).
LegalTrail == \A o \in Orders :
                \A i \in 1..Len(history[o]) : Continues(history[o], i)

\* Whoever holds the row lock of an order is alone in holding it, and decides
\* and saves on the row that is committed: nothing changes under it.
LockHolderIsCurrent ==
  \A r \in Requests : InPhase(r, "locked") =>
    /\ req[r].row = order[req[r].order]
    /\ \A q \in Requests :
         InPhase(q, "locked") /\ req[q].order = req[r].order => q = r

\* h had the given status at the given version.
WasAt(h, version, status) ==
  version \in 1..Len(h) /\ h[version].new_status = status

\* What a page shows, and what a post says was shown, is the order as it was
\* at that version, however old the page: a version names one status.
PagesArePast ==
  /\ \A u \in Users, o \in Orders : page[u][o].version # 0 =>
       WasAt(history[o], page[u][o].version, page[u][o].status)
  /\ \A r \in Requests : req[r] # Idle =>
       /\ Exists(req[r].order)
       /\ req[r].expected # 0 =>
            WasAt(history[req[r].order], req[r].expected, req[r].seen)

\* The versions at which o entered one of the statuses in S.
Entered(o, S) == {i \in 1..Len(history[o]) : history[o][i].new_status \in S}

\* A timestamp column holds the latest entry into S, a *_by column its author.
StampedLast(o, at, S) ==
  IF at = Never THEN Entered(o, S) = {}
                ELSE at \in Entered(o, S) /\ \A i \in Entered(o, S) : i <= at
SignedBy(o, at, by) ==
  by = IF at = Never THEN NoUser ELSE history[o][at].changed_by

\* The timestamps and signatures of the row tell the same story as the
\* history: confirmed, ready, served and cancelled each at the last time the
\* order got there, by the user who took it there, and NULL if it never did;
\* so an order is never both served and cancelled.
StampsMatchTrail ==
  \A o \in Orders :
    LET row == order[o]
    IN /\ StampedLast(o, row.confirmed_at, {Confirmed})
       /\ StampedLast(o, row.ready_at, {Ready})
       /\ StampedLast(o, row.served_at, {Served})
       /\ StampedLast(o, row.cancelled_at, {Cancelled, Rejected})
       /\ SignedBy(o, row.confirmed_at, row.confirmed_by)
       /\ SignedBy(o, row.cancelled_at, row.cancelled_by)
       /\ row.served_at = Never \/ row.cancelled_at = Never

\* When all posts come from pages, preparation_started_at is the first time
\* the kitchen started, however often the order is sent back: the kitchen
\* board sorts by it.  (A post without a version can send back a confirmed
\* order, which starts it with no timestamp.)
PreparationStartKept ==
  \A o \in Orders :
    LET at == order[o].preparation_started_at
        starts == Entered(o, {InPreparation})
    IN IF at = Never THEN starts = {}
                     ELSE at \in starts /\ \A i \in starts : at <= i

\* What must follow each commit: a broadcast, and an audit record when the
\* order was confirmed, rejected or cancelled.
Due == UNION {{<<"notify", o, i>> : i \in 1..Len(history[o])} \cup
              {<<"audit", o, i>> : i \in Entered(o, {Confirmed, Rejected, Cancelled})}
              : o \in Orders}

Done == {<<"audit", a.order, a.version>> : a \in audit} \cup
        {<<"notify", e.order, e.version>> : e \in sent}

InHand == UNION {Pending(r) : r \in {q \in Requests : FollowUpsLeft(q)}}

\* Follow-ups run outside the transaction, so each one due is done, still in
\* the hands of the request that committed, or lost to a fault: never two of
\* these, and never done for a transition that did not happen.  An audit
\* record names the user and a broadcast the status of its transition.
FollowUpsAccounted ==
  /\ Due = Done \cup InHand \cup lost
  /\ Done \cap InHand = {} /\ Done \cap lost = {} /\ InHand \cap lost = {}
  /\ \A a \in audit :
       /\ history[a.order][a.version].changed_by = a.user
       /\ history[a.order][a.version].new_status = Target[a.action]
  /\ \A e \in sent : history[e.order][e.version].new_status = e.status

Commits(r) == InPhase(r, "locked") /\ req'[r].phase \in {"audit", "notify"}

\* Optimistic locking: a transition asked for from a page happens only if the
\* order is, at the commit, in the status the user was looking at when
\* pressing the button.
ActsOnWhatWasShown ==
  [][\A r \in Requests :
       Commits(r) /\ req[r].expected # 0
         => order[req[r].order].status = req[r].seen]_vars

\* A user is told that somebody else changed the order (OrderConflictError)
\* only when somebody did, after the page they acted on was made.
ConflictIsReal ==
  [][\A r \in Requests :
       Conflict(r) => Len(history[req[r].order]) > req[r].expected]_vars

\* A served, cancelled or rejected order never changes again, in no column,
\* whichever requests were under way when it was closed.
ClosedIsFinal ==
  [][\A o \in Orders : order[o].status \in CLOSED_STATUSES
       => order'[o] = order[o] /\ history'[o] = history[o]]_vars

\* The workflow implements the order life cycle it promises.
Lifecycle == INSTANCE OrderLifecycle WITH
  status <- [o \in Orders |-> order[o].status],
  trail  <- [o \in Orders |-> [i \in 1..Len(history[o]) |->
                                 history[o][i].new_status]]
LifecycleSpec == Lifecycle!Spec

\* Every post is answered: no request waits for a row lock for ever.
EveryPostAnswered ==
  \A r \in Requests : InPhase(r, "posted") ~> InPhase(r, "idle")
=============================================================================
