----------------------------- MODULE RateLimit -----------------------------
(***************************************************************************)
(* The brake on orders: _rate_limited (apps/orders/views.py).  It counts   *)
(* in django's default cache, a dictionary of the one server process, with *)
(* a get and a set that are two calls; requests run in threads.  Every set *)
(* lets the entry live for another minute.                                 *)
(*                                                                         *)
(* One address: behind nginx REMOTE_ADDR is nginx's for every guest.       *)
(***************************************************************************)
EXTENDS Naturals, Sequences, FiniteSets

CONSTANTS
  Requests,     \* slots for requests in flight
  LIMIT,        \* settings.GUEST_ORDER_RATE_LIMIT
  WINDOW,       \* the timeout of an entry (60 s), in ticks of the clock
  MaxTime,      \* bound: the last tick
  MaxPasses     \* bound: requests let through

ASSUME LimitAssumption == LIMIT \in Nat \ {0} /\ WINDOW \in Nat \ {0}
ASSUME BoundAssumption == MaxTime \in Nat /\ MaxPasses \in Nat

VARIABLES
  now,       \* the clock
  counter,   \* the entry order_rate:<address>
  req,       \* requests in _rate_limited
  passes     \* (ghost) the requests let through, in the order of their sets

vars == <<now, counter, req, passes>>

Idle == [phase |-> "idle"]

\* seen is what get answered.  The rest is ghost: when get was called, how many
\* requests had been let through by then, and whether no other request was
\* between its two calls at any time since.
Active == [phase : {"counted"}, seen : 0..LIMIT, began : 0..MaxTime,
           before : Nat, alone : BOOLEAN]
Pass == [began : 0..MaxTime, at : 0..MaxTime, alone : BOOLEAN]

TypeOK ==
  /\ now \in 0..MaxTime
  /\ counter \in [count : 0..LIMIT, until : Nat]
  /\ counter.until <= now + WINDOW
  /\ req \in [Requests -> Active \cup {Idle}]
  /\ passes \in Seq(Pass)
  /\ \A k \in DOMAIN passes : passes[k].began <= passes[k].at

Init ==
  /\ now = 0
  /\ counter = [count |-> 0, until |-> 0]
  /\ req = [r \in Requests |-> Idle]
  /\ passes = <<>>
-----------------------------------------------------------------------------
InFlight == {r \in Requests : req[r] # Idle}

\* cache.get(key, 0): an entry whose time is up is not there.
get == IF now < counter.until THEN counter.count ELSE 0

\* cache.set(key, n, timeout=60).
set(n) == counter' = [count |-> n, until |-> now + WINDOW]

\* Plausible bugs: one too many, one too few.
Limited_TooLate(n) == n > LIMIT
Limited_TooEarly(n) == n + 1 >= LIMIT

Limited(n) == n >= LIMIT

Count(r) ==
  /\ req[r] = Idle
  /\ Len(passes) < MaxPasses
  /\ req' = [q \in Requests |->
       IF q = r
       THEN [phase |-> "counted", seen |-> get, began |-> now,
             before |-> Len(passes), alone |-> InFlight = {}]
       ELSE IF req[q] = Idle THEN Idle ELSE [req[q] EXCEPT !.alone = FALSE]]
  /\ UNCHANGED <<now, counter, passes>>

Refuse(r) ==
  /\ req[r] # Idle
  /\ Limited(req[r].seen)
  /\ req' = [req EXCEPT ![r] = Idle]
  /\ UNCHANGED <<now, counter, passes>>

Let(r) ==
  /\ req[r] # Idle
  /\ ~Limited(req[r].seen)
  /\ set(req[r].seen + 1)
  /\ passes' = Append(passes, [began |-> req[r].began, at |-> now,
                               alone |-> req[r].alone])
  /\ req' = [req EXCEPT ![r] = Idle]
  /\ UNCHANGED now

Tick ==
  /\ now < MaxTime
  /\ now' = now + 1
  /\ UNCHANGED <<counter, req, passes>>

_rate_limited == \E r \in Requests : Count(r) \/ Refuse(r) \/ Let(r)

Next == _rate_limited \/ Tick

Spec == Init /\ [][Next]_vars
-----------------------------------------------------------------------------
(***************************************************************************)
(* Properties.                                                             *)
(***************************************************************************)

\* "orders per minute" (config/settings/base.py:151): of the requests that no
\* other one overlapped, at most LIMIT get through in any WINDOW, whatever
\* requests that did overlap have written over the counter in between.
WithinLimit ==
  \A t \in 0..now :
    Cardinality({k \in DOMAIN passes : /\ passes[k].alone
                                       /\ passes[k].at \in t..(t + WINDOW - 1)})
      <= LIMIT

\* The requests S got through one after the other, with less than a WINDOW
\* between one and the count of the next.
IsRun(S) ==
  \A k \in S : \/ \A j \in S : j >= k
               \/ \E j \in S : j < k /\ passes[k].began < passes[j].at + WINDOW

\* A request is refused only after LIMIT others got through in such a run, and
\* less than a WINDOW after the last of them: a quiet WINDOW opens the gate
\* again, but orders that keep coming may be refused when they are far fewer
\* than LIMIT per WINDOW.
RefusedAfterRun ==
  \A r \in InFlight : Limited(req[r].seen) =>
    LET n == req[r].before
    IN  \E S \in SUBSET (1..n) :
          /\ n \in S
          /\ Cardinality(S) >= LIMIT
          /\ IsRun(S)
          /\ req[r].began < passes[n].at + WINDOW
=============================================================================
