--------------------------- MODULE RateLimit_proofs ---------------------------
(***************************************************************************)
(* What the brake on orders promises, for any number of threads and any    *)
(* limit and window.  WithinLimit needs that the counter never falls below *)
(* the number of requests that got through alone in the window, although   *)
(* overlapping requests write over it: they all began after the last of    *)
(* those, so what they read was counted with it.                           *)
(***************************************************************************)
EXTENDS RateLimit, FiniteSetTheorems, SequenceTheorems, TLAPS

\* Times go forward, and the entry lives for a WINDOW after the last pass.
Clock ==
  /\ \A r \in InFlight : req[r].began <= now
  /\ \A k \in 1..Len(passes) : passes[k].at <= now
  /\ \A j, k \in 1..Len(passes) : j <= k => passes[j].at <= passes[k].at
  /\ IF Len(passes) = 0 THEN counter.count = 0
     ELSE counter.until = passes[Len(passes)].at + WINDOW

\* c requests or more got through in a run that ends with pass n.
HasRun(n, c) == \E S \in SUBSET (1..n) : n \in S /\ Cardinality(S) >= c /\ IsRun(S)

\* A count comes of a run: the entry's of one that ends with the last pass, one
\* that was read of one that ends with the last pass then.
CountsAreRuns ==
  /\ counter.count > 0 => HasRun(Len(passes), counter.count)
  /\ \A r \in InFlight :
       /\ req[r].before <= Len(passes)
       /\ req[r].seen > 0 => /\ HasRun(req[r].before, req[r].seen)
                             /\ req[r].began < passes[req[r].before].at + WINDOW

AloneIsAlone == \A r, q \in InFlight : req[r].alone => q = r

\* The passes WithinLimit counts.
Passed(t) == {k \in DOMAIN passes : /\ passes[k].alone
                                    /\ passes[k].at \in t..(t + WINDOW - 1)}

\* In a window that is open, neither the entry nor what was read from it is less
\* than the number of those passes.
CountsEnough ==
  \A t \in 0..now : now < t + WINDOW /\ Passed(t) # {} =>
    /\ counter.count >= Cardinality(Passed(t))
    /\ \A r \in InFlight : req[r].seen >= Cardinality(Passed(t))

IInv == TypeOK /\ Clock /\ CountsAreRuns /\ AloneIsAlone /\ CountsEnough /\ WithinLimit
-----------------------------------------------------------------------------
LEMMA Constants == LIMIT \in Nat /\ LIMIT > 0 /\ WINDOW \in Nat /\ WINDOW > 0 /\ MaxTime \in Nat
BY LimitAssumption, BoundAssumption

LEMMA RequestType ==
  ASSUME TypeOK
  PROVE  /\ InFlight \subseteq Requests
         /\ \A r \in InFlight :
              /\ req[r] \in Active
              /\ req[r].seen \in 0..LIMIT /\ req[r].began \in Nat /\ req[r].before \in Nat
              /\ req[r].alone \in BOOLEAN
         /\ counter.count \in 0..LIMIT /\ counter.until \in Nat /\ now \in Nat
         /\ Len(passes) \in Nat /\ DOMAIN passes = 1..Len(passes)
         /\ \A k \in 1..Len(passes) :
              passes[k].began \in Nat /\ passes[k].at \in Nat /\ passes[k].alone \in BOOLEAN
<1>1. ASSUME NEW r \in InFlight
      PROVE  /\ req[r] \in Active
             /\ req[r].seen \in 0..LIMIT /\ req[r].began \in Nat /\ req[r].before \in Nat
             /\ req[r].alone \in BOOLEAN
  <2>1. req[r] \in Active
    BY DEF TypeOK, InFlight
  <2> QED
    BY <2>1, Constants DEF Active
<1>2. /\ counter.count \in 0..LIMIT /\ counter.until \in Nat /\ now \in Nat
      /\ Len(passes) \in Nat /\ DOMAIN passes = 1..Len(passes)
  BY Constants DEF TypeOK
<1>3. ASSUME NEW k \in 1..Len(passes)
      PROVE  passes[k].began \in Nat /\ passes[k].at \in Nat /\ passes[k].alone \in BOOLEAN
  <2>1. passes[k] \in Pass
    BY DEF TypeOK
  <2> QED
    BY <2>1, Constants DEF Pass
<1> QED
  BY <1>1, <1>2, <1>3 DEF InFlight

\* What get answers: the count of a pass less than a WINDOW ago, or nothing.
LEMMA GetType ==
  ASSUME TypeOK
  PROVE  get \in 0..LIMIT /\ (get > 0 => get = counter.count /\ now < counter.until)
BY Constants, RequestType DEF get

\* The requests in flight after a Count: the new one, and the others, which are
\* not alone any more.
LEMMA CountAdds ==
  ASSUME TypeOK, NEW r \in Requests, Count(r)
  PROVE  /\ InFlight' = InFlight \cup {r} /\ r \notin InFlight
         /\ req'[r].seen = get /\ req'[r].began = now /\ req'[r].before = Len(passes)
         /\ req'[r].alone = (InFlight = {})
         /\ \A q \in InFlight :
              /\ req'[q] \in Active /\ ~req'[q].alone
              /\ req'[q].seen = req[q].seen /\ req'[q].began = req[q].began
              /\ req'[q].before = req[q].before
         /\ req' \in [Requests -> Active \cup {Idle}]
<1> DEFINE new == [phase |-> "counted", seen |-> get, began |-> now,
                   before |-> Len(passes), alone |-> InFlight = {}]
<1>1. /\ req[r] = Idle
      /\ req' = [q \in Requests |->
           IF q = r THEN new
           ELSE IF req[q] = Idle THEN Idle ELSE [req[q] EXCEPT !.alone = FALSE]]
  BY DEF Count
<1>2. new \in Active
  BY GetType, RequestType DEF Active, TypeOK
<1>3. new # Idle /\ \A x \in Active : x # Idle
  BY DEF Idle, Active
<1>4. ASSUME NEW q \in InFlight
      PROVE  /\ [req[q] EXCEPT !.alone = FALSE] \in Active
             /\ req'[q] = [req[q] EXCEPT !.alone = FALSE]
             /\ req'[q] \in Active /\ ~req'[q].alone
             /\ req'[q].seen = req[q].seen /\ req'[q].began = req[q].began
             /\ req'[q].before = req[q].before
  <2>1. req[q] \in Active /\ q \in Requests /\ q # r /\ req[q] # Idle
    BY <1>1, RequestType DEF InFlight
  <2>2. req'[q] = [req[q] EXCEPT !.alone = FALSE]
    BY <1>1, <2>1
  <2> QED
    BY <2>1, <2>2 DEF Active
<1> HIDE DEF new
<1>5. req'[r] = new
  BY <1>1
<1>6. \A q \in Requests : q # r /\ q \notin InFlight => req'[q] = Idle
  BY <1>1 DEF InFlight
<1>7. InFlight' = InFlight \cup {r} /\ r \notin InFlight
  BY <1>1, <1>3, <1>4, <1>5, <1>6, RequestType DEF InFlight
<1>8. req' \in [Requests -> Active \cup {Idle}]
  BY <1>1, <1>2, <1>4, <1>5, <1>6
<1>9. /\ req'[r].seen = get /\ req'[r].began = now /\ req'[r].before = Len(passes)
      /\ req'[r].alone = (InFlight = {})
  BY <1>5 DEF new
<1> QED
  BY <1>4, <1>7, <1>8, <1>9

\* A request that is done is no longer in flight, and the others are as before.
LEMMA EndRemoves ==
  ASSUME TypeOK, NEW r \in Requests, req' = [req EXCEPT ![r] = Idle]
  PROVE  /\ InFlight' = InFlight \ {r}
         /\ \A q \in InFlight' : req'[q] = req[q]
         /\ req' \in [Requests -> Active \cup {Idle}]
BY DEF TypeOK, InFlight

\* What a Let adds to the passes.
LEMMA LetAppends ==
  ASSUME TypeOK, NEW r \in Requests, Let(r)
  PROVE  /\ r \in InFlight /\ req[r].seen < LIMIT
         /\ counter' = [count |-> req[r].seen + 1, until |-> now + WINDOW]
         /\ Len(passes') = Len(passes) + 1
         /\ \A k \in 1..Len(passes) : passes'[k] = passes[k]
         /\ passes'[Len(passes) + 1].began = req[r].began
         /\ passes'[Len(passes) + 1].at = now
         /\ passes'[Len(passes) + 1].alone = req[r].alone
         /\ passes' \in Seq(Pass)
<1>1. r \in InFlight /\ req[r].seen < LIMIT
  <2>1. r \in InFlight
    BY DEF Let, InFlight
  <2> QED
    BY <2>1, RequestType, Constants DEF Let, Limited
<1> DEFINE new == [began |-> req[r].began, at |-> now, alone |-> req[r].alone]
<1>2. new \in Pass
  <2>1. req[r] \in Active
    BY <1>1, RequestType
  <2> QED
    BY <2>1 DEF Pass, Active, TypeOK
<1>3. passes' = Append(passes, new) /\ passes \in Seq(Pass)
  BY DEF Let, TypeOK
<1> HIDE DEF new
<1>4. /\ Len(passes') = Len(passes) + 1
      /\ \A k \in 1..Len(passes) : passes'[k] = passes[k]
      /\ passes'[Len(passes) + 1] = new
      /\ passes' \in Seq(Pass)
  BY <1>2, <1>3, AppendProperties
<1>5. /\ new.began = req[r].began /\ new.at = now /\ new.alone = req[r].alone
  BY DEF new
<1>6. counter' = [count |-> req[r].seen + 1, until |-> now + WINDOW]
  BY DEF Let, set
<1> QED
  BY <1>1, <1>4, <1>5, <1>6
-----------------------------------------------------------------------------
(***************************************************************************)
(* Types and times.                                                        *)
(***************************************************************************)

LEMMA TypeStep == TypeOK /\ Clock /\ [Next]_vars => TypeOK' /\ Clock'
<1> SUFFICES ASSUME TypeOK, Clock, [Next]_vars PROVE TypeOK' /\ Clock'
  OBVIOUS
<1>0. now \in Nat /\ WINDOW \in Nat /\ Len(passes) \in Nat /\ counter.until \in Nat
  BY RequestType, Constants
<1>1. ASSUME NEW r \in Requests, Count(r) PROVE TypeOK' /\ Clock'
  <2>1. UNCHANGED <<now, counter, passes>>
    BY <1>1 DEF Count
  <2>2. TypeOK'
    BY <1>1, <2>1, CountAdds DEF TypeOK
  <2>3. \A q \in InFlight' : req'[q].began <= now'
    <3>1. /\ InFlight' = InFlight \cup {r} /\ req'[r].began = now
          /\ \A q \in InFlight : req'[q].began = req[q].began
      BY <1>1, CountAdds
    <3>2. \A q \in InFlight : req[q].began <= now
      BY DEF Clock
    <3>3. now <= now
      BY <1>0
    <3> QED
      BY <2>1, <3>1, <3>2, <3>3
  <2> QED
    BY <2>1, <2>2, <2>3 DEF Clock
<1>2. ASSUME NEW r \in Requests, Refuse(r) PROVE TypeOK' /\ Clock'
  <2>1. UNCHANGED <<now, counter, passes>> /\ req' = [req EXCEPT ![r] = Idle]
    BY <1>2 DEF Refuse
  <2>2. TypeOK'
    BY <2>1, EndRemoves DEF TypeOK
  <2>3. \A q \in InFlight' : req'[q].began <= now'
    <3>1. /\ InFlight' = InFlight \ {r}
          /\ \A q \in InFlight' : req'[q] = req[q]
      BY <2>1, EndRemoves
    <3>2. \A q \in InFlight : req[q].began <= now
      BY DEF Clock
    <3> QED
      BY <2>1, <3>1, <3>2
  <2> QED
    BY <2>1, <2>2, <2>3 DEF Clock
<1>3. ASSUME NEW r \in Requests, Let(r) PROVE TypeOK' /\ Clock'
  <2>1. now' = now /\ req' = [req EXCEPT ![r] = Idle]
    BY <1>3 DEF Let
  <2>2. /\ r \in InFlight /\ req[r].seen \in Nat /\ req[r].seen < LIMIT
        /\ req[r].began <= now
    <3>1. r \in InFlight /\ req[r].seen < LIMIT
      BY <1>3, LetAppends
    <3>2. req[r].seen \in Nat
      BY <3>1, RequestType
    <3>3. req[r].began <= now
      BY <3>1 DEF Clock
    <3> QED
      BY <3>1, <3>2, <3>3
  <2>3. /\ Len(passes') = Len(passes) + 1 /\ passes' \in Seq(Pass)
        /\ \A k \in 1..Len(passes) : passes'[k] = passes[k]
        /\ passes'[Len(passes) + 1].at = now
        /\ passes'[Len(passes) + 1].began = req[r].began
    BY <1>3, LetAppends
  <2>4. counter'.count = req[r].seen + 1 /\ counter'.until = now + WINDOW
        /\ counter' = [count |-> req[r].seen + 1, until |-> now + WINDOW]
    <3>1. counter' = [count |-> req[r].seen + 1, until |-> now + WINDOW]
      BY <1>3, LetAppends
    <3> QED
      BY <3>1
  <2>5. counter' \in [count : 0..LIMIT, until : Nat] /\ counter'.until <= now' + WINDOW
    <3>1. req[r].seen + 1 \in 0..LIMIT /\ now + WINDOW \in Nat
      BY <1>0, <2>2, Constants
    <3>2. counter' \in [count : 0..LIMIT, until : Nat]
      BY <2>4, <3>1
    <3> QED
      BY <1>0, <2>1, <2>4, <3>1, <3>2
  <2>6. \A k \in 1..Len(passes') :
          /\ passes'[k].began <= passes'[k].at
          /\ passes'[k].at <= now
    <3> TAKE k \in 1..Len(passes')
    <3>1. CASE k = Len(passes) + 1
      BY <1>0, <2>2, <2>3, <3>1
    <3>2. CASE k \in 1..Len(passes)
      BY <2>3, <3>2, RequestType DEF Clock, TypeOK
    <3> QED
      BY <1>0, <2>3, <3>1, <3>2
  <2>7. \A j, k \in 1..Len(passes') : j <= k => passes'[j].at <= passes'[k].at
    <3> SUFFICES ASSUME NEW j \in 1..Len(passes'), NEW k \in 1..Len(passes'), j <= k
                 PROVE  passes'[j].at <= passes'[k].at
      OBVIOUS
    <3>1. CASE k = Len(passes) + 1
      BY <2>3, <2>6, <3>1
    <3>2. CASE k \in 1..Len(passes)
      <4>1. j \in 1..Len(passes)
        BY <1>0, <3>2
      <4> QED
        BY <2>3, <3>2, <4>1 DEF Clock
    <3> QED
      BY <1>0, <2>3, <3>1, <3>2
  <2>8. /\ DOMAIN passes' = 1..Len(passes') /\ Len(passes') # 0
        /\ counter'.until = passes'[Len(passes')].at + WINDOW
    BY <1>0, <2>3, <2>4
  <2>9. \A q \in InFlight' : req'[q].began <= now'
    <3>1. /\ InFlight' = InFlight \ {r}
          /\ \A q \in InFlight' : req'[q] = req[q]
      BY <2>1, EndRemoves
    <3>2. \A q \in InFlight : req[q].began <= now
      BY DEF Clock
    <3> QED
      BY <2>1, <3>1, <3>2
  <2>10. req' \in [Requests -> Active \cup {Idle}]
    BY <2>1, EndRemoves
  <2>11. TypeOK'
    BY <2>1, <2>3, <2>5, <2>6, <2>8, <2>10 DEF TypeOK
  <2> QED
    BY <2>1, <2>6, <2>7, <2>8, <2>9, <2>11 DEF Clock
<1>4. CASE Tick
  <2>1. now' = now + 1 /\ now' \in 0..MaxTime /\ now' \in Nat /\ now <= now'
    BY <1>0, <1>4, Constants DEF Tick, TypeOK
  <2>2. UNCHANGED <<counter, req, passes>> /\ InFlight' = InFlight
    BY <1>4 DEF Tick, InFlight
  <2>3. counter.until <= now' + WINDOW
    BY <1>0, <2>1 DEF TypeOK
  <2>4. TypeOK'
    BY <2>1, <2>2, <2>3 DEF TypeOK
  <2>5. \A k \in 1..Len(passes) : passes[k].at <= now'
    BY <1>0, <2>1, RequestType DEF Clock
  <2>6. \A r \in InFlight : req[r].began <= now'
    BY <1>0, <2>1, RequestType DEF Clock
  <2> QED
    BY <2>2, <2>4, <2>5, <2>6 DEF Clock
<1>5. CASE UNCHANGED vars
  BY <1>5 DEF vars, TypeOK, Clock, InFlight
<1> QED
  BY <1>1, <1>2, <1>3, <1>4, <1>5 DEF Next, _rate_limited
-----------------------------------------------------------------------------
(***************************************************************************)
(* Refusals.                                                               *)
(***************************************************************************)

\* A run does not change when others get through.
LEMMA RunStays ==
  ASSUME NEW n, NEW c, HasRun(n, c), n \in 1..Len(passes),
         \A k \in 1..n : passes'[k] = passes[k]
  PROVE  HasRun(n, c)'
BY DEF HasRun, IsRun

\* A request that counted a run and is let through makes it one longer.
LEMMA RunGrows ==
  ASSUME TypeOK, CountsAreRuns, NEW r \in Requests, Let(r),
         NEW n, n = Len(passes) + 1, NEW c, c = req[r].seen, NEW b, b = req[r].before
  PROVE  HasRun(n, c + 1)'
<1>1. r \in InFlight
  BY LetAppends
<1>2. c \in Nat /\ b \in Nat /\ Len(passes) \in Nat /\ n \in Nat /\ n >= 1
  BY <1>1, RequestType
<1>3. b <= Len(passes) /\ (c > 0 => HasRun(b, c) /\ req[r].began < passes[b].at + WINDOW)
  BY <1>1 DEF CountsAreRuns
<1>4. /\ passes'[n].began = req[r].began
      /\ \A k \in 1..Len(passes) : passes'[k] = passes[k]
  BY LetAppends
<1>5. CASE c = 0
  <2>1. {n} \in SUBSET (1..n)
    BY <1>2
  <2>2. Cardinality({n}) = 1
    BY FS_Singleton
  <2>3. Cardinality({n}) >= c + 1
    BY <1>5, <2>2
  <2>4. n >= n
    BY <1>2
  <2>5. IsRun({n})'
    BY <2>4 DEF IsRun
  <2> QED
    BY <2>1, <2>3, <2>5 DEF HasRun
<1>6. CASE c > 0
  <2>1. HasRun(b, c) /\ req[r].began < passes[b].at + WINDOW
    BY <1>3, <1>6
  <2>2. PICK S \in SUBSET (1..b) : b \in S /\ Cardinality(S) >= c /\ IsRun(S)
    BY <2>1 DEF HasRun
  <2> DEFINE T == S \cup {n}
  <2>3. b \in 1..Len(passes) /\ S \subseteq 1..Len(passes) /\ n \notin S
    BY <1>2, <1>3, <2>2
  <2>4. T \in SUBSET (1..n) /\ n \in T
    BY <1>2, <2>3
  <2>5. Cardinality(T) >= c + 1
    <3>1. S \in SUBSET Nat /\ \A s \in S : s <= b
      BY <1>2, <2>2
    <3>2. IsFiniteSet(S)
      BY <1>2, <3>1, FS_BoundedSetOfNaturals
    <3>3. Cardinality(S) \in Nat
      BY <3>2, FS_CardinalityType
    <3>4. Cardinality(T) = Cardinality(S) + 1
      BY <2>3, <3>2, FS_AddElement
    <3> QED
      BY <1>2, <2>2, <3>3, <3>4
  <2>6. ASSUME NEW k \in T
        PROVE  \/ \A j \in T : j >= k
               \/ \E j \in T : j < k /\ passes'[k].began < passes'[j].at + WINDOW
    <3>1. CASE k = n
      <4>1. b \in T /\ b < n /\ passes'[b] = passes[b]
        BY <1>2, <1>4, <2>2, <2>3
      <4> QED
        BY <1>4, <2>1, <3>1, <4>1
    <3>2. CASE k \in S
      <4>1. passes'[k] = passes[k] /\ k <= n
        BY <1>2, <1>4, <2>3, <3>2
      <4>2. CASE \A j \in S : j >= k
        BY <4>1, <4>2, <1>2, <2>3, <3>2
      <4>3. CASE \E j \in S : j < k /\ passes[k].began < passes[j].at + WINDOW
        BY <1>4, <2>3, <4>1, <4>3
      <4> QED
        BY <2>2, <3>2, <4>2, <4>3 DEF IsRun
    <3> QED
      BY <3>1, <3>2
  <2> HIDE DEF T
  <2>7. IsRun(T)'
    BY <2>6 DEF IsRun
  <2> QED
    BY <2>4, <2>5, <2>7 DEF HasRun
<1> QED
  BY <1>2, <1>5, <1>6

LEMMA RunsStep == TypeOK /\ Clock /\ CountsAreRuns /\ [Next]_vars => CountsAreRuns'
<1> SUFFICES ASSUME TypeOK, Clock, CountsAreRuns, [Next]_vars PROVE CountsAreRuns'
  OBVIOUS
<1>0. Len(passes) \in Nat
  BY RequestType
<1> DEFINE Right(r) == /\ req[r].before <= Len(passes)
                       /\ req[r].seen > 0 =>
                            /\ HasRun(req[r].before, req[r].seen)
                            /\ req[r].began < passes[req[r].before].at + WINDOW
<1>1. /\ counter.count > 0 => HasRun(Len(passes), counter.count)
      /\ \A r \in InFlight : Right(r)
  BY DEF CountsAreRuns
<1>2. ASSUME NEW r \in Requests, Count(r) PROVE CountsAreRuns'
  <2>1. UNCHANGED <<now, counter, passes>>
    BY <1>2 DEF Count
  <2>2. /\ InFlight' = InFlight \cup {r}
        /\ req'[r].seen = get /\ req'[r].began = now /\ req'[r].before = Len(passes)
        /\ \A q \in InFlight : /\ req'[q].seen = req[q].seen
                                 /\ req'[q].began = req[q].began
                                 /\ req'[q].before = req[q].before
    BY <1>2, CountAdds
  <2>3. \A n, c : HasRun(n, c)' <=> HasRun(n, c)
    BY <2>1 DEF HasRun, IsRun
  <2>4. ASSUME get > 0
        PROVE  HasRun(Len(passes), get) /\ now < passes[Len(passes)].at + WINDOW
    <3>1. get = counter.count /\ now < counter.until
      BY <2>4, GetType
    <3>2. Len(passes) # 0
      BY <2>4, <3>1 DEF Clock
    <3>3. counter.until = passes[Len(passes)].at + WINDOW
      BY <3>2 DEF Clock
    <3>4. HasRun(Len(passes), counter.count)
      BY <1>1, <2>4, <3>1
    <3> QED
      BY <3>1, <3>3, <3>4
  <2>5. ASSUME NEW q \in InFlight'
        PROVE  /\ req'[q].before <= Len(passes)
               /\ req'[q].seen > 0 => /\ HasRun(req'[q].before, req'[q].seen)
                                      /\ req'[q].began < passes[req'[q].before].at + WINDOW
    <3>1. CASE q = r
      BY <1>0, <2>2, <2>4, <3>1
    <3>2. CASE q \in InFlight
      BY <1>1, <2>2, <3>2
    <3> QED
      BY <2>2, <3>1, <3>2
  <2> QED
    BY <1>1, <2>1, <2>3, <2>5 DEF CountsAreRuns
<1>3. ASSUME NEW r \in Requests, Refuse(r) PROVE CountsAreRuns'
  <2>1. UNCHANGED <<now, counter, passes>> /\ req' = [req EXCEPT ![r] = Idle]
    BY <1>3 DEF Refuse
  <2>2. InFlight' = InFlight \ {r} /\ \A q \in InFlight' : req'[q] = req[q]
    BY <2>1, EndRemoves
  <2>3. \A n, c : HasRun(n, c)' <=> HasRun(n, c)
    BY <2>1 DEF HasRun, IsRun
  <2> QED
    BY <1>1, <2>1, <2>2, <2>3 DEF CountsAreRuns
<1>4. ASSUME NEW r \in Requests, Let(r) PROVE CountsAreRuns'
  <2>1. req' = [req EXCEPT ![r] = Idle]
    BY <1>4 DEF Let
  <2>2. InFlight' = InFlight \ {r} /\ \A q \in InFlight' : req'[q] = req[q]
    BY <2>1, EndRemoves
  <2>3. /\ Len(passes') = Len(passes) + 1
        /\ \A k \in 1..Len(passes) : passes'[k] = passes[k]
        /\ counter' = [count |-> req[r].seen + 1, until |-> now + WINDOW]
    BY <1>4, LetAppends
  <2>4. ASSUME NEW n, n = Len(passes'), NEW c, c = counter'.count
        PROVE  HasRun(n, c)'
    <3>1. n = Len(passes) + 1 /\ c = req[r].seen + 1
      BY <2>3, <2>4
    <3>2. \A x, b : x = req[r].seen /\ b = req[r].before => HasRun(n, x + 1)'
      BY <1>4, <3>1, RunGrows
    <3> QED
      BY <3>1, <3>2
  <2>5. ASSUME NEW q \in InFlight', NEW b, b = req'[q].before, NEW c, c = req'[q].seen
        PROVE  /\ b <= Len(passes')
               /\ c > 0 => HasRun(b, c)' /\ req'[q].began < passes'[b].at + WINDOW
    <3>1. req'[q] = req[q] /\ Right(q) /\ b \in Nat
      BY <1>1, <2>2, <2>5, RequestType
    <3>2. b <= Len(passes')
      BY <1>0, <2>3, <2>5, <3>1
    <3>3. ASSUME c > 0
          PROVE  HasRun(b, c)' /\ req'[q].began < passes'[b].at + WINDOW
      <4>1. HasRun(b, c) /\ req[q].began < passes[b].at + WINDOW /\ b <= Len(passes)
        BY <2>5, <3>1, <3>3
      <4>2. b \in 1..b
        BY <4>1 DEF HasRun
      <4>3. b \in 1..Len(passes)
        BY <1>0, <3>1, <4>1, <4>2
      <4>4. \A k \in 1..b : passes'[k] = passes[k]
        BY <1>0, <2>3, <3>1, <4>1
      <4>5. HasRun(b, c)'
        BY <4>1, <4>3, <4>4, RunStays
      <4> QED
        BY <2>3, <3>1, <4>1, <4>3, <4>5
    <3> QED
      BY <3>2, <3>3
  <2>6. HasRun(Len(passes), counter.count)'
    BY <2>4 DEF HasRun
  <2>7. ASSUME NEW q \in InFlight'
        PROVE  /\ req'[q].before <= Len(passes')
               /\ req'[q].seen > 0 => /\ HasRun(req[q].before, req[q].seen)'
                                      /\ req'[q].began < passes'[req'[q].before].at + WINDOW
    BY <2>5 DEF HasRun
  <2> QED
    BY <2>6, <2>7 DEF CountsAreRuns
<1>5. CASE Tick
  BY <1>5 DEF Tick, CountsAreRuns, HasRun, IsRun, InFlight
<1>6. CASE UNCHANGED vars
  BY <1>6 DEF vars, CountsAreRuns, HasRun, IsRun, InFlight
<1> QED
  BY <1>2, <1>3, <1>4, <1>5, <1>6 DEF Next, _rate_limited
-----------------------------------------------------------------------------
(***************************************************************************)
(* The limit.                                                              *)
(***************************************************************************)

LEMMA AloneStep == TypeOK /\ AloneIsAlone /\ [Next]_vars => AloneIsAlone'
<1> SUFFICES ASSUME TypeOK, AloneIsAlone, [Next]_vars PROVE AloneIsAlone'
  OBVIOUS
<1>1. ASSUME NEW r \in Requests, Count(r) PROVE AloneIsAlone'
  <2>1. /\ InFlight' = InFlight \cup {r} /\ req'[r].alone = (InFlight = {})
        /\ \A q \in InFlight : ~req'[q].alone
    BY <1>1, CountAdds
  <2> QED
    BY <2>1 DEF AloneIsAlone
<1>2. ASSUME NEW r \in Requests, req' = [req EXCEPT ![r] = Idle] PROVE AloneIsAlone'
  <2>1. InFlight' = InFlight \ {r} /\ \A q \in InFlight' : req'[q] = req[q]
    BY <1>2, EndRemoves
  <2> QED
    BY <2>1 DEF AloneIsAlone
<1>3. CASE req' = req
  BY <1>3 DEF AloneIsAlone, InFlight
<1> QED
  BY <1>1, <1>2, <1>3 DEF Next, _rate_limited, Refuse, Let, Tick, vars

LEMMA PassedType ==
  ASSUME TypeOK, NEW t
  PROVE  /\ Passed(t) \subseteq 1..Len(passes)
         /\ IsFiniteSet(Passed(t)) /\ Cardinality(Passed(t)) \in Nat
         /\ Passed(t) = {} => Cardinality(Passed(t)) = 0
<1>1. Passed(t) \subseteq 1..Len(passes) /\ Len(passes) \in Nat
  BY RequestType DEF Passed
<1>2. Passed(t) \in SUBSET Nat /\ \A k \in Passed(t) : k <= Len(passes)
  BY <1>1
<1>3. IsFiniteSet(Passed(t))
  BY <1>1, <1>2, FS_BoundedSetOfNaturals
<1> QED
  BY <1>1, <1>3, FS_CardinalityType, FS_EmptySet

\* While nobody gets through, the passes of a window are the same.
LEMMA PassedStays ==
  ASSUME TypeOK, passes' = passes, NEW t
  PROVE  Passed(t)' = Passed(t)
BY DEF Passed

\* A request that gets through is one more in the windows that have begun and are
\* open, if it was alone, and in no other.
LEMMA PassedGrows ==
  ASSUME TypeOK, NEW r \in Requests, Let(r), NEW t \in 0..now
  PROVE  IF req[r].alone /\ now < t + WINDOW
         THEN Cardinality(Passed(t)') = Cardinality(Passed(t)) + 1
         ELSE Passed(t)' = Passed(t)
<1> DEFINE n == Len(passes) + 1
<1>1. /\ Len(passes') = n
      /\ \A k \in 1..Len(passes) : passes'[k] = passes[k]
      /\ passes'[n].at = now /\ passes'[n].alone = req[r].alone
      /\ DOMAIN passes' = 1..Len(passes')
  BY LetAppends
<1>2. Len(passes) \in Nat /\ DOMAIN passes = 1..Len(passes) /\ now \in Nat /\ t \in Nat
      /\ WINDOW \in Nat
  BY RequestType, Constants
<1>3. 1..n = (1..Len(passes)) \cup {n} /\ n \notin 1..Len(passes)
  BY <1>2
<1>4. now \in t..(t + WINDOW - 1) <=> now < t + WINDOW
  BY <1>2
<1> HIDE DEF n
<1>5. \A k : k \in Passed(t)' <=>
        \/ k \in Passed(t)
        \/ k = n /\ req[r].alone /\ now \in t..(t + WINDOW - 1)
  <2>1. \A k : k \in Passed(t)' <=> /\ k \in 1..n /\ passes'[k].alone
                                   /\ passes'[k].at \in t..(t + WINDOW - 1)
    BY <1>1 DEF Passed
  <2>2. \A k : k \in Passed(t) <=> /\ k \in 1..Len(passes) /\ passes[k].alone
                                  /\ passes[k].at \in t..(t + WINDOW - 1)
    BY <1>2 DEF Passed
  <2> QED
    BY <1>1, <1>3, <2>1, <2>2
<1>6. CASE req[r].alone /\ now < t + WINDOW
  <2>1. Passed(t)' = Passed(t) \cup {n}
    BY <1>4, <1>5, <1>6
  <2>2. n \notin Passed(t)
    BY <1>3, PassedType
  <2>3. Cardinality(Passed(t) \cup {n}) = Cardinality(Passed(t)) + 1
    BY <2>2, PassedType, FS_AddElement
  <2> QED
    BY <1>6, <2>1, <2>3
<1>7. CASE ~(req[r].alone /\ now < t + WINDOW)
  <2>1. Passed(t)' = Passed(t)
    BY <1>4, <1>5, <1>7
  <2> QED
    BY <1>7, <2>1
<1> QED
  BY <1>6, <1>7

\* The entry outlives every window with a pass in it that is open.
LEMMA EntryLives ==
  ASSUME TypeOK, Clock, NEW t \in 0..now, Passed(t) # {}
  PROVE  counter.until >= t + WINDOW
<1>1. PICK k \in Passed(t) : TRUE
  OBVIOUS
<1>2. k \in 1..Len(passes) /\ passes[k].at \in t..(t + WINDOW - 1) /\ Len(passes) \in Nat
  BY <1>1, RequestType DEF Passed
<1>3. Len(passes) \in 1..Len(passes) /\ k <= Len(passes) /\ Len(passes) # 0
  BY <1>2
<1>4. passes[k].at <= passes[Len(passes)].at
  BY <1>2, <1>3 DEF Clock
<1>5. counter.until = passes[Len(passes)].at + WINDOW
  BY <1>3 DEF Clock
<1>6. /\ t \in Nat /\ WINDOW \in Nat /\ passes[k].at \in Nat
      /\ passes[Len(passes)].at \in Nat /\ t <= passes[k].at
  BY <1>2, <1>3, RequestType, Constants
<1> QED
  BY <1>4, <1>5, <1>6

LEMMA CountsStep ==
  TypeOK /\ Clock /\ AloneIsAlone /\ CountsEnough /\ [Next]_vars => CountsEnough'
<1> SUFFICES ASSUME TypeOK, Clock, AloneIsAlone, CountsEnough, [Next]_vars,
                    NEW t \in 0..now', now' < t + WINDOW, Passed(t)' # {}
             PROVE  /\ counter'.count >= Cardinality(Passed(t)')
                    /\ \A q \in InFlight' : req'[q].seen >= Cardinality(Passed(t)')
  BY DEF CountsEnough
<1> DEFINE a == Cardinality(Passed(t))
<1>0. /\ now \in Nat /\ WINDOW \in Nat /\ a \in Nat /\ counter.count \in Nat
      /\ \A q \in InFlight : req[q].seen \in Nat
  BY RequestType, Constants, PassedType
<1>a. ASSUME t \in 0..now, now < t + WINDOW, Passed(t) # {}
      PROVE  counter.count >= a /\ \A q \in InFlight : req[q].seen >= a
  BY <1>a DEF CountsEnough
<1>1. ASSUME NEW r \in Requests, Count(r)
      PROVE  /\ counter'.count >= Cardinality(Passed(t)')
             /\ \A q \in InFlight' : req'[q].seen >= Cardinality(Passed(t)')
  <2>1. UNCHANGED <<now, counter, passes>>
    BY <1>1 DEF Count
  <2>2. Passed(t)' = Passed(t)
    BY <2>1, PassedStays
  <2>3. counter.count >= a /\ \A q \in InFlight : req[q].seen >= a
    BY <1>a, <2>1, <2>2
  <2>4. InFlight' = InFlight \cup {r} /\ req'[r].seen = get
        /\ \A q \in InFlight : req'[q].seen = req[q].seen
    BY <1>1, CountAdds
  <2>5. get = counter.count
    <3>1. counter.until >= t + WINDOW
      BY <2>1, <2>2, EntryLives
    <3>2. now < counter.until
      <4>1. now < t + WINDOW /\ counter.until \in Nat /\ t \in Nat
        BY <1>0, <2>1, RequestType
      <4> QED
        BY <1>0, <3>1, <4>1
    <3> QED
      BY <3>2 DEF get
  <2> QED
    BY <2>1, <2>2, <2>3, <2>4, <2>5
<1>2. ASSUME NEW r \in Requests, Refuse(r)
      PROVE  /\ counter'.count >= Cardinality(Passed(t)')
             /\ \A q \in InFlight' : req'[q].seen >= Cardinality(Passed(t)')
  <2>1. UNCHANGED <<now, counter, passes>> /\ req' = [req EXCEPT ![r] = Idle]
    BY <1>2 DEF Refuse
  <2>2. InFlight' = InFlight \ {r} /\ \A q \in InFlight' : req'[q] = req[q]
    BY <2>1, EndRemoves
  <2>3. Passed(t)' = Passed(t)
    BY <2>1, PassedStays
  <2> QED
    BY <1>a, <2>1, <2>2, <2>3
<1>3. ASSUME NEW r \in Requests, Let(r)
      PROVE  /\ counter'.count >= Cardinality(Passed(t)')
             /\ \A q \in InFlight' : req'[q].seen >= Cardinality(Passed(t)')
  <2>1. now' = now /\ req' = [req EXCEPT ![r] = Idle]
    BY <1>3 DEF Let
  <2>2. InFlight' = InFlight \ {r} /\ \A q \in InFlight' : req'[q] = req[q]
    BY <2>1, EndRemoves
  <2>3. r \in InFlight /\ counter'.count = req[r].seen + 1
    <3>1. r \in InFlight /\ counter' = [count |-> req[r].seen + 1, until |-> now + WINDOW]
      BY <1>3, LetAppends
    <3> QED
      BY <3>1
  <2>4. a = 0 \/ \A q \in InFlight : req[q].seen >= a
    BY <1>a, <2>1, PassedType
  <2>5. \A q \in InFlight : req[q].seen >= a
    BY <1>0, <2>4
  <2>6. CASE req[r].alone
    <3>1. Cardinality(Passed(t)') = a + 1
      BY <1>3, <2>1, <2>6, PassedGrows
    <3>2. InFlight' = {}
      BY <2>2, <2>3, <2>6 DEF AloneIsAlone
    <3>3. req[r].seen >= a /\ req[r].seen \in Nat
      BY <1>0, <2>3, <2>5
    <3> QED
      BY <1>0, <2>3, <3>1, <3>2, <3>3
  <2>7. CASE ~req[r].alone
    <3>1. Passed(t)' = Passed(t)
      BY <1>3, <2>1, <2>7, PassedGrows
    <3>2. req[r].seen >= a /\ req[r].seen \in Nat
      BY <1>0, <2>3, <2>5
    <3>3. counter'.count >= a
      BY <1>0, <2>3, <3>2
    <3> QED
      BY <2>2, <2>5, <3>1, <3>3
  <2> QED
    BY <2>6, <2>7
<1>4. CASE Tick
  <2>1. now' = now + 1 /\ UNCHANGED <<counter, req, passes>>
    BY <1>4 DEF Tick
  <2>2. Passed(t)' = Passed(t) /\ InFlight' = InFlight
    BY <2>1, PassedStays DEF InFlight
  <2>3. t \in 0..now
    <3>1. PICK k \in Passed(t) : TRUE
      BY <2>2
    <3>2. passes[k].at \in t..(t + WINDOW - 1) /\ k \in 1..Len(passes)
      BY <3>1, RequestType DEF Passed
    <3>3. passes[k].at <= now /\ passes[k].at \in Nat
      BY <3>2, RequestType DEF Clock
    <3> QED
      BY <1>0, <2>1, <3>2, <3>3
  <2>4. now < t + WINDOW
    BY <1>0, <2>1, <2>3
  <2> QED
    BY <1>a, <2>1, <2>2, <2>3, <2>4
<1>5. CASE UNCHANGED vars
  <2>1. UNCHANGED <<now, counter, req, passes>>
    BY <1>5 DEF vars
  <2>2. Passed(t)' = Passed(t) /\ InFlight' = InFlight
    BY <2>1, PassedStays DEF InFlight
  <2> QED
    BY <1>a, <2>1, <2>2
<1> QED
  BY <1>1, <1>2, <1>3, <1>4, <1>5 DEF Next, _rate_limited

LEMMA WithinLimitParts == WithinLimit <=> \A t \in 0..now : Cardinality(Passed(t)) <= LIMIT
BY DEF WithinLimit, Passed

LEMMA WithinLimitPartsNext ==
  (WithinLimit <=> \A t \in 0..now : Cardinality(Passed(t)) <= LIMIT)'
BY WithinLimitParts, PTL

LEMMA LimitStep ==
  TypeOK /\ Clock /\ CountsEnough /\ WithinLimit /\ [Next]_vars => WithinLimit'
<1> SUFFICES ASSUME TypeOK, Clock, CountsEnough, WithinLimit, [Next]_vars,
                    NEW t \in 0..now'
             PROVE  Cardinality(Passed(t)') <= LIMIT
  BY WithinLimitPartsNext
<1>0. /\ now \in Nat /\ LIMIT \in Nat /\ LIMIT > 0 /\ Cardinality(Passed(t)) \in Nat
      /\ \A q \in InFlight : req[q].seen \in Nat
  BY RequestType, Constants, PassedType
<1>1. t \in 0..now => Cardinality(Passed(t)) <= LIMIT
  BY WithinLimitParts
<1>2. CASE passes' = passes
  <2>1. Passed(t)' = Passed(t)
    BY <1>2, PassedStays
  <2>2. CASE t \in 0..now
    BY <1>1, <2>1, <2>2
  <2>3. CASE t \notin 0..now
    <3>1. Passed(t) = {}
      <4> SUFFICES ASSUME NEW k \in Passed(t) PROVE FALSE
        OBVIOUS
      <4>1. k \in 1..Len(passes) /\ passes[k].at \in t..(t + WINDOW - 1)
        BY RequestType DEF Passed
      <4>2. passes[k].at <= now /\ passes[k].at \in Nat
        BY <4>1, RequestType DEF Clock
      <4>3. t \in Nat
        BY <1>0
      <4> QED
        BY <1>0, <2>3, <4>1, <4>2, <4>3
    <3>2. Cardinality(Passed(t)) = 0
      BY <3>1, PassedType
    <3> QED
      BY <1>0, <2>1, <3>2
  <2> QED
    BY <2>2, <2>3
<1>3. ASSUME NEW r \in Requests, Let(r) PROVE Cardinality(Passed(t)') <= LIMIT
  <2>1. t \in 0..now /\ r \in InFlight /\ req[r].seen < LIMIT
    BY <1>3, LetAppends DEF Let
  <2>2. CASE req[r].alone /\ now < t + WINDOW
    <3>1. Cardinality(Passed(t)') = Cardinality(Passed(t)) + 1
      BY <1>3, <2>1, <2>2, PassedGrows
    <3>2. Passed(t) = {} => Cardinality(Passed(t)) = 0
      BY PassedType
    <3>3. Passed(t) # {} => req[r].seen >= Cardinality(Passed(t))
      BY <2>1, <2>2 DEF CountsEnough
    <3> QED
      BY <1>0, <2>1, <3>1, <3>2, <3>3
  <2>3. CASE ~(req[r].alone /\ now < t + WINDOW)
    <3>1. Passed(t)' = Passed(t)
      BY <1>3, <2>1, <2>3, PassedGrows
    <3> QED
      BY <1>1, <2>1, <3>1
  <2> QED
    BY <2>2, <2>3
<1> QED
  BY <1>2, <1>3 DEF Next, _rate_limited, Count, Refuse, Tick, vars
-----------------------------------------------------------------------------
LEMMA IInit == Init => IInv
<1> SUFFICES ASSUME Init PROVE IInv
  OBVIOUS
<1>1. /\ now = 0 /\ counter = [count |-> 0, until |-> 0] /\ passes = <<>>
      /\ req = [r \in Requests |-> Idle]
  BY DEF Init
<1>2. InFlight = {} /\ Len(passes) = 0 /\ DOMAIN passes = {}
  BY <1>1 DEF InFlight
<1>3. TypeOK
  BY <1>1, Constants DEF TypeOK
<1>4. Clock /\ CountsAreRuns /\ AloneIsAlone
  BY <1>1, <1>2 DEF Clock, CountsAreRuns, AloneIsAlone
<1>5. \A t : Passed(t) = {}
  BY <1>2 DEF Passed
<1>6. CountsEnough
  BY <1>5 DEF CountsEnough
<1>7. WithinLimit
  BY <1>5, WithinLimitParts, FS_EmptySet, Constants
<1> QED
  BY <1>3, <1>4, <1>6, <1>7 DEF IInv

LEMMA IStep == IInv /\ [Next]_vars => IInv'
BY TypeStep, RunsStep, AloneStep, CountsStep, LimitStep DEF IInv

\* The inductive invariant: types and times, counts that come of runs, and in every
\* open window a counter no less than what got through alone.
THEOREM Invariance == Spec => []IInv
BY IInit, IStep, PTL DEF Spec

\* The types, and no pass before it began.
THEOREM TypeCorrect == Spec => []TypeOK
<1>1. IInv => TypeOK
  BY DEF IInv
<1> QED
  BY <1>1, Invariance, PTL

\* Of the requests that no other one overlapped, no more than LIMIT get through
\* in a WINDOW, for any number of threads and whatever the others write.
THEOREM AlwaysWithinLimit == Spec => []WithinLimit
<1>1. IInv => WithinLimit
  BY DEF IInv
<1> QED
  BY <1>1, Invariance, PTL

\* Nobody is refused but after LIMIT others that came in a run without a quiet
\* WINDOW in it.
THEOREM AlwaysRefusedAfterRun == Spec => []RefusedAfterRun
<1>1. TypeOK /\ CountsAreRuns => RefusedAfterRun
  <2> SUFFICES ASSUME TypeOK, CountsAreRuns, NEW r \in InFlight, Limited(req[r].seen)
               PROVE  \E S \in SUBSET (1..req[r].before) :
                        /\ req[r].before \in S
                        /\ Cardinality(S) >= LIMIT
                        /\ IsRun(S)
                        /\ req[r].began < passes[req[r].before].at + WINDOW
    BY DEF RefusedAfterRun
  <2>1. req[r].seen = LIMIT /\ req[r].seen > 0
    BY RequestType, Constants DEF Limited
  <2> QED
    BY <2>1 DEF CountsAreRuns, HasRun
<1>2. IInv => RefusedAfterRun
  BY <1>1 DEF IInv
<1> QED
  BY <1>2, Invariance, PTL
=============================================================================
