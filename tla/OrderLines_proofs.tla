-------------------------- MODULE OrderLines_proofs --------------------------
(***************************************************************************)
(* What becomes of a cart, for any menu and any number of lines, options   *)
(* and edits: an order costs what the cart page said, has all options that *)
(* were not withdrawn meanwhile, and is refused, or fails, for a reason    *)
(* only.                                                                   *)
(*                                                                         *)
(* The first two parts are about the operators the model is built from:    *)
(* sums over finite sets, and the check of a selection against the rule    *)
(* of the models' comments.  IInv says what cart, page and request have to *)
(* do with the menu, and has the shape of the state where that needs it;   *)
(* types follow separately (TInv), as they need sums to be integers.       *)
(***************************************************************************)
EXTENDS OrderLines, SequenceTheorems, FiniteSetTheorems,
        WellFoundedInduction, TLAPS

Phases == {"get", "validate", "options", "sources", "total", "commit"}

\* A line's item, its price and its modifiers are read before its row is made.
Shape ==
  /\ menu \in Menu
  /\ edits \in Nat /\ drawn \in Nat
  /\ cart \in Seq(Line)
  /\ req # Idle =>
       /\ req = [phase |-> req.phase, base |-> req.base, deltas |-> req.deltas,
                 options |-> req.options, rows |-> req.rows, total |-> req.total,
                 shown |-> req.shown, shownAt |-> req.shownAt,
                 begunAt |-> req.begunAt, withdrawn |-> req.withdrawn]
       /\ req.phase \in Phases
       /\ req.rows \in Seq(Range(req.rows))
       /\ req.shownAt \in Nat /\ req.begunAt \in Nat
       /\ req.shownAt <= req.begunAt /\ req.begunAt <= edits
       /\ IF req.phase \in {"total", "commit"} THEN Len(req.rows) = Len(cart)
          ELSE Len(req.rows) < Len(cart)

\* What got into the cart since the last edit can be ordered.
CartFresh ==
  \A k \in DOMAIN cart :
    /\ cart[k].at <= edits
    /\ cart[k].at = edits =>
         /\ can_be_ordered(menu, cart[k].item)
         /\ check_modifier_selection(menu, cart[k].item, cart[k].wanted)

\* An option that is missing, or will be, was switched off meanwhile.
OptionsKept ==
  req # Idle =>
    /\ \A k \in 1..Len(req.rows) :
         cart[k].wanted.options \ req.rows[k].options \subseteq req.withdrawn
    /\ req.phase = "options" => \A o \in Current.wanted.options :
         menu.option[o].active \/ o \in req.withdrawn
    /\ req.phase = "sources" =>
         Current.wanted.options \ req.options \subseteq req.withdrawn

\* While nobody edits the menu, what was read is what would be read now.
LineChecked(k) ==
  /\ can_be_ordered(menu, cart[k].item)
  /\ check_modifier_selection(menu, cart[k].item, cart[k].wanted)

ReadsCurrent ==
  req # Idle /\ req.begunAt = edits =>
    /\ \A k \in 1..Len(req.rows) :
         /\ LineChecked(k)
         /\ req.rows[k].options = cart[k].wanted.options
         /\ req.rows[k].line_total = line_total(menu, cart[k])
    /\ req.phase \in {"validate", "options", "sources"} =>
         /\ can_be_ordered(menu, Current.item)
         /\ req.base = menu.item[Current.item].price
    /\ req.phase \in {"options", "sources"} => LineChecked(Len(req.rows) + 1)
    /\ req.phase = "sources" =>
         /\ req.options = Current.wanted.options
         /\ req.deltas = Deltas(menu, Current.wanted.options)
    /\ req.phase = "commit" =>
         req.total = SumFunction([k \in DOMAIN req.rows |-> req.rows[k].line_total])

\* The lines on a cart page are of the cart, and the total is that of the cart on
\* the menu it was made from.
PageRight ==
  /\ page.kind = "form" => /\ page.item \in Items /\ page.line \in Nat
                           /\ page.offer \in Selection
  /\ page.kind = "cart" => /\ page.shown \subseteq DOMAIN cart
                           /\ page.at \in Nat /\ page.at <= edits
                           /\ page.at = edits => page.total = CartTotal(menu, cart)

ShownCurrent ==
  req # Idle /\ req.shownAt = edits => req.shown = CartTotal(menu, cart)

IInv == /\ Shape
        /\ PageRight
        /\ CartFresh
        /\ OptionsKept
        /\ ReadsCurrent
        /\ ShownCurrent
        /\ RefusedForAReason
-----------------------------------------------------------------------------
(***************************************************************************)
(* Sums.  SumFunction is defined by recursion over sets; what it yields is *)
(* shown with a least counterexample: strict subsets of a finite set are   *)
(* well founded.                                                           *)
(***************************************************************************)

\* Of a set of subsets of a finite set, one has no other below it.
LEMMA LeastSubset ==
  ASSUME NEW S, IsFiniteSet(S), NEW T \in SUBSET SUBSET S, T # {}
  PROVE  \E t \in T : \A u \in T : u \subseteq t => u = t
<1>1. IsWellFoundedOn(StrictSubsetOrdering(S), SUBSET S)
  BY FS_StrictSubsetOrderingWellFounded, FS_FiniteSubsetsOfFinite
<1>2. \E t \in T : \A u \in T : ~ (<<u, t>> \in StrictSubsetOrdering(S))
  BY <1>1, WFMin
<1> QED
  BY <1>2 DEF StrictSubsetOrdering

\* A set of naturals has a least one.
LEMMA LeastNatural ==
  ASSUME NEW T \in SUBSET Nat, T # {}
  PROVE  \E n \in T : \A m \in T : n <= m
<1>1. PICK b \in T : TRUE
  OBVIOUS
<1> DEFINE F == {0..m : m \in {k \in T : k <= b}}
<1>2. IsFiniteSet(0..b)
  BY FS_Interval
<1>3. F \in SUBSET SUBSET (0..b) /\ F # {}
  <2>1. 0..b \in F
    OBVIOUS
  <2>2. \A m \in {k \in T : k <= b} : 0..m \subseteq 0..b
    OBVIOUS
  <2> QED
    BY <2>1, <2>2
<1>4. PICK t \in F : \A u \in F : u \subseteq t => u = t
  <2> DEFINE S == 0..b
  <2>1. IsFiniteSet(S) /\ F \in SUBSET SUBSET S /\ F # {}
    BY <1>2, <1>3
  <2> HIDE DEF F, S
  <2> QED
    BY ONLY <2>1, LeastSubset
<1>5. PICK n \in T : n <= b /\ t = 0..n
  OBVIOUS
<1>6. ASSUME NEW m \in T, m < n PROVE FALSE
  <2>1. 0..m \in F /\ 0..m \subseteq t
    BY <1>5, <1>6
  <2>2. 0..m = 0..n
    BY <1>4, <1>5, <2>1
  <2>3. n \in 0..n /\ n \notin 0..m
    BY <1>6
  <2> QED
    BY <2>2, <2>3
<1>7. ASSUME NEW m \in T PROVE n <= m
  <2>1. ~(m < n)
    BY <1>6
  <2>2. m \in Nat /\ n \in Nat
    BY <1>5
  <2> QED
    BY ONLY <2>1, <2>2
<1> QED
  BY <1>7

\* SumFunction picks the elements of the domain in a fixed order.
Pick(s) == CHOOSE x \in s : TRUE
IsSum(it, f) == it = [s \in SUBSET DOMAIN f |->
                   IF s = {} THEN 0 ELSE f[Pick(s)] + it[s \ {Pick(s)}]]

\* If any function satisfies the equation of the sum, SumFunction uses one.
LEMMA SumIs ==
  ASSUME NEW f, NEW g, IsSum(g, f)
  PROVE \E it : IsSum(it, f) /\ SumFunction(f) = it[DOMAIN f]
<1>1. SumFunction(f) = (CHOOSE it : it = [s \in SUBSET DOMAIN f |->
        IF s = {} THEN 0
        ELSE f[CHOOSE x \in s : TRUE] + it[s \ {CHOOSE x \in s : TRUE}]])[DOMAIN f]
  BY DEF SumFunction, SumFunctionOnSet, FoldFunctionOnSet, MapThenFoldSet
<1>2. g = [s \in SUBSET DOMAIN f |->
        IF s = {} THEN 0
        ELSE f[CHOOSE x \in s : TRUE] + g[s \ {CHOOSE x \in s : TRUE}]]
  BY DEF IsSum, Pick
<1> DEFINE it == CHOOSE it : it = [s \in SUBSET DOMAIN f |->
        IF s = {} THEN 0
        ELSE f[CHOOSE x \in s : TRUE] + it[s \ {CHOOSE x \in s : TRUE}]]
<1>3. it = [s \in SUBSET DOMAIN f |->
        IF s = {} THEN 0
        ELSE f[CHOOSE x \in s : TRUE] + it[s \ {CHOOSE x \in s : TRUE}]]
  BY <1>2
<1> QED
  BY <1>1, <1>3 DEF IsSum, Pick

\* The same for the subsets of the domain with at most n elements.
Level(f, n) == {s \in SUBSET DOMAIN f : Cardinality(s) <= n}
IsSumTo(g, f, n) == g = [s \in Level(f, n) |->
                   IF s = {} THEN 0 ELSE f[Pick(s)] + g[s \ {Pick(s)}]]

\* On a finite domain the equation has a solution.
LEMMA SumExists ==
  ASSUME NEW f, IsFiniteSet(DOMAIN f)
  PROVE  \E g : IsSum(g, f)
<1>0. \A s \in SUBSET DOMAIN f : IsFiniteSet(s) /\ Cardinality(s) \in Nat
  BY FS_Subset, FS_CardinalityType
<1> DEFINE T == {n \in Nat : ~ \E g : IsSumTo(g, f, n)}
<1>1. ASSUME T # {} PROVE FALSE
  <2>1. PICK n \in T : \A m \in T : n <= m
    BY <1>1, LeastNatural
  <2>2. CASE n = 0
    <3>1. Level(f, 0) = {{}}
      BY <1>0, FS_EmptySet DEF Level
    <3>2. IsSumTo([s \in {{}} |-> 0], f, 0)
      BY <3>1 DEF IsSumTo
    <3> QED
      BY <2>2, <3>2
  <2>3. CASE n > 0
    <3>1. n - 1 \in Nat /\ n - 1 \notin T
      BY <2>1, <2>3
    <3>2. PICK g : IsSumTo(g, f, n - 1)
      BY <3>1
    <3> DEFINE h == [s \in Level(f, n) |->
                       IF s = {} THEN 0 ELSE f[Pick(s)] + g[s \ {Pick(s)}]]
    <3>3. ASSUME NEW s \in Level(f, n), s # {}
          PROVE  h[s \ {Pick(s)}] = g[s \ {Pick(s)}]
      <4>1. Pick(s) \in s /\ s \in SUBSET DOMAIN f
        BY <3>3 DEF Pick, Level
      <4>2. Cardinality(s \ {Pick(s)}) = Cardinality(s) - 1
        BY <1>0, <4>1, FS_RemoveElement
      <4>3. Cardinality(s) \in Nat /\ Cardinality(s) <= n
        BY <1>0, <4>1 DEF Level
      <4>4. s \ {Pick(s)} \in Level(f, n - 1) /\ s \ {Pick(s)} \in Level(f, n)
        BY <3>1, <4>1, <4>2, <4>3 DEF Level
      <4>5. g[s \ {Pick(s)}] = LET t == s \ {Pick(s)} IN
              IF t = {} THEN 0 ELSE f[Pick(t)] + g[t \ {Pick(t)}]
        BY <3>2, <4>4 DEF IsSumTo
      <4> QED
        BY <4>4, <4>5
    <3>4. IsSumTo(h, f, n)
      BY <3>3 DEF IsSumTo
    <3> QED
      BY <3>4
  <2> QED
    BY <2>2, <2>3
<1>2. PICK g : IsSumTo(g, f, Cardinality(DOMAIN f))
  BY <1>0, <1>1
<1>3. Level(f, Cardinality(DOMAIN f)) = SUBSET DOMAIN f
  BY FS_Subset DEF Level
<1> QED
  BY <1>2, <1>3 DEF IsSum, IsSumTo

\* A sum takes one element after another.
LEMMA SumUnfolds ==
  ASSUME NEW f, IsFiniteSet(DOMAIN f)
  PROVE  \E it : IsSum(it, f) /\ SumFunction(f) = it[DOMAIN f]
BY SumExists, SumIs

\* A sum of integers is one.
LEMMA SumType ==
  ASSUME NEW D, IsFiniteSet(D), NEW f \in [D -> Int]
  PROVE  SumFunction(f) \in Int
<1>1. PICK it : IsSum(it, f) /\ SumFunction(f) = it[D]
  BY SumUnfolds
<1> DEFINE T == {s \in SUBSET D : it[s] \notin Int}
<1>2. ASSUME T # {} PROVE FALSE
  <2>1. PICK s \in T : \A u \in T : u \subseteq s => u = s
    <3>1. T \in SUBSET SUBSET D
      OBVIOUS
    <3> HIDE DEF T
    <3> QED
      BY <1>2, <3>1, LeastSubset
  <2>2. it[s] = IF s = {} THEN 0 ELSE f[Pick(s)] + it[s \ {Pick(s)}]
    BY <1>1 DEF IsSum
  <2>3. CASE s = {}
    BY <2>2, <2>3
  <2>4. CASE s # {}
    <3>1. Pick(s) \in s
      BY <2>4 DEF Pick
    <3>2. it[s \ {Pick(s)}] \in Int
      BY <2>1, <3>1
    <3>3. f[Pick(s)] \in Int
      BY <3>1
    <3> QED
      BY <2>2, <2>4, <3>2, <3>3
  <2> QED
    BY <2>3, <2>4
<1>3. D \notin T
  BY <1>2
<1> QED
  BY <1>1, <1>3

\* The sum of the sizes of disjoint sets is that of their union.
LEMMA SumOfSizes ==
  ASSUME NEW D, IsFiniteSet(D), NEW part,
         \A c \in D : IsFiniteSet(part[c]),
         \A c, d \in D : c # d => part[c] \cap part[d] = {},
         NEW f, f = [c \in D |-> Cardinality(part[c])]
  PROVE  SumFunction(f) = Cardinality(UNION {part[c] : c \in D})
<1>0. DOMAIN f = D /\ IsFiniteSet(DOMAIN f)
  OBVIOUS
<1>1. PICK it : IsSum(it, f) /\ SumFunction(f) = it[D]
  BY ONLY <1>0, SumUnfolds
<1> DEFINE U(s) == UNION {part[c] : c \in s}
           T == {s \in SUBSET D : ~(IsFiniteSet(U(s)) /\ it[s] = Cardinality(U(s)))}
<1>2. ASSUME T # {} PROVE FALSE
  <2>1. PICK s \in T : \A u \in T : u \subseteq s => u = s
    <3>1. T \in SUBSET SUBSET D
      OBVIOUS
    <3> HIDE DEF T
    <3> QED
      BY <1>2, <3>1, LeastSubset
  <2>2. it[s] = IF s = {} THEN 0 ELSE f[Pick(s)] + it[s \ {Pick(s)}]
    BY <1>1 DEF IsSum
  <2>3. CASE s = {}
    <3>1. U(s) = {}
      BY <2>3
    <3> QED
      BY <2>2, <2>3, <3>1, FS_EmptySet
  <2>4. CASE s # {}
    <3> DEFINE c == Pick(s)
               r == s \ {c}
    <3>1. c \in s /\ c \in D
      BY <2>4 DEF Pick
    <3>2. IsFiniteSet(U(r)) /\ it[r] = Cardinality(U(r))
      <4>1. r \in SUBSET D /\ r \subseteq s /\ r # s
        BY <3>1
      <4>2. r \notin T
        <5> HIDE DEF r, T
        <5> QED
          BY <2>1, <4>1
      <4> HIDE DEF U, r
      <4> QED
        BY <4>1, <4>2
    <3>3. U(s) = part[c] \cup U(r)
      BY <3>1
    <3>4. part[c] \cap U(r) = {}
      BY <3>1
    <3>5. /\ IsFiniteSet(U(s))
          /\ Cardinality(U(s)) = Cardinality(part[c]) + Cardinality(U(r)) - Cardinality({})
      <4>1. IsFiniteSet(part[c])
        BY <3>1
      <4> QED
        BY <4>1, <3>2, <3>3, <3>4, FS_Union
    <3>6. Cardinality({}) = 0 /\ Cardinality(part[c]) \in Nat /\ Cardinality(U(r)) \in Nat
      BY <3>1, <3>2, FS_EmptySet, FS_CardinalityType
    <3>7. it[s] = Cardinality(part[c]) + Cardinality(U(r))
      BY <2>2, <2>4, <3>1, <3>2
    <3> HIDE DEF U, c, r
    <3> QED
      BY <3>5, <3>6, <3>7 DEF T
  <2> QED
    BY <2>3, <2>4
<1>3. D \notin T
  BY <1>2
<1> QED
  BY <1>1, <1>3
-----------------------------------------------------------------------------
(***************************************************************************)
(* The rule: the check's loops accept what the models' comments say.       *)
(***************************************************************************)

\* What is chosen in g itself.
ChosenIn(sel, g) ==
  {o \in sel.options : GroupOf[o] = g} \cup {p \in sel.sources : p[1] = g}

\* All that a guest may choose, of any dish.
AllChoices == Options \cup (Groups \X Items)

\* There are finitely many choices.
LEMMA ChoicesFinite ==
  IsFiniteSet(AllChoices) /\ \A S \in SUBSET AllChoices :
      IsFiniteSet(S) /\ Cardinality(S) \in 0..Cardinality(AllChoices)
<1>1. IsFiniteSet(Groups \X Items)
  BY TablesAssumption, FS_Product
<1>2. IsFiniteSet(AllChoices)
  BY <1>1, TablesAssumption, FS_Union DEF AllChoices
<1>3. ASSUME NEW S \in SUBSET AllChoices
      PROVE  IsFiniteSet(S) /\ Cardinality(S) \in 0..Cardinality(AllChoices)
  <2>1. /\ IsFiniteSet(S) /\ Cardinality(S) <= Cardinality(AllChoices)
    BY <1>2, FS_Subset
  <2>2. Cardinality(S) \in Nat /\ Cardinality(AllChoices) \in Nat
    BY <1>2, <2>1, FS_CardinalityType
  <2> QED
    BY <2>1, <2>2
<1> QED
  BY <1>2, <1>3

\* What CountIn counts.
LEMMA CountInIs ==
  ASSUME NEW sel \in Selection, NEW g
  PROVE  IsFiniteSet(ChosenIn(sel, g)) /\ CountIn(sel, g) = Cardinality(ChosenIn(sel, g))
<1> DEFINE O == {o \in sel.options : GroupOf[o] = g}
           S == {p \in sel.sources : p[1] = g}
<1>1. O \in SUBSET AllChoices /\ S \in SUBSET AllChoices /\ O \cap S = {}
  BY TablesAssumption DEF Selection, AllChoices
<1>2. IsFiniteSet(O) /\ IsFiniteSet(S) /\ Cardinality(O) \in Nat /\ Cardinality(S) \in Nat
  BY <1>1, ChoicesFinite, FS_CardinalityType
<1>3. ChosenIn(sel, g) = O \cup S /\ CountIn(sel, g) = Cardinality(O) + Cardinality(S)
  BY DEF ChosenIn, CountIn
<1> HIDE DEF O, S
<1>4. /\ IsFiniteSet(O \cup S)
      /\ Cardinality(O \cup S) = Cardinality(O) + Cardinality(S) - Cardinality({})
  BY <1>1, <1>2, FS_Union
<1> QED
  BY <1>2, <1>3, <1>4, FS_EmptySet

\* No group is nested twice.
LEMMA ChildrenAreLeaves ==
  ASSUME NEW g \in Groups, NEW c \in Children(g)
  PROVE  c \in Groups /\ Children(c) = {} /\ ParentOf[c] = g
BY TreeAssumption, CatalogueAssumption DEF Children

\* The code adds up subgroups; the rule counts what is chosen under a group.
LEMMA CountUnderIs ==
  ASSUME NEW m, NEW i, NEW sel \in Selection, SourcesAllowed(m, i, sel), NEW g \in Groups
  PROVE  CountUnder(sel, g) = Cardinality(ChosenUnder(sel, g))
<1>1. /\ \A o \in sel.options : o \in Options /\ GroupOf[o] \in Groups
      /\ \A p \in sel.sources : p[1] \in Groups /\ SourceOf[p[1]] # NoCategory
  BY CatalogueAssumption DEF Selection, SourcesAllowed
<1>2. CASE Children(g) = {}
  <2>1. ChosenUnder(sel, g) = ChosenIn(sel, g)
    BY <1>1, <1>2 DEF ChosenUnder, ChosenIn, Children
  <2> QED
    BY <1>2, <2>1, CountInIs DEF CountUnder
<1>3. CASE Children(g) # {}
  <2> DEFINE C == Children(g)
             part == [c \in C |-> ChosenIn(sel, c)]
             f == [c \in C |-> CountIn(sel, c)]
  <2>1. ChosenUnder(sel, g) = UNION {part[c] : c \in C}
    <3>1. /\ \A o \in sel.options : GroupOf[o] # g
          /\ \A p \in sel.sources : p[1] # g
      BY <1>1, <1>3, TreeAssumption
    <3>2. \A h \in Groups : g \in {h, ParentOf[h]} /\ h # g <=> h \in C
      BY <1>3, TreeAssumption, CatalogueAssumption DEF Children
    <3>3. ChosenUnder(sel, g) = {o \in sel.options : GroupOf[o] \in C}
                               \cup {p \in sel.sources : p[1] \in C}
      BY <1>1, <3>1, <3>2 DEF ChosenUnder
    <3> HIDE DEF C
    <3> QED
      BY <3>3 DEF ChosenIn
  <2>2. IsFiniteSet(C)
    BY TablesAssumption, FS_Subset DEF Children
  <2>3. \A c \in C : IsFiniteSet(part[c]) /\ f[c] = Cardinality(part[c])
    BY CountInIs
  <2>4. \A c, d \in C : c # d => part[c] \cap part[d] = {}
    <3>1. \A o \in sel.options : o \notin sel.sources
      BY TablesAssumption DEF Selection
    <3> QED
      BY <3>1 DEF ChosenIn
  <2>5. f = [c \in C |-> Cardinality(part[c])]
    BY <2>3
  <2>6. CountUnder(sel, g) = SumFunction(f)
    BY <1>3 DEF CountUnder
  <2> HIDE DEF C, part, f
  <2>7. SumFunction(f) = Cardinality(UNION {part[c] : c \in C})
    BY ONLY <2>2, <2>3, <2>4, <2>5, SumOfSizes
  <2> QED
    BY <2>1, <2>6, <2>7
<1> QED
  BY <1>2, <1>3

\* CountsOK is what Admitted says with sets of limits.
LEMMA CountsAre ==
  ASSUME NEW n \in Nat, NEW min \in Nat, NEW max \in Nat, NEW required \in BOOLEAN
  PROVE  CountsOK(n, min, max, required) <=>
           /\ \A b \in {min} \cup (IF required THEN {1} ELSE {}) : n >= b
           /\ \A b \in {max} \ {0} : n <= b
<1>1. Max({1, min}) = IF min > 1 THEN min ELSE 1
  <2> DEFINE x == IF min > 1 THEN min ELSE 1
  <2>1. x \in {1, min} /\ \A y \in {1, min} : x >= y
    OBVIOUS
  <2>2. \A z \in {1, min} : (\A y \in {1, min} : z >= y) => z = x
    OBVIOUS
  <2> QED
    BY <2>1, <2>2 DEF Max
<1> QED
  BY <1>1 DEF CountsOK

\* Types of the limits that a link sets.
EffectiveType(m, l) ==
  /\ effective_min(m, l) \in Nat /\ effective_max(m, l) \in Nat
  /\ effective_required(m, l) \in BOOLEAN

\* A linked group admits what its link makes of its limits.
LEMMA AdmittedByLink ==
  ASSUME NEW m \in Menu, NEW i \in Items, NEW l \in LinksOf(i),
         NEW n \in 0..Cardinality(AllChoices)
  PROVE  n \in Admitted(m, i, LinkGroup[l]) <=>
           CountsOK(n, effective_min(m, l), effective_max(m, l), effective_required(m, l))
<1> DEFINE g == LinkGroup[l]
<1>1. l \in Links /\ LinkItem[l] = i /\ g \in Groups
  BY CatalogueAssumption DEF LinksOf
<1>2. {k \in LinksOf(i) : LinkGroup[k] = g} = {l}
  BY <1>1, TreeAssumption DEF LinksOf
<1>3. m.link[l] \in Overrides /\ m.group[g] \in Rules
  BY <1>1 DEF Menu
<1>4. EffectiveType(m, l)
  BY <1>3 DEF EffectiveType, effective_min, effective_max, effective_required,
              Overrides, Rules, NoOverride
<1>5. n \in Nat
  BY ChoicesFinite, FS_CardinalityType
<1> DEFINE least == {effective_min(m, l)} \cup (IF effective_required(m, l) THEN {1} ELSE {})
           most == {effective_max(m, l)}
<1>6. n \in Admitted(m, i, g) <=>
        (\A b \in least : n >= b) /\ (\A b \in most \ {0} : n <= b)
  <2> HIDE DEF g
  <2> QED
    BY <1>2 DEF Admitted, AllChoices, effective_required
<1> DEFINE min == effective_min(m, l)
           max == effective_max(m, l)
           required == effective_required(m, l)
<1>7. min \in Nat /\ max \in Nat /\ required \in BOOLEAN
  BY <1>4 DEF EffectiveType
<1> HIDE DEF min, max, required
<1>8. CountsOK(n, min, max, required) <=>
        /\ \A b \in {min} \cup (IF required THEN {1} ELSE {}) : n >= b
        /\ \A b \in {max} \ {0} : n <= b
  BY ONLY <1>5, <1>7, CountsAre
<1> QED
  BY <1>6, <1>8 DEF min, max, required

\* A group that is not linked admits what its own limits say.
LEMMA AdmittedByGroup ==
  ASSUME NEW m \in Menu, NEW i, NEW g \in Groups,
         \A l \in LinksOf(i) : LinkGroup[l] # g,
         NEW n \in 0..Cardinality(AllChoices)
  PROVE  n \in Admitted(m, i, g) <=>
           CountsOK(n, m.group[g].min, m.group[g].max, m.group[g].required)
<1>1. {k \in LinksOf(i) : LinkGroup[k] = g} = {}
  OBVIOUS
<1>2. m.group[g] \in Rules
  BY DEF Menu
<1>3. n \in Nat
  BY ChoicesFinite, FS_CardinalityType
<1> DEFINE least == {m.group[g].min} \cup (IF m.group[g].required THEN {1} ELSE {})
           most == {m.group[g].max}
<1>4. n \in Admitted(m, i, g) <=>
        (\A b \in least : n >= b) /\ (\A b \in most \ {0} : n <= b)
  BY <1>1 DEF Admitted, AllChoices
<1> DEFINE min == m.group[g].min
           max == m.group[g].max
           required == m.group[g].required
<1>5. min \in Nat /\ max \in Nat /\ required \in BOOLEAN
  BY <1>2 DEF Rules
<1> HIDE DEF min, max, required
<1>6. CountsOK(n, min, max, required) <=>
        /\ \A b \in {min} \cup (IF required THEN {1} ELSE {}) : n >= b
        /\ \A b \in {max} \ {0} : n <= b
  BY ONLY <1>3, <1>5, CountsAre
<1> QED
  BY <1>4, <1>6 DEF min, max, required

\* For every menu, item and selection.
LEMMA CheckIsTheRule ==
  ASSUME NEW m \in Menu, NEW i \in Items, NEW sel \in Selection
  PROVE  check_modifier_selection(m, i, sel) <=> SelectionValid(m, i, sel)
<1>1. OptionsAllowed(m, i, sel) <=> \A o \in sel.options : OptionOfItem(m, i, o)
  BY DEF OptionsAllowed, OptionOfItem
<1>2. SourcesAllowed(m, i, sel) <=> \A p \in sel.sources : SourceOfItem(m, i, p)
  <2>1. \A p \in sel.sources : CategoryOf[p[2]] # NoCategory
    BY CatalogueAssumption DEF Selection
  <2> QED
    BY <2>1 DEF SourcesAllowed, SourceOfItem
<1> DEFINE n(g) == Cardinality(ChosenUnder(sel, g))
           valid(g) == n(g) \in Admitted(m, i, g)
<1>3. ASSUME SourcesAllowed(m, i, sel)
      PROVE  (\A l \in LinksOf(i) : LinkKept(m, sel, l)) <=> (\A g \in AllowedGroups(i) : valid(g))
  <2>1. ASSUME NEW g \in Groups
        PROVE  CountUnder(sel, g) = n(g) /\ n(g) \in 0..Cardinality(AllChoices)
    <3>1. CountUnder(sel, g) = n(g)
      BY <1>3, CountUnderIs
    <3>2. ChosenUnder(sel, g) \in SUBSET AllChoices
      BY DEF ChosenUnder, Selection, AllChoices
    <3> QED
      BY <3>1, <3>2, ChoicesFinite
  <2>2. ASSUME NEW l \in LinksOf(i)
        PROVE  LinkKept(m, sel, l) <=>
                 valid(LinkGroup[l]) /\ \A c \in Children(LinkGroup[l]) : valid(c)
    <3> DEFINE g == LinkGroup[l]
    <3>1. l \in Links /\ LinkItem[l] = i /\ g \in Groups
      BY CatalogueAssumption DEF LinksOf
    <3>2. CountsOK(CountUnder(sel, g), effective_min(m, l), effective_max(m, l),
                   effective_required(m, l)) <=> valid(g)
      BY <3>1, <2>1, AdmittedByLink
    <3>3. ASSUME NEW c \in Children(g)
          PROVE  ChildKept(m, sel, c) <=> valid(c)
      <4>1. c \in Groups /\ Children(c) = {} /\ ParentOf[c] = g
        BY <3>1, ChildrenAreLeaves
      <4>2. \A k \in LinksOf(i) : LinkGroup[k] # c
        BY <3>1, <4>1, TreeAssumption DEF LinksOf
      <4>3. CountIn(sel, c) = n(c) /\ n(c) \in 0..Cardinality(AllChoices)
        BY <4>1, <2>1 DEF CountUnder
      <4> HIDE DEF n, g
      <4> QED
        BY <4>1, <4>2, <4>3, AdmittedByGroup DEF ChildKept
    <3> HIDE DEF valid
    <3> QED
      BY <3>2, <3>3 DEF LinkKept
  <2> HIDE DEF valid
  <2> QED
    BY <2>2 DEF AllowedGroups
<1> HIDE DEF n
<1> QED
  BY <1>1, <1>2, <1>3 DEF check_modifier_selection, SelectionValid, n
-----------------------------------------------------------------------------
(***************************************************************************)
(* Operators.                                                              *)
(***************************************************************************)

\* Appending to rows of any kind.
LEMMA AppendAny ==
  ASSUME NEW s, s \in Seq(Range(s)), NEW e
  PROVE  LET a == Append(s, e)
         IN  /\ a \in Seq(Range(a))
             /\ Len(s) \in Nat /\ Len(a) = Len(s) + 1
             /\ \A k \in 1..Len(s) : a[k] = s[k]
             /\ a[Len(s) + 1] = e
<1> DEFINE a == Append(s, e)
           T == Range(s) \cup {e}
<1>1. s \in Seq(T)
  BY SeqDef
<1>2. a \in Seq(T) /\ Len(s) \in Nat /\ Len(a) = Len(s) + 1
  BY <1>1, AppendProperties, LenProperties
<1>3. (\A k \in 1..Len(s) : a[k] = s[k]) /\ a[Len(s) + 1] = e
  BY <1>1, AppendProperties
<1>4. a \in Seq(Range(a))
  <2>1. a \in [1..Len(a) -> T] /\ Len(a) \in Nat
    BY <1>2, LenProperties
  <2>2. a \in [1..Len(a) -> Range(a)]
    BY <2>1 DEF Range
  <2> QED
    BY <2>1, <2>2, SeqDef
<1> QED
  BY <1>2, <1>3, <1>4

\* All there is to Cart.remove.
LEMMA WithoutIs ==
  ASSUME NEW S, NEW c \in Seq(S), NEW id, \E k \in DOMAIN c : c[k].id = id
  PROVE  /\ Without(c, id) \in Seq(S) /\ Len(Without(c, id)) = Len(c) - 1
         /\ \E n \in 1..Len(c) : \A k \in 1..(Len(c) - 1) :
              Without(c, id)[k] = IF k < n THEN c[k] ELSE c[k + 1]
<1>1. Len(c) \in Nat /\ DOMAIN c = 1..Len(c)
  BY LenProperties
<1> DEFINE n == CHOOSE k \in DOMAIN c : c[k].id = id
           u == SubSeq(c, 1, n - 1)
           v == SubSeq(c, n + 1, Len(c))
<1>2. n \in 1..Len(c)
  BY <1>1
<1>3. Without(c, id) = u \o v
  BY DEF Without, RemoveAt
<1> HIDE DEF n
<1>4. /\ u \in Seq(S) /\ Len(u) = n - 1
      /\ \A k \in 1..(n - 1) : u[k] = c[k]
  BY <1>1, <1>2, SubSeqProperties
<1>5. /\ v \in Seq(S) /\ Len(v) = Len(c) - n
      /\ \A k \in 1..(Len(c) - n) : v[k] = c[n + k]
  <2>1. n + 1 \in Int /\ Len(c) \in Int /\ \A i \in (n + 1)..Len(c) : c[i] \in S
    BY <1>1, <1>2
  <2>2. /\ v \in Seq(S)
        /\ Len(v) = IF n + 1 <= Len(c) THEN Len(c) - (n + 1) + 1 ELSE 0
        /\ \A i \in 1..(Len(c) - (n + 1) + 1) : v[i] = c[(n + 1) + i - 1]
    BY <2>1, SubSeqProperties
  <2> HIDE DEF v
  <2>3. Len(c) - (n + 1) + 1 = Len(c) - n
    BY <1>1, <1>2
  <2>4. \A i \in 1..(Len(c) - n) : (n + 1) + i - 1 = n + i
    BY <1>1, <1>2
  <2>5. Len(v) = Len(c) - n
    <3>1. n \in Int /\ n <= Len(c) /\ Len(c) \in Int
      BY <1>1, <1>2
    <3>2. Len(v) = IF n + 1 <= Len(c) THEN Len(c) - (n + 1) + 1 ELSE 0
      BY <2>2
    <3> QED
      BY ONLY <3>1, <3>2
  <2>6. \A i \in 1..(Len(c) - n) : v[i] = c[n + i]
    BY <2>2, <2>3, <2>4
  <2> QED
    BY <2>2, <2>5, <2>6
<1> HIDE DEF u, v
<1>6. /\ u \o v \in Seq(S) /\ Len(u \o v) = Len(u) + Len(v)
      /\ \A k \in 1..(Len(u) + Len(v)) :
           (u \o v)[k] = IF k <= Len(u) THEN u[k] ELSE v[k - Len(u)]
  BY <1>4, <1>5, ConcatProperties
<1>7. Len(u) + Len(v) = Len(c) - 1
  BY <1>1, <1>2, <1>4, <1>5
<1>8. ASSUME NEW k \in 1..(Len(c) - 1)
      PROVE  (u \o v)[k] = IF k < n THEN c[k] ELSE c[k + 1]
  <2>1. (u \o v)[k] = IF k <= n - 1 THEN u[k] ELSE v[k - (n - 1)]
    BY <1>4, <1>6, <1>7
  <2>2. CASE k < n
    <3>1. k <= n - 1 /\ k \in 1..(n - 1)
      BY <1>1, <1>2, <2>2
    <3> QED
      BY <1>4, <2>1, <2>2, <3>1
  <2>3. CASE ~(k < n)
    <3>1. /\ ~(k <= n - 1) /\ k - (n - 1) \in 1..(Len(c) - n)
          /\ n + (k - (n - 1)) = k + 1
      BY <1>1, <1>2, <2>3
    <3> QED
      BY <1>5, <2>1, <2>3, <3>1
  <2> QED
    BY <2>2, <2>3
<1> QED
  BY <1>2, <1>3, <1>6, <1>7, <1>8

\* Removing a line keeps others as they are, and their order.
LEMMA WithoutKeeps ==
  ASSUME NEW S, NEW c \in Seq(S), NEW id
  PROVE  /\ Without(c, id) \in Seq(S)
         /\ Len(Without(c, id)) <= Len(c)
         /\ \A k \in DOMAIN Without(c, id) : \E j \in DOMAIN c : Without(c, id)[k] = c[j]
         /\ \A j, k \in DOMAIN Without(c, id) : j < k =>
              \E a, b \in DOMAIN c : /\ a < b
                                     /\ Without(c, id)[j] = c[a]
                                     /\ Without(c, id)[k] = c[b]
<1>1. Len(c) \in Nat /\ DOMAIN c = 1..Len(c)
  BY LenProperties
<1>2. CASE \A k \in DOMAIN c : c[k].id # id
  <2>1. Without(c, id) = c
    BY <1>2 DEF Without
  <2> QED
    BY <1>1, <2>1
<1>3. CASE \E k \in DOMAIN c : c[k].id = id
  <2> DEFINE w == Without(c, id)
  <2>1. w \in Seq(S) /\ Len(w) = Len(c) - 1
    BY <1>3, WithoutIs
  <2>2. PICK n \in 1..Len(c) : \A k \in 1..(Len(c) - 1) :
          w[k] = IF k < n THEN c[k] ELSE c[k + 1]
    BY <1>3, WithoutIs
  <2> HIDE DEF w
  <2>3. DOMAIN w = 1..(Len(c) - 1)
    BY <2>1, LenProperties
  <2> DEFINE at(k) == IF k < n THEN k ELSE k + 1
  <2>4. \A k \in 1..(Len(c) - 1) : at(k) \in DOMAIN c /\ w[k] = c[at(k)]
    BY <1>1, <2>2
  <2>5. \A j, k \in 1..(Len(c) - 1) : j < k => at(j) < at(k)
    BY <1>1, <2>2
  <2>6. Len(w) <= Len(c)
    BY <1>1, <2>1
  <2> HIDE DEF at
  <2> QED
    BY <2>1, <2>3, <2>4, <2>5, <2>6 DEF w
<1> QED
  BY <1>2, <1>3

\* Forms offer options, and items of groups, that there are.
LEMMA OffersAreSelections ==
  ASSUME NEW m, NEW i
  PROVE  Offer(m, i) \in Selection /\ Nothing \in Selection
<1>1. ShownGroups(m, i) \subseteq Groups
  BY CatalogueAssumption DEF ShownGroups, AllowedGroups, Children, LinksOf
<1> QED
  BY <1>1 DEF Offer, Nothing, Selection

LEMMA PicksAreSelections ==
  ASSUME NEW offer \in Selection, NEW sel \in Picks(offer)
  PROVE  sel \in Selection
BY DEF Picks, Selection
-----------------------------------------------------------------------------
(***************************************************************************)
(* The guest's pages and the cart.                                         *)
(***************************************************************************)
LEMMA InitHolds == Init => IInv
<1> SUFFICES ASSUME Init PROVE IInv
  OBVIOUS
<1>1. menu \in Menu /\ edits = 0 /\ drawn = 0 /\ cart = <<>> /\ req = Idle
  BY StartAssumption DEF Init
<1>2. page.kind = "menu"
  BY DEF Init, MenuPage
<1>3. cart \in Seq(Line) /\ DOMAIN cart = {}
  BY <1>1
<1> QED
  BY <1>1, <1>2, <1>3 DEF IInv, Shape, PageRight, CartFresh, OptionsKept, ReadsCurrent,
     ShownCurrent, RefusedForAReason

LEMMA MenuPageFits ==
  ASSUME page'.kind \in {"menu", "failed"}
  PROVE  PageRight' /\ RefusedForAReason'
BY DEF PageRight, RefusedForAReason

LEMMA FormPageFits ==
  ASSUME NEW i \in Items, NEW line \in Nat, NEW offer \in Selection, NEW error,
         page' = FormPage(i, line, offer, error)
  PROVE  PageRight' /\ RefusedForAReason'
BY DEF PageRight, RefusedForAReason, FormPage

LEMMA CartPageFits ==
  ASSUME IInv, menu' = menu, edits' = edits, NEW error, page' = CartPage(cart', error)
  PROVE  PageRight' /\ page'.kind = "cart" /\ page'.error = error
<1>1. /\ page'.kind = "cart" /\ page'.error = error /\ page'.at = edits
      /\ page'.total = CartTotal(menu, cart') /\ page'.shown \subseteq DOMAIN cart'
  BY DEF CartPage, lines
<1> QED
  BY <1>1 DEF IInv, Shape, PageRight

\* With no order in the making, the menu, the cart and the page are all there is.
LEMMA IdleKeeps ==
  ASSUME IInv, menu' = menu, edits' = edits, req' = Idle, drawn' \in Nat,
         cart' \in Seq(Line), CartFresh', PageRight', RefusedForAReason'
  PROVE  IInv'
BY DEF IInv, Shape, OptionsKept, ReadsCurrent, ShownCurrent

LEMMA GuestKeeps ==
  ASSUME IInv, GuestActs, cart' \in Seq(Line), drawn' \in Nat, CartFresh', PageRight',
         RefusedForAReason'
  PROVE  IInv'
BY IdleKeeps DEF GuestActs

LEMMA SameCartFresh ==
  ASSUME IInv, GuestActs, UNCHANGED <<cart, drawn>>
  PROVE  cart' \in Seq(Line) /\ drawn' \in Nat /\ CartFresh'
BY DEF IInv, Shape, CartFresh, GuestActs

LEMMA FewerLinesFresh ==
  ASSUME IInv, GuestActs, NEW id, NEW c, c = Without(cart, id)
  PROVE  /\ c \in Seq(Line)
         /\ \A k \in DOMAIN c :
              /\ c[k].at <= edits
              /\ c[k].at = edits =>
                   /\ can_be_ordered(menu, c[k].item)
                   /\ check_modifier_selection(menu, c[k].item, c[k].wanted)
<1>1. cart \in Seq(Line) /\ CartFresh
  BY DEF IInv, Shape
<1>2. c \in Seq(Line) /\ \A k \in DOMAIN c : \E j \in DOMAIN cart : c[k] = cart[j]
  BY <1>1, WithoutKeeps
<1> QED
  BY <1>1, <1>2 DEF CartFresh

LEMMA LineOfCart ==
  ASSUME IInv, NEW k \in DOMAIN cart
  PROVE  /\ cart[k] \in Line /\ cart[k].id \in Nat /\ cart[k].item \in Items
         /\ cart[k].wanted \in Selection /\ cart[k].at \in Nat /\ edits \in Nat
<1>1. cart[k] \in Line
  BY DEF IInv, Shape
<1> QED
  BY <1>1 DEF Line, IInv, Shape

LEMMA OpenPanelStep ==
  ASSUME IInv, NEW i \in Items, OpenPanel(i)
  PROVE  IInv'
<1>1. GuestActs /\ UNCHANGED <<cart, drawn>>
      /\ page' = FormPage(i, NoLine, PanelOffer(menu, i), FALSE)
  BY DEF OpenPanel
<1>2. PanelOffer(menu, i) \in Selection /\ NoLine \in Nat
  BY OffersAreSelections DEF PanelOffer, NoLine
<1>3. PageRight' /\ RefusedForAReason'
  BY <1>1, <1>2, FormPageFits
<1> QED
  BY <1>1, <1>3, SameCartFresh, GuestKeeps

LEMMA OpenEditStep ==
  ASSUME IInv, NEW k \in DOMAIN cart, OpenEdit(k)
  PROVE  IInv'
<1>1. GuestActs /\ UNCHANGED <<cart, drawn>>
      /\ page' = FormPage(cart[k].item, cart[k].id, PageOffer(menu, cart[k].item), FALSE)
  BY DEF OpenEdit
<1>2. PageOffer(menu, cart[k].item) \in Selection
  BY OffersAreSelections DEF PageOffer
<1>3. PageRight' /\ RefusedForAReason'
  BY <1>1, <1>2, LineOfCart, FormPageFits
<1> QED
  BY <1>1, <1>3, SameCartFresh, GuestKeeps

LEMMA ShowCartStep ==
  ASSUME IInv, ShowCart
  PROVE  IInv'
<1>1. GuestActs /\ UNCHANGED <<cart, drawn>> /\ page' = CartPage(cart', FALSE)
  BY DEF ShowCart
<1>2. PageRight' /\ page'.error = FALSE
  BY <1>1, CartPageFits DEF GuestActs
<1>3. RefusedForAReason'
  BY <1>2 DEF RefusedForAReason
<1> QED
  BY <1>1, <1>2, <1>3, SameCartFresh, GuestKeeps

LEMMA ShowMenuStep ==
  ASSUME IInv, ShowMenu
  PROVE  IInv'
<1>1. GuestActs /\ UNCHANGED <<cart, drawn>> /\ page'.kind = "menu"
  BY DEF ShowMenu, MenuPage
<1> QED
  BY <1>1, MenuPageFits, SameCartFresh, GuestKeeps

\* A line is added when the item and the selection pass on the current menu.
LEMMA AddLineStep ==
  ASSUME IInv, page.kind = "form", NEW sel \in Picks(page.offer),
         NEW n \in 1..MaxQuantity, AddLine(sel, n)
  PROVE  IInv'
<1> DEFINE line == [id |-> drawn + 1, item |-> page.item, quantity |-> n,
                    wanted |-> sel, at |-> edits]
           rest == Without(cart, page.line)
<1>1. /\ GuestActs /\ drawn' = drawn + 1 /\ cart' = Append(rest, line)
      /\ can_be_ordered(menu, page.item)
      /\ check_modifier_selection(menu, page.item, sel)
      /\ page' = IF page.line = NoLine THEN MenuPage ELSE CartPage(cart', FALSE)
  BY DEF AddLine, CartWith, Addable
<1>2. line \in Line /\ drawn + 1 \in Nat
  <2>1. sel \in Selection /\ page.item \in Items /\ drawn \in Nat /\ edits \in Nat
    BY PicksAreSelections DEF IInv, Shape, PageRight
  <2>2. n \in Nat \ {0}
    BY BoundAssumption
  <2> QED
    BY <2>1, <2>2 DEF Line, NoLine
<1>3. /\ rest \in Seq(Line)
      /\ \A k \in DOMAIN rest :
           /\ rest[k].at <= edits
           /\ rest[k].at = edits =>
                /\ can_be_ordered(menu, rest[k].item)
                /\ check_modifier_selection(menu, rest[k].item, rest[k].wanted)
  BY <1>1, FewerLinesFresh
<1>4. /\ line.item = page.item /\ line.wanted = sel /\ line.at = edits
      /\ edits \in Nat
  BY DEF IInv, Shape
<1> HIDE DEF line, rest
<1>5. /\ cart' \in Seq(Line) /\ DOMAIN cart' = 1..(Len(rest) + 1) /\ Len(rest) \in Nat
      /\ \A k \in 1..Len(rest) : k \in DOMAIN rest /\ cart'[k] = rest[k]
      /\ cart'[Len(rest) + 1] = line
  BY <1>1, <1>2, <1>3, AppendProperties, LenProperties
<1>6. CartFresh'
  <2> SUFFICES ASSUME NEW k \in DOMAIN cart'
               PROVE  /\ cart'[k].at <= edits
                      /\ cart'[k].at = edits =>
                           /\ can_be_ordered(menu, cart'[k].item)
                           /\ check_modifier_selection(menu, cart'[k].item, cart'[k].wanted)
    BY <1>1 DEF CartFresh, GuestActs
  <2>1. CASE k \in 1..Len(rest)
    BY <1>3, <1>5, <2>1
  <2>2. CASE k = Len(rest) + 1
    BY <1>1, <1>4, <1>5, <2>2
  <2> QED
    BY <1>5, <2>1, <2>2
<1>7. PageRight' /\ RefusedForAReason'
  <2>1. CASE page.line = NoLine
    BY <1>1, <2>1, MenuPageFits DEF MenuPage
  <2>2. CASE page.line # NoLine
    <3>1. PageRight' /\ page'.error = FALSE
      BY <1>1, <2>2, CartPageFits DEF GuestActs
    <3> QED
      BY <3>1 DEF RefusedForAReason
  <2> QED
    BY <2>1, <2>2
<1> QED
  BY <1>1, <1>2, <1>5, <1>6, <1>7, GuestKeeps

LEMMA RefuseLineStep ==
  ASSUME IInv, page.kind = "form", NEW sel \in Picks(page.offer), RefuseLine(sel)
  PROVE  IInv'
<1>1. /\ GuestActs /\ UNCHANGED <<cart, drawn>>
      /\ page' = IF page.line # NoLine /\ Exists(menu, page.item)
                 THEN FormPage(page.item, page.line, PageOffer(menu, page.item), TRUE)
                 ELSE [MenuPage EXCEPT !.error = TRUE]
  BY DEF RefuseLine
<1>2. PageRight' /\ RefusedForAReason'
  <2>1. CASE page.line # NoLine /\ Exists(menu, page.item)
    <3>1. page.item \in Items /\ page.line \in Nat
      BY DEF IInv, PageRight
    <3>2. PageOffer(menu, page.item) \in Selection
      BY OffersAreSelections DEF PageOffer
    <3> QED
      BY <1>1, <2>1, <3>1, <3>2, FormPageFits
  <2>2. CASE ~(page.line # NoLine /\ Exists(menu, page.item))
    <3>1. page'.kind = "menu"
      BY <1>1, <2>2 DEF MenuPage
    <3> QED
      BY <3>1, MenuPageFits
  <2> QED
    BY <2>1, <2>2
<1> QED
  BY <1>1, <1>2, SameCartFresh, GuestKeeps

LEMMA UpdateQuantityStep ==
  ASSUME IInv, NEW k \in DOMAIN cart, NEW n \in 1..MaxQuantity, UpdateQuantity(k, n)
  PROVE  IInv'
<1>1. /\ GuestActs /\ drawn' = drawn /\ cart' = [cart EXCEPT ![k].quantity = n]
      /\ page' = CartPage(cart', FALSE)
  BY DEF UpdateQuantity
<1> DEFINE line == [cart[k] EXCEPT !.quantity = n]
<1>2. line \in Line /\ line.item = cart[k].item /\ line.wanted = cart[k].wanted
      /\ line.at = cart[k].at
  <2>1. n \in Nat \ {0}
    BY BoundAssumption
  <2> QED
    BY <2>1, LineOfCart DEF Line
<1>3. cart' = [cart EXCEPT ![k] = line]
  BY <1>1
<1> HIDE DEF line
<1>4. cart \in [1..Len(cart) -> Line] /\ Len(cart) \in Nat
  BY LenProperties DEF IInv, Shape
<1>5. cart' \in [1..Len(cart) -> Line]
  BY <1>2, <1>3, <1>4
<1>6. cart' \in Seq(Line)
  BY <1>4, <1>5, SeqDef
<1>7. CartFresh'
  <2>1. \A j \in DOMAIN cart' : /\ j \in DOMAIN cart
                                /\ cart'[j].item = cart[j].item
                                /\ cart'[j].wanted = cart[j].wanted
                                /\ cart'[j].at = cart[j].at
    BY <1>2, <1>3, <1>4
  <2> QED
    BY <1>1, <2>1 DEF IInv, CartFresh, GuestActs
<1>8. PageRight' /\ page'.error = FALSE
  BY <1>1, CartPageFits DEF GuestActs
<1>9. RefusedForAReason' /\ drawn' \in Nat
  BY <1>1, <1>8 DEF RefusedForAReason, IInv, Shape
<1> QED
  BY <1>1, <1>6, <1>7, <1>8, <1>9, GuestKeeps

LEMMA RemoveLineStep ==
  ASSUME IInv, NEW k \in DOMAIN cart, RemoveLine(k)
  PROVE  IInv'
<1>1. /\ GuestActs /\ drawn' = drawn /\ cart' = Without(cart, cart[k].id)
      /\ page' = CartPage(cart', FALSE)
  BY DEF RemoveLine
<1>2. cart' \in Seq(Line) /\ CartFresh'
  BY <1>1, FewerLinesFresh DEF CartFresh, GuestActs
<1>3. PageRight' /\ page'.error = FALSE
  BY <1>1, CartPageFits DEF GuestActs
<1>4. RefusedForAReason' /\ drawn' \in Nat
  BY <1>1, <1>3 DEF RefusedForAReason, IInv, Shape
<1> QED
  BY <1>1, <1>2, <1>3, <1>4, GuestKeeps

\* The cart page blocks a submit only for a line added before an edit.
LEMMA SubmitBlockedStep ==
  ASSUME IInv, SubmitBlocked
  PROVE  IInv'
<1>1. /\ GuestActs /\ UNCHANGED <<cart, drawn>> /\ page' = CartPage(cart', TRUE)
      /\ Blocked # {}
  BY DEF SubmitBlocked
<1>2. PageRight'
  BY <1>1, CartPageFits DEF GuestActs
<1>3. RefusedForAReason'
  <2>1. PICK k \in DOMAIN cart : ~can_be_ordered(menu, cart[k].item)
    BY <1>1 DEF Blocked, lines
  <2>2. cart[k].at # edits /\ cart[k].at <= edits
    BY <2>1 DEF IInv, CartFresh
  <2>3. cart[k].at < edits
    BY <2>2, LineOfCart
  <2> QED
    BY <1>1, <2>3 DEF RefusedForAReason, GuestActs
<1> QED
  BY <1>1, <1>2, <1>3, SameCartFresh, GuestKeeps

LEMMA SubmitStep ==
  ASSUME IInv, Submit
  PROVE  IInv'
<1>1. /\ req = Idle /\ page.kind = "cart" /\ UNCHANGED <<menu, edits, cart, drawn, page>>
      /\ req' = [phase |-> "get", base |-> 0, deltas |-> 0, options |-> {},
                 rows |-> <<>>, total |-> 0, shown |-> page.total,
                 shownAt |-> page.at, begunAt |-> edits, withdrawn |-> {}]
      /\ page.shown # {}
  BY DEF Submit
<1>2. /\ req'.phase = "get" /\ req'.rows = <<>> /\ req'.shown = page.total
      /\ req'.shownAt = page.at /\ req'.begunAt = edits
  BY <1>1
<1>3. /\ page.at \in Nat /\ page.at <= edits /\ edits \in Nat
      /\ page.at = edits => page.total = CartTotal(menu, cart)
  BY <1>1 DEF IInv, PageRight, Shape
<1>4. Len(req'.rows) = 0 /\ req'.rows \in Seq(Range(req'.rows))
  BY <1>2
<1>5. Len(cart) \in Nat /\ 0 < Len(cart)
  <2>1. cart \in Seq(Line) /\ DOMAIN cart # {}
    BY <1>1 DEF IInv, Shape, PageRight
  <2> QED
    BY <2>1, LenProperties
<1>6. Shape'
  <2>1. req' = [phase |-> req'.phase, base |-> req'.base, deltas |-> req'.deltas,
                options |-> req'.options, rows |-> req'.rows, total |-> req'.total,
                shown |-> req'.shown, shownAt |-> req'.shownAt,
                begunAt |-> req'.begunAt, withdrawn |-> req'.withdrawn]
    BY <1>1
  <2> QED
    BY <1>1, <1>2, <1>3, <1>4, <1>5, <2>1 DEF IInv, Shape, Phases
<1>7. PageRight' /\ CartFresh' /\ RefusedForAReason'
  BY <1>1 DEF IInv, PageRight, CartFresh, RefusedForAReason
<1>8. OptionsKept' /\ ReadsCurrent'
  BY <1>2, <1>4 DEF OptionsKept, ReadsCurrent
<1>9. ShownCurrent'
  BY <1>1, <1>2, <1>3 DEF ShownCurrent
<1> QED
  BY <1>6, <1>7, <1>8, <1>9 DEF IInv
-----------------------------------------------------------------------------
(***************************************************************************)
(* create_order, one statement after the other.                            *)
(***************************************************************************)
LEMMA Creating ==
  ASSUME IInv, req.phase \in Phases
  PROVE  /\ req # Idle
         /\ Len(req.rows) \in Nat /\ Len(cart) \in Nat /\ DOMAIN cart = 1..Len(cart)
         /\ req.phase \notin {"total", "commit"} => Len(req.rows) + 1 \in DOMAIN cart
         /\ req.phase \in {"total", "commit"} => Len(req.rows) = Len(cart)
<1>1. req # Idle
  BY DEF Idle, Phases
<1>2. /\ req.rows \in Seq(Range(req.rows)) /\ cart \in Seq(Line)
      /\ IF req.phase \in {"total", "commit"} THEN Len(req.rows) = Len(cart)
         ELSE Len(req.rows) < Len(cart)
  BY <1>1 DEF IInv, Shape
<1>3. Len(req.rows) \in Nat /\ Len(cart) \in Nat /\ DOMAIN cart = 1..Len(cart)
  BY <1>2, LenProperties
<1> QED
  BY <1>1, <1>2, <1>3

\* A statement that writes nothing but the order in the making.
LEMMA CreationKeeps ==
  ASSUME IInv, req # Idle, InCreation,
         req' = [phase |-> req'.phase, base |-> req'.base, deltas |-> req'.deltas,
                 options |-> req'.options, rows |-> req'.rows, total |-> req'.total,
                 shown |-> req.shown, shownAt |-> req.shownAt,
                 begunAt |-> req.begunAt, withdrawn |-> req.withdrawn],
         req'.phase \in Phases, req'.rows \in Seq(Range(req'.rows)),
         IF req'.phase \in {"total", "commit"} THEN Len(req'.rows) = Len(cart)
         ELSE Len(req'.rows) < Len(cart),
         OptionsKept', ReadsCurrent'
  PROVE  IInv'
<1>1. UNCHANGED <<menu, edits, cart, drawn, page>>
  BY DEF InCreation
<1>2. /\ req'.shown = req.shown /\ req'.shownAt = req.shownAt
      /\ req'.begunAt = req.begunAt /\ req'.withdrawn = req.withdrawn
  OBVIOUS
<1>3. /\ req.shownAt \in Nat /\ req.begunAt \in Nat
      /\ req.shownAt <= req.begunAt /\ req.begunAt <= edits
  BY DEF IInv, Shape
<1>4. Shape'
  <2>1. req' = [phase |-> req'.phase, base |-> req'.base, deltas |-> req'.deltas,
                options |-> req'.options, rows |-> req'.rows, total |-> req'.total,
                shown |-> req'.shown, shownAt |-> req'.shownAt,
                begunAt |-> req'.begunAt, withdrawn |-> req'.withdrawn]
    BY <1>2
  <2> QED
    BY <1>1, <1>2, <1>3, <2>1 DEF IInv, Shape
<1>5. PageRight' /\ CartFresh' /\ RefusedForAReason'
  BY <1>1 DEF IInv, PageRight, CartFresh, RefusedForAReason
<1>6. ShownCurrent'
  BY <1>1, <1>2 DEF IInv, ShownCurrent
<1> QED
  BY <1>4, <1>5, <1>6 DEF IInv

\* A statement that reads for the line in progress.
LEMMA ReadsForLine ==
  ASSUME IInv, req.phase \in {"get", "validate", "options"}, InCreation,
         NEW phase \in {"validate", "options", "sources"}, NEW base, NEW deltas, NEW options,
         req' = [phase |-> phase, base |-> base, deltas |-> deltas, options |-> options,
                 rows |-> req.rows, total |-> req.total, shown |-> req.shown,
                 shownAt |-> req.shownAt, begunAt |-> req.begunAt,
                 withdrawn |-> req.withdrawn],
         phase = "options" => \A o \in Current.wanted.options :
           menu.option[o].active \/ o \in req.withdrawn,
         phase = "sources" => Current.wanted.options \ options \subseteq req.withdrawn,
         req.begunAt = edits =>
           /\ can_be_ordered(menu, Current.item)
           /\ base = menu.item[Current.item].price
           /\ phase \in {"options", "sources"} => LineChecked(Len(req.rows) + 1)
           /\ phase = "sources" => /\ options = Current.wanted.options
                                   /\ deltas = Deltas(menu, Current.wanted.options)
  PROVE  IInv'
<1>1. UNCHANGED <<menu, edits, cart>>
  BY DEF InCreation
<1>2. req # Idle
  BY DEF Idle
<1>3. /\ req'.phase = phase /\ req'.base = base /\ req'.deltas = deltas
      /\ req'.options = options /\ req'.rows = req.rows
      /\ req'.begunAt = req.begunAt /\ req'.withdrawn = req.withdrawn
  OBVIOUS
<1>4. /\ req.rows \in Seq(Range(req.rows)) /\ Len(req.rows) < Len(cart)
  BY <1>2 DEF IInv, Shape
<1>5. Current' = Current /\ LineChecked(Len(req.rows) + 1)' = LineChecked(Len(req.rows) + 1)
  BY <1>1, <1>3 DEF Current, LineChecked
<1>6. OptionsKept'
  BY <1>1, <1>2, <1>3, <1>5 DEF IInv, OptionsKept
<1>7. ReadsCurrent'
  <2> SUFFICES ASSUME req'.begunAt = edits' PROVE ReadsCurrent'
    BY DEF ReadsCurrent
  <2>1. req.begunAt = edits
    BY <1>1, <1>3
  <2>2. \A k \in 1..Len(req.rows) :
          /\ LineChecked(k)'
          /\ req'.rows[k].options = cart'[k].wanted.options
          /\ req'.rows[k].line_total = line_total(menu', cart'[k])
    BY <1>1, <1>2, <1>3, <2>1 DEF IInv, ReadsCurrent, LineChecked
  <2>3. /\ can_be_ordered(menu', Current'.item)
        /\ req'.base = menu'.item[Current'.item].price
    BY <1>1, <1>3, <1>5, <2>1
  <2>4. req'.phase \in {"options", "sources"} => LineChecked(Len(req.rows) + 1)'
    BY <1>3, <1>5, <2>1
  <2>5. req'.phase = "sources" =>
          /\ req'.options = Current'.wanted.options
          /\ req'.deltas = Deltas(menu', Current'.wanted.options)
    BY <1>1, <1>3, <1>5, <2>1
  <2>6. req'.phase # "commit"
    BY <1>3
  <2> QED
    BY <1>3, <2>2, <2>3, <2>4, <2>5, <2>6 DEF ReadsCurrent, LineChecked
<1>8. req'.rows \in Seq(Range(req'.rows)) /\ Len(req'.rows) < Len(cart)
  BY <1>3, <1>4
<1>9. req' = [phase |-> req'.phase, base |-> req'.base, deltas |-> req'.deltas,
              options |-> req'.options, rows |-> req'.rows, total |-> req'.total,
              shown |-> req.shown, shownAt |-> req.shownAt,
              begunAt |-> req.begunAt, withdrawn |-> req.withdrawn]
  OBVIOUS
<1> QED
  BY <1>2, <1>3, <1>6, <1>7, <1>8, <1>9, CreationKeeps DEF Phases

LEMMA RequestRecord ==
  ASSUME IInv, req.phase \in Phases
  PROVE  req = [phase |-> req.phase, base |-> req.base, deltas |-> req.deltas,
                options |-> req.options, rows |-> req.rows, total |-> req.total,
                shown |-> req.shown, shownAt |-> req.shownAt,
                begunAt |-> req.begunAt, withdrawn |-> req.withdrawn]
BY Creating DEF IInv, Shape

LEMMA GetItemStep ==
  ASSUME IInv, GetItem
  PROVE  IInv'
<1>1. /\ req.phase = "get" /\ can_be_ordered(menu, Current.item) /\ InCreation
      /\ req' = [req EXCEPT !.phase = "validate", !.base = menu.item[Current.item].price]
  BY DEF GetItem
<1>2. req' = [phase |-> "validate", base |-> menu.item[Current.item].price,
              deltas |-> req.deltas, options |-> req.options, rows |-> req.rows,
              total |-> req.total, shown |-> req.shown, shownAt |-> req.shownAt,
              begunAt |-> req.begunAt, withdrawn |-> req.withdrawn]
  BY <1>1, RequestRecord DEF Phases
<1> QED
  BY <1>1, <1>2, ReadsForLine

LEMMA ValidateModifiersStep ==
  ASSUME IInv, ValidateModifiers
  PROVE  IInv'
<1>1. /\ req.phase = "validate" /\ InCreation
      /\ \/ check_modifier_selection(menu, Current.item, Current.wanted)
         \/ Current.wanted = Nothing /\ ~Exists(menu, Current.item)
      /\ req' = [req EXCEPT !.phase = "options"]
  BY DEF ValidateModifiers, ModifiersValid
<1>2. req' = [phase |-> "options", base |-> req.base, deltas |-> req.deltas,
              options |-> req.options, rows |-> req.rows, total |-> req.total,
              shown |-> req.shown, shownAt |-> req.shownAt,
              begunAt |-> req.begunAt, withdrawn |-> req.withdrawn]
  BY <1>1, RequestRecord DEF Phases
<1>3. \A o \in Current.wanted.options : menu.option[o].active
  BY <1>1 DEF check_modifier_selection, OptionsAllowed, Nothing
<1>4. req.begunAt = edits => /\ can_be_ordered(menu, Current.item)
                             /\ req.base = menu.item[Current.item].price
                             /\ LineChecked(Len(req.rows) + 1)
  <2>1. req # Idle
    BY <1>1 DEF Idle
  <2> QED
    BY <1>1, <2>1 DEF IInv, ReadsCurrent, LineChecked, Current, can_be_ordered, Exists
<1> QED
  BY <1>1, <1>2, <1>3, <1>4, ReadsForLine

LEMMA ReadOptionsStep ==
  ASSUME IInv, ReadOptions
  PROVE  IInv'
<1> DEFINE found == {o \in Current.wanted.options : menu.option[o].active}
<1>1. /\ req.phase = "options" /\ InCreation
      /\ req' = [req EXCEPT !.phase = "sources", !.options = found,
                            !.deltas = Deltas(menu, found)]
  BY DEF ReadOptions
<1>0. req # Idle
  BY <1>1 DEF Idle
<1>2. Current.wanted.options \ found \subseteq req.withdrawn
  BY <1>0, <1>1 DEF IInv, OptionsKept
<1>3. req.begunAt = edits =>
        /\ can_be_ordered(menu, Current.item)
        /\ req.base = menu.item[Current.item].price
        /\ LineChecked(Len(req.rows) + 1)
        /\ found = Current.wanted.options
  <2> SUFFICES ASSUME req.begunAt = edits
               PROVE  /\ can_be_ordered(menu, Current.item)
                      /\ req.base = menu.item[Current.item].price
                      /\ LineChecked(Len(req.rows) + 1)
                      /\ found = Current.wanted.options
    OBVIOUS
  <2>1. /\ can_be_ordered(menu, Current.item)
        /\ req.base = menu.item[Current.item].price
        /\ LineChecked(Len(req.rows) + 1)
    BY <1>0, <1>1 DEF IInv, ReadsCurrent
  <2>2. \A o \in Current.wanted.options : menu.option[o].active
    BY <2>1 DEF LineChecked, Current, check_modifier_selection, OptionsAllowed
  <2> QED
    BY <2>1, <2>2
<1> HIDE DEF found
<1>4. req' = [phase |-> "sources", base |-> req.base, deltas |-> Deltas(menu, found),
              options |-> found, rows |-> req.rows, total |-> req.total,
              shown |-> req.shown, shownAt |-> req.shownAt,
              begunAt |-> req.begunAt, withdrawn |-> req.withdrawn]
  BY <1>1, RequestRecord DEF Phases
<1> QED
  BY <1>1, <1>2, <1>3, <1>4, ReadsForLine

\* The row of a line costs what the cart page asks for it.
LEMMA ReadSourcesStep ==
  ASSUME IInv, ReadSources
  PROVE  IInv'
<1> DEFINE sum == req.base + (req.deltas + Prices(menu, Current.wanted.sources))
           row == [options |-> req.options, unit_price |-> sum,
                   line_total |-> sum * Current.quantity]
           rows == Append(req.rows, row)
           n == Len(req.rows)
           phase == IF n + 1 < Len(cart) THEN "get" ELSE "total"
<1>1. /\ req.phase = "sources" /\ InCreation /\ UNCHANGED <<menu, edits, cart>>
      /\ \A p \in Current.wanted.sources : Exists(menu, p[2])
  BY DEF ReadSources, InCreation
<1>2. /\ req # Idle /\ n \in Nat /\ Len(cart) \in Nat /\ n < Len(cart)
      /\ req.rows \in Seq(Range(req.rows))
  BY <1>1, Creating DEF IInv, Shape, Phases
<1>3. /\ rows \in Seq(Range(rows)) /\ Len(rows) = n + 1
      /\ \A k \in 1..n : rows[k] = req.rows[k]
      /\ rows[n + 1] = row
  BY <1>2, AppendAny
<1>4. req' = [req EXCEPT !.rows = rows, !.options = {}, !.base = 0, !.deltas = 0,
                         !.phase = phase]
  BY <1>3 DEF ReadSources, recalculate
<1>5. row.options = req.options /\ row.line_total = sum * Current.quantity
  OBVIOUS
<1>6. Current.wanted.options \ req.options \subseteq req.withdrawn
  BY <1>1, <1>2 DEF IInv, OptionsKept
<1>7. req.begunAt = edits =>
        /\ LineChecked(n + 1)
        /\ req.options = Current.wanted.options
        /\ sum * Current.quantity = line_total(menu, Current)
  <2> SUFFICES ASSUME req.begunAt = edits
               PROVE  /\ LineChecked(n + 1)
                      /\ req.options = Current.wanted.options
                      /\ sum * Current.quantity = line_total(menu, Current)
    OBVIOUS
  <2>1. /\ LineChecked(n + 1) /\ req.options = Current.wanted.options
        /\ req.base = menu.item[Current.item].price
        /\ req.deltas = Deltas(menu, Current.wanted.options)
    BY <1>1, <1>2 DEF IInv, ReadsCurrent
  <2>2. {p \in Current.wanted.sources : Exists(menu, p[2])} = Current.wanted.sources
    BY <1>1
  <2>3. sum = unit_price(menu, Current)
    BY <2>1, <2>2 DEF unit_price
  <2> QED
    BY <2>1, <2>3 DEF line_total
<1>8. Current = cart[n + 1]
  BY DEF Current
<1> HIDE DEF rows, row, sum, phase
<1>9. req' = [phase |-> phase, base |-> 0, deltas |-> 0, options |-> {},
              rows |-> rows, total |-> req.total, shown |-> req.shown,
              shownAt |-> req.shownAt, begunAt |-> req.begunAt,
              withdrawn |-> req.withdrawn]
  <2>1. req.phase \in Phases
    BY <1>1 DEF Phases
  <2> QED
    BY <1>4, <2>1, RequestRecord
<1>10. /\ req'.phase = phase /\ req'.rows = rows /\ req'.begunAt = req.begunAt
       /\ req'.withdrawn = req.withdrawn
  BY <1>9
<1>11. phase \in {"get", "total"} /\ (phase = "get" <=> n + 1 < Len(cart))
  BY DEF phase
<1>12. ASSUME NEW k \in 1..(n + 1)
       PROVE  cart[k].wanted.options \ rows[k].options \subseteq req.withdrawn
  <2>1. CASE k \in 1..n
    BY <1>2, <1>3, <2>1 DEF IInv, OptionsKept
  <2>2. CASE k = n + 1
    BY <1>3, <1>5, <1>6, <1>8, <2>2
  <2> QED
    BY <1>2, <2>1, <2>2
<1>13. ASSUME NEW k \in 1..(n + 1), req.begunAt = edits
       PROVE  /\ LineChecked(k)
              /\ rows[k].options = cart[k].wanted.options
              /\ rows[k].line_total = line_total(menu, cart[k])
  <2>1. CASE k \in 1..n
    BY <1>2, <1>3, <1>13, <2>1 DEF IInv, ReadsCurrent
  <2>2. CASE k = n + 1
    BY <1>3, <1>5, <1>7, <1>8, <1>13, <2>2
  <2> QED
    BY <1>2, <2>1, <2>2
<1>14. OptionsKept'
  BY <1>1, <1>3, <1>10, <1>11, <1>12 DEF OptionsKept
<1>15. ReadsCurrent'
  BY <1>1, <1>3, <1>10, <1>11, <1>13 DEF ReadsCurrent, LineChecked
<1>16. IF req'.phase \in {"total", "commit"} THEN Len(req'.rows) = Len(cart)
       ELSE Len(req'.rows) < Len(cart)
  BY <1>2, <1>3, <1>10, <1>11
<1>17. req' = [phase |-> req'.phase, base |-> req'.base, deltas |-> req'.deltas,
               options |-> req'.options, rows |-> req'.rows, total |-> req'.total,
               shown |-> req.shown, shownAt |-> req.shownAt,
               begunAt |-> req.begunAt, withdrawn |-> req.withdrawn]
  BY <1>9
<1>18. req'.phase \in Phases /\ req'.rows \in Seq(Range(req'.rows))
  BY <1>3, <1>10, <1>11 DEF Phases
<1> QED
  BY <1>1, <1>2, <1>14, <1>15, <1>16, <1>17, <1>18, CreationKeeps

LEMMA TotalsStep ==
  ASSUME IInv, recalculate_totals
  PROVE  IInv'
<1> DEFINE total == SumFunction([k \in DOMAIN req.rows |-> req.rows[k].line_total])
<1>1. /\ req.phase = "total" /\ InCreation /\ UNCHANGED <<menu, edits, cart>>
      /\ req' = [req EXCEPT !.phase = "commit", !.total = total]
  BY DEF recalculate_totals, InCreation
<1>2. /\ req # Idle /\ Len(req.rows) = Len(cart) /\ req.rows \in Seq(Range(req.rows))
  BY <1>1, Creating DEF IInv, Shape, Phases
<1> HIDE DEF total
<1>3. req' = [phase |-> "commit", base |-> req.base, deltas |-> req.deltas,
              options |-> req.options, rows |-> req.rows, total |-> total,
              shown |-> req.shown, shownAt |-> req.shownAt,
              begunAt |-> req.begunAt, withdrawn |-> req.withdrawn]
  <2>1. req.phase \in Phases
    BY <1>1 DEF Phases
  <2> QED
    BY <1>1, <2>1, RequestRecord
<1>4. /\ req'.phase = "commit" /\ req'.rows = req.rows /\ req'.total = total
      /\ req'.begunAt = req.begunAt /\ req'.withdrawn = req.withdrawn
  BY <1>3
<1>5. OptionsKept'
  BY <1>1, <1>2, <1>4 DEF IInv, OptionsKept
<1>6. ReadsCurrent'
  <2>1. req'.total = SumFunction([k \in DOMAIN req'.rows |-> req'.rows[k].line_total])
    BY <1>4 DEF total
  <2> QED
    BY <1>1, <1>2, <1>4, <2>1 DEF IInv, ReadsCurrent, LineChecked
<1>7. req' = [phase |-> req'.phase, base |-> req'.base, deltas |-> req'.deltas,
              options |-> req'.options, rows |-> req'.rows, total |-> req'.total,
              shown |-> req.shown, shownAt |-> req.shownAt,
              begunAt |-> req.begunAt, withdrawn |-> req.withdrawn]
  BY <1>3
<1>8. /\ req'.phase \in Phases /\ req'.rows \in Seq(Range(req'.rows))
      /\ Len(req'.rows) = Len(cart) /\ req'.phase \in {"total", "commit"}
  BY <1>2, <1>4 DEF Phases
<1> QED
  BY <1>1, <1>2, <1>5, <1>6, <1>7, <1>8, CreationKeeps

LEMMA CommitStep ==
  ASSUME IInv, Commit
  PROVE  IInv'
<1>1. /\ UNCHANGED <<menu, edits, drawn>> /\ req' = Idle /\ cart' = <<>>
      /\ page'.kind = "menu"
  BY DEF Commit, MenuPage
<1>2. cart' \in Seq(Line) /\ CartFresh' /\ drawn' \in Nat
  BY <1>1 DEF CartFresh, IInv, Shape
<1> QED
  BY <1>1, <1>2, MenuPageFits, IdleKeeps

\* What create_order refuses, Cart.add would refuse by now.
LEMMA RefuseOrderStep ==
  ASSUME IInv, RefuseOrder
  PROVE  IInv'
<1> DEFINE n == Len(req.rows) + 1
<1>1. /\ UNCHANGED <<menu, edits, drawn, cart>> /\ req' = Idle
      /\ page' = CartPage(cart', TRUE)
      /\ \/ req.phase = "get" /\ menu.item[Current.item].state = "off"
         \/ req.phase = "validate" /\ ~ModifiersValid
  BY DEF RefuseOrder
<1>2. n \in DOMAIN cart
  BY <1>1, Creating DEF Phases
<1>3. \/ ~can_be_ordered(menu, cart[n].item)
      \/ ~check_modifier_selection(menu, cart[n].item, cart[n].wanted)
  BY <1>1 DEF ModifiersValid, Current, can_be_ordered, Exists
<1> HIDE DEF n
<1>4. cart[n].at < edits
  <2>1. cart[n].at # edits /\ cart[n].at <= edits
    BY <1>2, <1>3 DEF IInv, CartFresh
  <2> QED
    BY <1>2, <2>1, LineOfCart
<1>5. PageRight'
  BY <1>1, CartPageFits
<1>6. RefusedForAReason'
  BY <1>1, <1>2, <1>4 DEF RefusedForAReason
<1>7. cart' \in Seq(Line) /\ CartFresh' /\ drawn' \in Nat
  BY <1>1 DEF CartFresh, IInv, Shape
<1> QED
  BY <1>1, <1>5, <1>6, <1>7, IdleKeeps

LEMMA ServerErrorStep ==
  ASSUME IInv, ServerError
  PROVE  IInv'
<1>1. /\ UNCHANGED <<menu, edits, drawn, cart>> /\ req' = Idle
      /\ page'.kind = "failed"
  BY DEF ServerError, FailedPage
<1>2. cart' \in Seq(Line) /\ CartFresh' /\ drawn' \in Nat
  BY <1>1 DEF CartFresh, IInv, Shape
<1> QED
  BY <1>1, <1>2, MenuPageFits, IdleKeeps
-----------------------------------------------------------------------------
(***************************************************************************)
(* Staff edit the menu.                                                    *)
(***************************************************************************)

\* An edit makes everything that was read a thing of the past.
LEMMA EditStep ==
  ASSUME IInv, NEW m \in Menu, Edit(m)
  PROVE  IInv'
<1> DEFINE W == {o \in Options : menu.option[o].active /\ ~m.option[o].active}
<1>1. /\ menu' = m /\ edits' = edits + 1 /\ UNCHANGED <<cart, drawn, page>>
      /\ req' = IF req = Idle THEN req ELSE [req EXCEPT !.withdrawn = @ \cup W]
  BY DEF Edit
<1>2. edits \in Nat
  BY DEF IInv, Shape
<1>3. CartFresh' /\ RefusedForAReason'
  <2>1. \A k \in DOMAIN cart : cart[k].at \in Nat /\ cart[k].at <= edits
    BY LineOfCart DEF IInv, CartFresh
  <2>2. \A k \in DOMAIN cart : cart[k].at < edits + 1
    BY <1>2, <2>1
  <2> QED
    BY <1>1, <1>2, <2>1, <2>2 DEF IInv, CartFresh, RefusedForAReason
<1>4. PageRight'
  BY <1>1, <1>2 DEF IInv, PageRight
<1>5. CASE req = Idle
  BY <1>1, <1>2, <1>3, <1>4, <1>5 DEF IInv, Shape, OptionsKept, ReadsCurrent, ShownCurrent
<1>6. CASE req # Idle
  <2>1. req = [phase |-> req.phase, base |-> req.base, deltas |-> req.deltas,
               options |-> req.options, rows |-> req.rows, total |-> req.total,
               shown |-> req.shown, shownAt |-> req.shownAt,
               begunAt |-> req.begunAt, withdrawn |-> req.withdrawn]
    BY <1>6 DEF IInv, Shape
  <2> HIDE DEF W
  <2>2. req' = [phase |-> req.phase, base |-> req.base, deltas |-> req.deltas,
                options |-> req.options, rows |-> req.rows, total |-> req.total,
                shown |-> req.shown, shownAt |-> req.shownAt,
                begunAt |-> req.begunAt, withdrawn |-> req.withdrawn \cup W]
    BY <1>1, <1>6, <2>1
  <2>3. /\ req'.phase = req.phase /\ req'.rows = req.rows
        /\ req'.options = req.options /\ req'.withdrawn = req.withdrawn \cup W
        /\ req'.shownAt = req.shownAt /\ req'.begunAt = req.begunAt
    BY <2>2
  <2>4. /\ req.shownAt \in Nat /\ req.begunAt \in Nat
        /\ req.shownAt <= req.begunAt /\ req.begunAt <= edits
    BY <1>6 DEF IInv, Shape
  <2>5. Shape'
    <3>1. req' = [phase |-> req'.phase, base |-> req'.base, deltas |-> req'.deltas,
                  options |-> req'.options, rows |-> req'.rows, total |-> req'.total,
                  shown |-> req'.shown, shownAt |-> req'.shownAt,
                  begunAt |-> req'.begunAt, withdrawn |-> req'.withdrawn]
      BY <2>2
    <3>2. req'.shownAt <= req'.begunAt /\ req'.begunAt <= edits'
      BY <1>1, <1>2, <2>3, <2>4
    <3> QED
      BY <1>1, <1>2, <1>6, <2>3, <2>4, <3>1, <3>2 DEF IInv, Shape
  <2>6. ReadsCurrent' /\ ShownCurrent'
    <3>1. req'.begunAt # edits' /\ req'.shownAt # edits'
      BY <1>1, <1>2, <2>3, <2>4
    <3> QED
      BY <3>1 DEF ReadsCurrent, ShownCurrent
  <2>7. OptionsKept'
    <3>1. \A k \in 1..Len(req.rows) :
            cart[k].wanted.options \ req.rows[k].options \subseteq req.withdrawn
      BY <1>6 DEF IInv, OptionsKept
    <3>2. req.phase = "options" => \A o \in Current.wanted.options :
            m.option[o].active \/ o \in req.withdrawn \cup W
      <4> SUFFICES ASSUME req.phase = "options", NEW o \in Current.wanted.options
                   PROVE  m.option[o].active \/ o \in req.withdrawn \cup W
        OBVIOUS
      <4>1. menu.option[o].active \/ o \in req.withdrawn
        BY <1>6 DEF IInv, OptionsKept
      <4>2. Current.wanted \in Selection
        BY Creating, LineOfCart DEF Current, Phases
      <4> QED
        BY <4>1, <4>2 DEF W, Selection
    <3>3. req.phase = "sources" =>
            Current.wanted.options \ req.options \subseteq req.withdrawn
      BY <1>6 DEF IInv, OptionsKept
    <3>4. Current' = Current
      BY <1>1, <2>3 DEF Current
    <3> QED
      BY <1>1, <2>3, <3>1, <3>2, <3>3, <3>4 DEF OptionsKept
  <2> QED
    BY <1>3, <1>4, <2>5, <2>6, <2>7 DEF IInv
<1> QED
  BY <1>5, <1>6

LEMMA StaffStep ==
  ASSUME IInv, Staff
  PROVE  IInv'
<1>0. /\ menu \in Menu /\ menu.item \in [Items -> ItemRow]
      /\ menu.option \in [Options -> OptionRow] /\ menu.group \in [Groups -> Rules]
      /\ menu.link \in [Links -> Overrides]
      /\ menu = [item |-> menu.item, option |-> menu.option,
                 group |-> menu.group, link |-> menu.link]
  BY DEF IInv, Shape, Menu
<1>1. ASSUME NEW i \in Items, EditItem(i)
      PROVE  IInv'
  <2>1. /\ \A s \in {"on", "off", "gone"} : [menu EXCEPT !.item[i].state = s] \in Menu
        /\ \A p \in ItemPrices : [menu EXCEPT !.item[i].price = p] \in Menu
    <3>1. \A s \in {"on", "off", "gone"} : [menu.item[i] EXCEPT !.state = s] \in ItemRow
      BY <1>0 DEF ItemRow
    <3>2. \A p \in ItemPrices : [menu.item[i] EXCEPT !.price = p] \in ItemRow
      BY <1>0, EditAssumption DEF ItemRow
    <3> QED
      BY <1>0, <3>1, <3>2 DEF Menu
  <2>2. \E m \in Menu : Edit(m)
    BY <1>1, <2>1 DEF EditItem
  <2> QED
    BY <2>2, EditStep
<1>2. ASSUME NEW o \in Options, EditOption(o)
      PROVE  IInv'
  <2>1. /\ [menu EXCEPT !.option[o].active = ~@] \in Menu
        /\ \A d \in OptionDeltas : [menu EXCEPT !.option[o].price_delta = d] \in Menu
    <3>1. [menu.option[o] EXCEPT !.active = ~@] \in OptionRow
      BY <1>0 DEF OptionRow
    <3>2. \A d \in OptionDeltas : [menu.option[o] EXCEPT !.price_delta = d] \in OptionRow
      BY <1>0, EditAssumption DEF OptionRow
    <3> QED
      BY <1>0, <3>1, <3>2 DEF Menu
  <2>2. \E m \in Menu : Edit(m)
    BY <1>2, <2>1 DEF EditOption
  <2> QED
    BY <2>2, EditStep
<1>3. ASSUME NEW g \in Groups, EditGroup(g)
      PROVE  IInv'
  <2>1. \A r \in GroupRules[g] : [menu EXCEPT !.group[g] = r] \in Menu
    BY <1>0, EditAssumption DEF Menu
  <2>2. \E m \in Menu : Edit(m)
    BY <1>3, <2>1 DEF EditGroup
  <2> QED
    BY <2>2, EditStep
<1>4. ASSUME NEW l \in Links, EditLink(l)
      PROVE  IInv'
  <2>1. \A r \in LinkRules[l] : [menu EXCEPT !.link[l] = r] \in Menu
    BY <1>0, EditAssumption DEF Menu
  <2>2. \E m \in Menu : Edit(m)
    BY <1>4, <2>1 DEF EditLink
  <2> QED
    BY <2>2, EditStep
<1> QED
  BY <1>1, <1>2, <1>3, <1>4 DEF Staff
-----------------------------------------------------------------------------
(***************************************************************************)
(* Types.                                                                  *)
(***************************************************************************)
\* Amounts are integers.
LEMMA ModifierAmounts ==
  ASSUME NEW m \in Menu, NEW sel \in Selection
  PROVE  /\ \A S \in SUBSET sel.options : Deltas(m, S) \in Int
         /\ \A S \in SUBSET sel.sources : Prices(m, S) \in Int
<1>1. ASSUME NEW S \in SUBSET sel.options PROVE Deltas(m, S) \in Int
  <2> DEFINE f == [o \in S |-> m.option[o].price_delta]
  <2>1. IsFiniteSet(S)
    BY TablesAssumption, FS_Subset DEF Selection
  <2>2. f \in [S -> Int]
    BY DEF Menu, OptionRow, Selection
  <2> HIDE DEF f
  <2>3. SumFunction(f) \in Int
    BY <2>1, <2>2, SumType
  <2> QED
    BY <2>3 DEF Deltas, f
<1>2. ASSUME NEW S \in SUBSET sel.sources PROVE Prices(m, S) \in Int
  <2> DEFINE f == [p \in S |-> m.item[p[2]].price]
  <2>1. IsFiniteSet(S)
    BY TablesAssumption, FS_Product, FS_Subset DEF Selection
  <2>2. f \in [S -> Int]
    BY DEF Menu, ItemRow, Selection
  <2> HIDE DEF f
  <2>3. SumFunction(f) \in Int
    BY <2>1, <2>2, SumType
  <2> QED
    BY <2>3 DEF Prices, f
<1> QED
  BY <1>1, <1>2

LEMMA LineAmounts ==
  ASSUME NEW m \in Menu, NEW line \in Line
  PROVE  unit_price(m, line) \in Int /\ line_total(m, line) \in Int
<1>1. line.wanted \in Selection /\ line.item \in Items /\ line.quantity \in Int
  BY DEF Line
<1>2. m.item[line.item].price \in Int
  BY <1>1 DEF Menu, ItemRow
<1>3. Deltas(m, line.wanted.options) \in Int
  BY <1>1, ModifierAmounts
<1>4. Prices(m, {p \in line.wanted.sources : Exists(m, p[2])}) \in Int
  BY <1>1, ModifierAmounts
<1>5. unit_price(m, line) \in Int
  BY <1>2, <1>3, <1>4 DEF unit_price
<1> QED
  BY <1>1, <1>5 DEF line_total

LEMMA CartAmount ==
  ASSUME NEW m \in Menu, NEW c \in Seq(Line)
  PROVE  CartTotal(m, c) \in Int
<1> DEFINE D == lines(m, c)
           f == [k \in D |-> line_total(m, c[k])]
<1>1. IsFiniteSet(D)
  <2>1. D \subseteq 1..Len(c) /\ Len(c) \in Nat
    BY LenProperties DEF lines
  <2>2. IsFiniteSet(1..Len(c))
    BY <2>1, FS_Interval
  <2> QED
    BY <2>1, <2>2, FS_Subset
<1>2. f \in [D -> Int]
  <2>1. \A k \in DOMAIN c : c[k] \in Line
    OBVIOUS
  <2> QED
    BY <2>1, LineAmounts DEF lines
<1> HIDE DEF D, f
<1>3. SumFunction(f) \in Int
  BY <1>1, <1>2, SumType
<1> QED
  BY <1>3 DEF CartTotal, D, f

\* Ids are drawn one after another.
IdsDrawn == \A k \in DOMAIN cart : cart[k].id <= drawn
IdsOrdered(c) == \A j, k \in DOMAIN c : j < k => c[j].id < c[k].id

\* TypeOK bounds the ids by their order, which holds as they are drawn in order.
TInv == TypeOK /\ IdsDrawn

LEMMA PageTypes ==
  ASSUME menu \in Menu, edits \in Nat, NEW error \in BOOLEAN
  PROVE  /\ MenuPage \in Pages /\ [MenuPage EXCEPT !.error = TRUE] \in Pages
         /\ FailedPage \in Pages
         /\ \A i \in Items, line \in Nat, offer \in Selection :
              FormPage(i, line, offer, error) \in Pages
         /\ \A c \in Seq(Line) : CartPage(c, error) \in Pages
<1>1. /\ MenuPage \in Pages /\ [MenuPage EXCEPT !.error = TRUE] \in Pages
      /\ FailedPage \in Pages
  BY DEF MenuPage, FailedPage, Pages
<1>2. \A i \in Items, line \in Nat, offer \in Selection :
        FormPage(i, line, offer, error) \in Pages
  BY DEF FormPage, Pages
<1>3. \A c \in Seq(Line) : CartPage(c, error) \in Pages
  <2>1. \A c \in Seq(Line) : lines(menu, c) \in SUBSET Nat
    BY LenProperties DEF lines
  <2> QED
    BY <2>1, CartAmount DEF CartPage, Pages
<1> QED
  BY <1>1, <1>2, <1>3

LEMMA WithoutTypes ==
  ASSUME NEW c \in Seq(Line), IdsOrdered(c), NEW id, NEW d \in Nat,
         \A k \in DOMAIN c : c[k].id <= d
  PROVE  /\ Without(c, id) \in Seq(Line) /\ Len(Without(c, id)) <= Len(c)
         /\ IdsOrdered(Without(c, id))
         /\ \A k \in DOMAIN Without(c, id) : Without(c, id)[k].id <= d
<1>1. /\ Without(c, id) \in Seq(Line) /\ Len(Without(c, id)) <= Len(c)
      /\ \A k \in DOMAIN Without(c, id) : \E j \in DOMAIN c : Without(c, id)[k] = c[j]
      /\ \A j, k \in DOMAIN Without(c, id) : j < k =>
           \E a, b \in DOMAIN c : /\ a < b
                                  /\ Without(c, id)[j] = c[a]
                                  /\ Without(c, id)[k] = c[b]
  BY WithoutKeeps
<1> DEFINE w == Without(c, id)
<1>2. ASSUME NEW j \in DOMAIN w, NEW k \in DOMAIN w, j < k
      PROVE  w[j].id < w[k].id
  <2>1. PICK a \in DOMAIN c, b \in DOMAIN c : a < b /\ w[j] = c[a] /\ w[k] = c[b]
    BY <1>1, <1>2
  <2>2. c[a].id < c[b].id
    BY <2>1 DEF IdsOrdered
  <2> QED
    BY <2>1, <2>2
<1>3. \A k \in DOMAIN w : w[k].id <= d
  BY <1>1
<1> QED
  BY <1>1, <1>2, <1>3 DEF IdsOrdered

\* What a step of the guest has to keep.
LEMMA GuestTypes ==
  ASSUME TInv, GuestActs, cart' \in Seq(Line), Len(cart') <= MaxLines,
         IdsOrdered(cart'), drawn' \in 0..MaxDrawn,
         \A k \in DOMAIN cart' : cart'[k].id <= drawn', page' \in Pages
  PROVE  TInv'
BY DEF TInv, TypeOK, IdsDrawn, IdsOrdered, GuestActs

LEMMA SameCartTypes ==
  ASSUME TInv, GuestActs, UNCHANGED <<cart, drawn>>, page' \in Pages
  PROVE  TInv'
BY DEF TInv, TypeOK, IdsDrawn, GuestActs

LEMMA GuestStepTypes ==
  ASSUME TInv, IInv, Guest
  PROVE  TInv'
<1>0. /\ menu \in Menu /\ edits \in Nat /\ cart \in Seq(Line) /\ Len(cart) <= MaxLines
      /\ IdsOrdered(cart) /\ drawn \in 0..MaxDrawn /\ drawn \in Nat
      /\ \A k \in DOMAIN cart : cart[k].id <= drawn
  BY DEF TInv, TypeOK, IdsDrawn, IdsOrdered
<1>1. ASSUME NEW i \in Items, OpenPanel(i) PROVE TInv'
  <2>1. PanelOffer(menu, i) \in Selection
    BY OffersAreSelections DEF PanelOffer
  <2> QED
    BY <1>0, <1>1, <2>1, PageTypes, SameCartTypes DEF OpenPanel, NoLine
<1>2. ASSUME NEW k \in DOMAIN cart, OpenEdit(k) PROVE TInv'
  <2>1. PageOffer(menu, cart[k].item) \in Selection
    BY OffersAreSelections DEF PageOffer
  <2>2. cart[k].item \in Items /\ cart[k].id \in Nat
    BY LineOfCart
  <2> QED
    BY <1>0, <1>2, <2>1, <2>2, PageTypes, SameCartTypes DEF OpenEdit
<1>3. ASSUME NEW k \in DOMAIN cart, RemoveLine(k) PROVE TInv'
  <2>1. /\ GuestActs /\ cart' = Without(cart, cart[k].id) /\ drawn' = drawn
        /\ page' = CartPage(cart', FALSE)
    BY <1>3 DEF RemoveLine
  <2>2. /\ cart' \in Seq(Line) /\ Len(cart') <= Len(cart) /\ IdsOrdered(cart')
        /\ \A j \in DOMAIN cart' : cart'[j].id <= drawn
    BY <1>0, <2>1, WithoutTypes
  <2>3. Len(cart') <= MaxLines
    <3>1. Len(cart) \in Nat /\ Len(cart') \in Nat /\ MaxLines \in Nat
      BY <1>0, <2>2, BoundAssumption, LenProperties
    <3> QED
      BY <1>0, <2>2, <3>1
  <2>4. page' \in Pages
    BY <1>0, <2>1, <2>2, PageTypes
  <2> QED
    BY <1>0, <2>1, <2>2, <2>3, <2>4, GuestTypes
<1>4. ASSUME NEW k \in DOMAIN cart, NEW n \in 1..MaxQuantity, UpdateQuantity(k, n)
      PROVE  TInv'
  <2>1. /\ GuestActs /\ cart' = [cart EXCEPT ![k].quantity = n] /\ drawn' = drawn
        /\ page' = CartPage(cart', FALSE)
    BY <1>4 DEF UpdateQuantity
  <2>2. n \in Nat \ {0}
    BY BoundAssumption
  <2>3. /\ cart' \in Seq(Line) /\ DOMAIN cart' = DOMAIN cart /\ Len(cart') = Len(cart)
        /\ \A j \in DOMAIN cart : cart'[j].id = cart[j].id
    <3>1. \A j \in DOMAIN cart : cart[j] \in Line
      BY <1>0
    <3>2. [cart[k] EXCEPT !.quantity = n] \in Line
      BY <2>2, <3>1 DEF Line
    <3>3. /\ cart' = [cart EXCEPT ![k] = [cart[k] EXCEPT !.quantity = n]]
          /\ [cart[k] EXCEPT !.quantity = n].id = cart[k].id
      BY <2>1, <3>1 DEF Line
    <3> QED
      BY <1>0, <3>2, <3>3, ExceptSeq
  <2>4. page' \in Pages
    BY <1>0, <2>1, <2>3, PageTypes
  <2> QED
    BY <1>0, <2>1, <2>3, <2>4, GuestTypes DEF IdsOrdered
<1>5. ASSUME page.kind = "form", NEW sel \in Picks(page.offer), RefuseLine(sel)
      PROVE  TInv'
  <2>1. page.item \in Items /\ page.line \in Nat
    BY <1>5 DEF IInv, PageRight
  <2>2. PageOffer(menu, page.item) \in Selection
    BY OffersAreSelections DEF PageOffer
  <2> QED
    BY <1>0, <1>5, <2>1, <2>2, PageTypes, SameCartTypes DEF RefuseLine
<1>6. ASSUME page.kind = "form", NEW sel \in Picks(page.offer),
             NEW n \in 1..MaxQuantity, AddLine(sel, n)
      PROVE  TInv'
  <2> DEFINE line == [id |-> drawn + 1, item |-> page.item, quantity |-> n,
                      wanted |-> sel, at |-> edits]
             w == Without(cart, page.line)
  <2>1. /\ GuestActs /\ cart' = Append(w, line) /\ drawn' = drawn + 1
        /\ drawn < MaxDrawn /\ Len(cart') <= MaxLines
        /\ page' = IF page.line = NoLine THEN MenuPage ELSE CartPage(cart', FALSE)
    BY <1>6 DEF AddLine, CartWith
  <2>2. line \in Line
    <3>1. page.item \in Items /\ page.offer \in Selection
      BY <1>6 DEF IInv, PageRight
    <3>2. sel \in Selection
      BY <3>1, PicksAreSelections
    <3>3. n \in Nat \ {0} /\ drawn + 1 \in Nat \ {0}
      BY <1>0, BoundAssumption
    <3> QED
      BY <1>0, <3>1, <3>2, <3>3 DEF Line, NoLine
  <2>3. w \in Seq(Line) /\ IdsOrdered(w) /\ \A j \in DOMAIN w : w[j].id <= drawn
    BY <1>0, WithoutTypes
  <2>4. line.id = drawn + 1
    OBVIOUS
  <2> HIDE DEF line, w
  <2>5. /\ cart' \in Seq(Line) /\ Len(w) \in Nat
        /\ DOMAIN w = 1..Len(w) /\ DOMAIN cart' = 1..(Len(w) + 1)
        /\ \A j \in 1..Len(w) : cart'[j] = w[j]
        /\ cart'[Len(w) + 1] = line
    BY <2>1, <2>2, <2>3, AppendProperties, LenProperties
  <2>6. \A j \in DOMAIN cart' : j # Len(w) + 1 => j \in DOMAIN w
    BY <2>5
  <2>7. \A j \in DOMAIN w : w[j].id \in Nat
    <3>1. \A j \in DOMAIN w : w[j] \in Line
      BY <2>3
    <3>2. \A l \in Line : l.id \in Nat
      BY DEF Line
    <3> QED
      BY ONLY <3>1, <3>2
  <2>8. IdsOrdered(cart')
    <3> SUFFICES ASSUME NEW j \in DOMAIN cart', NEW k \in DOMAIN cart', j < k
                 PROVE  cart'[j].id < cart'[k].id
      BY DEF IdsOrdered
    <3>1. j \in DOMAIN w /\ cart'[j] = w[j]
      BY <2>5
    <3>2. CASE k = Len(w) + 1
      <4>1. w[j].id <= drawn /\ w[j].id \in Nat
        BY <2>3, <2>7, <3>1
      <4>2. cart'[k].id = drawn + 1
        BY <2>4, <2>5, <3>2
      <4> QED
        BY <1>0, <3>1, <4>1, <4>2
    <3>3. CASE k # Len(w) + 1
      BY <2>3, <2>5, <2>6, <3>1, <3>3 DEF IdsOrdered
    <3> QED
      BY <3>2, <3>3
  <2>9. \A j \in DOMAIN cart' : cart'[j].id <= drawn'
    <3> SUFFICES ASSUME NEW j \in DOMAIN cart' PROVE cart'[j].id <= drawn'
      OBVIOUS
    <3>1. CASE j = Len(w) + 1
      BY <1>0, <2>1, <2>4, <2>5, <3>1
    <3>2. CASE j # Len(w) + 1
      <4>1. j \in DOMAIN w /\ cart'[j] = w[j]
        BY <2>5, <2>6, <3>2
      <4>2. w[j].id <= drawn /\ w[j].id \in Nat
        BY <2>3, <2>7, <4>1
      <4> QED
        BY <1>0, <2>1, <4>1, <4>2
    <3> QED
      BY <3>1, <3>2
  <2>10. drawn' \in 0..MaxDrawn
    BY <1>0, <2>1, BoundAssumption
  <2>11. page' \in Pages
    BY <1>0, <2>1, <2>5, PageTypes
  <2> QED
    BY <2>1, <2>5, <2>8, <2>9, <2>10, <2>11, GuestTypes
<1>7. CASE ShowCart
  BY <1>0, <1>7, PageTypes, SameCartTypes DEF ShowCart
<1>8. CASE ShowMenu
  BY <1>0, <1>8, PageTypes, SameCartTypes DEF ShowMenu
<1>9. CASE SubmitBlocked
  BY <1>0, <1>9, PageTypes, SameCartTypes DEF SubmitBlocked
<1>10. CASE Submit
  <2>1. UNCHANGED <<menu, edits, cart, drawn, ordered, page>>
    BY <1>10 DEF Submit
  <2>2. page.total \in Int /\ page.at \in Nat
    <3>1. page \in Pages /\ page.kind = "cart"
      BY <1>10 DEF Submit, TInv, TypeOK
    <3> QED
      BY <3>1 DEF Pages
  <2>3. req' \in Active
    BY <1>0, <1>10, <2>2 DEF Submit, Active
  <2> QED
    BY <2>1, <2>3 DEF TInv, TypeOK, IdsDrawn
<1> QED
  BY <1>1, <1>2, <1>3, <1>4, <1>5, <1>6, <1>7, <1>8, <1>9, <1>10 DEF Guest

\* What a statement of create_order has to keep.
LEMMA CreationTypes ==
  ASSUME TInv, InCreation, req' \in Active
  PROVE  TInv'
BY DEF TInv, TypeOK, IdsDrawn, InCreation

LEMMA CreationStepTypes ==
  ASSUME TInv, IInv, create_order
  PROVE  TInv'
<1>0. /\ menu \in Menu /\ edits \in Nat /\ cart \in Seq(Line)
      /\ ordered \subseteq Items /\ req \in Active \cup {Idle}
  BY DEF TInv, TypeOK
<1>1. ASSUME req.phase \in Phases
      PROVE  /\ req # Idle /\ req \in Active
             /\ req.base \in Int /\ req.deltas \in Int
             /\ req.rows \in Seq(Row) /\ req.options \in SUBSET Options
             /\ req.phase \notin {"total", "commit"} =>
                  /\ Current \in Line /\ Current.item \in Items
                  /\ Current.wanted \in Selection /\ Current.quantity \in Int
                  /\ menu.item[Current.item].price \in Int
  <2>1. req # Idle /\ req \in Active
    BY <1>0, <1>1, Creating
  <2>2. req.phase \notin {"total", "commit"} => Current \in Line
    BY <1>0, <1>1, Creating DEF Current
  <2>3. \A l \in Line : /\ l.item \in Items /\ l.wanted \in Selection
                        /\ l.quantity \in Int
    BY DEF Line
  <2>4. \A i \in Items : menu.item[i].price \in Int
    BY <1>0 DEF Menu, ItemRow
  <2> QED
    BY <2>1, <2>2, <2>3, <2>4 DEF Active
<1>2. CASE GetItem
  <2>1. /\ req.phase = "get" /\ InCreation
        /\ req' = [req EXCEPT !.phase = "validate", !.base = menu.item[Current.item].price]
    BY <1>2 DEF GetItem
  <2>2. req' \in Active
    BY <1>1, <2>1 DEF Active, Phases
  <2> QED
    BY <2>1, <2>2, CreationTypes
<1>3. CASE ValidateModifiers
  <2>1. req.phase = "validate" /\ InCreation /\ req' = [req EXCEPT !.phase = "options"]
    BY <1>3 DEF ValidateModifiers
  <2>2. req' \in Active
    BY <1>1, <2>1 DEF Active, Phases
  <2> QED
    BY <2>1, <2>2, CreationTypes
<1>4. CASE ReadOptions
  <2> DEFINE found == {o \in Current.wanted.options : menu.option[o].active}
  <2>1. /\ req.phase = "options" /\ InCreation
        /\ req' = [req EXCEPT !.phase = "sources", !.options = found,
                              !.deltas = Deltas(menu, found)]
    BY <1>4 DEF ReadOptions
  <2>2. Current.wanted \in Selection
    BY <1>1, <2>1 DEF Phases
  <2>3. found \in SUBSET Options /\ Deltas(menu, found) \in Int
    <3>1. found \in SUBSET Current.wanted.options
      OBVIOUS
    <3> HIDE DEF found
    <3> QED
      BY <1>0, <2>2, <3>1, ModifierAmounts DEF Selection
  <2> HIDE DEF found
  <2>4. req' \in Active
    BY <1>1, <2>1, <2>3 DEF Active, Phases
  <2> QED
    BY <2>1, <2>4, CreationTypes
<1>5. CASE ReadSources
  <2> DEFINE price == Prices(menu, Current.wanted.sources)
             unit == req.base + (req.deltas + price)
             row == [options |-> req.options, unit_price |-> unit,
                     line_total |-> unit * Current.quantity]
             rows == Append(req.rows, row)
             phase == IF Len(rows) < Len(cart) THEN "get" ELSE "total"
  <2>1. /\ req.phase = "sources" /\ InCreation
        /\ req' = [req EXCEPT !.rows = rows, !.options = {}, !.base = 0, !.deltas = 0,
                              !.phase = phase]
    BY <1>5 DEF ReadSources, recalculate
  <2>2. price \in Int /\ Current.quantity \in Int
    BY <1>0, <1>1, <2>1, ModifierAmounts DEF Phases
  <2> HIDE DEF price
  <2>3. unit \in Int
    BY <1>1, <2>1, <2>2 DEF Phases
  <2> HIDE DEF unit
  <2>4. row \in Row
    BY <1>1, <2>1, <2>2, <2>3 DEF Row, Phases
  <2> HIDE DEF row
  <2>5. rows \in Seq(Row)
    BY <1>1, <2>1, <2>4, AppendProperties DEF Phases
  <2>6. phase \in {"get", "total"}
    OBVIOUS
  <2> HIDE DEF rows, phase
  <2>7. req' \in Active
    <3>1. req \in Active
      BY <1>1, <2>1 DEF Phases
    <3>2. /\ req.total \in Int /\ req.shown \in Int /\ req.shownAt \in Nat
          /\ req.begunAt \in Nat /\ req.withdrawn \in SUBSET Options
      BY <3>1 DEF Active
    <3>3. req' = [phase |-> phase, base |-> 0, deltas |-> 0, options |-> {}, rows |-> rows,
                  total |-> req.total, shown |-> req.shown, shownAt |-> req.shownAt,
                  begunAt |-> req.begunAt, withdrawn |-> req.withdrawn]
      BY <2>1, RequestRecord DEF Phases
    <3>4. phase \in {"get", "validate", "options", "sources", "total", "commit"}
      BY <2>6
    <3> QED
      BY ONLY <2>5, <3>2, <3>3, <3>4 DEF Active
  <2> QED
    BY <2>1, <2>7, CreationTypes
<1>6. CASE recalculate_totals
  <2> DEFINE f == [k \in DOMAIN req.rows |-> req.rows[k].line_total]
             total == SumFunction(f)
  <2>1. /\ req.phase = "total" /\ InCreation
        /\ req' = [req EXCEPT !.phase = "commit", !.total = total]
    BY <1>6 DEF recalculate_totals
  <2>2. total \in Int
    <3>1. req.rows \in Seq(Row) /\ \A k \in DOMAIN req.rows : req.rows[k] \in Row
      BY <1>1, <2>1 DEF Phases
    <3>2. f \in [DOMAIN req.rows -> Int]
      BY <3>1 DEF Row
    <3>3. IsFiniteSet(DOMAIN req.rows)
      BY <3>1, LenProperties, FS_Interval
    <3> HIDE DEF f
    <3> QED
      BY <3>2, <3>3, SumType
  <2> HIDE DEF total
  <2>3. req' \in Active
    BY <1>1, <2>1, <2>2 DEF Active, Phases
  <2> QED
    BY <2>1, <2>3, CreationTypes
<1>7. CASE Commit
  <2>1. /\ req' = Idle /\ cart' = <<>> /\ page' = MenuPage
        /\ ordered' = ordered \cup CartItems
        /\ UNCHANGED <<menu, edits, drawn>>
    BY <1>7 DEF Commit
  <2>2. \A k \in DOMAIN cart : ItemsIn(cart[k]) \subseteq Items
    BY LineOfCart DEF ItemsIn, Selection
  <2>3. ordered' \subseteq Items
    BY <1>0, <2>1, <2>2 DEF CartItems
  <2>4. MenuPage \in Pages
    BY <1>0, PageTypes
  <2>5. cart' \in Seq(Line) /\ Len(cart') = 0 /\ DOMAIN cart' = {}
    BY <2>1
  <2>6. 0 <= MaxLines
    BY BoundAssumption
  <2> QED
    BY <2>1, <2>3, <2>4, <2>5, <2>6 DEF TInv, TypeOK, IdsDrawn
<1>8. CASE RefuseOrder
  <2>1. /\ req' = Idle /\ page' = CartPage(cart, TRUE)
        /\ UNCHANGED <<menu, edits, cart, drawn, ordered>>
    BY <1>8 DEF RefuseOrder
  <2>2. page' \in Pages
    BY <1>0, <2>1, PageTypes
  <2> QED
    BY <2>1, <2>2 DEF TInv, TypeOK, IdsDrawn
<1>9. CASE ServerError
  <2>1. /\ req' = Idle /\ page' = FailedPage
        /\ UNCHANGED <<menu, edits, cart, drawn, ordered>>
    BY <1>9 DEF ServerError
  <2>2. page' \in Pages
    BY <1>0, <2>1, PageTypes
  <2> QED
    BY <2>1, <2>2 DEF TInv, TypeOK, IdsDrawn
<1> QED
  BY <1>2, <1>3, <1>4, <1>5, <1>6, <1>7, <1>8, <1>9 DEF create_order

\* An edit of the menu.
LEMMA EditTypes ==
  ASSUME TInv, menu' \in Menu, NEW m, Edit(m)
  PROVE  TInv'
<1> DEFINE W == {o \in Options : menu.option[o].active /\ ~m.option[o].active}
<1>1. /\ edits' = edits + 1 /\ edits < MaxEdits
      /\ UNCHANGED <<cart, drawn, ordered, page>>
      /\ req' = IF req = Idle THEN req ELSE [req EXCEPT !.withdrawn = @ \cup W]
  BY DEF Edit
<1>2. W \subseteq Options
  OBVIOUS
<1> HIDE DEF W
<1>3. edits' \in 0..MaxEdits
  BY <1>1, BoundAssumption DEF TInv, TypeOK
<1>4. req' \in Active \cup {Idle}
  <2>1. CASE req = Idle
    BY <1>1, <2>1
  <2>2. CASE req # Idle
    <3>1. req \in Active
      BY <2>2 DEF TInv, TypeOK
    <3> QED
      BY <1>1, <1>2, <2>2, <3>1 DEF Active
  <2> QED
    BY <2>1, <2>2
<1> QED
  BY <1>1, <1>3, <1>4 DEF TInv, TypeOK, IdsDrawn

LEMMA TypesHold == TInv /\ IInv /\ [Next]_vars /\ IInv' => TInv'
<1> SUFFICES ASSUME TInv, IInv, [Next]_vars, IInv' PROVE TInv'
  OBVIOUS
<1>1. CASE Guest
  BY <1>1, GuestStepTypes
<1>2. CASE create_order
  BY <1>2, CreationStepTypes
<1>3. CASE Staff
  <2>1. \E m : Edit(m)
    BY <1>3 DEF Staff, EditItem, EditOption, EditGroup, EditLink
  <2>2. menu' \in Menu
    BY DEF IInv, Shape
  <2> QED
    BY <2>1, <2>2, EditTypes
<1>4. CASE UNCHANGED vars
  BY <1>4 DEF vars, TInv, TypeOK, IdsDrawn
<1> QED
  BY <1>1, <1>2, <1>3, <1>4 DEF Next

LEMMA InitTypes == Init => TInv
<1> SUFFICES ASSUME Init PROVE TInv
  OBVIOUS
<1>1. /\ menu \in Menu /\ edits = 0 /\ drawn = 0 /\ cart = <<>> /\ req = Idle
      /\ ordered = {} /\ page = MenuPage
  BY StartAssumption DEF Init
<1>2. cart \in Seq(Line) /\ Len(cart) = 0 /\ DOMAIN cart = {}
  BY <1>1
<1>3. 0 \in 0..MaxEdits /\ 0 \in 0..MaxDrawn /\ 0 <= MaxLines
  BY BoundAssumption
<1>4. MenuPage \in Pages
  BY DEF MenuPage, Pages
<1> QED
  BY <1>1, <1>2, <1>3, <1>4 DEF TInv, TypeOK, IdsDrawn
-----------------------------------------------------------------------------
(***************************************************************************)
(* Theorems.                                                               *)
(***************************************************************************)

LEMMA StepHolds == IInv /\ [Next]_vars => IInv'
<1> SUFFICES ASSUME IInv, [Next]_vars PROVE IInv'
  OBVIOUS
<1>1. CASE Guest
  <2>1. ASSUME NEW i \in Items, OpenPanel(i) PROVE IInv'
    BY <2>1, OpenPanelStep
  <2>2. ASSUME NEW k \in DOMAIN cart, OpenEdit(k) \/ RemoveLine(k) PROVE IInv'
    BY <2>2, OpenEditStep, RemoveLineStep
  <2>3. ASSUME NEW k \in DOMAIN cart, NEW n \in 1..MaxQuantity, UpdateQuantity(k, n)
        PROVE  IInv'
    BY <2>3, UpdateQuantityStep
  <2>4. ASSUME page.kind = "form", NEW sel \in Picks(page.offer), RefuseLine(sel)
        PROVE  IInv'
    BY <2>4, RefuseLineStep
  <2>5. ASSUME page.kind = "form", NEW sel \in Picks(page.offer),
               NEW n \in 1..MaxQuantity, AddLine(sel, n)
        PROVE  IInv'
    BY <2>5, AddLineStep
  <2>6. ASSUME ShowCart \/ ShowMenu \/ SubmitBlocked \/ Submit PROVE IInv'
    BY <2>6, ShowCartStep, ShowMenuStep, SubmitBlockedStep, SubmitStep
  <2> QED
    BY <1>1, <2>1, <2>2, <2>3, <2>4, <2>5, <2>6 DEF Guest
<1>2. CASE create_order
  BY <1>2, GetItemStep, ValidateModifiersStep, ReadOptionsStep, ReadSourcesStep,
     TotalsStep, CommitStep, RefuseOrderStep, ServerErrorStep DEF create_order
<1>3. CASE Staff
  BY <1>3, StaffStep
<1>4. CASE UNCHANGED vars
  BY <1>4 DEF vars, IInv, Shape, PageRight, CartFresh, OptionsKept, ReadsCurrent,
     ShownCurrent, RefusedForAReason, LineChecked, Current
<1> QED
  BY <1>1, <1>2, <1>3, <1>4 DEF Next

\* The inductive invariant: the shape of the state, and what the cart, the page
\* and the rows made so far have to do with the menu.
THEOREM Invariance == Spec => []IInv
BY InitHolds, StepHolds, PTL DEF Spec

\* Every variable keeps its type; prices and totals are integers, and the lines
\* of the cart stay in the order their ids were drawn.
THEOREM TypeCorrect == Spec => []TypeOK
<1>1. TInv => TypeOK
  BY DEF TInv
<1>2. IInv /\ TInv /\ [Next]_vars => (IInv /\ TInv)'
  BY StepHolds, TypesHold
<1>3. Init => IInv /\ TInv
  BY InitHolds, InitTypes
<1> QED
  BY <1>1, <1>2, <1>3, PTL DEF Spec

\* Whatever staff do to the menu, an order has every option that was chosen, but
\* for those switched off while create_order ran.
THEOREM AlwaysOnlyWithdrawnMissing == Spec => []OnlyWithdrawnMissing
<1>1. IInv => OnlyWithdrawnMissing
  <2> SUFFICES ASSUME IInv, Complete PROVE OnlyWithdrawnMissing
    BY DEF OnlyWithdrawnMissing
  <2>1. req # Idle /\ DOMAIN cart = 1..Len(req.rows)
    BY Creating DEF Complete, Phases
  <2> QED
    BY <2>1 DEF OnlyWithdrawnMissing, IInv, OptionsKept
<1> QED
  BY <1>1, Invariance, PTL

\* Cart.add lets no line in that create_order refuses: with the cart page's
\* error comes a line that is older than the last edit of the menu.
THEOREM AlwaysRefusedForAReason == Spec => []RefusedForAReason
<1>1. IInv => RefusedForAReason
  BY DEF IInv
<1> QED
  BY <1>1, Invariance, PTL

\* A statement fails only over a deleted item of the cart, and what is deleted
\* stays so; a page that says so goes before the cart changes again.
LEMMA FailureStep == IInv /\ FailsOnlyOnDeletion /\ [Next]_vars => FailsOnlyOnDeletion'
<1> SUFFICES ASSUME IInv, FailsOnlyOnDeletion, [Next]_vars, page'.kind = "failed"
             PROVE  \E i \in CartItems' : ~Exists(menu', i)
  BY DEF FailsOnlyOnDeletion
<1>1. CASE page' = page /\ cart' = cart
  <2>1. PICK i \in CartItems : ~Exists(menu, i)
    BY <1>1 DEF FailsOnlyOnDeletion
  <2>2. CartItems' = CartItems
    BY <1>1 DEF CartItems
  <2>3. i \in Items
    BY <2>1, LineOfCart DEF CartItems, ItemsIn, Selection
  <2>4. CASE menu' = menu
    BY <2>1, <2>2, <2>4
  <2>5. CASE Staff
    <3>1. menu.item \in [Items -> ItemRow]
      BY DEF IInv, Shape, Menu
    <3>2. ASSUME NEW j \in Items, EditItem(j) PROVE menu'.item[i].state = "gone"
      <4>1. CASE j = i
        BY <2>1, <3>2, <4>1 DEF EditItem
      <4>2. CASE j # i
        <5>1. menu'.item[i] = menu.item[i]
          BY <2>3, <3>1, <3>2, <4>2 DEF EditItem, Edit, IInv, Shape, Menu
        <5> QED
          BY <2>1, <5>1 DEF Exists
      <4> QED
        BY <4>1, <4>2
    <3>3. ASSUME \/ \E o \in Options : EditOption(o)
                 \/ \E g \in Groups : EditGroup(g)
                 \/ \E l \in Links : EditLink(l)
          PROVE  menu'.item = menu.item
      BY <3>3 DEF EditOption, EditGroup, EditLink, Edit, IInv, Shape, Menu
    <3>4. menu'.item[i].state = "gone"
      BY <2>1, <2>5, <3>2, <3>3 DEF Staff, Exists
    <3> QED
      BY <2>1, <2>2, <3>4 DEF Exists
  <2>6. Staff \/ menu' = menu
    <3>1. Guest => menu' = menu
      BY DEF Guest, OpenPanel, OpenEdit, RemoveLine, UpdateQuantity, AddLine, RefuseLine,
         ShowCart, ShowMenu, SubmitBlocked, Submit, GuestActs
    <3>2. create_order => menu' = menu
      BY DEF create_order, GetItem, ValidateModifiers, ReadOptions, ReadSources,
         recalculate_totals, Commit, RefuseOrder, ServerError, InCreation
    <3>3. UNCHANGED vars => menu' = menu
      BY DEF vars
    <3> QED
      BY <3>1, <3>2, <3>3 DEF Next
  <2> QED
    BY <2>4, <2>5, <2>6
<1>2. CASE Guest
  <2>1. CASE Submit
    BY <1>1, <2>1 DEF Submit
  <2>2. CASE ShowCart \/ ShowMenu \/ SubmitBlocked
    BY <2>2 DEF ShowCart, ShowMenu, SubmitBlocked, CartPage, MenuPage
  <2>3. ASSUME NEW i \in Items, OpenPanel(i) PROVE FALSE
    BY <2>3 DEF OpenPanel, FormPage
  <2>4. ASSUME NEW k \in DOMAIN cart, OpenEdit(k) \/ RemoveLine(k) PROVE FALSE
    BY <2>4 DEF OpenEdit, RemoveLine, FormPage, CartPage
  <2>5. ASSUME NEW k \in DOMAIN cart, NEW n \in 1..MaxQuantity, UpdateQuantity(k, n)
        PROVE  FALSE
    BY <2>5 DEF UpdateQuantity, CartPage
  <2>6. ASSUME NEW sel \in Picks(page.offer), RefuseLine(sel) PROVE FALSE
    BY <2>6 DEF RefuseLine, FormPage, MenuPage
  <2>7. ASSUME NEW sel \in Picks(page.offer), NEW n \in 1..MaxQuantity, AddLine(sel, n)
        PROVE  FALSE
    BY <2>7 DEF AddLine, CartPage, MenuPage
  <2> QED
    BY <1>2, <2>1, <2>2, <2>3, <2>4, <2>5, <2>6, <2>7 DEF Guest
<1>3. CASE create_order
  <2>1. CASE ServerError
    <3>1. menu' = menu /\ cart' = cart
      BY <2>1 DEF ServerError
    <3>2. \E i \in CartItems : ~Exists(menu, i)
      <4>1. req.phase \in {"get", "sources"} => Len(req.rows) + 1 \in DOMAIN cart
        BY Creating DEF Phases
      <4> QED
        BY <2>1, <4>1 DEF ServerError, Missing, CartItems, ItemsIn, Current
    <3> QED
      BY <3>1, <3>2 DEF CartItems
  <2>2. CASE ~ServerError
    <3>1. page' = page /\ cart' = cart
      BY <1>3, <2>2 DEF create_order, GetItem, ValidateModifiers, ReadOptions,
         ReadSources, recalculate_totals, Commit, RefuseOrder, InCreation, CartPage,
         MenuPage
    <3> QED
      BY <1>1, <3>1
  <2> QED
    BY <2>1, <2>2
<1>4. CASE Staff
  <2>1. page' = page /\ cart' = cart
    BY <1>4 DEF Staff, EditItem, EditOption, EditGroup, EditLink, Edit
  <2> QED
    BY <1>1, <2>1
<1>5. CASE UNCHANGED vars
  BY <1>1, <1>5 DEF vars
<1> QED
  BY <1>2, <1>3, <1>4, <1>5 DEF Next

\* Whatever else staff do to the menu between the statements of create_order, a
\* checkout answers 500 only if an item of the cart was deleted.
THEOREM AlwaysFailsOnlyOnDeletion == Spec => []FailsOnlyOnDeletion
<1>1. Init => FailsOnlyOnDeletion
  BY DEF Init, MenuPage, FailsOnlyOnDeletion
<1> QED
  BY <1>1, FailureStep, Invariance, PTL DEF Spec

\* In a form, and whatever the menu has become since it was shown, the check
\* accepts exactly the selections that the rules of the models' comments allow.
THEOREM AlwaysCheckIsRule == Spec => []CheckIsRule
<1>1. IInv => CheckIsRule
  <2> SUFFICES ASSUME IInv, page.kind = "form", NEW sel \in Picks(page.offer)
               PROVE  check_modifier_selection(menu, page.item, sel)
                        <=> SelectionValid(menu, page.item, sel)
    BY DEF CheckIsRule
  <2>1. menu \in Menu /\ page.item \in Items /\ page.offer \in Selection
    BY DEF IInv, Shape, PageRight
  <2>2. sel \in Selection
    BY <2>1, PicksAreSelections
  <2> QED
    BY <2>1, <2>2, CheckIsTheRule
<1> QED
  BY <1>1, Invariance, PTL

\* While the menu stays as it was when the checkout began, each line of the order
\* is on sale, whole, and a valid selection by the rules.
THEOREM AlwaysOrderIsValid == Spec => []OrderIsValid
<1>1. IInv => OrderIsValid
  <2> SUFFICES ASSUME IInv, Complete, req.begunAt = edits, NEW k \in DOMAIN cart
               PROVE  /\ can_be_ordered(menu, cart[k].item)
                      /\ req.rows[k].options = cart[k].wanted.options
                      /\ SelectionValid(menu, cart[k].item, cart[k].wanted)
    BY DEF OrderIsValid
  <2>1. req # Idle /\ k \in 1..Len(req.rows)
    BY Creating DEF Complete, Phases
  <2>2. LineChecked(k) /\ req.rows[k].options = cart[k].wanted.options
    BY <2>1 DEF IInv, ReadsCurrent
  <2>3. menu \in Menu /\ cart[k].item \in Items /\ cart[k].wanted \in Selection
    BY LineOfCart DEF IInv, Shape, Line
  <2> QED
    BY <2>2, <2>3, CheckIsTheRule DEF LineChecked
<1> QED
  BY <1>1, Invariance, PTL

\* On such a menu each line costs what the cart would charge for it now, even if
\* the page that the guest saw was older.
OrderIsPriced ==
  Complete /\ req.begunAt = edits =>
    \A k \in DOMAIN cart : req.rows[k].line_total = line_total(menu, cart[k])

\* create_order and Cart.lines agree on the price of every line.
THEOREM AlwaysOrderIsPriced == Spec => []OrderIsPriced
<1>1. IInv => OrderIsPriced
  <2> SUFFICES ASSUME IInv, Complete, req.begunAt = edits PROVE OrderIsPriced
    BY DEF OrderIsPriced
  <2>1. req # Idle /\ DOMAIN cart = 1..Len(req.rows)
    BY Creating DEF Complete, Phases
  <2> QED
    BY <2>1 DEF OrderIsPriced, IInv, ReadsCurrent
<1> QED
  BY <1>1, Invariance, PTL

\* If nobody edits the menu after the guest has seen the cart, the order costs
\* what the cart page said.
THEOREM AlwaysChargedAsShown == Spec => []ChargedAsShown
<1>1. IInv => ChargedAsShown
  <2> SUFFICES ASSUME IInv, Complete, req.shownAt = edits
               PROVE  req.total = req.shown
    BY DEF ChargedAsShown
  <2>1. /\ req # Idle /\ DOMAIN cart = 1..Len(req.rows)
        /\ req.phase = "commit" /\ req.rows \in Seq(Range(req.rows))
    BY Creating DEF Complete, Phases, IInv, Shape
  <2>2. req.begunAt = edits
    BY <2>1 DEF IInv, Shape
  <2>3. \A k \in DOMAIN cart : /\ can_be_ordered(menu, cart[k].item)
                               /\ req.rows[k].line_total = line_total(menu, cart[k])
    BY <2>1, <2>2 DEF IInv, ReadsCurrent, LineChecked
  <2>4. lines(menu, cart) = DOMAIN cart
    BY <2>3 DEF lines, Exists, can_be_ordered
  <2>5. DOMAIN req.rows = DOMAIN cart
    BY <2>1, LenProperties
  <2>6. [k \in DOMAIN req.rows |-> req.rows[k].line_total]
        = [k \in lines(menu, cart) |-> line_total(menu, cart[k])]
    BY <2>3, <2>4, <2>5
  <2>7. req.shown = CartTotal(menu, cart)
    BY <2>1 DEF IInv, ShownCurrent
  <2>8. req.total = SumFunction([k \in DOMAIN req.rows |-> req.rows[k].line_total])
    BY <2>1, <2>2 DEF IInv, ReadsCurrent
  <2> QED
    BY <2>6, <2>7, <2>8 DEF CartTotal
<1> QED
  BY <1>1, Invariance, PTL
=============================================================================
