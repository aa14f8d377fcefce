------------------------- MODULE ModifierSelection -------------------------
(***************************************************************************)
(* What a guest may choose with a dish: check_modifier_selection           *)
(* (apps/menu/services.py), the forms that offer the choice                *)
(* (apps/menu/selectors.py, templates/menu/_modifier_group.html), and the  *)
(* rule of apps/menu/models.py that both serve.                            *)
(*                                                                         *)
(* The tree of groups is fixed; what staff switch and price is a record m. *)
(* A selection is a set of options and a set of <<group, item>> pairs,     *)
(* where a group offers the items of a category.  Option and pair come at  *)
(* most once in a post, as a form shows each group once (TreeAssumption).  *)
(***************************************************************************)
EXTENDS Integers, FiniteSets, FiniteSetsExt, Functions

CONSTANTS
  Items, Groups, Options,
  Categories,
  Links,        \* MenuItemModifierGroup rows: top-level groups of the items
  LinkItem,     \* the item of a link
  LinkGroup,    \* the group of a link
  ParentOf,     \* the parent of a group, or NoGroup
  NoGroup,
  GroupOf,      \* the group of an option
  SourceOf,     \* the category a group offers the items of, or NoCategory
  NoCategory,
  CategoryOf,   \* the category of an item
  SingleGroups, \* groups with selection_type SINGLE
  Defaults      \* options that are checked when a form opens

Children(g) == {c \in Groups : ParentOf[c] = g}
LinksOf(i) == {l \in Links : LinkItem[l] = i}
AllowedGroups(i) ==
  UNION {{LinkGroup[l]} \cup Children(LinkGroup[l]) : l \in LinksOf(i)}

ASSUME CatalogueAssumption ==
  /\ LinkItem \in [Links -> Items] /\ LinkGroup \in [Links -> Groups]
  /\ NoGroup \notin Groups /\ ParentOf \in [Groups -> Groups \cup {NoGroup}]
  /\ NoCategory \notin Categories
  /\ SourceOf \in [Groups -> Categories \cup {NoCategory}]
  /\ CategoryOf \in [Items -> Categories]
  /\ GroupOf \in [Options -> Groups]
  /\ SingleGroups \subseteq Groups /\ Defaults \subseteq Options

\* Tables are finite, and an option is no <<group, item>> pair.
ASSUME TablesAssumption ==
  /\ IsFiniteSet(Items) /\ IsFiniteSet(Groups) /\ IsFiniteSet(Options)
  /\ Options \cap (Groups \X Items) = {}

\* One level of nesting (ModifierGroup.clean), containers without options of
\* their own (the comment above ModifierGroup.parent; nothing enforces it), and
\* no group linked both by itself and through its container.
ASSUME TreeAssumption ==
  /\ \A g \in Groups : Children(g) # {} =>
       /\ ParentOf[g] = NoGroup /\ SourceOf[g] = NoCategory
       /\ \A o \in Options : GroupOf[o] # g
  /\ \A k, l \in Links : LinkItem[k] = LinkItem[l] =>
       /\ LinkGroup[k] = LinkGroup[l] => k = l
       /\ ParentOf[LinkGroup[k]] # LinkGroup[l]

NoOverride == -1
Selection == [options : SUBSET Options, sources : SUBSET (Groups \X Items)]
Nothing == [options |-> {}, sources |-> {}]

\* Rules of a group, and what a link makes of them.
Rules == [active : BOOLEAN, min : Nat, max : Nat, required : BOOLEAN]
Overrides == [min : Nat \cup {NoOverride}, max : Nat \cup {NoOverride},
              required : BOOLEAN]
\* An item is "on" (can_be_ordered), "off" (hidden or sold out) or deleted.
ItemRow == [state : {"on", "off", "gone"}, price : Nat]
OptionRow == [active : BOOLEAN, price_delta : Int]
Menu == [item : [Items -> ItemRow], option : [Options -> OptionRow],
         group : [Groups -> Rules], link : [Links -> Overrides]]

can_be_ordered(m, i) == m.item[i].state = "on"
effective_min(m, l) == IF m.link[l].min # NoOverride THEN m.link[l].min
                       ELSE m.group[LinkGroup[l]].min
effective_max(m, l) == IF m.link[l].max # NoOverride THEN m.link[l].max
                       ELSE m.group[LinkGroup[l]].max
effective_required(m, l) ==
  m.link[l].required \/ m.group[LinkGroup[l]].required
-----------------------------------------------------------------------------
(***************************************************************************)
(* The check.                                                              *)
(***************************************************************************)

CountsOK(n, min, max, required) ==
  /\ required => n >= Max({1, min})
  /\ n >= min
  /\ max # 0 => n <= max

CountIn(sel, g) == Cardinality({o \in sel.options : GroupOf[o] = g})
                   + Cardinality({p \in sel.sources : p[1] = g})

\* A plausible bug: options switched off are let in.
OptionsAllowed_InactiveToo(m, i, sel) ==
  \A o \in sel.options : /\ GroupOf[o] \in AllowedGroups(i)
                         /\ SourceOf[GroupOf[o]] = NoCategory

OptionsAllowed(m, i, sel) ==
  \A o \in sel.options : /\ m.option[o].active
                         /\ GroupOf[o] \in AllowedGroups(i)
                         /\ SourceOf[GroupOf[o]] = NoCategory

\* A plausible bug: a hidden or sold out item is let in.
SourcesAllowed_SoldOutToo(m, i, sel) ==
  \A p \in sel.sources : /\ p[1] \in AllowedGroups(i)
                         /\ SourceOf[p[1]] # NoCategory
                         /\ CategoryOf[p[2]] = SourceOf[p[1]]

SourcesAllowed(m, i, sel) ==
  \A p \in sel.sources : /\ p[1] \in AllowedGroups(i)
                         /\ SourceOf[p[1]] # NoCategory
                         /\ can_be_ordered(m, p[2])
                         /\ CategoryOf[p[2]] = SourceOf[p[1]]

ChildKept(m, sel, c) ==
  CountsOK(CountIn(sel, c), m.group[c].min, m.group[c].max, m.group[c].required)

\* A plausible bug: of a container only its own choices are counted.
CountUnder_OwnOnly(sel, g) == CountIn(sel, g)

CountUnder(sel, g) ==
  IF Children(g) = {} THEN CountIn(sel, g)
  ELSE SumFunction([c \in Children(g) |-> CountIn(sel, c)])

LinkKept(m, sel, l) ==
  /\ \A c \in Children(LinkGroup[l]) : ChildKept(m, sel, c)
  /\ CountsOK(CountUnder(sel, LinkGroup[l]),
              effective_min(m, l), effective_max(m, l), effective_required(m, l))

check_modifier_selection(m, i, sel) ==
  /\ OptionsAllowed(m, i, sel)
  /\ SourcesAllowed(m, i, sel)
  /\ \A l \in LinksOf(i) : LinkKept(m, sel, l)
-----------------------------------------------------------------------------
(***************************************************************************)
(* What a form offers.                                                     *)
(***************************************************************************)

\* The groups a form shows: active links and their active children.  Of a
\* container it shows the children only.
ShownGroups(m, i) ==
  {g \in AllowedGroups(i) :
     /\ m.group[g].active
     /\ ParentOf[g] # NoGroup => m.group[ParentOf[g]].active
     /\ Children(g) = {}}

Offer(m, i) ==
  [options |-> {o \in Options : /\ GroupOf[o] \in ShownGroups(m, i)
                                /\ SourceOf[GroupOf[o]] = NoCategory
                                /\ m.option[o].active},
   sources |-> {p \in ShownGroups(m, i) \X (Items \ {i}) :
                  /\ SourceOf[p[1]] = CategoryOf[p[2]]
                  /\ can_be_ordered(m, p[2])}]

\* The panel in the dish's card passes each group to _modifier_group.html.  The
\* full page (item_detail.html), with which a line of the cart is edited, passes
\* the link alone: there the template finds no group and shows no option.
PanelOffer(m, i) == Offer(m, i)
PageOffer(m, i) == Nothing

\* The options that are checked when the form opens.  No caller of the template
\* hands on the selection of a line.
Checked(offer) == [options |-> offer.options \cap Defaults, sources |-> {}]

\* In a group of radio buttons one takes the place of another, and one that is
\* checked cannot be unchecked.
RadiosKept(offer, sel) ==
  \A g \in SingleGroups :
    /\ CountIn(sel, g) <= 1
    /\ CountIn(Checked(offer), g) > 0 => CountIn(sel, g) = 1

Picks(offer) ==
  {sel \in [options : SUBSET offer.options, sources : SUBSET offer.sources] :
     RadiosKept(offer, sel)}
-----------------------------------------------------------------------------
(***************************************************************************)
(* The rule, as the comments on ModifierGroup and MenuItemModifierGroup    *)
(* have it, without following the code's loops.                            *)
(***************************************************************************)

\* All that is chosen in g or in a subgroup of g.
ChosenUnder(sel, g) ==
  {o \in sel.options : g \in {GroupOf[o], ParentOf[GroupOf[o]]}} \cup
  {p \in sel.sources : g \in {p[1], ParentOf[p[1]]}}

\* The numbers of choices that g admits: its own limits, or those of the link
\* for a group that is linked.  A maximum of 0 is none.
Admitted(m, i, g) ==
  LET top      == {l \in LinksOf(i) : LinkGroup[l] = g}
      min      == {effective_min(m, l) : l \in top}
      max      == {effective_max(m, l) : l \in top}
      required == m.group[g].required \/ \E l \in top : m.link[l].required
      least    == (IF top = {} THEN {m.group[g].min} ELSE min)
                  \cup (IF required THEN {1} ELSE {})
      most     == IF top = {} THEN {m.group[g].max} ELSE max
  IN  {n \in 0..Cardinality(Options \cup (Groups \X Items)) :
         /\ \A b \in least : n >= b
         /\ \A b \in most \ {0} : n <= b}

\* Whether o, or the item of p, is on the menu of i now.
OptionOfItem(m, i, o) ==
  /\ m.option[o].active
  /\ GroupOf[o] \in AllowedGroups(i)
  /\ SourceOf[GroupOf[o]] = NoCategory
SourceOfItem(m, i, p) ==
  /\ p[1] \in AllowedGroups(i)
  /\ SourceOf[p[1]] = CategoryOf[p[2]]
  /\ can_be_ordered(m, p[2])

SelectionValid(m, i, sel) ==
  /\ \A o \in sel.options : OptionOfItem(m, i, o)
  /\ \A p \in sel.sources : SourceOfItem(m, i, p)
  /\ \A g \in AllowedGroups(i) :
       Cardinality(ChosenUnder(sel, g)) \in Admitted(m, i, g)
=============================================================================
