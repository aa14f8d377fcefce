---------------------------- MODULE MCOrderLines ----------------------------
(***************************************************************************)
(* A small menu: a dish with a container of drinks (soft drinks, which are *)
(* options, and beers, which are the items of a category) and a sauce.     *)
(***************************************************************************)
EXTENDS OrderLines, TLC

CONSTANTS dish, beer, drinks, soft, beers, sauce, cola, mayo,
          mains, bar, dishDrinks, dishSauce

MCItems      == {dish, beer}
MCGroups     == {drinks, soft, beers, sauce}
MCOptions    == {cola, mayo}
MCCategories == {mains, bar}
MCLinks      == {dishDrinks, dishSauce}
MCLinkItem   == [l \in MCLinks |-> dish]
MCLinkGroup  == dishDrinks :> drinks @@ dishSauce :> sauce
MCParentOf   == soft :> drinks @@ beers :> drinks @@ drinks :> NoGroup @@ sauce :> NoGroup
MCGroupOf    == cola :> soft @@ mayo :> sauce
MCSourceOf   == [g \in MCGroups |-> IF g = beers THEN bar ELSE NoCategory]
MCCategoryOf == dish :> mains @@ beer :> bar
MCSingle     == {beers, sauce}
MCDefaults   == {mayo}

Limits(min, max, required) ==
  [active |-> TRUE, min |-> min, max |-> max, required |-> required]
Override(min, max, required) == [min |-> min, max |-> max, required |-> required]

MCStartMenu ==
  [item   |-> dish :> [state |-> "on", price |-> 7] @@
              beer :> [state |-> "on", price |-> 3],
   option |-> cola :> [active |-> TRUE, price_delta |-> 2] @@
              mayo :> [active |-> TRUE, price_delta |-> 1],
   group  |-> drinks :> Limits(0, 0, FALSE) @@ soft :> Limits(0, 1, FALSE) @@
              beers :> Limits(0, 1, FALSE) @@ sauce :> Limits(0, 1, FALSE),
   link   |-> dishDrinks :> Override(NoOverride, 2, FALSE) @@
              dishSauce :> Override(NoOverride, NoOverride, FALSE)]

MCGroupRules ==
  drinks :> {Limits(1, 1, FALSE)} @@
  soft :> {Limits(1, 0, FALSE)} @@
  beers :> {Limits(0, 1, TRUE)} @@
  sauce :> {[Limits(0, 1, TRUE) EXCEPT !.active = FALSE]}
MCLinkRules ==
  dishDrinks :> {Override(2, 3, TRUE)} @@
  dishSauce :> {}
MCItemPrices == {5}
MCOptionDeltas == {-1}
=============================================================================
