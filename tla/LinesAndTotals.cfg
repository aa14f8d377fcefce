SPECIFICATION Spec
CONSTANTS
  dish = dish
  beer = beer
  drinks = drinks
  soft = soft
  beers = beers
  sauce = sauce
  cola = cola
  mayo = mayo
  mains = mains
  bar = bar
  dishDrinks = dishDrinks
  dishSauce = dishSauce
  NoGroup = NoGroup
  NoCategory = NoCategory
  Items <- MCItems
  Groups <- MCGroups
  Options <- MCOptions
  Categories <- MCCategories
  Links <- MCLinks
  LinkItem <- MCLinkItem
  LinkGroup <- MCLinkGroup
  ParentOf <- MCParentOf
  GroupOf <- MCGroupOf
  SourceOf <- MCSourceOf
  CategoryOf <- MCCategoryOf
  SingleGroups <- MCSingle
  Defaults <- MCDefaults
  StartMenu <- MCStartMenu
  ItemPrices <- MCItemPrices
  OptionDeltas <- MCOptionDeltas
  GroupRules <- MCGroupRules
  LinkRules <- MCLinkRules
  MaxEdits = 2
  MaxLines = 2
  MaxDrawn = 2
  MaxQuantity = 2
INVARIANT TypeOK
INVARIANT CheckIsRule
INVARIANT ChargedAsShown
INVARIANT OrderIsValid
INVARIANT OnlyWithdrawnMissing
INVARIANT RefusedForAReason
 
