SPECIFICATION FairSpec
CONSTANTS
  o1 = o1
  r1 = r1
  r2 = r2
  cashier = cashier
  boss = boss
  NoUser = NoUser
  Orders <- OneOrder
  Requests <- MCRequests
  Cashiers <- MCCashiers
  Kitchen <- MCKitchen
  BarePosts = FALSE
  Faults = FALSE
  MaxVersion = 7
INVARIANT TypeOK
INVARIANT PreparationStartKept
INVARIANT PagesArePast
INVARIANT StampsMatchTrail
PROPERTY ActsOnWhatWasShown
PROPERTY ConflictIsReal
PROPERTY EveryPostAnswered
