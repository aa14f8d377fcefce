SPECIFICATION Spec
CONSTANTS
  o1 = o1
  r1 = r1
  r2 = r2
  cashier = cashier
  boss = boss
  NoUser = NoUser
  Orders <- OneOrder
  Requests <- MCRequests
  Cashiers <- OneBoss
  Kitchen <- MCKitchen
  BarePosts = TRUE
  Faults = TRUE
  MaxVersion = 5
SYMMETRY RequestSymmetry
INVARIANT RowMatchesTrail
INVARIANT LegalTrail
INVARIANT LockHolderIsCurrent
INVARIANT FollowUpsAccounted
PROPERTY ClosedIsFinal
PROPERTY LifecycleSpec
