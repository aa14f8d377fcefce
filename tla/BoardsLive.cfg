SPECIFICATION FairSpec
CONSTANTS
  o1 = o1
  o2 = o2
  p1 = p1
  Orders <- TwoOrders
  Pages <- OnePage
  Opening <- MCOpening
  ReadyLimit = 1
  ServedLimit = 1
  MaxFetches = 2
  MaxChanges = 2
  MaxFaults = 1
INVARIANT PushedInTime
PROPERTY BoardsCatchUp
