SPECIFICATION FairSpec
CONSTANTS
  s1 = s1
  s2 = s2
  l1 = l1
  l2 = l2
  k1 = k1
  k2 = k2
  r1 = r1
  r2 = r2
  i1 = i1
  i2 = i2
  NoKey = NoKey
  Sessions <- OneGuest
  Items <- MCItems
  Lines <- MCLines
  ItemOf <- MCItemOf
  Keys <- MCKeys
  Requests <- MCRequests
  MaxDay = 1
  OneTab = TRUE
  ChipPolls = FALSE
  MenuEdits = {"on", "off", "gone"}
  Faults = TRUE
INVARIANT WholeCart
INVARIANT LineOrderedOnce
INVARIANT AnsweredOrderExists
PROPERTY SubmitAnswered
