SPECIFICATION MCSpec
CONSTANTS
  t1 = t1
  k1 = k1
  o1 = o1
  o2 = o2
  NoTable = NoTable
  NoOrder = NoOrder
  Tables <- MCTables
  Tabs <- MCTabs
  Orders <- MCOrders
  RESET = 2
  MaxTime = 3
  MaxToken = 1
  MaxRequests = 2
INVARIANT TableAsShown
 
INVARIANT ChipKept
PROPERTY ChipGoes
