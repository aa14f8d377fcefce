SPECIFICATION AdminSpec
CONSTANTS
  o1 = o1
  r1 = r1
  r2 = r2
  boss = boss
  admin = admin
  NoUser = NoUser
  Orders <- MCOrders
  Requests <- MCRequests
  Cashiers <- MCStaff
  Kitchen <- MCStaff
  Admins <- MCAdmins
  BarePosts = FALSE
  Faults = FALSE
  MaxVersion = 4
  ChangesStatus = TRUE
  MaxEdits = 1
SYMMETRY RequestSymmetry
INVARIANT EveryEntryAllowed
INVARIANT VersionWithinTrail
