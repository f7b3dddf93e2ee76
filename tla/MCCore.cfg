SPECIFICATION Spec
CONSTANTS
  a1 = a1
  a2 = a2
  u1 = u1
  u2 = u2
  u3 = u3
  Nobody = Nobody
  MaxUploads = 3
  Accounts = {a1}
  Users = {u1, u2, u3}
  Kinds = {"followers", "following"}
  Dates = {1, 2, 3}
  Stamps = {1}
  RereadTimes = {2, 3}
  Requests <- CoreRequests
  Legacy <- NoLegacy
  CollapseMinimum = 2
  RetainUploads = TRUE
INVARIANTS
  TypeOK
  ClaimHeld
  OnlyCompletedCount
  HistoryInDateOrder
  ChangesReplay
PROPERTIES
  GuardSeesNeighbour
