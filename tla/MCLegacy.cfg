SPECIFICATION Spec
CONSTANTS
  a1 = a1
  a2 = a2
  u1 = u1
  u2 = u2
  u3 = u3
  Nobody = Nobody
  MaxUploads = 4
  Accounts = {a1, a2}
  Users = {u1, u2, u3}
  Kinds = {"followers", "following"}
  Dates = {1, 2, 3}
  Stamps = {1}
  RereadTimes = {3}
  Requests <- OldAndNewRequests
  Legacy <- OldLegacy
  CollapseMinimum = 2
  RetainUploads = FALSE
INVARIANTS
  NothingLost
  FailuresAreJustified
  DatesAreBestEvidence
PROPERTIES
  AccountsAreIndependent
  CompletedIsForever
  RereadIsIdempotent
