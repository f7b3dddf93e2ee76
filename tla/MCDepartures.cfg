SPECIFICATION Spec
CONSTANTS
  u1 = u1
  u2 = u2
  u3 = u3
  Nobody = Nobody
  Users = {u1, u2, u3}
  FollowerLists <- AllFollowerLists
  OtherLists <- SomeOtherLists
INVARIANTS
  StatementsAddUp
  RenamesAreOneToOne
  ReasonsHaveEvidence
CHECK_DEADLOCK FALSE
