SPECIFICATION Spec
CONSTANTS
  u1 = u1
  Nobody = Nobody
  Users = {u1}
  Kinds = {"followers", "following"}
  MaxExecutions = 3
  MaxWrites = 1
  Possible <- SomeExecutions
INVARIANTS
  AbsentListLosesNobody
CHECK_DEADLOCK FALSE
