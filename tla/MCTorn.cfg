SPECIFICATION Spec
CONSTANTS
  u1 = u1
  Nobody = Nobody
  Users = {u1}
  Kinds = {"followers", "following"}
  MaxExecutions = 4
  MaxWrites = 1
  Possible <- SomeExecutions
PROPERTIES
  TransientIsTheMiddle
CHECK_DEADLOCK FALSE
