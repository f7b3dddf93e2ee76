SPECIFICATION Spec
CONSTANTS
  h1 = h1
  h2 = h2
  r1 = r1
  r2 = r2
  r3 = r3
  n1 = n1
  n2 = n2
  n3 = n3
  Requests = {r1, r2, r3}
  Handles = {h1, h2}
  Names = {n1, n2, n3}
  Forms <- SomeForms
  NoHandle = NoHandle
  NoOne = NoOne
  RetainUploads = FALSE
  MaxFaults = 1
  MaxExits = 1
SYMMETRY IntakeSymmetry
INVARIANTS
  TypeOK
  QueuedHasItsFile
  NothingStranded
  RefusedWithCause
CHECK_DEADLOCK FALSE
