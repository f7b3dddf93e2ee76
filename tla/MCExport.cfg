SPECIFICATION Spec
CONSTANTS
  u1 = u1
  u2 = u2
  Nobody = Nobody
  Users = {u1, u2}
  ListDefinitions <- TwoLists
  MaxArchiveEntries = 3
  MaxDecompressedBytes = 3
  NarrowWindowDays = 2
  DosEpoch = 1
  Files <- SomeFiles
INVARIANTS
  TypeOK
  AcceptedHasFollowers
  ListsAreTheirParts
  RefusedForAReason
  NarrowWindowIsRecognised
  DatedByEvidence
  OwnerAgrees
CHECK_DEADLOCK FALSE
