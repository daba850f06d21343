SPECIFICATION Spec
CONSTANTS
  d1 = d1
  d2 = d2
  u1 = u1
  u2 = u2
  n1 = n1
  n2 = n2
  c1 = c1
  v1 = v1
  Principal <- MCPrincipal
  Deleters = {d1}
  Users = {u1, u2}
  Nodes = {n1, n2}
  Legacy = {n2}
  Sources = {c1}
  Vectors = {v1}
  OldJournals <- MCOldJournals
  MaxWrites = 1
  MaxFaults = 1
  MaxOutages = 1
  MaxCrashes = 1
  MaxRows = 2
  MaxTears = 1
  MaxClears = 1
CHECK_DEADLOCK FALSE
INVARIANTS
  TypeOK
  NoLostTwin
  HalfDeletedIsRecorded
  CompleteMeansGone
PROPERTIES
  DeletionIsLicensed
