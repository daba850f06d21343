SPECIFICATION Spec
CONSTANTS
  d1 = d1
  d2 = d2
  u1 = u1
  u2 = u2
  n1 = n1
  n2 = n2
  c1 = c1
  v1 = v1
  Principal <- MCPrincipal
  Deleters = {d1}
  Users = {u1}
  Nodes = {n1}
  Legacy = {}
  Sources = {c1}
  Vectors = {v1}
  OldJournals = {}
  MaxWrites = 1
  MaxFaults = 0
  MaxOutages = 0
  MaxCrashes = 1
  MaxRows = 1
  MaxTears = 0
  MaxClears = 0
CHECK_DEADLOCK FALSE
INVARIANTS
  AllDoneMeansWhole
