SPECIFICATION LiveSpec
CONSTANTS
  d1 = d1
  d2 = d2
  u1 = u1
  u2 = u2
  n1 = n1
  n2 = n2
  c1 = c1
  v1 = v1
  Principal <- MCPrincipal
  Deleters = {d1, d2}
  Users = {u1}
  Nodes = {n1}
  Legacy = {n1}
  Sources = {c1}
  Vectors = {v1}
  OldJournals <- MCOldJournals
  MaxWrites = 0
  MaxFaults = 1
  MaxOutages = 1
  MaxCrashes = 1
  MaxRows = 1
  MaxTears = 0
  MaxClears = 0
CHECK_DEADLOCK FALSE
PROPERTY ResidueGoes
