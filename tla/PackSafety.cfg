SPECIFICATION Spec
CONSTANTS
  s1 = s1
  s2 = s2
  create1 = create1
  create2 = create2
  fork1 = fork1
  repair1 = repair1
  promote1 = promote1
  restore1 = restore1
  u1 = u1
  u2 = u2
  src = src
  here = here
  there = there
  Slugs = {s1, s2}
  Creators = {create1}
  Forkers = {fork1}
  Repairers = {repair1}
  Promoters = {promote1}
  Restorers = {restore1}
  Owner <- MCOwner
  Requested <- MCRequested
  Source <- MCSource
  HostOf <- MCOneHost
  Legs = 2
  MaxRandomAttempts = 1
  Faults = {"insert", "registry", "probe", "graph"}
  MaxFaults = 2
  MaxCrashes = 1
  MaxRemovals = 1
  MaxHandDeletes = 1
CHECK_DEADLOCK FALSE
INVARIANTS TypeOK ReadyHasAnchor ForkReadyIsComplete NoOrphan OkMeansReady
PROPERTY CallsKeepTheirRows
