SPECIFICATION StoresSpec
CONSTANTS
    la = la
    ls = ls
    lc = lc
    lT = lT
    lU = lU
    lp = lp
    lq = lq
    noRow = noRow
    Absent = noRow
    Nodes = {la, ls}
    Chunks = {ls, lc}
    Edges <- MCEdges
    Types = {lT, lU}
    Spaces = {lp, lq}
    Values = {1, 2}
    Files <- MCFiles
    Refused <- MCRefused
    Recover = TRUE
    MaxRuns = 2
    MaxFaults = 1
    MaxOutside = 1
    gT = gT
    gU = gU
    ga = ga
    gb = gb
    gc = gc
    pk = pk
    po = po
    v1 = v1
    v2 = v2
    nov = nov
    GTypes = {gT, gU}
    GIds = {ga, gb, gc}
    Props = {pk, po}
    PropValues = {v1, v2}
    NoValue = nov
    OwnerProp = po
    InitialGraphs <- MCInitialGraphs
    Mappings <- MCMappings
    NewRows <- MCNewRows
    Callers = {c1, c2}
    RequestIds = {r1}
    MaxEdits = 1
    MaxDryRuns = 1
    MaxWrites = 1
    h1 = h1
    h2 = h2
    Cands = {h1, h2}
    Links <- MCLinks
    MaxStarts = 4
    MaxForeign = 1
    i1 = i1
    i2 = i2
    s1 = s1
    k1 = k1
    k2 = k2
    RecIds = {i1, i2}
    GrSpaces <- MCGrSpaces
    GrPacks = {k1, k2}
    Evidence = ev
    Nothing = nil
    Worlds <- MCWorlds
    AllowMissing = FALSE
    BatchSize = 1
    MaxScans = 3
    MaxOthers = 1
    n1 = n1
    d1 = d1
    x1 = x1
    o1 = o1
    o2 = o2
    dp = dp
    e1 = e1
    y1 = y1
    y2 = y2
    nopack = nopack
    nospace = nospace
    bad = bad
    Rows = {n1, d1, x1}
    OwnPacks = {o1, o2, dp}
    DefaultPack = dp
    OwnIds = {y1, y2}
    OwnSpaces = {e1}
    NoSpace = nospace
    NoPack = nopack
    Malformed = bad
    LegacyRows <- MCLegacyRows
    MaxMigrations = 3
    MaxTags = 1
SYMMETRY CallersAlike
INVARIANTS StoresTypesOK RunsLeaveWholeStores
PROPERTY StoresKeepTheirRows
CHECK_DEADLOCK FALSE
