SPECIFICATION RepairsSpec
CONSTANTS
    sc1 = sc1
    sc2 = sc2
    stX = stX
    si1 = si1
    si2 = si2
    SchemaPackNames = {sc1, sc2}
    TypesOf <- MCTypesOf
    Installers = {si1, si2}
    MaxToolCalls = 2
    MaxEdits = 1
    nr1 = nr1
    nr2 = nr2
    VectorRows = {nr1, nr2}
    MaxToolRuns = 2
    MaxSwaps = 1
    mi1 = mi1
    mi2 = mi2
    mi4 = mi4
    mih = mih
    P1Ids = {mi1}
    P2Ids = {mi2}
    P4Ids = {mi4}
    HeldIds = {mih}
    MaxServiceWrites = 1
    MaxRepairRuns = 2
    fn1 = fn1
    fn2 = fn2
    fs1 = fs1
    fanchor = fanchor
    fstray = fstray
    ForkNodes = {fn1, fn2}
    ForkSources = {fs1}
    Odd = fs1
    Anchor = fanchor
    Stray = fstray
    ForkEdgeEnds <- MCForkEnds
    VectorReads <- MCVectorReads
    MaxForkDefects = 1
    LossNum = 1
    LossDen = 2
    MaxRewrites = 1
    HealIds = {ri1}
    RecSpaces = {rsA, rsB}
    RecTypes = {rtA, rtB}
    MaxRecWrites = 1
    MaxRecRuns = 1
    ri1 = ri1
    rsA = rsA
    rsB = rsB
    rtA = rtA
    rtB = rtB
    w1 = w1
    j1 = j1
    j2 = j2
    d1b = d1b
    BFiles = {w1, j2, j1, d1b}
    Wal = {w1}
    Plain = {d1b}
    Unlocked = {j2}
    MaxOps = 2
    MaxUnlocked = 1
    MaxBackups = 1
    MaxLosses = 1
    mm1 = mm1
    mm2 = mm2
    mu1 = mu1
    mu2 = mu2
    mu3 = mu3
    mt1 = mt1
    mt2 = mt2
    ma = ma
    mb = mb
    mn = mn
    mk = mk
    mh = mh
    mbad = mbad
    RowIds = {mm1, mm2}
    Users = {mu1, mu2, mu3}
    Tokens = {mt1, mt2}
    UserOf <- MCUserOf
    LocalUsers = {mu1, mu3}
    Contents = {ma, mb}
    NoRow = mn
    Unknown = mk
    NoHelper = mh
    BadContent = mbad
    SourcesOf <- MCSources
    TargetsOf <- MCTargets
    MaxMigs = 2
    MaxChanges = 1
INVARIANTS RepairsTypesOK RepairsAreSound
PROPERTY ToolsSpareOthers
CHECK_DEADLOCK FALSE
