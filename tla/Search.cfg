SPECIFICATION SearchesSpec
CONSTANTS
    sr1 = sr1
    sr2 = sr2
    sr3 = sr3
    spA = spA
    spB = spB
    spC = spC
    spD = spD
    sth1 = sth1
    sth2 = sth2
    SearchRows = {sr1, sr2, sr3}
    RowDistance <- MCDistance
    RowPack <- MCRowPack
    RowSpace <- MCRowSpace
    AnyPack = anypack
    AnySpace = anyspace
    Questions <- MCQuestions
    ResultLimit = 1
    ScanLimit = 2
    PackScanLimit = 2
    SearchThreads = {sth1, sth2}
    OutsideConnections = {sout}
    MaxVectorWrites = 1
    MaxCacheFaults = 1
    MaxQuestions = 3
    ix1 = ix1
    ix2 = ix2
    NodeKeys = {1, 2}
    IndexPacks = {ip1, ip2}
    Openers = {ix1, ix2}
    Service = ix1
    SettingWorlds <- MCSettingWorlds
    NoEntry = none
    IndexBatch = 1
    MaxNodeWrites = 2
    MaxFaults = 1
    da = da
    db = db
    dc = dc
    Documents = {da, db, dc}
    NumTerms = 3
    TermBound <- MCBound
    ScoreTables <- MCTables
    vs1 = vs1
    vs2 = vs2
    vpA = vpA
    vpB = vpB
    vw1 = vw1
    vw2 = vw2
    VectorKinds = {"sqlite", "pg", "chroma"}
    SlotIds = {vs1, vs2}
    VectorPacks = {vpA, vpB}
    VectorKeys = {"text", "space", "pack"}
    Unowned = unowned
    NoVector = novector
    RetiredKey = "pack"
    VectorWriters = {vw1, vw2}
    VectorReaders = {vr1}
    VectorBatches <- MCBatches
    SlotSeeds <- MCSeeds
    MaxVectorFaults = 2
    NoVectorWriter = nowriter
    xp1 = xp1
    xp2 = xp2
    wa = wa
    wb = wb
    wc = wc
    wd = wd
    ws = ws
    SelPacks = {xp1, xp2}
    SelWords = {wa, wb, wc, wd, ws}
    SelShort = {ws}
    SelName <- MCSelName
    SelFragments <- MCSelFragments
    SelAliases <- MCSelAliases
    SelRows <- MCSelRows
    SelManifests <- MCSelManifests
    SelContents <- MCSelContents
    SelQuestions <- MCSelQuestions
    MinScore = 10
    MaxSelWrites = 1
INVARIANTS SearchesTypesOK AnswersAreHonest
PROPERTY OwnersKeepTheirSlots
CHECK_DEADLOCK FALSE
