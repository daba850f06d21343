SPECIFICATION WritesSpec
CONSTANTS
    ow1 = ow1
    ow2 = ow2
    oi1 = oi1
    oi2 = oi2
    ty1 = ty1
    ty2 = ty2
    sp1 = sp1
    sp2 = sp2
    tx1 = tx1
    tx2 = tx2
    pk1 = pk1
    pk2 = pk2
    Writers = {ow1, ow2}
    WriteNodes = {oi1, oi2}
    NodeTypes = {ty1, ty2}
    NodeSpaces = {sp1, sp2}
    Texts = {tx1}
    EdgeTexts = {tx1, tx2}
    WritePacks = {pk1, pk2}
    NoRow = norow
    Unattributed = unattributed
    SpaceOfType <- MCSpaceOfType
    PackOf <- MCPackOf
    NodeBatches <- MCNodeBatches
    EdgeBatches <- MCEdgeBatches
    Holdings <- MCHoldings
    Links <- MCLinks
    MaxWriteCalls = 2
    MaxStoreFaults = 1
    MaxGraphChanges = 1
    sd1 = sd1
    sd2 = sd2
    st1 = st1
    st2 = st2
    sk1 = sk1
    sk2 = sk2
    SourceIds = {sd1, sd2}
    LongIds = {sd2}
    SourceTexts = {st1, st2}
    SourcePacks = {sk1, sk2}
    Movers = {mo1, mo2}
    Missing = missing
    SourceRank <- MCSourceRank
    Deletions <- MCDeletions
    SourceWorlds <- MCSourceWorlds
    MaxMoves = 2
    MaxMishaps = 1
    gn1 = gn1
    gtA = gtA
    gtB = gtB
    gpA = gpA
    gcl1 = gcl1
    gcl2 = gcl2
    GraphIds = {gn1}
    GraphTypes = {gtA, gtB}
    GraphPacks = {gpA}
    EdgeKeys <- MCEdgeKeys
    GraphClients = {gcl1, gcl2}
    MaxGraphCalls = 2
    MaxGraphFaults = 1
    MaxBatchItems = 2
INVARIANTS WritesTypesOK WritesAreSound
PROPERTY WritesSpareOthers
CHECK_DEADLOCK FALSE
