SPECIFICATION ServicesSpec
CONSTANTS
    hr1 = hr1
    hr2 = hr2
    hul = hul
    hur = hur
    htl = htl
    htr = htr
    rdTool = rdTool
    wrTool = wrTool
    loTool = loTool
    Requests = {hr1, hr2}
    Accounts = {hul, hur}
    LocalAccount = hul
    Secrets = {htl, htr}
    AccountOf <- MCAccountOf
    ToolNames = {rdTool, wrTool, loTool}
    Access <- MCAccess
    WritingTools = {wrTool, loTool}
    NotATool = ping
    NoSecret = nosecret
    NoAccount = noaccount
    Asks <- MCAsks
    QueueLimit = 1
    ReadWorkers = 2
    StoresToOpen = 1
    MaxAdmin = 1
    Servers = {sv1, sv2}
    Inits = {in1}
    NoUser = nouser
    MaxBootFaults = 2
    Embedders = {em1, em2}
    MaxCalls = 5
    MaxModels = 3
    MaxTimers = 3
    Clerks = {k1, k2}
    FlowRuns = {f1}
    ApprovalRequests = {q1}
    NoClerk = nobody
    MaxMoves = 4
    t1 = t1
    t2 = t2
    p1 = p1
    p2 = p2
    Threads = {t1, t2}
    Processes = {p1, p2}
    ProcOf <- MCOneProcess
    Paths = {write, chroma}
    WritePath = write
    Purposes = {ingest}
    SharedMode = "sh"
    MaxDepth = 2
INVARIANTS ServicesTypesOK HttpIsSafe DecidedOnce NoLeak
PROPERTIES NobodyWaitsForEver Implements RecordSpeaksForItself
CHECK_DEADLOCK FALSE
