SPECIFICATION FairSpec
CONSTANTS
    Writers = {w1}
    Searchers = {s1}
    Worker = bm25
    MaxDb = 2
    MaxFailures = 1
    MaxToggles = 2
    MCEdit = 2
    Fp <- MCFp
INVARIANTS TypeOK EpochCoversWrites OneBuild SkippedIsOwed StaleIsScheduled
PROPERTIES NeverRegresses EventuallyFresh
