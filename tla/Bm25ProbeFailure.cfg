SPECIFICATION Spec
CONSTANTS
    Writers = {w1}
    Searchers = {s1}
    Worker = bm25
    MaxDb = 2
    MaxFailures = 1
    MaxToggles = 0
    MCEdit = 2
    Fp <- MCFp
PROPERTY SkipOnlyWhenCovered
