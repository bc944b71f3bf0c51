SPECIFICATION FairSpec

CONSTANTS
    Members = {m1, m2}
    Images = {i1}
    Videos = {v1}
    Requests = {r1, r2}
    Jobs = {j1, j2}
    OrigBytes = 1
    DerivedBytes = 1
    Quota = 3
    MaxAssets = 2

INVARIANTS
    TypeOK
    LedgerMatches
    WrittenBeforeRecorded

PROPERTIES
    ProcessingEnds
