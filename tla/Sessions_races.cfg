SPECIFICATION FairSpec

CONSTANTS
    Accounts = {a1}
    SessionIds = {s1, s2, s3}
    Tokens = {t1, t2, t3, t4}
    Requests = {r1, r2}
    MaxCrashes = 1

INVARIANTS
    TypeOK
    OneLineage

PROPERTIES
    KeepsLineage
    RequestsEnd
