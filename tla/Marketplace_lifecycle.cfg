SPECIFICATION FairSpec

CONSTANTS
    Members = {m1}
    Listings = {l1, l2}
    Reports = {x1, x2}
    Requests = {r1, r2}
    Categories = {"vehicle", "job"}
    Limit = 1

INVARIANTS
    TypeOK
    TablesAgree

PROPERTIES
    EndsAreSound
    EventuallyExpired
