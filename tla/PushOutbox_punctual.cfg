SPECIFICATION PunctualSpec
CONSTANTS
    n1 = n1
    d1 = d1
    d2 = d2
    d3 = d3
    p1 = p1
    p2 = p2
    r1 = r1
    r2 = r2
    Notifications = {n1}
    Offers = {n1}
    Rows = {d1, d2, d3}
    Phones = {p1, p2}
    PhoneOf <- Tokens
    Runs = {r1, r2}
    MaxAttempts = 1
    BatchSize = 2
    Lease = 2
    Backoff = 0
    MaxCrashes = 0
    MaxOutages = 1
SYMMETRY RunSymmetry
INVARIANTS
    OneWorker
    OncePerPhone
    FinalMeansSettled
