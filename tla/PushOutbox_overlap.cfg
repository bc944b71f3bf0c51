SPECIFICATION FairSpec
CONSTANTS
    n1 = n1
    d1 = d1
    d2 = d2
    d3 = d3
    p1 = p1
    p2 = p2
    r1 = r1
    r2 = r2
    Notifications = {n1}
    Offers = {n1}
    Rows = {d1}
    Phones = {p1}
    PhoneOf <- Tokens
    Runs = {r1, r2}
    MaxAttempts = 2
    BatchSize = 1
    Lease = 1
    Backoff = 1
    MaxCrashes = 1
    MaxOutages = 1
INVARIANTS
    TypeOK
    OneAttemptAtATime
PROPERTIES
    PromiseAndVerdictStand
    EveryNotificationFinishes
