SPECIFICATION FairSpec

CONSTANTS
    Members = {m1}
    Emails = {e1, e2}
    Mobiles = {p1}
    Requests = {r1, r2}
    MaxTries = 1
    MaxCodes = 4
    MaxCrashes = 1

PROPERTIES
    ConfirmedAddressFixed
    EventuallyDecided

\* An application that is decided has nothing left to do.
CHECK_DEADLOCK FALSE
