SPECIFICATION Spec
SYMMETRY Symmetry

CONSTANTS
    Members = {m1, m2}
    Emails = {e1, e2}
    Mobiles = {p1, p2}
    Requests = {r1, r2}
    MaxTries = 2
    MaxCodes = 3
    MaxCrashes = 1

INVARIANTS
    TypeOK
    ContactsProven
    CompleteTogether

PROPERTIES
    DecidedByTheRules

\* An application that is decided has nothing left to do.
CHECK_DEADLOCK FALSE
