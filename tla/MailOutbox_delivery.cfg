SPECIFICATION FairSpec

CONSTANTS
    Mails = {m1, m2}
    Runs = {w1, w2}
    BatchSize = 2
    MaxMishaps = 2

INVARIANTS
    TypeOK
    OnceUnlessLateOrLost
    RecordsAreTrue

PROPERTIES
    EveryMailSent
