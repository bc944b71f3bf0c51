SPECIFICATION Spec
SYMMETRY Symmetry

CONSTANTS
    Inquirers = {i1, i2}
    Owner = owner
    Conversations = {c1, c2}
    Requests = {r1, r2}
    PageSize = 1
    Grain = 2
    MaxStamps = 3

INVARIANTS
    TypeOK
    OneThreadUnlessRaced
    InboxFollowsMessages
    ReadMeansShown
