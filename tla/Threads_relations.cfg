SPECIFICATION Spec
SYMMETRY Symmetry

CONSTANTS
    Members = {m1, m2, m3}
    Posts = {p1, p2, p3}
    Requests = {r1, r2}
    MaxOps = 4

INVARIANTS
    TypeOK
    NothingAcrossBlock
    BlockEndsFollows

\* A behaviour ends when its operations are used up.
CHECK_DEADLOCK FALSE
