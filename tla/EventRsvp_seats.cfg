SPECIFICATION RsvpSpec
SYMMETRY Symmetry

CONSTANTS
    Members = {m1, m2}
    Requests = {r1, r2}
    Capacity = 3
    MaxGuests = 1
    Opens = 1
    EarlyUntil = 1
    StandardUntil = 2
    Closes = 3
    Starts = 4
    EarlyPrice = 1
    StandardPrice = 2
    LatePrice = 3
    MaxTime = 4

INVARIANTS
    RsvpTypeOK
    SeatsWithinCapacity
    PaidIsForThis

PROPERTIES
    PaidStays

\* The event starts, and with it the last thing there was to do ends.
CHECK_DEADLOCK FALSE
