SPECIFICATION Spec

CONSTANTS
    Members = {m1}
    Listings = {l1, l2}
    Reports = {x1}
    Requests = {r1}
    Categories = {"vehicle", "job"}
    Limit = 1

PROPERTY
    RefusedOnlyWhenFull
