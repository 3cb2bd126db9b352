SPECIFICATION PartSpec
CONSTANTS
    People = {p1, p2}
    DocIds = {d1, d2, d3, d4, d5}
    None = None
    MaxRuns = 5
    Products = {x1, x2}
    Serving = {"phase1", "phase2", "names", "duplicates", "warehouses", "offices", "missing"}
    Items = {i1, i2}
INVARIANTS
    PeopleKept
    PromisesKept
    CorrectionsComplete
CHECK_DEADLOCK FALSE
