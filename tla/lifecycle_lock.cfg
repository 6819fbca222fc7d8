SPECIFICATION Spec
CONSTANTS
    Heads = {h1, h2}
    NoHead = NoHead
    Handlers = {p1, p2}
    Jobs = {j1, j2}
    MaxTries = 2
    MaxEvents = 2
    Faults = {"crash", "api_crash", "enqueue", "database", "unkeyed", "blank_head"}
SYMMETRY Symmetry
INVARIANTS TypeOK OneJobPerHead
PROPERTY ImplementsReviewLease
CHECK_DEADLOCK FALSE
