SPECIFICATION FairSpec
CONSTANTS
    Heads = {h1, h2}
    NoHead = NoHead
    Handlers = {p1}
    Jobs = {j1}
    MaxTries = 2
    MaxEvents = 2
    Faults = {"crash", "shutdown", "enqueue", "database", "lost_reply", "early_expiry"}
INVARIANT ReviewedHeadWasLive
PROPERTIES SupersededLostOnlyInRace EveryReviewSettles EveryEventIsAnswered
CHECK_DEADLOCK FALSE
