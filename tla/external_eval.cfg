SPECIFICATION FairSpec
CONSTANTS
    Repos <- MCRepos
    Tiers <- MCTiers
    Rules <- MCRules
    MaxFiles = 5
    SampleLimit = 3
    MaxShardFiles = 2
    MaxAnalyzed = 3
    EngineCap = 40
    ShardFloor = 4
    EstimateFloor = 6
    MaxShards = 2
    Jobs = {j1, j2, j3}
    MaxTries = 2
    Caps = {6, 15}
    MaxEvents = 2
    PushEvents = 2
    Faults = {"cancel", "push", "die", "crash", "enqueue", "unread"}
INVARIANTS SynthesisSeesEveryShard ScannedLikeTheEngine
PROPERTY EvaluationFinalizes
CHECK_DEADLOCK FALSE
