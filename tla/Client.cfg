CONSTANTS
    NumShards = 3
    MaxConcurrency = 2
    Gap = 2
    Callers = {k1, k2}
    Nobody = Nobody
    Deadlines = {1, 2}
    MaxTime = 1
    MaxInvalid = 2
    MaxCalls = 2
SPECIFICATION FairSpec
INVARIANTS StartsInWaves IdentifiedOnceAfterHello LimitsAgree
PROPERTY AllIdentified
CHECK_DEADLOCK FALSE
