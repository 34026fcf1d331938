CONSTANTS
    NumShards = 2
    MaxConcurrency = 1
    Gap = 2
    Callers = {k1}
    Nobody = Nobody
    Deadlines = {1}
    MaxTime = 4
    MaxInvalid = 1
    MaxCalls = 0
SPECIFICATION Spec
INVARIANT IdentifiesSpaced
CHECK_DEADLOCK FALSE
