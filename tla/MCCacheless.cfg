CONSTANTS
    Requests = {r1, r2}
    Buckets = {b1, b2}
    NoRequest = NoRequest
    Delays = {1, 2}
    MaxTime = 3
    MaxLimits = 2
    MaxBreaks = 1
    Shards = {s1, s2, s3}
    Gap = 1
    MaxInvalid = 1
    MaxLost = 1
    Unset = {"on_role_create", "on_dm_msg"}
    Seqs = {1, 2, 3}
    MaxUpdates = 3
SPECIFICATION PartsSpec
INVARIANTS
    ExecutedAtMostOnce OneIdentifies PayloadsFilled
    NothingStale WrittenReadsBack LibrariesReadAlike ChangesAreTold
PROPERTIES NeverReleasedEarly EveryAwaiterResumes AllIdentified
CHECK_DEADLOCK FALSE
