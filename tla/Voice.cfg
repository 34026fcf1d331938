CONSTANTS
    Calls = {k1, k2}
    Nobody = Nobody
    Frames = 2
    MaxPlays = 2
    MaxCancels = 1
    MaxMoves = 1
    MaxBreaks = 1
SPECIFICATION FairSpec
INVARIANTS FreshCredentials CutOnlyIfAsked
PROPERTIES EveryConnectEnds CancelsComplete
CHECK_DEADLOCK FALSE
