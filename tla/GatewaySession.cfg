CONSTANTS
    MaxDispatches = 2
    MaxRequests = 1
SPECIFICATION FairSpec
INVARIANT HeartStops
PROPERTIES BeatsArriveInOrder SilenceIsNoticed
CHECK_DEADLOCK FALSE
