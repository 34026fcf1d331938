CONSTANTS
    MaxDispatches = 1
    MaxRequests = 1
SPECIFICATION FairSpec
PROPERTY ReconnectHappens
CHECK_DEADLOCK FALSE
