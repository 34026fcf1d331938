CONSTANTS
    Coroutines = {c1, c2, c3, c4}
    UNLOCKED = UNLOCKED
    NULL = NULL
    Rival = c1
    Cap = 3
SPECIFICATION CountSpec
INVARIANTS WaitersLinkedOnce OvertakenAtMostTwice
PROPERTIES ParkedIsServed ImplementsLock
