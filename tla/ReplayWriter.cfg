CONSTANTS
    Writers <- RestartAndOther
    PendingCloses = 1
    Troubles = {"crash", "load", "read", "resume", "open", "write", "append", "close", "meta"}
    MaxTroubles = 1
    MaxEvents = 3
SPECIFICATION Spec
INVARIANTS NamedMediaIsItsOwn EveryIdAccounted StoppedIsComplete JoinsMarked
PROPERTIES WaitEnds
CHECK_DEADLOCK FALSE
