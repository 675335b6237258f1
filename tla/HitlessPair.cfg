\* Legs closer than the window, and a leg lagging past it; a restart that with the
\* lag stays within half the sequence space, one of half of it and one past it.
SPECIFICATION PairSpec
CONSTANTS
    Half = 7
    Window = 2
    Legs = {Leg1, Leg2}
    None = None
    StaleTimes = {2, 4}
    Times = {0}
    Lead = Leg1
    Lags = {1, 3}
    Margin = 1
    FirstSeq = 9
    NewIsns = {4, 7, 10}
    MaxOutages = 2
    MaxMissed = 4
    Horizon = 18
INVARIANTS
    NothingDeliveredIsMissed
    NoLongBlackout
PROPERTIES
    AiredOnce
    LaggingLegNeverMovesWindow
CHECK_DEADLOCK FALSE
