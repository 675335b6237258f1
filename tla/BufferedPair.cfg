SPECIFICATION FeedSpec
CONSTANTS
    Half = 16
    Window = 3
    Legs = {Leg1, Leg2}
    None = None
    StaleTimes = {4, 5}
    Times = {0}
    Payloads = {0}
    Lead = Leg1
    Lags = {2, 3}
    Margin = 2
    FirstSeq = 29
    NewIsns = {6, 18}
    MaxOutages = 2
    MaxMissed = 3
    Horizon = 8
    Hold = 2
    MaxHeld = 4
    Remember = 4
INVARIANTS HeldInPlace SkewTolerated BoundedLatency GapLostIsOutputLoss AdmittedAccounted
PROPERTIES SourceOrder LateMeansLost ReleasesInOrder
CHECK_DEADLOCK FALSE
