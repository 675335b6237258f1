SPECIFICATION MCSpec
CONSTANTS
    Half = 7
    Window = 3
    Legs = {Leg1, Leg2}
    None = None
    StaleTimes = {1}
    Times = {0, 1}
    MaxArrivals = 5
    FirstSeq = 12
INVARIANTS
    TypeOK
    BitmapIsHistory
    LossBalance
PROPERTIES
    ExactlyOnce
CHECK_DEADLOCK FALSE
