\* The default ratio: a health window (120 s) longer than a beat stays fresh (60 s).
SPECIFICATION Spec
CONSTANTS
    MaxVersion = 2
    Bad = {}
    Keep = 3
    MaxBootAttempts = 1
    RollbackGrace = 1
    MinVersion = 1
    HealthWindow = 2
    FreshFor = 1
    Faults = {}
    MaxMishaps = 1
PROPERTIES
    HealthyIsPromoted
