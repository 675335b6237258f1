\* Three failed upgrades, then a fourth.
SPECIFICATION Spec
CONSTANTS
    MaxVersion = 5
    Bad = {2, 3, 4, 5}
    Keep = 3
    MaxBootAttempts = 1
    RollbackGrace = 1
    MinVersion = 1
    HealthWindow = 1
    FreshFor = 1
    Faults = {}
    MaxMishaps = 0
INVARIANTS
    RollbackTargetKept
