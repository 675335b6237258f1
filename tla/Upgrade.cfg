\* One bad release among five, three directories kept besides the live one, every fault.
SPECIFICATION Spec
CONSTANTS
    MaxVersion = 5
    Bad = {2}
    Keep = 3
    MaxBootAttempts = 2
    RollbackGrace = 1
    MinVersion = 1
    HealthWindow = 1
    FreshFor = 1
    Faults = {"crash_in_swap", "save_fails", "torn_bump", "race", "double_stage", "late_auth"}
    MaxMishaps = 1
INVARIANTS
    BootTargetExists
    GuardedWithoutFaults
    RollbackTargetKept
PROPERTIES
    SequencesGrow
    CrashLoopEnds
    HealthyIsPromoted
