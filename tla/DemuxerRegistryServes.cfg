\* Two flows share the demuxer of an input that never restarts.
SPECIFICATION Spec
CONSTANTS
    Consumers = {c1, c2}
    MaxSlots = 2
    MaxGenerations = 1
    Fragile = {}
INVARIANTS
    AcquiredDemuxerServes
CHECK_DEADLOCK FALSE
