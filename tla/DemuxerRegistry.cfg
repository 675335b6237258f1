\* Three flows, an input that restarts and a demuxer that may panic.
SPECIFICATION Spec
CONSTANTS
    Consumers = {c1, c2, c3}
    MaxSlots = 2
    MaxGenerations = 2
    Fragile = {1}
INVARIANTS
    TypeOK
    OneLiveDemuxer
    NoOrphanDemuxer
PROPERTIES
    AbandonedTaskEnds
CHECK_DEADLOCK FALSE
