SPECIFICATION Spec
CONSTANTS
    File <- OnlySound
    QueueSize = 2
    Capacity = 3
    MaxPackets = 2
    MaxGen = 2
INVARIANTS HeardIsWhereItSays
CHECK_DEADLOCK FALSE
