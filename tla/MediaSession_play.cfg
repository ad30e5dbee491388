SPECIFICATION FairSpec
CONSTANTS
    File <- Played
    QueueSize = 1
    Capacity = 2
    MaxPackets = 1
    MaxGen = 2
INVARIANTS TypeOK OldSoundIsFirst FramesAreWhereTheySay
PROPERTIES ShowsTheSeek ClockFollowsSeek SoundIsHeeded
CHECK_DEADLOCK FALSE
