SPECIFICATION FairSpec
CONSTANTS
    Folder = {f1, f2}
    MaxReindex = 1
INVARIANTS TypeOK CollectionSettled ScanSettled DormantOnlyIfLost
PROPERTIES DeferredStart ComesToRest
CHECK_DEADLOCK FALSE
