SPECIFICATION Spec
CONSTANTS
    Folder = {f1, f2}
    MaxReindex = 1
INVARIANTS EarlyCollectionSettled
CHECK_DEADLOCK FALSE
