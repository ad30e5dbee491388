SPECIFICATION SyncSpec
CONSTANTS
    Roots = 1
    File = {a, b}
    MaxDate = 2
PROPERTIES LabelsHold
CHECK_DEADLOCK FALSE
