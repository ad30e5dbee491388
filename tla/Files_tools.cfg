SPECIFICATION ToolsSpec
CONSTANTS
    MaxEdits = 3
    Roots = 2
    File = {a, b}
    MaxDate = 2
    Items <- PhotoSidecarTwin
    NameOf <- TheirNames
    Sidecars <- TheirSidecars
    MaxFileDate = 2
    MaxRuns = 2
INVARIANTS TypesOK   EmbeddedMetadataKept SyncSettles MovedIsKept
PROPERTIES OriginalIsKept LabelsHoldWhenListed ImportedOnce OverwritesNewerOnce
CHECK_DEADLOCK FALSE
