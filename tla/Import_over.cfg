SPECIFICATION ImportSpec
CONSTANTS
    Items <- PhotoSidecarTwin
    NameOf <- TheirNames
    Sidecars <- TheirSidecars
    MaxFileDate = 2
    MaxRuns = 1
PROPERTIES OverwritesOnlyNewer
CHECK_DEADLOCK FALSE
