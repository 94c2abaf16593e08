SPECIFICATION Spec
CONSTANTS
    Versions = {1, 2, 3, 4, 5}
    SaveFails = FALSE
    MaxCrashes = 2
INVARIANTS
    MigratedOnce
    StopsKeepOwner
PROPERTIES
    StopGetsController
CHECK_DEADLOCK FALSE
