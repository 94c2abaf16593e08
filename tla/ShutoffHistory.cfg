SPECIFICATION HistorySpec
CONSTANTS
    Modes = {"off", "observe", "active"}
    Warmths = {60}
    Heats = {118, 124}
    Inputs <- MCInputs
    OutdoorMin = 58
    Hysteresis = 4
    FreezeUnknownWarm = 55
    SoftCap = 122
    SupplyRelease = 5
    Lockout = 140
    LatchMargin = 5
    Target = 115
    SupplyStop = TRUE
    Watched = {"called", "started", "forgotten", "grounds"}
    IdleDwell = 2
    SupplyDwell = 1
    MinOff = 1
    MinOn = 4
    UnknownGrace = 1
    ResumeVerify = 1
    ReleaseRetry = 1
    PowerOnRetry = 1
    StopRetry = 1
    ReassertMinAge = 1
    ReassertInterval = 1
    AdoptReclaim = 1
    ReassertMax = 2
    AdoptMiningPolls = 2
    ResumeDebouncePolls = 2
INVARIANTS
    OwnershipInv
    ReassertsSpaced
PROPERTIES
    PassiveModesOnlyRestore
    NoPowerOffWhenHeatWanted
    StopNeedsQuietDwell
    MinOnHonoured
    OwnershipKeptUntilHashing
    AdoptOnlyAfterReasserts
CHECK_DEADLOCK FALSE
