SPECIFICATION RecordSpec
CONSTANTS
    Modes = {"off", "active"}
    Inputs = {}
    OutdoorMin = 58
    Hysteresis = 4
    FreezeUnknownWarm = 55
    SoftCap = 122
    SupplyRelease = 5
    Lockout = 140
    LatchMargin = 5
    Target = 115
    SupplyStop = TRUE
    IdleDwell = 0
    SupplyDwell = 0
    MinOff = 0
    MinOn = 0
    UnknownGrace = 0
    ResumeVerify = 1
    ReleaseRetry = 1
    PowerOnRetry = 1
    StopRetry = 1
    ReassertMinAge = 0
    ReassertInterval = 1
    AdoptReclaim = 1
    ReassertMax = 1
    AdoptMiningPolls = 1
    ResumeDebouncePolls = 1
    Environment <- MildEnvironment
    Supplies = {100, 140}
    Outcomes = {"done", "landed", "lost"}
    Calls = {"on", "off"}
    Relock = 1
    UserOffGrace = 1
    Linger = FALSE
    SlowPolls = FALSE
    SelfStarts = TRUE
    SaveFails = FALSE
INVARIANTS
    NoOrphanedStop
PROPERTIES
    KeepsContract
CHECK_DEADLOCK FALSE
