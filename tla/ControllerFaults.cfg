SPECIFICATION RecordSpec
CONSTANTS
    Modes = {"active"}
    Inputs = {}
    OutdoorMin = 58
    Hysteresis = 4
    FreezeUnknownWarm = 55
    SoftCap = 122
    SupplyRelease = 5
    Lockout = 140
    LatchMargin = 5
    Target = 115
    SupplyStop = TRUE
    IdleDwell = 0
    SupplyDwell = 0
    MinOff = 0
    MinOn = 0
    UnknownGrace = 0
    ResumeVerify = 1
    ReleaseRetry = 1
    PowerOnRetry = 1
    StopRetry = 1
    ReassertMinAge = 0
    ReassertInterval = 1
    AdoptReclaim = 1
    ReassertMax = 1
    AdoptMiningPolls = 1
    ResumeDebouncePolls = 1
    Environment <- MCEnvironment
    Supplies = {100, 140}
    Outcomes = {"done", "landed", "lost"}
    Calls = {"off", "reset"}
    Relock = 0
    UserOffGrace = 1
    Linger = TRUE
    SlowPolls = FALSE
    SelfStarts = FALSE
    SaveFails = FALSE
INVARIANTS
    NoPowerOnUnderLatch
    UserOffStays
PROPERTIES
    LatchOutlivesRestarts
CHECK_DEADLOCK FALSE
