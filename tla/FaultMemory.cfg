SPECIFICATION Spec
CONSTANTS
    PowerMin = 1
    PowerMax = 2
    CrashStep = 1
    ProvenMargin = 0
    DerateDelta = 0
    DeratePolls = 1
    StableRun = 2
    FaultTTL = 4
    ProvenRefresh = 1
    BootHold = 2
    DeratePostWrite = 1
    DerateMin = 1
    BootTime = 2
    MaxUptime = 5
    MaxSilence = 1
    MaxEvents = 3
    Losses = FALSE
INVARIANTS
    BoundsOrdered
    NoEarlyWitness
PROPERTIES
    CreditIsClean
    ProvenWasHeld
    CrashNotOurs
CHECK_DEADLOCK FALSE
