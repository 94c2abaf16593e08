SPECIFICATION Spec
CONSTANTS
    PowerMin = 1
    PowerMax = 3
    Bounds <- SomeBounds
    Reconcile = 1
    Persist = 2
    Fails = 2
    Grace = 1
    Retry = 1
    BootHold = 1
    Losses = FALSE
    MaxEvents = 2
INVARIANTS
    OneWritePerEpoch
    NeverAboveBelief
PROPERTIES
    CommandsInBounds
CHECK_DEADLOCK FALSE
