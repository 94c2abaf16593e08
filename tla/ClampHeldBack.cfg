SPECIFICATION Spec
CONSTANTS
    PowerMin = 1
    PowerMax = 2
    Bounds <- NoEvidence
    Reconcile = 1
    Persist = 2
    Fails = 2
    Grace = 1
    Retry = 1
    BootHold = 1
    Losses = TRUE
    MaxEvents = 2
PROPERTIES
    ClampPasses
CHECK_DEADLOCK FALSE
