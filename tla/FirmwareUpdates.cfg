SPECIFICATION ServiceSpec
CONSTANTS
    Writers = {step}
    Updaters = {upload}
    Candidates = 2
    ClientFound = TRUE
INVARIANTS
    UploadHoldsLock
PROPERTIES
    CarriedAtMostOnce
    CallsEnd
CHECK_DEADLOCK FALSE
