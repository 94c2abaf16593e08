SPECIFICATION Spec
CONSTANTS
    Callers = {step, switch}
    Firmwares = {"old", "new"}
    Reprobe = 1
SYMMETRY CallerSymmetry
INVARIANTS
    CarriedOnce
PROPERTIES
    NotPinned
    NoFalseStart
CHECK_DEADLOCK FALSE
