SPECIFICATION Spec
CONSTANTS
    Temps = {0, 1, 2, 3}
    Cap = 4
    Targets = {2}
    PowerMin = 1
    PowerMax = 4
    Floors = {1, 2}
    Limit = 4
    Draw = 3
    Kp = 1
    Ki = 1
    Fine = 1
    Coarse = 1
    StepFine = 1
    StepMedium = 1
    Step = 1
    IntegralBand = 1
    Jump = 1
    Look = 2
    Increase = 1
    Decrease = 2
    BootHold = 2
    Spacing = 2
INVARIANTS
    NoRaiseIntoHeat
    CapWins
PROPERTIES
    HeldLoopKeepsIntegral
    LeavesLowRail
