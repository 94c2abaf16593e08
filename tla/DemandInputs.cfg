SPECIFICATION Spec
CONSTANTS
    Temps = {1, 2, 3}
    Threshold = 1
    Hysteresis = 2
    Forecasts <- MCForecasts
    CacheFor = 1
    StaleMax = 2
    FreezeAhead = 2
    Interval = 2
    Window = 4
    MinPoints = 3
    MinTrailing = 2
    Thermostats = {hall, bath}
INVARIANTS
    FreezeHolds
    ClearIsRecent
    MeanSpansHours
    IdleIsSaid
