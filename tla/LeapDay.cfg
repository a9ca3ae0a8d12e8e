SPECIFICATION TimingSpec
CONSTANTS
    Engine <- MCEngine
    Random = {0, 50, 99}
    MaxFailures = 6
    Expr <- MCExpr
    From <- MCFrom
    MaxRuns = 3
    MinutesPerHour = 2
    HoursPerDay = 2
PROPERTIES
    ZeroIfNoneInFourYears
CHECK_DEADLOCK FALSE
