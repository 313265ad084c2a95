SPECIFICATION LiveSpec
CONSTANTS
    Grant = {g1, g2}
    MaxAttempts = 2
    AirMax = 2
    None = None
    Wrap = 64
    Word = 32
    Grain = 4
    Delay = 9
    Antenna = 3
    MaxFlight = 3
INVARIANTS TypeOK RangeIsOfThisGrant AttemptsAreUsed ReportIsFlightTime
PROPERTY RadioIsFreed
CHECK_DEADLOCK FALSE
