CONSTANTS
    None = None
    UnitsPerAmp = 6
    Volts = 220
    BreakerLimit = 180
    ActiveCurrent = 3
    MinCharge = 4400
    RestartMargin = 500
    Window = 30
    TickLengths <- MCTickLengths
    Requests <- MCRequests
    GridReadings <- MCGridReadings
    EvReadings <- MCEvReadings
SPECIFICATION CapSpec
INVARIANTS TrippedMeansStopped CapIsEnough
PROPERTY RestartNeedsMargin
