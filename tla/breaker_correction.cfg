CONSTANTS
    None = None
    UnitsPerAmp = 6
    Volts = 220
    BreakerLimit = 180
    ActiveCurrent = 3
    MinCharge = 4400
    RestartMargin = 500
    Window = 30
    TickLengths <- DefaultTick
    Requests <- FullRequest
    GridReadings <- NoReadings
    EvReadings <- NoReadings
    Wired = {1, 2, 3}
    Loads <- SteadyLoads
    CorrectionPct = 6
SPECIFICATION SteadySpec
INVARIANT OverestimateIsConservative
