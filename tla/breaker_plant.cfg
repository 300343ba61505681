CONSTANTS
    None = None
    UnitsPerAmp = 6
    Volts = 220
    BreakerLimit = 180
    ActiveCurrent = 3
    MinCharge = 4400
    RestartMargin = 500
    Window = 30
    TickLengths <- SlowTick
    Requests <- MCRequests
    GridReadings <- NoReadings
    EvReadings <- NoReadings
    Wired = {1, 2, 3}
    Loads <- MCLoads
    CorrectionPct = 6
SPECIFICATION PlantSpec
PROPERTIES SeenOverloadClears ChargingResumes
