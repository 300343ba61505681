CONSTANTS
    None = None
    MinCharge = 4400
    MaxCharge = 8400
    RampStep = 2000
    Deadband = 200
    Cooldown = 300
    ManualPower = 3680
    NightPower = 5000
    MaxDischarge = 6000
    FlatPower = 100
    FloorPct = 20
    GatePct = 75
    FullPct = 96
    FullExitPct = 90
    TickLengths <- MCTickLengths
    Situations <- MCSituations
    Readings <- MCReadings
    MinSoc = 178
    MaxSoc = 180
    StaleAfter = 300
    Levels <- MCLevels
SPECIFICATION WatchedSpec
PROPERTY OneStepPerIteration
