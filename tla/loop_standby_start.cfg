CONSTANTS
    Setpoints <- MCSetpoints
    MinSetpoint = 1
    StoppingDelay = 10
    StoppedDelay = 5
    ConfirmTicks = 2
    TickLengths <- DefaultTick
    SeenStatuses <- MCStatuses
    Plants <- Sunny
    LinkOutcomes <- Always
    CapVerdicts <- Never
    PromptCharger = FALSE
    AutoStart = FALSE
    Boot = "IDLE_CONNECTOR_PLUGGED"
    VehicleMoves = FALSE
SPECIFICATION LoopSpec
PROPERTY StandbyStopsCharging
