CONSTANTS
    Setpoints <- MCSetpoints
    MinSetpoint = 1
    StoppingDelay = 10
    StoppedDelay = 5
    ConfirmTicks = 2
    TickLengths <- DefaultTick
    SeenStatuses <- MCStatuses
    Plants <- Sunny
    LinkOutcomes <- Always
    CapVerdicts <- Sometimes
    PromptCharger = FALSE
    AutoStart = TRUE
    Boot = "IDLE_NO_CONNECTOR"
    VehicleMoves = TRUE
SPECIFICATION LoopSpec
PROPERTIES StandbyStopsSeenCharge SuppressionEnds
