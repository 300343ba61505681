CONSTANTS
    Setpoints <- MCSetpoints
    MinSetpoint = 1
    StoppingDelay = 10
    StoppedDelay = 5
    ConfirmTicks = 2
    TickLengths <- MCTickLengths
    SeenStatuses <- MCStatuses
    Plants <- MCPlants
    LinkOutcomes <- Sometimes
    CapVerdicts <- Sometimes
    PromptCharger = FALSE
    AutoStart = TRUE
    Boot = "IDLE_CONNECTOR_PLUGGED"
    VehicleMoves = TRUE
SPECIFICATION LoopSpec
INVARIANT SuppressionIsSafe
PROPERTIES StartsNeedVehicle ManualIsTakenForCause
