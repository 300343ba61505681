CONSTANTS
    Setpoints <- MCSetpoints
    MinSetpoint = 1
    StoppingDelay = 10
    StoppedDelay = 5
    ConfirmTicks = 2
    TickLengths <- MCTickLengths
    SeenStatuses <- MCStatuses
    Plants <- MCPlants
SPECIFICATION ObservedSpec
INVARIANTS TypeOK TimersMatchState OutputMatchesSession ConfirmationIsFresh StoppedAfterZero
PROPERTIES EventContract StopCompletes PowerWithdrawnForCause
