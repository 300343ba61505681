SPECIFICATION Spec
CONSTANTS
    Demands <- OneDemand
    Blocks <- AllBlocks
    Modes <- AllModes
    MaxDisturbances = 0
PROPERTY StartResendsSetpoint
