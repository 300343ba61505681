SPECIFICATION Spec
CONSTANTS
    Demands <- OneDemand
    Blocks <- AllBlocks
    Modes <- AllModes
    MaxDisturbances = 1
PROPERTY StopPresetIsWritten
