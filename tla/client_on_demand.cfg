SPECIFICATION Spec
CONSTANTS
    Demands <- OneDemand
    Blocks <- AllBlocks
    Modes <- AllModes
    MaxDisturbances = 2
INVARIANT OnDemandLeavesNoSession
