SPECIFICATION Spec
CONSTANTS
    Demands <- OneDemand
    Blocks <- KeptBlocks
    Modes <- AllModes
    MaxDisturbances = 2
INVARIANTS
    EvTypeOK
    TrustedReadsAreWhole
PROPERTIES
    SetpointReachesCharger
    CommunicationRecovers
