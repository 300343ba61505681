CONSTANTS
    Phases = {l1}
    Addresses = {gx}
    NoAddress = none
    MaxDisturbances = 2
SPECIFICATION Spec
INVARIANT EcoDecidesOnNewPower
