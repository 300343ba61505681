CONSTANTS
    Phases = {l1, l2}
    Addresses = {gx, other}
    NoAddress = none
    MaxDisturbances = 4
SPECIFICATION Spec
INVARIANTS CurrentsAreNew ConnectedMeansRead
PROPERTY ReadingsReturn
