CONSTANTS
    MaxEvents = 0
    MaxChanges = 2
    MaxFaults = 0
SPECIFICATION Spec
INVARIANT ChangeStaysConfirmed
