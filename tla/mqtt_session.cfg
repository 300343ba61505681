CONSTANTS
    MaxEvents = 2
    MaxChanges = 2
    MaxFaults = 2
SPECIFICATION Spec
INVARIANTS EventsInOrder EventsAccounted ShownIsCurrent
PROPERTY QueueIsServed
