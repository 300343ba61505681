SPECIFICATION Spec
CONSTANTS
    Poll = 2
    Debounce = 10
    MaxChanges = 4
    MaxEndings = 2
    WriteFaults = TRUE
INVARIANTS
    PersistTypeOK
    PickedUpInTime
    CleanMeansSaved
    OnlyRecentChangesAreLost
PROPERTY SavedUnlessFailed
\* The program may stop for good: it refuses a torn file.
CHECK_DEADLOCK FALSE
