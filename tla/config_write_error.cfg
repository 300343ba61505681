SPECIFICATION Spec
CONSTANTS
    Poll = 2
    Debounce = 10
    MaxChanges = 2
    MaxEndings = 0
    WriteFaults = TRUE
PROPERTY SettingsReachFile
