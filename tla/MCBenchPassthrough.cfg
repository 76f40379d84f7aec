SPECIFICATION Safety
CONSTANTS
    Presets <- MCPresets
    Sweeps <- MCSweeps
    ModeLists <- MCModeLists
    Registered <- MCRegistered
    MaxStarts = 2
    MaxRestarts = 1
    QueueCap = 2
INVARIANT
    NoneIsPassthrough
