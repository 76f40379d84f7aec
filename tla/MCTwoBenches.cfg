SPECIFICATION Spec
CONSTANTS
    Procs <- MCProcs
    SingleSeedRows = 2
    BatchSize <- MCBatchSize
    Presets <- MCPresets
    PresetOf <- MCPresetOf
    Cells = 2
    Iterations = 1
    LeftBehind = {"intradc"}
INVARIANTS
    TypeOK
    StatementsReadRows
    RetrySetsUp
    EvenRotation
    UndisturbedCells
    SharedCleanExit
