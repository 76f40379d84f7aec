SPECIFICATION Safety
CONSTANTS
    N = 1
    Warmup = 1
    Iterations = 2
    RunModes = {"0"}
INVARIANT
    DeltaHasBothSnapshots
