SPECIFICATION Safety
CONSTANTS
    N = 2
    Warmup = 1
    Iterations = 2
    RunModes = {"2a", "4"}
INVARIANT
    PipelinedModesTakeOneRoundTrip
