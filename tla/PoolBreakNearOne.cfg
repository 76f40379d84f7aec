SPECIFICATION Spec
CONSTANTS
    Cap = 9
    Modes = {"1a", "1b", "2a", "2b", "4"}
    IterationCounts = {1, 6}
    WarmupCounts = {0, 2}
INVARIANT
    ModesStayNearOne
