SPECIFICATION Spec
CONSTANTS
    Cap = 9
    Modes = {"0", "1a", "1b", "2a", "2b", "3", "4"}
    IterationCounts = {1, 6}
    WarmupCounts = {0, 2}
INVARIANTS
    TypeOK
    ServerBounded
    DeltaCountsIterations
    SelectStaysCached
