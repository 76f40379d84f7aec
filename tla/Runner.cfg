SPECIFICATION Spec
CONSTANTS
    N = 2
    Warmup = 1
    Iterations = 2
    RunModes = {"0", "1a", "1b", "2a", "2b", "3", "4"}
INVARIANTS
    TypeOK
    NoStaleTrace
    CleanSession
    SuccessLeavesClean
    RoundTrips
    Accounting
PROPERTIES
    LeakOnlyFromReset
    ImplementsPropagation
    LostRunReturns
