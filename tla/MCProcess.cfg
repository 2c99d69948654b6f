CONSTANTS
    N = 3
    Users = {u1}
    Digests = {d1, d2}
    MaxGeneration = 2
    NoReload <- FixedComponent
    RestartRequired <- RestartComponent
    Closable <- ClosableComponents
    P = 2
    T = 2
    Forceable <- MCForceable
    Acknowledged <- MCAcknowledged
SPECIFICATION ProcessSpec
INVARIANTS
    DiagnosticsAreHonest
    StopsInReverse
    CleanMeansClean
PROPERTIES
    DebtBlocksReload
    ForceIsLastResort
    RunEnds
