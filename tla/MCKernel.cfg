CONSTANTS
    N = 2
    Users = {u1, u2}
    Digests = {d1, d2}
    MaxGeneration = 2
    NoReload = {}
    RestartRequired = {}
    Closable = {2}
SPECIFICATION FairSpec
INVARIANTS
    KernelInv
    NoUseAfterFinalization
    ReloadsAreWhole
PROPERTIES
    ImplementsUseGate
    WaitersProceed
