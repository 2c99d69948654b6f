CONSTANTS
    Replicas = {r1, r2}
    Declarations <- MCDeclarations
    i1 = i1
    i2 = i2
    i3 = i3
    i4 = i4
    Invocations = {i1, i2, i3, i4}
    TaskOf <- MCTaskOf
    Concurrency <- MCConcurrency
    MaxConcurrency = 2
    Blocks = 2
    Writes = 2
    Attempts = 3
    Times <- MCTimes
    MaxLease = 9
    MaxAcquire = 5
    Width = 32
SPECIFICATION Spec
CHECK_DEADLOCK FALSE
INVARIANTS
    LostMeansClosed
