CONSTANTS
    Workers = {w1, w2}
    Recorders = {r1}
    Callers <- MCCallers
    Cancellable = {w1}
    Keys = {k1}
    BufferCapacity = 1
    Policies <- MCPolicies
    MaxFaults = 1
    QueueCapacity = 1
    MaxExecutions = 2
SPECIFICATION FairSpec
CHECK_DEADLOCK FALSE
INVARIANTS
    EffectsAreKept
PROPERTIES
    ExecutionSettles
