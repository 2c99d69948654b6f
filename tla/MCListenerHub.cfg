CONSTANTS
    N = 2
    Addresses = {a1, a2}
    Connections = {c1, c2}
    Capacity = 1
    Spans = {s1, s2, s3}
    QueueSize = 1
    BatchSize = 2
    Plans = {p1, p2}
    Ids = {a, b, c}
    Options <- MCOptions
    Policies = {"fixed"}
    MaxOutputs = 3
SPECIFICATION MCSpec
SYMMETRY Symmetry
CHECK_DEADLOCK FALSE
INVARIANTS
    RoutesAreFollowed
    SpansAreSettled
    WiringIsSound
PROPERTIES
    HandoffLosesNothing
