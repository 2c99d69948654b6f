CONSTANTS
    MaxGenerations = 3
    Digests = {d1, d2}
    Addresses = {a1, a2}
    MaxGraphs = 3
    Failures = 1
    Variants <- MCVariants
    Files <- MCFiles
    Environments <- MCEnvironments
    Bindings <- MCBindings
    Callers = {c1, c2}
    Keys = {k1}
    Values = {v1, v2}
    Operators = {o1, o2}
    Services = {s1}
    Requests = {r1, r2}
    Users = {u1, u2}
    Tries = 2
    Sections <- MCSections
    Executions <- MCExecutions
SPECIFICATION Spec
SYMMETRY Symmetry
CHECK_DEADLOCK FALSE
INVARIANTS
    AssemblyIsSound
    GenerationIsSound
    LayersAgree
    MigrationIsSound
PROPERTIES
    ConfigurationIsFaithful
    CompletionIsSound
