CONSTANTS
    f1 = f1
    f2 = f2
    Flows = {f1, f2}
    Asks <- MCAsks
    Room = 1
    Registries <- MCRegistries
    Calls <- MCCalls
    Matches <- MCMatches
    Rank <- MCRank
    Requests = {q1, q2}
    Kinds <- MCKinds
    Development = FALSE
    MaxInFlight = 1
    Whole = 2
    Burst = 3
    Refill = 1
    Bearers = {b1, b2}
    Kids = {k1, k2}
    Borrowers = {c1, c2}
    Rows = {ra, rb}
    Total = 2
    Budget = 3
    Entries = {e1, e2, e3}
    Paths = {p1, p2}
    Stoppers = {s1, s2}
    Settings <- MCSettings
    Orders <- MCOrders
    Bits = 5
    Operations = {o1, o2}
    Checks = {h1, h2}
    Contents = {v1}
    Locals = {l1, l2, l3}
    Writers = {w1, w2}
    Process = process
SPECIFICATION Spec
CHECK_DEADLOCK FALSE
INVARIANTS
    CommandLineIsSound
    TokensAreVouched
    StorageIsSound
    LinesAreWritten
PROPERTIES
    RequestsAreSound
    TransactionsAreSound
