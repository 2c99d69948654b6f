CONSTANTS
    Generations = {1, 2}
    InFlight = 1
    MaxHandlers = 2
    m1 = m1
    m2 = m2
    Messages = {m1, m2}
    c1 = c1
    c2 = c2
    Copies = {c1, c2}
    Setups <- MCSetups
SPECIFICATION Spec
CHECK_DEADLOCK FALSE
INVARIANTS
    OneGenerationAdmits
PROPERTIES
    HandOversSettle
    SessionIsSound
    AnswersAreOwn
    DeliveryIsSound
