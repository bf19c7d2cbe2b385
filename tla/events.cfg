SPECIFICATION FairLogSpec
CONSTANTS
    Handlers = {h1}
    Reasons = {manual, rate}
    AnyReason = any
    Filters = {any, manual}
    Loads = {l1, l2}
    Queries <- SomeQueries
    LogCap = 2
    PageLimit = 1
    DefaultLimit = 2
    IntBits = 4
    MaxEvents = 3
INVARIANTS WalkMissesNothing ShownIsAsked AnswerIsThePage
PROPERTY BlocksAreLogged
CHECK_DEADLOCK FALSE
