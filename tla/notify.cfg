SPECIFICATION FairSpec
CONSTANTS
    Configs <- SomeConfigs
    InCap = 2
    Tries = 2
    MaxDecisions = 4
PROPERTIES BatchesArriveInOrder DecisionsAreHanded
INVARIANTS HandedOnceInOrder ReturnLosesNothing
CHECK_DEADLOCK FALSE
