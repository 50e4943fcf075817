CONSTANTS
    Configs <- MCConfigs
    Kind <- MCKind
    Deadline = 5
    MaxNow = 7
SPECIFICATION Spec
INVARIANTS
    ClockIsExact
    FlagIsEarned
PROPERTIES
    KeepsToSchedule
    RunReturns
CHECK_DEADLOCK FALSE
