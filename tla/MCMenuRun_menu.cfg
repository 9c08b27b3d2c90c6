SPECIFICATION Spec
CONSTANTS
    w1 = w1
    w2 = w2
    Terminals <- MCTerminals
    Given <- MCTasks
INVARIANTS
    OwnPushesThere
    ResolvedAfterMulti
PROPERTIES
    IndexesWhole
    WaitsOnlyForRegistry
    TasksEnd
CHECK_DEADLOCK FALSE
