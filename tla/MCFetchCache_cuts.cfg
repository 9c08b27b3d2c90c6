SPECIFICATION Spec
CONSTANTS
    Tasks <- MCTasks
    MaxRelease = 3
INVARIANTS
    TornByCachedOnly
    UpToDate
