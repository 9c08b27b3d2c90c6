SPECIFICATION Spec
CONSTANTS
    Words <- Words66
    Refs <- MCRefs
    MaxGiven = 4
INVARIANTS
    PushesRequested
    SpecsMatchPushes
    SliceRoundTrip
CHECK_DEADLOCK FALSE
