SPECIFICATION Spec
CONSTANTS
    s1 = s1
    t1 = t1
    t2 = t2
    Blank = Blank
    Foreign = Foreign
    Torn = Torn
    Runs <- MCRuns
    Sizes <- MCSizes
    Targets <- MCTargets
INVARIANTS
    ReadyMeansWhole
