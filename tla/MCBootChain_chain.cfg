SPECIFICATION ChainSpec
CONSTANTS
    s1 = s1
    t1 = t1
    t2 = t2
    Blank = Blank
    Foreign = Foreign
    Torn = Torn
    Runs <- MCRuns
    Sizes <- MCSizes
    Targets <- MCTargets
    Own = 1
    Others <- MCOthers
    BootNums <- MCBootNums
    Tools = {TRUE, FALSE}
INVARIANTS
    TypeOK
    NoOverlap
    WriteOrder
    ReadyUnlessCut
    AnnouncedBoot
    NextBootStaged
PROPERTIES
    CacheSurvives
    DanglesOnlyHalfway
