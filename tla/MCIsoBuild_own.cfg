SPECIFICATION Spec
CONSTANTS
    b1 = b1
    b2 = b2
    wd = wd
    wd2 = wd2
    iso = iso
    Unset = Unset
    Empty = Empty
    Missing = Missing
    Torn = Torn
    Jobs <- MCJobs
    WorkDirs <- MCWorkDirs
    Outs <- MCOuts
    Arches <- MCArches
    BuildReqs <- OwnReqs
INVARIANTS
    OnCourse
    WorkKept
    ScratchGone
PROPERTIES
    Built
