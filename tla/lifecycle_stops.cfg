SPECIFICATION FairSpec
CONSTANTS
    pa = pa
    ch = ch
    sib = sib
    top = top
    Names <- Two
    TopName = top
    ParentName <- TwoParent
    Strategy <- TwoStrategy
    Inst = {1, 2}
    Root = 0
    None = None
    MaxCalls = 2
    FailingHooks = {"beforeStart", "afterStart", "beforeShutdown"}
    Overwrite = TRUE
    Serial = FALSE
PROPERTIES ShutdownSettles SystemStops
CHECK_DEADLOCK FALSE
