SPECIFICATION Spec
CONSTANTS
    pa = pa
    ch = ch
    sib = sib
    top = top
    Names <- Two
    TopName = top
    ParentName <- TwoParent
    Strategy <- TwoStrategy
    Inst = {1, 2, 3}
    Root = 0
    None = None
    MaxCalls = 2
    FailingHooks = {"beforeStart"}
    Overwrite = TRUE
    Serial = FALSE
INVARIANTS RegisteredIsLive ChildrenNested
CHECK_DEADLOCK FALSE
