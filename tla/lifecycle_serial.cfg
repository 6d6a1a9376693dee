SPECIFICATION Spec
CONSTANTS
    pa = pa
    ch = ch
    sib = sib
    top = top
    Names <- Three
    TopName = top
    ParentName <- ThreeParent
    Strategy <- ThreeStrategy
    Inst = {1, 2, 3, 4, 5, 6, 7}
    Root = 0
    None = None
    MaxCalls = 2
    FailingHooks = {}
    Overwrite = FALSE
    Serial = TRUE
INVARIANTS TypeOK NoOrphans RegisteredIsListed LiveChildIsRegistered
PROPERTY TreeSpec
CHECK_DEADLOCK FALSE
