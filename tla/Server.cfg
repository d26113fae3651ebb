SPECIFICATION FairSpec
CONSTANTS
    Conn = {c1, c2, c3}
    Word = 4
CHECK_DEADLOCK FALSE
INVARIANTS
    TypeOK
    WaitGroupCounts
    NothingOpenAfterServe
    OpenIsOwned
    OneMoreAfterCancel
PROPERTIES
    ShutdownCompletes
