SPECIFICATION Spec
CONSTANTS
    FIFO_ASIZE = 1
    ADDR_LO <- MCLo
    ADDR_HI <- MCHi
    Requests <- MCRequests
    ReadOnly = {1}
    Delay <- MCDelay
    Stalling = {0}
    ErrOnly = {0}
    StrayCycles = 1
    None = None
CHECK_DEADLOCK FALSE
INVARIANTS
    NothingOverflows
    AnswersAreOwed
    OldestFirst
    AnswersComeInTime
