SPECIFICATION FairSpec
CONSTANTS
    LineWords = 2
    DRequests <- MCDRequests
    IRequests <- MCIRequests
    None = None
INVARIANTS
    TypeOK
    OneReadPerPort
    BeatsAreConserved
    BuffersNeverUnderrun
    AnswerIsWhatWasAsked
    WriteMeetsItsData
PROPERTIES
    RequestsAreServed
    FetchServedWhenDataIsQuiet
