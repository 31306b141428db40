SPECIFICATION Spec
CONSTANTS
    ByteBits = 2
    Regs = 3
    OffsetSpan <- MCOffsetSpan
    PageBytes = 8
    Decode <- MCDecode
    StrayBytes = {0, 2}
    None = None
    CommandLines <- MCCommandLines
    Lines <- MCLines
    Files <- MCFiles
    DpiParams <- MCParams
    DpiAddrs = {0, 5, 255}
    DpiRegs = {1, 2, 3}
    DpiWrites <- MCBranchWrites
    DpiValues = {6, 133}
    Hosts = {"dpi"}
    MaxSteps = 1
    MaxCalls <- MCMaxCalls
CHECK_DEADLOCK FALSE
PROPERTY
    BranchesFollowTheIsa
