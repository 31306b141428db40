SPECIFICATION Spec
CONSTANTS
    Char = {"a", "b", " ", "NUL"}
    Typed = {"a", " ", "NUL"}
    Space = " "
    NUL = "NUL"
    MaxLine = 4
    HistMax = 3
    PLen = 1
    Widths = {2}
    Inputs = {"tty", "pipe"}
    Files <- MCFiles
    CookedLines <- MCCooked
    MaxKeys = 5
    MaxRuns = 2
    None = None
CHECK_DEADLOCK FALSE
INVARIANTS
    EditorInBounds
    ScreenShowsTheLine
    HistoryComesBack
PROPERTIES
    EditsTheText
    ExitRestoresTheTerminal
    EndOfInputEnds
