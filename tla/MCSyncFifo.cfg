SPECIFICATION Spec
CONSTANTS
    Data = {0, 1, 2}
    Zero = 0
    Depth = 4
INVARIANTS
    IInv
PROPERTY
    ImplementsQueue
