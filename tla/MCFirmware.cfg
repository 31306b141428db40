SPECIFICATION Spec
CONSTANTS
    Images <- MCImages
    Ident = 4
    Noise = 31
    SizeSpan = 32
    AddrSpan = 16
    Half = 8
    BLINK_PERIOD = 5
    NUM_BLINKS = 2
    Speed = 2
CHECK_DEADLOCK FALSE
INVARIANTS
    ImageIsCopied
    LevelIsHeld
    WaitsForTransfer
PROPERTY
    BootEnds
