SPECIFICATION Spec
CONSTANTS
    Byte <- MCByte
    Blank = 0
    kCheapPrepend = 2
    InitialSize = 6
    ExtraBuf = 9
    Scripts <- MCScripts
    MaxKeepAlive = 2
    Short = 1
    Base = 2
CHECK_DEADLOCK FALSE
INVARIANTS BufferExact RequestsFramed FramesExact ClosingHolds
