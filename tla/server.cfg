SPECIFICATION FairSpec
CONSTANTS
    Io = {l1}
    Main = m
    Conn = {c1, c2}
    MaxQueue = 1
    None = None
CHECK_DEADLOCK FALSE
INVARIANTS SocketSafe EndInSight RegistryClean
PROPERTIES ServerStops
