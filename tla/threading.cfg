SPECIFICATION BothSpec
CONSTANTS
    Caller = {c1, c2}
    Owner = o
    Task = {t1, t2, t3}
    Thread = {d1, d2, d3, d4, d5}
    Conn = {k1, k2}
    None = None
INVARIANTS NoLostWakeup Conserved NoLostNotify
PROPERTIES FirstInFirstOut StopEnds TasksRun
