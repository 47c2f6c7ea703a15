SPECIFICATION FairSpec
CONSTANTS
    Timer = {t1, t2}
    Repeating = {t2}
    Delay = {0, 3}
    Interval = 2
    MaxTime = 3
    Micro = 2
    Pause = 2
    None = None
CHECK_DEADLOCK FALSE
INVARIANTS MisuseExplained Armed
PROPERTIES CancelledNeverRuns TimersFire
