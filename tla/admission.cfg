SPECIFICATION AdmitSpec
CONSTANTS
    Thread = {t1, t2}
    Ip = {a, b}
    Limit = 2
    Window = 2
    Ttl = 1
    Name <- MCName
    Secret = {s1, s2}
    MaxTime = 3
    MaxFaults = 1
    None = None
SYMMETRY Alike
CONSTRAINT Focus
INVARIANTS WindowBound
PROPERTIES RefusedOnlyFull TokensExact
