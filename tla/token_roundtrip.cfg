SPECIFICATION AdmitSpec
CONSTANTS
    Thread = {t1}
    Ip = {a}
    Limit = 2
    Window = 2
    Ttl = 1
    Name <- MCName
    Secret = {s1}
    MaxTime = 3
    MaxFaults = 0
    None = None
CONSTRAINT Focus
PROPERTIES TokensRoundTrip
