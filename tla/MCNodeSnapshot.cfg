SPECIFICATION SSpec
CONSTANTS
    None = None
    Capture = 5
    Short = 1
    Recent = 2
    Day = 3
    Chunk = 1
    Releases = {1, 4}
    MaxRecords = 3
    MaxTroubles = 2
    Plans <- AllPlans
    Fragile = {"router", "hysteria", "exit-dns", "disk"}
    MaxBreaks = 2
    MaxNow = 3
    Skews = {0, 2}
    MaxAge = 1
    FutureSkew = 1
CHECK_DEADLOCK FALSE
INVARIANTS TrafficIsSplit WindowsAreExact VerdictIsJust
