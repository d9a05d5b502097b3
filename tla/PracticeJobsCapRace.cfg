SPECIFICATION SafeSpec
CONSTANTS
    Workers = {w1}
    Calls = {c1, c2}
    Recordings = {r1}
    JobIds = {j1, j2}
    Requests <- MCPaidRequests
    HasApiKey = TRUE
    MonthlyCap = 1
    MinReservation = 1
    LeaseLen = 0
    AudioTTL = 0
    JobTTL = 1
    Month <- MCMonth
    MaxTime = 2
    MaxCrashes = 0
    NoJob = NoJob
    NoRecording = NoRecording
    NoRequest = NoRequest
    NoCall = NoCall
    r1 = r1
    k1 = k1
    k2 = k2
INVARIANT MonthWithinCap
