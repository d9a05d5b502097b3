SPECIFICATION Spec
CONSTANTS
    Workers = {w1}
    Calls = {c1, c2}
    Recordings = {r1}
    JobIds = {j1, j2}
    Requests <- MCRequests
    HasApiKey = TRUE
    MonthlyCap = 1
    MinReservation = 1
    LeaseLen = 0
    AudioTTL = 0
    JobTTL = 0
    Month <- MCMonth
    MaxTime = 1
    MaxCrashes = 1
    NoJob = NoJob
    NoRecording = NoRecording
    NoRequest = NoRequest
    NoCall = NoCall
    r1 = r1
    k1 = k1
    k2 = k2
INVARIANTS RepeatedCallsNeedACrash
PROPERTIES CancelledNeverPublished DeletionStopsPublication KeepsLifecycle
