SPECIFICATION Spec
CONSTANTS
    r1 = r1
    k1 = k1
    k2 = k2
    Calls = {c1, c2}
    Recordings = {r1}
    UploadIds = {u1, u2}
    Requests <- MCOneTake
    Contents = {"declared"}
    AudioCap = 1
    MaxBytes = 1
    AudioTTL = 0
    UploadTTL = 0
    MaxTime = 1
    MaxCrashes = 1
    MaxApiCrashes = 0
    NoUpload = NoUpload
    NoRecording = NoRecording
    NoRequest = NoRequest
INVARIANTS NoDanglingUpload
PROPERTIES OverdueExpires
