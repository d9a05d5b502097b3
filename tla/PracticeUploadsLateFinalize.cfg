SPECIFICATION SafeSpec
CONSTANTS
    r1 = r1
    k1 = k1
    k2 = k2
    Calls = {c1, c2}
    Recordings = {r1}
    UploadIds = {u1, u2}
    Requests <- MCOneTake
    Contents = {"declared"}
    AudioCap = 1
    MaxBytes = 1
    AudioTTL = 1
    UploadTTL = 1
    MaxTime = 1
    MaxCrashes = 0
    MaxApiCrashes = 0
    NoUpload = NoUpload
    NoRecording = NoRecording
    NoRequest = NoRequest
PROPERTIES DeletedStaysDeleted
