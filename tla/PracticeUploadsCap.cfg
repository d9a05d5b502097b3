SPECIFICATION SafeSpec
CONSTANTS
    r1 = r1
    k1 = k1
    k2 = k2
    Calls = {c1, c2}
    Recordings = {r1, r2, r3}
    UploadIds = {u1, u2, u3}
    Requests <- MCTakes
    Contents = {"declared", "other"}
    AudioCap = 1
    MaxBytes = 1
    AudioTTL = 0
    UploadTTL = 0
    MaxTime = 1
    MaxCrashes = 1
    MaxApiCrashes = 1
    NoUpload = NoUpload
    NoRecording = NoRecording
    NoRequest = NoRequest
INVARIANTS ReadyHasFile AudioNearCap
SYMMETRY MCAlike
CONSTRAINT MCApart
