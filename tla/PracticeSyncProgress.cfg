SPECIFICATION Spec
CONSTANTS
    Tasks = {t1, t2}
    Recordings = {r1}
    Ops = {o1}
    MaxLost = 1
    MaxRestarts = 1
    MaxFailures = 1
    NoRecording = NoRecording
CHECK_DEADLOCK FALSE
PROPERTIES EntriesEnd DeletionTold
