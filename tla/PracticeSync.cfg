SPECIFICATION Spec
CONSTANTS
    Tasks = {t1, t2}
    Recordings = {r1}
    Ops = {o1}
    MaxLost = 1
    MaxRestarts = 1
    MaxFailures = 2
    NoRecording = NoRecording
INVARIANTS CompletedHasFeedback RemovalIsOrdered
CHECK_DEADLOCK FALSE
