SPECIFICATION Spec
CONSTANTS
    t1 = t1
    t2 = t2
    r1 = r1
    f1 = f1
    f2 = f2
    Takes = {t1, t2}
    Rounds = {r1, f1, f2}
    Sizes = {1, 3}
    Reservation = 2
    Levels = {"small", "default", "large"}
    QuotaBytes <- MCQuotaBytes
    Default = "default"
    FreeRound <- MCFreeRound
    MaxCrashes = 1
    MaxFaults = 1
    MaxAsks = 1
    MaxWaiting = 2
    Unsaved = Unsaved
    NoTake = NoTake
INVARIANTS QuotaKept ReadyHasFile ReservationsAreLive SavedTakeIsReleased
PROPERTIES AdmissionsFit EvictionSparesUploads EvictionIsMinimal CapturesEnd
CHECK_DEADLOCK FALSE
