SPECIFICATION Spec
SYMMETRY Interchangeable
CONSTANTS
    None = None
    Concepts = {1, 2, 3}
    Clients = {c1, c2}
    Keys = {"a", "b"}
    IdempotencyKeys = {k1, k2}
    Drafts <- MCDrafts
    Curations <- MCCurations
    WeaknessEdits <- MCWeaknessEdits
    Unclassified = 1
    Seeded = {1, 2}
    Defaults <- MCDefaults
    Approved <- MCApproved
    Patches <- MCPatches
    Cutoff = 1
    DayLength = 2
    MaxNow = 3
    MaxSent = 2
    MaxVersion = 1
INVARIANTS
    RecordedWhole
    AnswersAgree
    ReviewsInOrder
    PlannedPolicyApplies
    SchedulesFollowStatus
    ConceptsSound
