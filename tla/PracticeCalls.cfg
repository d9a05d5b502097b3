SPECIFICATION Spec
CONSTANTS
    None = None
    Phrased = {"b"}
    AttemptsCap = 3
    ObservationsCap = 4
    MinSpeech = 2
    MinSilence = 2
    PauseFrames = 3
    LongFrames = 5
    NarrowGaps <- MCNarrowGaps
    Conversations <- MCConversations
    Ratings = {"again", "good", "easy"}
    BriefFamilies <- MCBriefFamilies
    Recordings <- MCRecordings
INVARIANTS
    ReviewsRestOnIndependentWork
    FailureCannotBeOmitted
    ExpansionRefersInside
    PlanCanBeRecorded
    MoreOverdueFirst
    SharesAreFair
    PausesAreSilences
