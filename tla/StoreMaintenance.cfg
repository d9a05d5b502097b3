SPECIFICATION Spec
CONSTANTS
    None = None
    Servers = {server}
    Tools = {tool1, tool2}
    Targets <- MCTargets
    KnownWeaknesses <- MCTargets
    Plans <- MCPlans
    Workspaces = {"w"}
    SessionOf <- MCSessionOf
    Feedbacks <- MCFeedbacks
    Repairs <- MCRepairs
    Found <- MCFound
    Supported <- MCSupported
    MaxCrashes = 1
    MaxSessions = 2
    MaxCommands = 3
    MaxReverts = 1
    MaxRepairs = 1
INVARIANTS
    MigrationsInOrder
    AmendmentsChain
    HandoffAnswersTrue
CHECK_DEADLOCK FALSE
PROPERTIES
    StoreReachesLatest
