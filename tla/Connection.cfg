SPECIFICATION FairSpec
CONSTANTS
    MaxSessions = 2
    Failing <- MCFailing
    MayDie <- MCMayDie
    VideoDecoder = TRUE
    AudioDecoder = TRUE
    RfiEnabled = TRUE
INVARIANTS
    DependenciesAlive
    NothingLeftBehind
    NoSilentDeath
PROPERTIES
    LivesInOrder
    CallReturns
CHECK_DEADLOCK FALSE
