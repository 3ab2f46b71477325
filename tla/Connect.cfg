\* Connecting to a cluster that may do all it may, and listening.
SPECIFICATION FairSpec

CONSTANTS
    Members = {1, 2}
    Interference = {"challenge", "redirect", "reject", "close", "disconnect", "refuse"}
    MaxTerm = 2
    MaxTraffic = 2
    MaxChallenges = 1
    ReadsBareRequest = TRUE
    SharedFoundAsExclusive = TRUE
    ClockAtStart = 0
    CorrelationInMemory = {0}
    FragmentLimit = 2

INVARIANTS
    TypeOK
    ConnectsToOwnSession
    AnsweredBeforeNextRequest
    HearsItsSession

PROPERTIES
    AnswerEndsWait
    ImplementsSessionStream

CHECK_DEADLOCK FALSE
