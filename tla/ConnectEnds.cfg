\* Challenges and redirects, nothing unasked, no failures: does a connect complete or fail?
SPECIFICATION FairSpec

CONSTANTS
    Members = {1, 2}
    Interference = {"challenge", "redirect"}
    MaxTerm = 2
    MaxTraffic = 0
    MaxChallenges = 1
    ReadsBareRequest = TRUE
    SharedFoundAsExclusive = TRUE
    ClockAtStart = 0
    CorrelationInMemory = {0}
    FragmentLimit = 2

PROPERTIES
    PollsUntilCompleteOrError

CHECK_DEADLOCK FALSE
