\* What must eventually happen, with fair scheduling and one restart.
SPECIFICATION FairSpec

CONSTANTS
    Sessions = {}
    MaxLog = 4
    Traffic = {"TimerEvent", "Snapshot"}
    MaxUncommitted = 1
    MaxTerm = 2
    AwaitDrain = TRUE
    PauseAtSnapshot = TRUE
    RecordingMayStop = FALSE
    FragmentLimit = 2
    IsResponding = TRUE
    Indeterminate = {FALSE}
    JoinAckMayBeLost = FALSE
    MaxRestarts = 1

PROPERTIES
    EveryWaitEnds
    EveryEntryIsConsumed
