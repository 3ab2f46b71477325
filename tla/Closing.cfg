\* Services that close sessions as leader and as follower, over terms and a restart.
SPECIFICATION SessionSpec

CONSTANTS
    Sessions = {1, 2}
    MaxLog = 4
    Traffic = {"SessionOpenEvent", "SessionMessage", "SessionCloseEvent", "Snapshot"}
    MaxUncommitted = 1
    MaxTerm = 2
    AwaitDrain = FALSE
    PauseAtSnapshot = TRUE
    RecordingMayStop = FALSE
    FragmentLimit = 1
    IsResponding = TRUE
    Indeterminate = {FALSE}
    JoinAckMayBeLost = FALSE
    MaxRestarts = 1
    ClosingInMemory = {TRUE, FALSE}

INVARIANTS
    SessionTypeOK
    ClosingIsAsked

CHECK_DEADLOCK FALSE
