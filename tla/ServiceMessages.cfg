\* Messages sent by services, not by clients, are in the log.
SPECIFICATION Spec

CONSTANTS
    Sessions = {1}
    MaxLog = 4
    Traffic = {"SessionMessage"}
    MaxUncommitted = 2
    MaxTerm = 2
    AwaitDrain = TRUE
    PauseAtSnapshot = TRUE
    RecordingMayStop = FALSE
    FragmentLimit = 2
    IsResponding = TRUE
    Indeterminate = {FALSE}
    JoinAckMayBeLost = FALSE
    MaxRestarts = 0

INVARIANTS
    ServiceMessagesAreShown

CHECK_DEADLOCK FALSE
