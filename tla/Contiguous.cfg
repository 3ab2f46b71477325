\* The consensus module sends the next JoinLog before the service has consumed the log.
SPECIFICATION Spec

CONSTANTS
    Sessions = {1}
    MaxLog = 4
    Traffic = {"SessionOpenEvent", "SessionCloseEvent", "SessionMessage", "Snapshot"}
    MaxUncommitted = 2
    MaxTerm = 2
    AwaitDrain = FALSE
    PauseAtSnapshot = TRUE
    RecordingMayStop = FALSE
    FragmentLimit = 2
    IsResponding = TRUE
    Indeterminate = {FALSE}
    JoinAckMayBeLost = FALSE
    MaxRestarts = 0

INVARIANTS
    JoinedLogIsContiguous

CHECK_DEADLOCK FALSE
