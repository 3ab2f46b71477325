\* The archive may abandon the recording of a snapshot.
SPECIFICATION Spec

CONSTANTS
    Sessions = {1}
    MaxLog = 4
    Traffic = {"SessionOpenEvent", "SessionCloseEvent", "SessionMessage", "Snapshot"}
    MaxUncommitted = 2
    MaxTerm = 2
    AwaitDrain = TRUE
    PauseAtSnapshot = TRUE
    RecordingMayStop = TRUE
    FragmentLimit = 2
    IsResponding = TRUE
    Indeterminate = {FALSE}
    JoinAckMayBeLost = FALSE
    MaxRestarts = 0

INVARIANTS
    RecoverySnapshotIsDurable

CHECK_DEADLOCK FALSE
