\* A consensus module that neither pauses at a snapshot nor waits for the service.
\* The bounds end a behaviour in which an exception uses up the last restart.
SPECIFICATION Spec

CONSTANTS
    Sessions = {1, 2}
    MaxLog = 4
    Traffic = {"SessionOpenEvent", "SessionCloseEvent", "SessionMessage", "Snapshot",
               "MembershipChangeEvent"}
    MaxUncommitted = 2
    MaxTerm = 2
    AwaitDrain = FALSE
    PauseAtSnapshot = FALSE
    RecordingMayStop = FALSE
    FragmentLimit = 2
    IsResponding = TRUE
    Indeterminate = {TRUE, FALSE}
    JoinAckMayBeLost = TRUE
    MaxRestarts = 1

INVARIANTS
    ServiceMatchesLog
    SessionsMatchLog
    LeaderConnectsSessions
    ConsumesCommitted
    SnapshotIsConsistentCut

CHECK_DEADLOCK FALSE
