\* A node that keeps to its contract: snapshots, terms, replay after a restart.
SPECIFICATION Spec

CONSTANTS
    Sessions = {1}
    MaxLog = 5
    Traffic = {"SessionOpenEvent", "SessionCloseEvent", "SessionMessage", "Snapshot"}
    MaxUncommitted = 2
    MaxTerm = 2
    AwaitDrain = TRUE
    PauseAtSnapshot = TRUE
    RecordingMayStop = FALSE
    FragmentLimit = 2
    IsResponding = TRUE
    Indeterminate = {FALSE}
    JoinAckMayBeLost = FALSE
    MaxRestarts = 1

INVARIANTS
    TypeOK
    ServiceMatchesLog
    RecoverySnapshotIsDurable
    AcksAreExpected
    OneAnswerOutstanding
    NoException

PROPERTIES
    ImplementsReplicatedService
    NeverGoesBack
    ImplementsAckBarrier
