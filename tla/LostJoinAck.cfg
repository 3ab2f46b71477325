\* The ack of a join may be back-pressured.
SPECIFICATION FairSpec

CONSTANTS
    Sessions = {}
    MaxLog = 2
    Traffic = {"SessionMessage"}
    MaxUncommitted = 2
    MaxTerm = 2
    AwaitDrain = TRUE
    PauseAtSnapshot = TRUE
    RecordingMayStop = FALSE
    FragmentLimit = 2
    IsResponding = TRUE
    Indeterminate = {FALSE}
    JoinAckMayBeLost = TRUE
    MaxRestarts = 0

PROPERTIES
    JoinIsAnswered

CHECK_DEADLOCK FALSE
