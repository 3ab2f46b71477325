\* The consensus module may stop and start again at any time; other processes have
\* counters of their own.
SPECIFICATION FairSpec

CONSTANTS
    NumSlots = 3
    MaxOthers = 1
    MaxRuns = 2

INVARIANTS
    TypeOK
    RecoversFromOneState
    CommitPositionIsLive

PROPERTIES
    StartGetsThrough
