\* As Startup, without fairness: what the getters of RecoveryState are given.
SPECIFICATION Spec

CONSTANTS
    NumSlots = 4
    MaxOthers = 1
    MaxRuns = 2

INVARIANTS
    ReadsActiveCounter
