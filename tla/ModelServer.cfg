CONSTANTS
    MaxProcs = 3
    MaxPolls = 2
SPECIFICATION Spec
INVARIANTS TypeOK ForeignSpared NoneForgotten ProcUnshared StopLeavesNone
PROPERTIES EnsureEnds
CHECK_DEADLOCK FALSE
