CONSTANTS
    MaxProcs = 3
    MaxPolls = 2
SPECIFICATION Spec
INVARIANTS StopServerHonoured
CHECK_DEADLOCK FALSE
