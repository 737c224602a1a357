CONSTANTS
    MaxSteps = 4
    MaxParseRetries = 3
SPECIFICATION Spec
INVARIANTS TypeOK ScreenshotsShown
PROPERTIES TurnEnds
CHECK_DEADLOCK FALSE
