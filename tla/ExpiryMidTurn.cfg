CONSTANTS
    MaxSteps = 3
    MaxParseRetries = 2
SPECIFICATION Spec
INVARIANTS ExpiryReauthenticated
CHECK_DEADLOCK FALSE
