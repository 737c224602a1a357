CONSTANTS
    Nodes = {"ph1", "ph45"}
    DefaultNode = "ph45"
    MaxLogins = 2
    MaxPolls = 2
SPECIFICATION Spec
INVARIANTS TypeOK PingNotStraddled PinAgreesWithCache FreshLoginUsable
PROPERTIES MirrorServes LoginSettles KeepaliveStops
CHECK_DEADLOCK FALSE
