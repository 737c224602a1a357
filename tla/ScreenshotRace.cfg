CONSTANTS
    Nodes = {"ph1", "ph45"}
    DefaultNode = "ph45"
    MaxLogins = 2
    MaxPolls = 2
SPECIFICATION Spec
PROPERTIES NeverCapturesLogin
CHECK_DEADLOCK FALSE
