CONSTANTS
    Listed = {"TEL", "AC", "ACPB"}
    Unlisted = {"XXX"}
    Company <- MCCompany
SPECIFICATION Spec
INVARIANTS StalenessCaught
CHECK_DEADLOCK FALSE
