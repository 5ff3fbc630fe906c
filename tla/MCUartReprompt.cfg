SPECIFICATION Spec
CONSTANTS
    RESP_RETRY_MAX = 3
    MaxReq = 2
    MaxLink = 3
    MaxRefs = 3
PROPERTIES
    DisconnectCompletes
CHECK_DEADLOCK FALSE
