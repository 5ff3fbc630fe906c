SPECIFICATION Spec
CONSTANTS
    RESP_RETRY_MAX = 3
    MaxReq = 2
    MaxLink = 2
    MaxRefs = 2
PROPERTIES
    WaitsForSubscription
CHECK_DEADLOCK FALSE
