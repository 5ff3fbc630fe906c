SPECIFICATION Spec
CONSTANTS
    RESP_RETRY_MAX = 3
    MaxReq = 3
    MaxLink = 3
    MaxRefs = 3
INVARIANTS
    TypeOK
    SentToAsker
    SentOnceInOrder
    PendingIsScheduled
    PointersAreHeld
PROPERTIES
    AnswerIsSettled
    AnswerArrives
    AdvertisesAgain
CHECK_DEADLOCK FALSE
