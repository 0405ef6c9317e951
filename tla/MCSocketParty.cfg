CONSTANTS
    m1 = m1
    m2 = m2
    long = long
    none = none
    Protocols = {"TCP", "UDP"}
    Modes = {"OPEN", "CONNECT"}
    StopsFirst = TRUE
    Message = {m1, m2, long}
    Cut <- CutLong
    Empty = none
    MaxStart = 2
    MaxArrived = 2
SPECIFICATION FairSpec
INVARIANTS StopQuiesces ConnectionIsCurrent DeliveredInOrder
PROPERTIES StopReturns ServerForwards
CHECK_DEADLOCK FALSE
