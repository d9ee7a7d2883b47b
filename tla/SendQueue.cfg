SPECIFICATION FairSpec
CONSTANTS
    Messages = {m1, m2, m3}
    Workers = {w1, w2}
    MaxConn = 3
    Free = Free
    Sender = Sender
INVARIANTS
    OneSendAtATime
    NoUseAfterFree
    SendQueueInv
PROPERTIES
    InOrder
    StaysStalled
    EchoedOrStalled
CHECK_DEADLOCK FALSE
