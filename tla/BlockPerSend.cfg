SPECIFICATION FairSpec
CONSTANTS
    Messages = {m1, m2, m3}
    Workers = {w1, w2}
    MaxConn = 2
INVARIANTS
    NoUseAfterFree
    BlockInv
PROPERTIES
    InOrder
    FreedOrLeaked
CHECK_DEADLOCK FALSE
