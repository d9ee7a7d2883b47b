SPECIFICATION Spec
CONSTANTS
    Clients = {c1, c2}
    Workers = {w1, w2}
    Free = Free
    NoClient = NoClient
    MaxMessages = 2
SYMMETRY Interchangeable
INVARIANTS
    BroadcastInv
    FreedAfterLastSend
    IterationSafe
    LeavesOnce
    SameOrder
CHECK_DEADLOCK FALSE
