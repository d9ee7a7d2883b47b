SPECIFICATION Spec
CONSTANTS
    Clients = {c1, c2}
    Workers = {w1, w2}
    Free = Free
    NoClient = NoClient
    MaxMessages = 1
SYMMETRY Interchangeable
INVARIANTS
    FreedOnce
CHECK_DEADLOCK FALSE
