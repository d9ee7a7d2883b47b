SPECIFICATION Spec
CONSTANTS
    Messages = {m1, m2}
    Full = {}
    Workers = {w1, w2}
    Nothing = Nothing
    MaxParts = 2
    MaxConn = 1
SYMMETRY Interchangeable
INVARIANTS
    EchoesReceived
CHECK_DEADLOCK FALSE
