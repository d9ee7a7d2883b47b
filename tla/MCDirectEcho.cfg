SPECIFICATION Spec
CONSTANTS
    Messages = {m1, m2, m3, m4}
    Full = {m4}
    Workers = {w1, w2}
    Nothing = Nothing
    MaxParts = 2
    MaxConn = 2
SYMMETRY Interchangeable
INVARIANTS
    EchoInv
    ReceiveUntouched
    EchoInOrder
    WaitingClientGetsEchoes
CHECK_DEADLOCK FALSE
