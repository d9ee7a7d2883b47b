SPECIFICATION Spec
CONSTANTS
    m1 = m1
    m2 = m2
    m3 = m3
    Messages <- MCMessages
    Size <- MCSize
    MAX_SOCK_SENDBUF = 3
    Workers = {w1, w2}
    Nothing = Nothing
    MaxConn = 2
    MaxPackets = 2
SYMMETRY Interchangeable
INVARIANTS
    ClosesTheDisconnected
CHECK_DEADLOCK FALSE
