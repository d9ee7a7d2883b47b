SPECIFICATION Spec
CONSTANTS
    Slots = {s1, s2}
    Workers = {w1, w2}
    NoSlot = NoSlot
    Handles = {h1, h2}
    INVALID_SOCKET = INVALID_SOCKET
    RE_USE_SESSION_WAIT_TIMESEc = 0
    DrainSec = 0
    UINT32_MAX = 99
    LoadsTwice = FALSE
    MaxTime = 2
    MaxGen = 2
    MaxPackets = 1
SYMMETRY Interchangeable
INVARIANTS
    NoStaleClose
CHECK_DEADLOCK FALSE
