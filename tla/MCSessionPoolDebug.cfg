SPECIFICATION Spec
CONSTANTS
    Slots = {s1}
    Workers = {w1, w2}
    NoSlot = NoSlot
    Handles = {h1}
    INVALID_SOCKET = INVALID_SOCKET
    RE_USE_SESSION_WAIT_TIMESEc = 1
    DrainSec = 1
    UINT32_MAX = 99
    LoadsTwice = TRUE
    MaxTime = 6
    MaxGen = 2
    MaxPackets = 2
SYMMETRY Interchangeable
INVARIANTS
    ReuseWaits
CHECK_DEADLOCK FALSE
