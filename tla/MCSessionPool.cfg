SPECIFICATION FairSpec
CONSTANTS
    Slots = {s1}
    Workers = {w1, w2}
    NoSlot = NoSlot
    Handles = {h1}
    INVALID_SOCKET = INVALID_SOCKET
    RE_USE_SESSION_WAIT_TIMESEc = 1
    DrainSec = 1
    UINT32_MAX = 99
    LoadsTwice = FALSE
    MaxTime = 6
    MaxGen = 2
    MaxPackets = 2
INVARIANTS
    OverlappedExclusive
    ReceiveBufferExclusive
    ReusedWhenDrained
    ReuseWaits
    EchoToOrigin
    PoolInv
PROPERTIES
    LostForEver
    ClosedIsReposted
CHECK_DEADLOCK FALSE
