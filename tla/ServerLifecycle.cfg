SPECIFICATION FairSpec
CONSTANTS
    Stages = {2, 3, 4, 5, 6, 7}
    Workers = {w1, w2}
    mProcessThread = mProcessThread
    mAccepterThread = mAccepterThread
    mSendThread = mSendThread
    Clients = {c1, c2}
    NoClient = NoClient
    MAX_CLIENT = 1
INVARIANTS
    NoThreadOutlivesServer
    CountedAreBound
    LifecycleInv
PROPERTIES
    QuitTerminates
    HandedOverUnlessQuit
CHECK_DEADLOCK FALSE
