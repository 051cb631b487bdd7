SPECIFICATION Spec
CONSTANTS
    t1 = t1
    t2 = t2
    MAXNCLI = 2
    Pool <- Threads
    MaxCli = 4
    nchildren = 2
    MsgLen = 2
    MaxConn = 3
    NWorkers = 2
    MaxEst = 2
    MaxC = 2
    NSlots = 1
INVARIANTS
    RingInv
    PassInv
    WorkersSound
PROPERTIES
    ServersLive
\* The servers stop: SIGINT, a full ring, a fatal error, or no client is left.
CHECK_DEADLOCK FALSE
