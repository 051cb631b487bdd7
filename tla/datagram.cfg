SPECIFICATION Spec
CONSTANTS
    QSIZE = 2
    MaxDg = 5
    MaxLine = 3
    MaxReply = 2
    RTT_RXTMIN = 2
    RTT_RXTMAX = 4
    RTT_MAXNREXMT = 2
    FirstRto = 3
    SeqMod = 4
    MaxQuestions = 2
    SuLines = 2
    SfConn = 3
    TxLoop = 3
    TxSize = 2
    MtxThread = {1, 2, 3}
INVARIANTS
    SigioInv
    DgCliSound
    RttInv
    
    TxSound
    LockSound
PROPERTIES
    DatagramLive
\* The programs stop: at the end of their input, or when they have given up; the inventory
\* program has a deadlock.
CHECK_DEADLOCK FALSE
