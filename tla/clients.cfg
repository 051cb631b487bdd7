SPECIFICATION Spec
CONSTANTS
    MaxIn = 3
    MAXLINE = 2
    MaxBytes = 3
    Files = {1, 2, 3}
    maxnconn = 2
    Peers = {1, 2}
    FD_SETSIZE = 3
    OPEN_MAX = 3
    MaxLines = 2
    SkReadLen = 3
    SkWriteLen = 3
    SkMaxIov = 2
    SkNbuf = 2
    SkCap = 2
    SkTyped <- MCTyped
    ModeWrites = 2
    ModeWrite = 4
    ModeRead = 2
INVARIANTS
    StrCliSound
    WebSound
    
    SkSound
PROPERTIES
    ClientsLive
\* The clients end, and the servers have no more clients.
CHECK_DEADLOCK FALSE
