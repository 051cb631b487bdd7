SPECIFICATION Spec
CONSTANTS
    c1 = c1
    c2 = c2
    c3 = c3
    c4 = c4
    Conn <- TwoConns
    MaxEvents = 2
    MaxFd = 4
    BufLen = 1
    OutCap = 1
    MaxBytes = 1
    AcceptArg = "base"
SYMMETRY Symmetric
INVARIANTS
    StatusMirrorsTree
CHECK_DEADLOCK FALSE
