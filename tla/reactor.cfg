SPECIFICATION CrowdSpec
CONSTANTS
    c1 = c1
    c2 = c2
    c3 = c3
    c4 = c4
    Conn <- FourConns
    MaxEvents = 2
    MaxFd = 4
    BufLen = 2
    OutCap = 1
    MaxBytes = 2
    AcceptArg = "slot"
INVARIANTS
    ReactorInv
PROPERTIES
    DescriptorsSound
    ReactorLive
CHECK_DEADLOCK FALSE
