SPECIFICATION Spec
CONSTANTS
    LioBytes = 3
    LioMaxline = 3
    LioBuf = 2
    LioFaults = 2
    ChatClient = {1, 2}
    ChatLines <- MCChatLines
    ChatMaxLen = 1
    UkPackets = 2
    BpDupCk = 2
    BpMax = 3
    BpArgs <- PingArgs
    GaCalls <- Calls
    GaMax = 2
    PgMax = 3
INVARIANTS
    LineSound
    ChatSound
    AlarmsSound
    GaSound
PROPERTIES
    StreamsLive
\* Programs end.
CHECK_DEADLOCK FALSE
