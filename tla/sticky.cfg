SPECIFICATION TrafficSpec
CONSTANTS
    c1 = c1
    c2 = c2
    Conn = {c1, c2}
    Base = 2
    Msg <- Msgs
    MaxMsgs = 3
INVARIANTS
    FramesSound
PROPERTIES
    ImplementsChannel
    StickyLive
CHECK_DEADLOCK FALSE
