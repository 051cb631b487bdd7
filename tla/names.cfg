SPECIFICATION Spec
CONSTANTS
    AlMax = 3
    AlBytes = 2
    UpLines = 3
    UpBuffer = 2
    MdScripts <- Scripts
    MdBase = 2
    MdNow = {1, 7, 8, 15, 19}
    MdDone = 2
    ScLines = 2
    ScStrm = 2
INVARIANTS
    ConnectSound
    EchoSound
    MuduoSound
PROPERTIES
    NamesLive
\* Programs end.
CHECK_DEADLOCK FALSE
