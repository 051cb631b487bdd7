SPECIFICATION Spec
CONSTANTS
    ch1 = ch1
    ch2 = ch2
    Chan = {ch1, ch2}
    Msg <- SomeMsgs
    Blank <- NoBytes
    MaxSeq = 4
    Batches <- TwoBatches
    MaxU32 = 7
INVARIANTS
    RefereeSound
    LabPaired
    PollSound
PROPERTIES
    VerdictIsFinal
    LabLive
\* The lab comes to its end.
CHECK_DEADLOCK FALSE
