CONSTANTS
    Content <- MCContent
    Original <- MCOriginal
    Presented <- MCPresented
    Known <- MCKnown
    c1 = c1
    c2 = c2
    MaxPresented = 9
SPECIFICATION ReaderSpec
INVARIANTS AcceptedIsPrefix ReportedIsTampered CheckpointHonoured GrowthAccepted
CHECK_DEADLOCK FALSE
