CONSTANTS
    Content <- MCContent
    InitialFiles <- MCInitialFiles
    NoWriter = NoWriter
    c1 = c1
    c2 = c2
    Writers = {w1}
    Splitting = {c2}
    FlushMayFail = {FALSE}
    MaxAttempts <- MCMaxAttempts
SPECIFICATION Spec
INVARIANTS AcceptedIsReadable
CHECK_DEADLOCK FALSE
