CONSTANTS
    Content <- MCContent
    InitialFiles <- MCInitialFiles
    NoWriter = NoWriter
    c1 = c1
    c2 = c2
    Writers = {w1, w2, w3}
    Splitting = {}
    FlushMayFail = {FALSE, TRUE}
    MaxAttempts <- MCMaxAttempts
SPECIFICATION FairSpec
INVARIANTS TypeOK ChainIntact TornOnlyAtTail
PROPERTIES HistoryKept ImplementsAtomicLog CallsReturn
CHECK_DEADLOCK FALSE
