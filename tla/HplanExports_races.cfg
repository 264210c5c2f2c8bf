SPECIFICATION Spec
CONSTANTS
    None = None
    Records <- MCRecords
    Directories <- MCDirectories
    Handoffs <- MCHandoffs
    Calls <- MCCalls
    MaxAppends = 2
INVARIANTS JustifiedAtOnce BriefComplete
CHECK_DEADLOCK FALSE
