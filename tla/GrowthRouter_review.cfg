SPECIFICATION Spec
CONSTANTS
    Records <- MCRecords
    Objective <- MCObjective
    MaxStray = 1
    None = None
INVARIANT ReviewUnblocks
CHECK_DEADLOCK FALSE
