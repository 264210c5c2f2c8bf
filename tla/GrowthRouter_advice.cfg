SPECIFICATION FairSpec
CONSTANTS
    Records <- MCRecords
    Objective <- MCObjective
    MaxStray = 1
    None = None
INVARIANTS TypeOK DoneIsInForce NoFinishedWork
PROPERTIES StaysSound AdviceEnds
CHECK_DEADLOCK FALSE
