SPECIFICATION Spec
CONSTANTS
    Transaction = {t1, t2, t3}
    Draft = {d1}
    Owner = {ann, ben}
    NewRow <- MCNewRow
    Call <- OneDraft
    UnknownIds = FALSE
    MaxTime = 1
    None = None
    d1 = d1
    ann = ann
    ben = ben

CHECK_DEADLOCK FALSE
INVARIANTS ReturnedIsTrue HighRiskIsOwned ApprovedInTime
PROPERTY ImplementsRegister
