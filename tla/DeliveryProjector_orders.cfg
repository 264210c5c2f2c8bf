SPECIFICATION Spec
CONSTANTS
    EventId <- Ids
    Attempt = {primary, fallback}
    Ref = {r1, r2}
    Event <- EveryStatusAndCampaign
    None = None
    primary = primary
    fallback = fallback
    r1 = r1
    r2 = r2
    MaxSeen = 3
CONSTRAINT FewSeen
INVARIANTS ProjectionIsLastApplied KeptOnce
PROPERTY NeverRegresses
