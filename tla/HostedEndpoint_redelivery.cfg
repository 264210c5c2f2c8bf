SPECIFICATION FairHostedSpec
CONSTANTS
    good = good
    bad = bad
    i1 = i1
    i2 = i2
    None = None
    Nothing = Nothing
    EventId = {i1, i2}
    IdOf <- MCIdOf
    Unverified = {bad}
    Message = {good, bad}
    Rejectable = {good}
    Request = {r1, r2, r3}
    Poller = {p1, p2}
    TTL = 1
    Longest = 1
    MaxTime = 3
INVARIANTS AckedIsStored DeadLettersWereRefused GreenIsRecent
PROPERTY PostedIsAcked
