SPECIFICATION NotificationSpec
CONSTANTS
    ana = ana
    single = single
    Users = {ana, zoe}
    Tokens = {t1, t2}
    Notes = {single}
    AudienceOf <- MCAudienceOf
    t1 = t1
    OwnerAtStart <- MCOwnerAtStart
    Movable = {t1}
    Requests = {r1, r2}
    None = None
    MaxFaults = 2
    Workers = {w1, w2}
    Nobody = Nobody
    Attempts = 3
    MaxStalled = 1
SYMMETRY Symmetric
INVARIANTS
    PushedOnceUnlessCut
    DoneIsSettled
CHECK_DEADLOCK FALSE
