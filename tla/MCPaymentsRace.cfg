SPECIFICATION PaySpec
CONSTANTS
    ana = ana
    zoe = zoe
    s1 = s1
    s2 = s2
    p1 = p1
    p2 = p2
    p3 = p3
    Users = {ana, zoe}
    Profiles = {ana}
    Amounts = {1}
    NoRef = NoRef
    NoCall = NoCall
    NoEntry = NoEntry
    MaxInt = 10
    EventUser <- MCEventUser
    EventAmount <- MCEventAmount
    NoUser = NoUser
    Requests = {r1, r2}
    Refs = {s1}
    StripeEvents = {s1}
    MaxDuplicates = 1
    MaxCrashes = 0
INVARIANT
    CreditedAtMostOnce
CHECK_DEADLOCK FALSE
