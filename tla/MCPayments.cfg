SPECIFICATION FairPaySpec
CONSTANTS
    ana = ana
    zoe = zoe
    s1 = s1
    s2 = s2
    p1 = p1
    p2 = p2
    p3 = p3
    Users = {ana, zoe}
    Profiles = {ana}
    Amounts = {1}
    NoRef = NoRef
    NoCall = NoCall
    NoEntry = NoEntry
    MaxInt = 10
    EventUser <- MCEventUser
    EventAmount <- MCEventAmount
    NoUser = NoUser
    Requests = {r1, r2, r3, r4}
    Refs = {s1, s2, p1, p2, p3}
    StripeEvents = {s1, s2}
    MaxDuplicates = 2
    MaxCrashes = 1
INVARIANTS
    CreditedOnceUnlessRacing
    AcknowledgedIsCredited
PROPERTY
    EventuallyCredited
CHECK_DEADLOCK FALSE
