SPECIFICATION Spec
CONSTANTS
    Users = {ana, rui, zoe}
    Profiles = {ana, rui}
    Requests = {r1, r2, r3}
    Amounts = {1, 2}
    Refs = {}
    NoRef = NoRef
    NoCall = NoCall
    NoEntry = NoEntry
    MaxInt = 3
SYMMETRY RequestSymmetry
INVARIANTS
    OverdraftNeedsOverlap
PROPERTY
    ImplementsBook
CHECK_DEADLOCK FALSE
