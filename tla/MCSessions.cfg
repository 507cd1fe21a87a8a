SPECIFICATION Spec
CONSTANTS
    Users = {ana, rui}
    Passwords = {old, new}
    Calls = {c1, c2, c3, c4}
    NoPassword = NoPassword
    NoCall = NoCall
SYMMETRY CallSymmetry
INVARIANTS
    OneLiveToken
    LogoutEndsSession
    SessionsKnowThePassword
CHECK_DEADLOCK FALSE
