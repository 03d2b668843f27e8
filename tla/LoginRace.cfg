SPECIFICATION FairSpec
CONSTANTS
    None = None
    NoState = NoState
    a = a
    m = m
    Logins = {a, m}
    Unattended = {a}
    Said <- CodesAndAnError
    MaxRequests = 2
CHECK_DEADLOCK FALSE
INVARIANT
    SuccessPageTrue
PROPERTY
    LoginEnds
