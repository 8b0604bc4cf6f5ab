\* The same with two texts of errors: a late abort may replace an earlier one.
SPECIFICATION Spec
CONSTANTS
    u1 = u1  u2 = u2  p1 = p1  e1 = e1  e2 = e2
    Users = {u1, u2}
    Probers = {p1}
    Errors = {e1, e2}
    Quiet = Quiet  Bad = Bad  Unread = Unread  Nobody = Nobody  None = None
    StopAtLimit = FALSE
    Deenergize = TRUE
    MaxCalls = 2
    MaxLost = 1
INVARIANTS
    TypeOK
    SafeStopIsSafe
    AbortIsReported
