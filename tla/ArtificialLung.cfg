\* Two callers, a health check and one text of errors; the coils are released after a stop.
SPECIFICATION FairSpec
CONSTANTS
    u1 = u1  u2 = u2  p1 = p1  e1 = e1  e2 = e2
    Users = {u1, u2}
    Probers = {p1}
    Errors = {e1}
    Quiet = Quiet  Bad = Bad  Unread = Unread  Nobody = Nobody  None = None
    StopAtLimit = FALSE
    Deenergize = TRUE
    MaxCalls = 2
    MaxLost = 1
INVARIANTS
    TypeOK
    SafeStopIsSafe
    AbortIsReported
PROPERTY CallsAreAnswered
