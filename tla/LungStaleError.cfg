\* One caller: a start whose first status was lost, with the error of an
\* earlier run still in the sidecar.
SPECIFICATION Spec
CONSTANTS
    u1 = u1  u2 = u2  p1 = p1  e1 = e1  e2 = e2
    Users = {u1}
    Probers = {p1}
    Errors = {e1}
    Quiet = Quiet  Bad = Bad  Unread = Unread  Nobody = Nobody  None = None
    StopAtLimit = FALSE
    Deenergize = TRUE
    MaxCalls = 2
    MaxLost = 1
INVARIANT StaleErrorFailsNothing
