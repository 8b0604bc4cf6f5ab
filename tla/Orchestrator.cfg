\* Two executions, one after the other or together.
SPECIFICATION FairSpec
CONSTANTS
    e1 = e1  e2 = e2
    Executions = {e1, e2}
    Goals <- MCGoals
    MaxLive = 2
    ById = FALSE
    Raises = TRUE
    None = None
INVARIANTS
    TypeOK
    AtMostOneCommandAfterStop
    CurrentIndexIsLive
    AtMostOneCommandWhilePaused
PROPERTIES
    EndsUnlessPaused
