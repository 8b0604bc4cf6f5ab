\* One renewal task and a command, each with two attempts to reacquire; the
\* release may be lost twice over, or never be sent.
SPECIFICATION FairSpec
CONSTANTS
    k1 = k1  l1 = l1  l2 = l2  life = life
    Clients = {k1}
    Loops = {l1}
    Life = life
    Threads = 2
    Attempts = 2
    MaxLost = 2
    MaxBuilt = 1
    None = None
INVARIANTS
    TypeOK
    OneRequestAtATime
    SuccessWasApplied
PROPERTIES
    CommandsReturn
    DisconnectGoesOff
    LostRenewalGoesOff
