\* Two renewal tasks, a command and a client that is rebuilt.
SPECIFICATION Spec
CONSTANTS
    k1 = k1  l1 = l1  l2 = l2  life = life
    Clients = {k1}
    Loops = {l1, l2}
    Life = life
    Threads = 2
    Attempts = 1
    MaxLost = 1
    MaxBuilt = 2
    None = None
INVARIANTS
    TypeOK
    OneRequestAtATime
    SuccessWasApplied
