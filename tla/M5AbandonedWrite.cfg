\* A write that was abandoned arrives after a confirmed all-off.
SPECIFICATION Spec
CONSTANTS
    k1 = k1  l1 = l1  l2 = l2  life = life
    Clients = {k1}
    Loops = {l1}
    Life = life
    Threads = 2
    Attempts = 1
    MaxLost = 0
    MaxBuilt = 1
    None = None
INVARIANTS
    ConfirmedOffIsFinal
