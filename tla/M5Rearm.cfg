\* A renewal that only timed out takes the lease again with an output on.
SPECIFICATION Spec
CONSTANTS
    k1 = k1  l1 = l1  l2 = l2  life = life
    Clients = {k1}
    Loops = {l1}
    Life = life
    Threads = 2
    Attempts = 1
    MaxLost = 1
    MaxBuilt = 2
    None = None
INVARIANTS
    RearmedWhenOff
