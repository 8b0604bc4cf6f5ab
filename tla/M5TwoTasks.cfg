\* Two connects of one instance: the first renewal task outlives its place.
SPECIFICATION FairSpec
CONSTANTS
    k1 = k1  l1 = l1  l2 = l2  life = life
    Clients = {k1}
    Loops = {l1, l2}
    Life = life
    Threads = 2
    Attempts = 1
    MaxLost = 0
    MaxBuilt = 2
    None = None
PROPERTIES
    GivenUpGoesOff
