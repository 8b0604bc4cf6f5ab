\* Two readers; a sampler beside the one the cache knows could be seen.
SPECIFICATION FairSpec
CONSTANTS
    r1 = r1  r2 = r2  s1 = s1  s2 = s2
    Readers = {r1, r2}
    Samplers = {s1, s2}
    Interval = 2
    MaxStale = 3
    Cooldown = 3
    NoSampler = NoSampler
INVARIANTS
    ReadsNeverOverlap
    ExpiredFailsClosed
PROPERTY ValuesComeBack
