\* Two valve modules wired to the valves.
SPECIFICATION Spec
CONSTANTS
    m5 = m5  modbus = modbus  valve5 = valve5  valve6 = valve6
    plus = plus  minus = minus  bleed = bleed  c1 = c1  c2 = c2  c3 = c3
    Controllers = {m5, modbus}
    M5 = m5
    Rank <- MCRank
    Valves = {valve5, valve6}
    PumpLevels = {0, 1}
    Undervoltage = FALSE
    Clients = {c1, c2}
    Keys = {plus}
    ProfileValves <- MCProfileValves
    ProfilePump <- MCProfilePump
    None = None
    SkipIdle = TRUE
    KeyValves = {}
    Volatile = {}
    MayDamage = FALSE
INVARIANTS
    SafeMeansDeenergised
