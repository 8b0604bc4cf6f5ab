\* A motor and the valves, which may be on two controllers at a time.
SPECIFICATION Spec
CONSTANTS
    k = k  a = a  b = b
    Callers = {k}
    Editors = {a, b}
    Allowed <- TwoDevices
    Defaults <- DefaultsOfTwo
    MaxLate = 0
    MaxPuts = 2
    Absent = Absent  Emptied = Emptied  Refused = Refused
    Garbled = Garbled  Broken = Broken  None = None
SYMMETRY AnyEditor
INVARIANTS
    TypeOK
    DriversAreSelected
    StopAsksTheDriver
PROPERTY ReplacesWhatWasSeen
