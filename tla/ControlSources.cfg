\* Two forms and the pump with its three controllers, one of which may serve a
\* start late; either file may be damaged.
SPECIFICATION Spec
CONSTANTS
    k = k  a = a  b = b
    Callers = {k}
    Editors = {a, b}
    Allowed <- Pump
    Defaults <- DefaultsOfPump
    MaxLate = 1
    MaxPuts = 2
    Absent = Absent  Emptied = Emptied  Refused = Refused
    Garbled = Garbled  Broken = Broken  None = None
SYMMETRY AnyEditor
INVARIANTS
    TypeOK
    DriversAreSelected
    StopAsksTheDriver
PROPERTY ReplacesWhatWasSeen
