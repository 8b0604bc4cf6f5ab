\* The pump alone; rig.oql is damaged.
SPECIFICATION Spec
CONSTANTS
    k = k  a = a  b = b
    Callers = {k}
    Editors = {a}
    Allowed <- Pump
    Defaults <- DefaultsOfPump
    MaxLate = 0
    MaxPuts = 1
    Absent = Absent  Emptied = Emptied  Refused = Refused
    Garbled = Garbled  Broken = Broken  None = None
INVARIANT StopWhateverTheFiles
