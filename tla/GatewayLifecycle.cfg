\* Three operations of any kind, two at a time.
SPECIFICATION Spec
CONSTANTS
    io = io  adc = adc  t1 = t1  t2 = t2
    acm0 = acm0  acm1 = acm1  acm2 = acm2
    Tasks = {t1, t2}
    Order <- ModbusOrder
    Ports = {acm0}
    Profiles <- AnyAdapter
    Ops = {"acquire", "check", "ready", "suspend", "resume", "apply", "connect", "disconnect"}
    MaxBegun = 3
    None = None
SYMMETRY AnyTask
INVARIANTS
    TypeOK
    OneInstance
    SuspendedStaysDetached
