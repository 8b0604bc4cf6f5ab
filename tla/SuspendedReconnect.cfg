\* An on-demand connect that is awaiting while its plugin is suspended.
SPECIFICATION Spec
CONSTANTS
    io = io  adc = adc  t1 = t1  t2 = t2
    acm0 = acm0  acm1 = acm1  acm2 = acm2
    Tasks = {t1, t2}
    Order <- ModbusOrder
    Ports = {acm0}
    Profiles <- AnyAdapter
    Ops = {"acquire", "suspend"}
    MaxBegun = 2
    None = None
SYMMETRY AnyTask
INVARIANTS
    SuspendedIsUnreachable
