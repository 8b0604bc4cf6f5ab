\* Reconfigurations that move plugins between two ports, two at a time, with
\* on-demand requests.
SPECIFICATION Spec
CONSTANTS
    io = io  adc = adc  t1 = t1  t2 = t2
    acm0 = acm0  acm1 = acm1  acm2 = acm2
    Tasks = {t1, t2}
    Order <- ModbusOrder
    Ports = {acm0, acm1}
    Profiles <- AnyAdapter
    Ops = {"acquire", "suspend", "resume", "apply"}
    MaxBegun = 3
    None = None
SYMMETRY AnyTaskAndPort
INVARIANTS
    PortIsFreeToOpen
