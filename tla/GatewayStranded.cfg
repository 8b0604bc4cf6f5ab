\* Settings that move a plugin which is not reconnected.
SPECIFICATION Spec
CONSTANTS
    io = io  adc = adc  t1 = t1  t2 = t2
    acm0 = acm0  acm1 = acm1  acm2 = acm2
    Tasks = {t1}
    Order <- ModbusOrder
    Ports = {acm0, acm1, acm2}
    Profiles <- AnyAdapter
    Ops = {"apply"}
    MaxBegun = 2
    None = None
INVARIANTS
    OwnersAreDisconnected
