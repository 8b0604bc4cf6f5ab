------------------------- MODULE MCGatewayLifecycle -------------------------
(* Instances of GatewayLifecycle for TLC.                                  *)
EXTENDS GatewayLifecycle, TLC

CONSTANTS io, adc, t1, t2, acm0, acm1, acm2

\* The two Modbus plugins, on the only serial adapter or on any.
ModbusOrder == <<io, adc>>
Both == {io, adc}
AnyAdapter == [Both -> Ports]

AnyTask == Permutations(Tasks)
AnyTaskAndPort == AnyTask \cup Permutations(Ports)
=============================================================================
