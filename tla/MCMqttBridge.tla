---------------------------- MODULE MCMqttBridge ----------------------------
(* Instances of MqttBridge: the calls, their correlation ids, the faults.  *)
EXTENDS MqttBridge, TLC

CONSTANTS c1, c2, i1, i2

OwnIds == c1 :> i1 @@ c2 :> i2
OneId == c1 :> i1

EveryFault == [duplicate |-> 2, linkloss |-> 1, restart |-> 1]
OneLinkLoss == [duplicate |-> 0, linkloss |-> 1, restart |-> 0]
=============================================================================
