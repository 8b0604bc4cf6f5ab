--------------------------- MODULE MCControlSources ---------------------------
(* Instances of ControlSources for TLC.                                    *)
EXTENDS ControlSources, TLC

CONSTANTS k, a, b

TwoDevices == [pump |-> {"boardnet", "displaynet"},
               valves |-> {"stacknet", "auto"}]
Pump == [pump |-> {"boardnet", "stacknet", "displaynet"}]

DefaultsOfTwo == [pump |-> "boardnet", valves |-> "auto"]
DefaultsOfPump == [pump |-> "boardnet"]

AnyEditor == Permutations(Editors)
=============================================================================
