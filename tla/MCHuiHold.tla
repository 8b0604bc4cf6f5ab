----------------------------- MODULE MCHuiHold -----------------------------
(* Instances of HuiHold for TLC.                                           *)
EXTENDS HuiHold, TLC

CONSTANTS m5, modbus, valve5, valve6, plus, minus, bleed, c1, c2, c3

(* The M5 module comes before the Modbus module                            *)
(* (DEFAULT_VALVE_CONTROLLER_PREFERENCE).                                  *)
MCRank == [c \in Controllers |-> IF c = m5 THEN 0 ELSE 1]

(* Two pump holds on different valves, as lp-pwm-plus and lp-pwm-minus,    *)
(* and a bleed hold without a pump, as lp-bleed.                           *)
MCProfileValves == [k \in Keys |-> IF k = plus THEN {valve5} ELSE {valve6}]
MCProfileOneValve == [k \in Keys |-> Valves]
MCProfilePump == [k \in Keys |-> IF k = bleed THEN 0 ELSE 1]

MCSymmetry == Permutations(Clients)
=============================================================================
