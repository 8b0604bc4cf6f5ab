--------------------------- MODULE PluginGateway ---------------------------
(***************************************************************************)
(* The hardware gateway as its callers see it: which valve controllers it  *)
(* holds connected, what their outputs and the pump physically do, and the *)
(* outcomes each gateway command can have                                  *)
(* (oqlos/hardware/plugin_gateway.py).                                     *)
(*                                                                         *)
(* Every valve command runs under control_sources.LOCK, so one command is  *)
(* one step here.  A command that fails may or may not have reached the    *)
(* device: a timed-out write is reported as a failure and can still have   *)
(* been applied.                                                           *)
(*                                                                         *)
(* Results: "ok" the call returned success, "fail" it returned a failure,  *)
(* "raise" it raised (undervoltage gate, unreadable controller settings).  *)
(***************************************************************************)
EXTENDS Naturals, FiniteSets

CONSTANTS
    Controllers,    \* enabled valve output modules ("io-m5-4in8out", "modbus-io")
    M5,             \* the module that supports the exact replace
    Rank,           \* position of a controller in the preference list
    Valves,         \* HUI_ALL_VALVE_IDS
    PumpLevels,     \* pump powers in use; 0 is off
    Undervoltage    \* whether the supply may sag between two commands

ASSUME GatewayAssumption ==
    /\ Rank \in [Controllers -> Nat]
    /\ \A c, d \in Controllers : Rank[c] = Rank[d] => c = d
    /\ PumpLevels \subseteq Nat
    /\ 0 \in PumpLevels
    /\ Undervoltage \in BOOLEAN

VARIABLES
    plugins,        \* the fast-path map _plugins: controllers held connected
    coils,          \* device state: the energised valves of each controller
    pump,           \* device state: the pump power
    settingsOk      \* whether the control-source settings file can be read

gatewayVars == <<plugins, coils, pump, settingsOk>>

Results == {"ok", "fail", "raise"}

GatewayTypeOK ==
    /\ plugins \subseteq Controllers
    /\ coils \in [Controllers -> SUBSET Valves]
    /\ pump \in PumpLevels
    /\ settingsOk \in BOOLEAN

GatewayInit ==
    /\ plugins \in SUBSET Controllers
    /\ coils = [c \in Controllers |-> {}]
    /\ pump = 0
    /\ settingsOk = TRUE

Before(c, d) == Rank[c] < Rank[d]

-----------------------------------------------------------------------------
(* set_pump: one command to one driver, no fallback.  The undervoltage     *)
(* gate raises only for a power above zero.  With unreadable settings only *)
(* the "stop" command is fanned out to the possible owners, and set_pump   *)
(* sends "set_speed" even for zero: the command fails and reaches no       *)
(* driver.                                                                 *)
SetPump(level, result) ==
    /\ \/ result = "ok"    /\ settingsOk /\ pump' = level
       \/ result = "fail"  /\ settingsOk /\ pump' \in {pump, level, 0}
       \/ result = "fail"  /\ ~settingsOk /\ pump' = pump
       \/ result = "raise" /\ Undervoltage /\ level > 0 /\ pump' = pump
    /\ UNCHANGED <<plugins, coils, settingsOk>>

-----------------------------------------------------------------------------
(* set_valve walks the controllers in preference order.  A connected one   *)
(* is tried; one that rejects is dropped from _plugins and the walk goes   *)
(* on; a disconnected one is skipped while another is connected, otherwise *)
(* it is connected on demand.  Rejected(r, c): the walk arrives at c having *)
(* tried exactly the controllers r, all of which rejected.                 *)
LazyOnlyWhenNoneLeft(rejected) ==
    \A r \in rejected \ plugins : \A p \in plugins : Before(p, r)

Arrives(c, rejected) ==
    /\ {p \in plugins : Before(p, c)} \subseteq rejected
    /\ \A r \in rejected : Before(r, c)
    /\ LazyOnlyWhenNoneLeft(rejected)

Wins(c, rejected) ==
    /\ Arrives(c, rejected)
    /\ c \in plugins \/ \A p \in plugins : Before(p, c)

Exhausts(rejected) ==
    /\ plugins \subseteq rejected
    /\ LazyOnlyWhenNoneLeft(rejected)

Switch(energised, v, on) == IF on THEN energised \cup {v} ELSE energised \ {v}

SwitchOn(switched, v, on) ==
    coils' = [c \in Controllers |->
                IF c \in switched THEN Switch(coils[c], v, on) ELSE coils[c]]

SetValve(v, on, result) ==
    /\ UNCHANGED <<pump, settingsOk>>
    /\ \/ /\ result = "raise"
          /\ ~settingsOk
          /\ UNCHANGED <<plugins, coils>>
       \/ /\ settingsOk
          /\ \E rejected \in SUBSET Controllers, applied \in SUBSET Controllers :
               /\ applied \subseteq rejected
               /\ \/ \E c \in Controllers :
                       /\ result = "ok"
                       /\ Wins(c, rejected)
                       /\ plugins' = (plugins \ rejected) \cup {c}
                       /\ SwitchOn(applied \cup {c}, v, on)
                  \/ /\ result = "fail"
                     /\ Exhausts(rejected)
                     /\ plugins' = plugins \ rejected
                     /\ SwitchOn(applied, v, on)
                  \/ \E c \in Controllers :   \* undervoltage seen before trying c
                       /\ result = "raise"
                       /\ Undervoltage /\ on
                       /\ Arrives(c, rejected)
                       /\ plugins' = plugins \ rejected
                       /\ SwitchOn(applied, v, on)

-----------------------------------------------------------------------------
(* all_valves_off: one bulk command to every connected module at once, or  *)
(* to the first that can be connected when none is.  It survives           *)
(* unreadable settings.  The call succeeds when ANY module confirms.       *)
OffTargets(targets) ==
    \/ plugins # {} /\ targets = plugins
    \/ plugins = {} /\ \/ targets = {}
                       \/ \E c \in Controllers : targets = {c}

BulkOffOk(targets, confirmed) == confirmed # {}

AllValvesOff(result) ==
    /\ \E targets, confirmed, applied \in SUBSET Controllers :
         /\ OffTargets(targets)
         /\ confirmed \subseteq targets
         /\ applied \subseteq targets \ confirmed
         /\ result = IF BulkOffOk(targets, confirmed) THEN "ok" ELSE "fail"
         /\ plugins' = plugins \cup targets
         /\ coils' = [c \in Controllers |->
                        IF c \in confirmed \cup applied THEN {} ELSE coils[c]]
    /\ UNCHANGED <<pump, settingsOk>>

-----------------------------------------------------------------------------
(* replace_valves_exact: one request that sets the complete output mask of *)
(* the M5 module.  Nothing is sent to any other controller.                *)
SupportsExactReplace == M5 \in Controllers /\ M5 \in plugins

ReplaceValvesExact(on, result) ==
    /\ \/ /\ result = "ok"
          /\ settingsOk /\ SupportsExactReplace
          /\ coils' = [coils EXCEPT ![M5] = on]
          /\ UNCHANGED plugins
       \/ /\ result = "fail"               \* refused, or the plugin raised
          /\ settingsOk /\ SupportsExactReplace
          /\ coils' \in {coils, [coils EXCEPT ![M5] = on]}
          /\ plugins' \in {plugins, plugins \ {M5}}
       \/ /\ result = "fail"               \* the module was dropped meanwhile
          /\ settingsOk /\ ~SupportsExactReplace
          /\ UNCHANGED <<plugins, coils>>
       \/ /\ result = "raise"
          /\ ~settingsOk \/ (Undervoltage /\ on # {})
          /\ UNCHANGED <<plugins, coils>>
    /\ UNCHANGED <<pump, settingsOk>>

-----------------------------------------------------------------------------
(* The readiness probe of the HUI paths (reconnect=False): a controller in *)
(* the map is ready; one outside it is re-attached when the plugin         *)
(* registry holds a connected, compatible instance.  Any one controller    *)
(* makes the valves ready.                                                 *)
ProbeReadiness(result) ==
    /\ \/ /\ result = "raise" /\ ~settingsOk
          /\ UNCHANGED plugins
       \/ /\ settingsOk
          /\ \E reattached \in SUBSET Controllers : plugins' = plugins \cup reattached
          /\ result = IF plugins' # {} THEN "ok" ELSE "fail"
    /\ UNCHANGED <<coils, pump, settingsOk>>

-----------------------------------------------------------------------------
(* What other parts of the runtime do to the gateway between two commands: *)
(* a probe, suspend or reconfiguration drops or attaches a controller, and *)
(* the settings file becomes unreadable or is repaired.                    *)
Detach(c) ==
    /\ c \in plugins
    /\ plugins' = plugins \ {c}
    /\ UNCHANGED <<coils, pump, settingsOk>>

Attach(c) ==
    /\ c \notin plugins
    /\ plugins' = plugins \cup {c}
    /\ UNCHANGED <<coils, pump, settingsOk>>

ToggleSettings ==
    /\ settingsOk' = ~settingsOk
    /\ UNCHANGED <<plugins, coils, pump>>
=============================================================================
