------------------------------ MODULE HuiHold ------------------------------
(***************************************************************************)
(* HUI holds: start, stop and emergency shutdown of a valve-and-pump       *)
(* recipe (oqlos/hardware/hui_hold.py), over the commands of               *)
(* PluginGateway.                                                          *)
(*                                                                         *)
(* The requests of the operators run one at a time under                   *)
(* _HUI_OPERATION_LOCK, a FIFO asyncio lock: queue holds the waiters in    *)
(* order and op the request that holds the lock.  step is where the holder *)
(* stands; one step is the code between two awaits, so other tasks         *)
(* (arriving requests, keys pressed without the lock, the gateway's own    *)
(* reconnects) interleave between steps.                                   *)
(***************************************************************************)
EXTENDS PluginGateway, Sequences

CONSTANTS
    Clients,        \* concurrent HTTP requests; each has one in flight
    Keys,           \* keys of the hold profiles
    ProfileValves,  \* valves_on of each profile
    ProfilePump,    \* pump_pct of each profile
    None,           \* no active hold, no key
    SkipIdle,       \* hui.timing.skip_idle_pump_off
    KeyValves,      \* valves driven by HUI valve keys, outside the lock
    Volatile,       \* controllers others may drop or attach at any time
    MayDamage       \* whether the settings file may become unreadable

ASSUME HoldAssumption ==
    /\ ProfileValves \in [Keys -> SUBSET Valves]
    /\ ProfilePump \in [Keys -> PumpLevels]
    /\ None \notin Keys
    /\ KeyValves \subseteq Valves
    /\ Volatile \subseteq Controllers
    /\ {SkipIdle, MayDamage} \subseteq BOOLEAN

VARIABLES
    queue,      \* requests waiting for the lock, first come first served
    op,         \* the request that holds the lock, or NoOp
    step,       \* where the holder stands; "idle" when the lock is free
    after,      \* where the shutdown routine returns to
    todo,       \* valves the holder's current loop still has to switch
    opOk,       \* every operation of the current phase succeeded
    pumpOk,     \* the last pump-off command was confirmed
    active,     \* _active_hold_key
    young,      \* the active hold has not yet lasted min_hold_ms
    interrupt,  \* _interrupt_hold_wait_event is set
    reply       \* how the last request ended

holdVars == <<queue, op, step, after, todo, opOk, pumpOk, active, young,
              interrupt, reply>>
vars == <<holdVars, gatewayVars>>

Operation == [client : Clients, kind : {"start"}, key : Keys]
        \cup [client : Clients, kind : {"stop"}, key : Keys \cup {None}]
        \cup [client : Clients, kind : {"shutdown"}, key : {None}]

NoOp == [client |-> None, kind |-> "none", key |-> None]

StartSteps == {"ready", "idlePump", "replace", "engage", "engagePump"}
DownSteps == {"downPump", "downReady", "downBulk", "downEach"}
Steps == {"idle", "minHold"} \cup StartSteps \cup DownSteps
Returns == {"engage", "cleanup", "report"}
Statuses == {"none", "started", "failed", "safe", "partial", "error"}

TypeOK ==
    /\ GatewayTypeOK
    /\ queue \in Seq(Operation)
    /\ op \in Operation \cup {NoOp}
    /\ step \in Steps
    /\ after \in Returns
    /\ todo \subseteq Valves
    /\ opOk \in BOOLEAN
    /\ pumpOk \in BOOLEAN
    /\ active \in Keys \cup {None}
    /\ young \in BOOLEAN
    /\ interrupt \in BOOLEAN
    /\ reply \in [kind : {"none", "start", "stop", "shutdown"}, status : Statuses]

Init ==
    /\ GatewayInit
    /\ queue = <<>>
    /\ op = NoOp
    /\ step = "idle"
    /\ after = "report"
    /\ todo = {}
    /\ opOk = TRUE
    /\ pumpOk = TRUE
    /\ active = None
    /\ young = FALSE
    /\ interrupt = FALSE
    /\ reply = [kind |-> "none", status |-> "none"]

-----------------------------------------------------------------------------
(* A request arrives: start and shutdown set the interrupt event before    *)
(* they queue for the lock, stop only queues.                              *)
InFlight(c) == op.client = c \/ \E i \in 1..Len(queue) : queue[i].client = c

Request(o) ==
    /\ ~InFlight(o.client)
    /\ queue' = Append(queue, o)
    /\ interrupt' = IF o.kind = "stop" THEN interrupt ELSE TRUE
    /\ UNCHANGED <<op, step, after, todo, opOk, pumpOk, active, young, reply>>
    /\ UNCHANGED gatewayVars

(* The first waiter gets the lock.  A stop of the active hold first waits  *)
(* out the minimum hold time; a stop of another key does not.              *)
WaitsMinHold(o) == active # None /\ young /\ o.key \in {None, active}

FirstStep(o) ==
    IF o.kind = "start" THEN "ready"
    ELSE IF o.kind = "stop" /\ WaitsMinHold(o) THEN "minHold" ELSE "downPump"

Acquire ==
    /\ step = "idle"
    /\ queue # <<>>
    /\ op' = Head(queue)
    /\ queue' = Tail(queue)
    /\ step' = FirstStep(Head(queue))
    /\ after' = "report"
    /\ opOk' = TRUE
    /\ reply' = [kind |-> "none", status |-> "none"]
    /\ UNCHANGED <<todo, pumpOk, active, young, interrupt>>
    /\ UNCHANGED gatewayVars

(* Mutant: a failed start returns before it clears the event.              *)
ReleaseForgetsEvent(status) ==
    /\ step' = "idle"
    /\ op' = NoOp
    /\ reply' = [kind |-> op.kind, status |-> status]
    /\ interrupt' = IF op.kind = "stop" \/ status \in {"error", "failed"}
                     THEN interrupt ELSE FALSE

(* The lock is released.  A start and a shutdown clear the interrupt event *)
(* as their last act; an exception skips that line.                        *)
Release(status) ==
    /\ step' = "idle"
    /\ op' = NoOp
    /\ reply' = [kind |-> op.kind, status |-> status]
    /\ interrupt' = IF op.kind = "stop" \/ status = "error" THEN interrupt ELSE FALSE

Abort == Release("error")

-----------------------------------------------------------------------------
(* Mutant: the wait for the interrupt event has no timeout.                *)
MinHoldWithoutTimeout ==
    /\ step = "minHold"
    /\ interrupt
    /\ interrupt' = FALSE
    /\ step' = "downPump"
    /\ UNCHANGED <<queue, op, after, todo, opOk, pumpOk, active, young, reply>>
    /\ UNCHANGED gatewayVars

(* stop_hui_hold: wait_for(interrupt event, remaining minimum hold), and   *)
(* clear the event either way.                                             *)
MinHoldEnds ==
    /\ step = "minHold"
    /\ interrupt \/ ~young
    /\ interrupt' = FALSE
    /\ step' = "downPump"
    /\ UNCHANGED <<queue, op, after, todo, opOk, pumpOk, active, young, reply>>
    /\ UNCHANGED gatewayVars

(* Time: the active hold reaches its minimum duration.                     *)
HoldAges ==
    /\ young
    /\ young' = FALSE
    /\ UNCHANGED <<queue, op, step, after, todo, opOk, pumpOk, active, interrupt, reply>>
    /\ UNCHANGED gatewayVars

-----------------------------------------------------------------------------
(* _start_hui_hold_unlocked.  Readiness: a refused start ends here.  With  *)
(* the M5 module connected the hold is an exact replace, otherwise a       *)
(* shutdown followed by one valve after the other.                         *)
NeedsIdlePump(key) == active # key /\ ~(SkipIdle /\ active = None)

StartReadiness ==
    /\ step = "ready"
    /\ \E result \in Results :
         /\ ProbeReadiness(result)
         /\ \/ /\ result = "raise"
               /\ Abort
               /\ UNCHANGED after
            \/ /\ result # "raise"          \* valves, pump driver or power not ready
               /\ Release("failed")
               /\ UNCHANGED after
            \/ /\ result = "ok"
               /\ UNCHANGED <<op, interrupt, reply>>
               /\ IF M5 \in Controllers \cap plugins'
                  THEN /\ step' = IF NeedsIdlePump(op.key) THEN "idlePump" ELSE "replace"
                       /\ UNCHANGED after
                  ELSE /\ step' = "downPump"
                       /\ after' = "engage"
    /\ UNCHANGED <<queue, todo, opOk, pumpOk, active, young>>

(* The depressurising pump-off before another hold's valves are replaced.  *)
IdlePump ==
    /\ step = "idlePump"
    /\ \E result \in {"ok", "fail"} :
         /\ SetPump(0, result)
         /\ pumpOk' = (result = "ok")
         /\ opOk' = (result = "ok")
    /\ step' = "replace"
    /\ UNCHANGED <<queue, op, after, todo, active, young, interrupt, reply>>

Completed(key) ==
    /\ active' = key
    /\ young' = TRUE
    /\ Release("started")

(* Mutant: a failed engagement is reported without a cleanup.              *)
CleanupSkipped ==
    /\ Release("failed")
    /\ UNCHANGED <<after, active, young>>

Cleanup ==
    /\ step' = "downPump"
    /\ after' = "cleanup"
    /\ UNCHANGED <<op, active, young, interrupt, reply>>

Proceed(next) ==
    /\ step' = next
    /\ UNCHANGED <<op, after, active, young, interrupt, reply>>

(* Mutant: the hold is complete as soon as its valves are.                 *)
AfterValvesNoPump == Completed(op.key) /\ UNCHANGED after

AfterValves ==
    IF ProfilePump[op.key] > 0
    THEN Proceed("engagePump")
    ELSE Completed(op.key) /\ UNCHANGED after

Raised == Abort /\ UNCHANGED <<after, active, young>>

Replace ==
    /\ step = "replace"
    /\ \E result \in Results :
         /\ ReplaceValvesExact(ProfileValves[op.key], result)
         /\ \/ result = "raise" /\ Raised
            \/ result = "ok" /\ opOk /\ AfterValves
            \/ ~(result = "raise") /\ ~(result = "ok" /\ opOk) /\ Cleanup
    /\ UNCHANGED <<queue, todo, opOk, pumpOk>>

(* _engage_hold_valves: one set_valve per valve; the first failure cleans  *)
(* up.  The outcome of the preceding shutdown is not looked at.            *)
Engage ==
    /\ step = "engage"
    /\ \/ /\ todo = {}
          /\ AfterValves
          /\ UNCHANGED <<todo, gatewayVars>>
       \/ \E v \in todo, result \in Results :
            /\ SetValve(v, TRUE, result)
            /\ todo' = todo \ {v}
            /\ \/ result = "raise" /\ Raised
               \/ result = "ok" /\ Proceed("engage")
               \/ result = "fail" /\ Cleanup
    /\ UNCHANGED <<queue, opOk, pumpOk>>

(* _engage_hold_pump_if_needed, and the hold becomes the active one.       *)
EngagePump ==
    /\ step = "engagePump"
    /\ \E result \in Results :
         /\ SetPump(ProfilePump[op.key], result)
         /\ \/ result = "raise" /\ Raised
            \/ result = "ok" /\ Completed(op.key) /\ UNCHANGED after
            \/ result = "fail" /\ Cleanup
    /\ UNCHANGED <<queue, todo, opOk, pumpOk>>

-----------------------------------------------------------------------------
(* _shutdown_all_hui_hardware_unlocked: forget the active hold, stop the   *)
(* pump whatever happens, probe the valve controllers, clear the valves in *)
(* bulk and, when that fails, one by one.                                  *)
DownPump ==
    /\ step = "downPump"
    /\ active' = None
    /\ young' = FALSE
    /\ \E result \in {"ok", "fail"} :
         /\ SetPump(0, result)
         /\ pumpOk' = (result = "ok")
    /\ opOk' = TRUE
    /\ step' = "downReady"
    /\ UNCHANGED <<queue, op, after, todo, interrupt, reply>>

(* Mutants: the report does not wait for the pump's confirmation; it uses  *)
(* a status the callers do not know.                                       *)
DownStatusValvesOnly(valvesOk) == IF valvesOk THEN "safe" ELSE "partial"
DownStatusOk(valvesOk) == IF pumpOk /\ valvesOk THEN "ok" ELSE "partial"

DownStatus(valvesOk) == IF pumpOk /\ valvesOk THEN "safe" ELSE "partial"

(* Where the routine returns: the legacy start goes on to its valves, a    *)
(* cleanup ends the failed start, stop and shutdown report.                *)
DownReturns(valvesOk) ==
    \/ /\ after = "engage"
       /\ step' = "engage"
       /\ todo' = ProfileValves[op.key]
       /\ UNCHANGED <<op, interrupt, reply>>
    \/ /\ after = "cleanup"
       /\ Release("failed")
       /\ UNCHANGED todo
    \/ /\ after = "report"
       /\ Release(DownStatus(valvesOk))
       /\ UNCHANGED todo

(* The controller list is read outside any try: unreadable settings raise  *)
(* here.  The legacy start has already probed (modbus_prechecked).         *)
DownReady ==
    /\ step = "downReady"
    /\ \/ /\ after = "engage"
          /\ settingsOk
          /\ step' = "downBulk"
          /\ UNCHANGED <<op, todo, interrupt, reply, gatewayVars>>
       \/ /\ after = "engage" /\ ~settingsOk
          /\ Abort
          /\ UNCHANGED <<todo, gatewayVars>>
       \/ /\ after # "engage"
          /\ \E result \in Results :
               /\ ProbeReadiness(result)
               /\ \/ result = "raise" /\ Abort /\ UNCHANGED todo
                  \/ result = "fail" /\ DownReturns(FALSE)
                  \/ /\ result = "ok"
                     /\ step' = "downBulk"
                     /\ UNCHANGED <<op, todo, interrupt, reply>>
    /\ UNCHANGED <<queue, after, opOk, pumpOk, active, young>>

DownBulk ==
    /\ step = "downBulk"
    /\ \E result \in {"ok", "fail"} :
         /\ AllValvesOff(result)
         /\ IF result = "ok"
            THEN DownReturns(TRUE)
            ELSE /\ step' = "downEach"
                 /\ todo' = Valves
                 /\ UNCHANGED <<op, interrupt, reply>>
    /\ UNCHANGED <<queue, after, opOk, pumpOk, active, young>>

DownEach ==
    /\ step = "downEach"
    /\ \/ /\ todo = {}
          /\ DownReturns(opOk)
          /\ UNCHANGED <<opOk, gatewayVars>>
       \/ \E v \in todo, result \in Results :
            /\ SetValve(v, FALSE, result)
            /\ todo' = todo \ {v}
            /\ opOk' = (opOk /\ result = "ok")
            /\ UNCHANGED <<op, step, interrupt, reply>>
    /\ UNCHANGED <<queue, after, pumpOk, active, young>>

-----------------------------------------------------------------------------
(* Others: a HUI valve key (run_hui_valve_key) switches its valve without  *)
(* the lock and without a probe; the gateway gains and loses controllers;  *)
(* the settings file is damaged or repaired.                               *)
ValveKey ==
    /\ \E v \in KeyValves, on \in BOOLEAN, result \in Results : SetValve(v, on, result)
    /\ UNCHANGED holdVars

Environment ==
    /\ \/ \E c \in Volatile : Detach(c) \/ Attach(c)
       \/ MayDamage /\ ToggleSettings
    /\ UNCHANGED holdVars

HolderStep ==
    \/ MinHoldEnds
    \/ StartReadiness \/ IdlePump \/ Replace \/ Engage \/ EngagePump
    \/ DownPump \/ DownReady \/ DownBulk \/ DownEach

Next ==
    \/ \E o \in Operation : Request(o)
    \/ Acquire
    \/ HolderStep
    \/ HoldAges
    \/ ValveKey
    \/ Environment

Spec == Init /\ [][Next]_vars

(* Every gateway call returns (each has a transport timeout), the lock is  *)
(* handed on, and time passes.                                             *)
FairSpec == Spec /\ WF_vars(Acquire) /\ WF_vars(HolderStep) /\ WF_vars(HoldAges)
-----------------------------------------------------------------------------
Energised == UNION {coils[c] : c \in Controllers}

(* Between operations, a running pump belongs to the active hold, unless   *)
(* the last pump-off command was not confirmed.  Every path that drops the *)
(* hold or fails to complete one stops the pump first.                     *)
PumpNeverRunsUnowned ==
    step = "idle" /\ active = None /\ pump > 0 => ~pumpOk

(* A stop or shutdown that reported "safe" left the pump off and every     *)
(* valve of every controller de-energised.                                 *)
SafeMeansDeenergised ==
    step = "idle" /\ reply.status = "safe" => pump = 0 /\ Energised = {}

(* Between operations, the active hold's own recipe is what the hardware   *)
(* does: exactly its valves are energised and its pump runs.               *)
HoldDrivesItsRecipe ==
    step = "idle" /\ active # None =>
        /\ Energised = ProfileValves[active]
        /\ ProfilePump[active] > 0 => pump = ProfilePump[active]

(* A set interrupt event always has a start or shutdown behind it, queued  *)
(* or running: no later stop finds a stale event and skips its minimum     *)
(* hold time.                                                              *)
InterruptHasCause ==
    interrupt => \/ op.kind \in {"start", "shutdown"}
                 \/ \E i \in 1..Len(queue) : queue[i].kind \in {"start", "shutdown"}

(* Every request is answered: no wait under the lock lasts for ever.       *)
RequestsComplete == \A c \in Clients : InFlight(c) ~> ~InFlight(c)

(* A stop never sits out the minimum hold time with an emergency shutdown  *)
(* waiting behind it.                                                      *)
ShutdownCutsMinHoldShort ==
    step = "minHold" /\ ~interrupt =>
        \A i \in 1..Len(queue) : queue[i].kind # "shutdown"
=============================================================================
