--------------------------- MODULE HuiHoldProofs ---------------------------
(***************************************************************************)
(* Theorems about HuiHold, for every set of clients, profiles, valves and  *)
(* controllers.                                                            *)
(***************************************************************************)
EXTENDS HuiHold, TLAPS

(* A gateway command keeps the gateway's state in its type.                *)
LEMMA SetPumpType ==
    ASSUME GatewayTypeOK, NEW level \in PumpLevels, NEW result, SetPump(level, result)
    PROVE  GatewayTypeOK'
  BY GatewayAssumption DEF GatewayTypeOK, SetPump

LEMMA SetValveType ==
    ASSUME GatewayTypeOK, NEW v \in Valves, NEW on \in BOOLEAN, NEW result,
           SetValve(v, on, result)
    PROVE  GatewayTypeOK'
  <1>1. /\ pump' \in PumpLevels
        /\ settingsOk' \in BOOLEAN
    BY DEF GatewayTypeOK, SetValve
  <1>2. plugins' \subseteq Controllers
    BY DEF GatewayTypeOK, SetValve
  <1>3. coils' \in [Controllers -> SUBSET Valves]
    <2>1. \A switched : SwitchOn(switched, v, on) => coils' \in [Controllers -> SUBSET Valves]
      BY DEF GatewayTypeOK, SwitchOn, Switch
    <2>2. QED
      BY <2>1 DEF GatewayTypeOK, SetValve
  <1>4. QED
    BY <1>1, <1>2, <1>3 DEF GatewayTypeOK

LEMMA AllValvesOffType ==
    ASSUME GatewayTypeOK, NEW result, AllValvesOff(result)
    PROVE  GatewayTypeOK'
  BY DEF GatewayTypeOK, AllValvesOff

LEMMA ReplaceType ==
    ASSUME GatewayTypeOK, NEW on \in SUBSET Valves, NEW result,
           ReplaceValvesExact(on, result)
    PROVE  GatewayTypeOK'
  BY DEF GatewayTypeOK, ReplaceValvesExact, SupportsExactReplace

LEMMA ProbeType ==
    ASSUME GatewayTypeOK, NEW result, ProbeReadiness(result)
    PROVE  GatewayTypeOK'
  BY DEF GatewayTypeOK, ProbeReadiness

-----------------------------------------------------------------------------
(* Which operation the steps belong to: the steps of a start, and the      *)
(* shutdown routine a start called before its valves, run for a start.     *)
StepsOfStart ==
    /\ step \in StartSteps => op.kind = "start"
    /\ step \in DownSteps \cup {"minHold"} /\ after = "engage" => op.kind = "start"

TypeInv == TypeOK /\ StepsOfStart

LEMMA StartHasKey ==
    ASSUME op \in Operation \cup {NoOp}, op.kind = "start"
    PROVE  /\ op.key \in Keys
           /\ ProfileValves[op.key] \subseteq Valves
           /\ ProfilePump[op.key] \in PumpLevels
  BY HoldAssumption DEF Operation, NoOp

LEMMA ReplyType ==
    ASSUME op \in Operation \cup {NoOp}, NEW status \in Statuses,
           interrupt \in BOOLEAN, Release(status)
    PROVE  /\ step' = "idle"
           /\ op' = NoOp
           /\ reply' \in [kind : {"none", "start", "stop", "shutdown"}, status : Statuses]
           /\ interrupt' \in BOOLEAN
  <1>1. op.kind \in {"none", "start", "stop", "shutdown"}
    BY DEF Operation, NoOp
  <1>2. interrupt' \in BOOLEAN
    BY Zenon DEF Release
  <1>3. QED
    BY <1>1, <1>2 DEF Release

(* The type invariant and the step discipline hold in every reachable      *)
(* state.                                                                  *)
LEMMA TypeInvInit == Init => TypeInv
  <1> SUFFICES ASSUME Init PROVE TypeInv
    OBVIOUS
  <1>1. GatewayTypeOK
    BY GatewayAssumption DEF Init, GatewayInit, GatewayTypeOK
  <1>2. queue \in Seq(Operation)
    BY DEF Init
  <1>3. StepsOfStart
    BY DEF Init, StepsOfStart, StartSteps, DownSteps
  <1>4. QED
    BY <1>1, <1>2, <1>3 DEF Init, TypeInv, TypeOK, Steps, Returns, Statuses

USE DEF Steps, StartSteps, DownSteps, Returns, Statuses, Results

LEMMA TypeInvNext == TypeInv /\ [Next]_vars => TypeInv'
  <1> SUFFICES ASSUME TypeInv, [Next]_vars PROVE TypeInv'
    OBVIOUS
  <1> USE DEF TypeInv, TypeOK, StepsOfStart
  <1>1. ASSUME NEW o \in Operation, Request(o) PROVE TypeInv'
    <2>1. queue' \in Seq(Operation)
      BY <1>1 DEF Request
    <2>2. interrupt' \in BOOLEAN
      BY <1>1 DEF Request
    <2>3. UNCHANGED <<op, step, after, todo, opOk, pumpOk, active, young, reply, gatewayVars>>
      BY <1>1 DEF Request
    <2>4. QED
      BY <2>1, <2>2, <2>3 DEF gatewayVars, GatewayTypeOK
  <1>2. CASE Acquire
    <2>1. Head(queue) \in Operation /\ Tail(queue) \in Seq(Operation)
      BY <1>2 DEF Acquire
    <2>2. FirstStep(Head(queue)) \in {"ready", "minHold", "downPump"}
      BY DEF FirstStep
    <2>3. FirstStep(Head(queue)) = "ready" => Head(queue).kind = "start"
      BY DEF FirstStep
    <2>4. QED
      BY <1>2, <2>1, <2>2, <2>3 DEF Acquire, gatewayVars, GatewayTypeOK
  <1>3. CASE MinHoldEnds
    <2>1. /\ interrupt' \in BOOLEAN
          /\ step = "minHold" /\ step' = "downPump"
          /\ UNCHANGED <<queue, op, after, todo, opOk, pumpOk, active, young, reply, gatewayVars>>
      BY <1>3, Zenon DEF MinHoldEnds
    <2>2. QED
      BY <2>1 DEF gatewayVars, GatewayTypeOK
  <1>4. CASE StartReadiness
    <2>1. PICK result \in Results : ProbeReadiness(result)
      BY <1>4 DEF StartReadiness
    <2>2. GatewayTypeOK'
      BY <2>1, ProbeType
    <2>3. QED
      BY <1>4, <2>2, ReplyType DEF StartReadiness, Abort
  <1>5. CASE IdlePump
    <2>1. GatewayTypeOK'
      BY <1>5, SetPumpType, GatewayAssumption DEF IdlePump
    <2>2. QED
      BY <1>5, <2>1 DEF IdlePump
  <1>6. CASE Replace
    <2>1. op.key \in Keys /\ ProfileValves[op.key] \in SUBSET Valves
      BY <1>6, StartHasKey DEF Replace
    <2>2. GatewayTypeOK'
      BY <1>6, <2>1, ReplaceType DEF Replace
    <2>3. QED
      BY <1>6, <2>1, <2>2, ReplyType
      DEF Replace, Raised, Abort, AfterValves, Proceed, Completed, Cleanup
  <1>7. CASE Engage
    <2>1. op.key \in Keys
      BY <1>7, StartHasKey DEF Engage
    <2>2. GatewayTypeOK'
      BY <1>7, SetValveType DEF Engage, gatewayVars, GatewayTypeOK
    <2>3. QED
      BY <1>7, <2>1, <2>2, ReplyType
      DEF Engage, Raised, Abort, AfterValves, Proceed, Completed, Cleanup
  <1>8. CASE EngagePump
    <2>1. op.key \in Keys /\ ProfilePump[op.key] \in PumpLevels
      BY <1>8, StartHasKey DEF EngagePump
    <2>2. GatewayTypeOK'
      BY <1>8, <2>1, SetPumpType DEF EngagePump
    <2>3. QED
      BY <1>8, <2>1, <2>2, ReplyType DEF EngagePump, Raised, Abort, Completed, Cleanup
  <1>9. CASE DownPump
    <2>1. GatewayTypeOK'
      BY <1>9, SetPumpType, GatewayAssumption DEF DownPump
    <2>2. QED
      BY <1>9, <2>1 DEF DownPump
  <1>10. ASSUME NEW valvesOk \in BOOLEAN, step \in DownSteps, DownReturns(valvesOk)
         PROVE  /\ step' \in {"idle", "engage"}
                /\ step' = "engage" => op.kind = "start" /\ op' = op
                /\ todo' \subseteq Valves
                /\ op' \in Operation \cup {NoOp}
                /\ interrupt' \in BOOLEAN
                /\ reply' \in [kind : {"none", "start", "stop", "shutdown"},
                               status : Statuses]
    <2>1. DownStatus(valvesOk) \in Statuses
      BY DEF DownStatus
    <2>2. after = "engage" => ProfileValves[op.key] \subseteq Valves
      BY <1>10, StartHasKey
    <2>3. QED
      BY <1>10, <2>1, <2>2, ReplyType DEF DownReturns
  <1>11. CASE DownReady
    <2>1. GatewayTypeOK'
      BY <1>11, ProbeType DEF DownReady, gatewayVars, GatewayTypeOK
    <2>2. QED
      BY <1>11, <2>1, <1>10, ReplyType DEF DownReady, Abort
  <1>12. CASE DownBulk
    <2>1. GatewayTypeOK'
      BY <1>12, AllValvesOffType DEF DownBulk
    <2>2. QED
      BY <1>12, <2>1, <1>10 DEF DownBulk
  <1>13. CASE DownEach
    <2>1. GatewayTypeOK'
      BY <1>13, SetValveType DEF DownEach, gatewayVars, GatewayTypeOK
    <2>2. QED
      BY <1>13, <2>1, <1>10 DEF DownEach
  <1>14. CASE HoldAges
    <2>1. /\ young' \in BOOLEAN
          /\ UNCHANGED <<queue, op, step, after, todo, opOk, pumpOk, active, interrupt, reply,
                         gatewayVars>>
      BY <1>14, Zenon DEF HoldAges
    <2>2. QED
      BY <2>1 DEF gatewayVars, GatewayTypeOK
  <1>15. CASE ValveKey
    <2>1. GatewayTypeOK'
      BY <1>15, SetValveType, HoldAssumption DEF ValveKey
    <2>2. QED
      BY <1>15, <2>1 DEF ValveKey, holdVars
  <1>16. CASE Environment
    <2>1. GatewayTypeOK'
      BY <1>16, HoldAssumption
      DEF Environment, Detach, Attach, ToggleSettings, GatewayTypeOK
    <2>2. QED
      BY <1>16, <2>1 DEF Environment, holdVars
  <1>17. CASE UNCHANGED vars
    BY <1>17 DEF vars, holdVars, gatewayVars, GatewayTypeOK
  <1>18. QED
    BY <1>1, <1>2, <1>3, <1>4, <1>5, <1>6, <1>7, <1>8, <1>9, <1>11, <1>12, <1>13,
       <1>14, <1>15, <1>16, <1>17 DEF Next, HolderStep

(* The reachable states are well typed (the variables of hui_hold.py and   *)
(* of the gateway it drives).                                              *)
THEOREM TypeCorrect == Spec => []TypeOK
  <1>1. TypeInv => TypeOK
    BY DEF TypeInv
  <1>2. QED
    BY TypeInvInit, TypeInvNext, <1>1, PTL DEF Spec
-----------------------------------------------------------------------------
(* PumpNeverRunsUnowned is not inductive: a failed engagement leaves an    *)
(* unowned pump running until its cleanup has sent the pump-off.           *)
PumpInv == active = None /\ pump > 0 /\ pumpOk => step = "downPump"

LEMMA PumpInvNext == TypeInv /\ PumpInv /\ [Next]_vars => PumpInv'
  <1> SUFFICES ASSUME TypeInv, PumpInv, [Next]_vars PROVE PumpInv'
    OBVIOUS
  <1> USE GatewayAssumption, HoldAssumption DEF TypeInv, TypeOK, GatewayTypeOK, PumpInv
  <1>1. ASSUME UNCHANGED <<active, pump, pumpOk>>, step # "downPump" PROVE PumpInv'
    BY <1>1
  <1>2. ASSUME UNCHANGED <<active, pump, pumpOk, step>> PROVE PumpInv'
    BY <1>2
  <1>3. ASSUME NEW o \in Operation, Request(o) PROVE PumpInv'
    BY <1>3, <1>2 DEF Request, gatewayVars
  <1>4. CASE Acquire
    BY <1>4, <1>1 DEF Acquire, gatewayVars
  <1>5. CASE MinHoldEnds
    BY <1>5, <1>1 DEF MinHoldEnds, gatewayVars
  <1>6. CASE StartReadiness
    BY <1>6, <1>1 DEF StartReadiness, ProbeReadiness
  <1>7. CASE IdlePump
    BY <1>7 DEF IdlePump, SetPump
  <1>8. ASSUME NEW key \in Keys, Completed(key) PROVE PumpInv'
    BY <1>8 DEF Completed
  <1>9. CASE Replace
    <2>1. op.key \in Keys /\ step # "downPump" /\ UNCHANGED <<pump, pumpOk>>
      BY <1>9, StartHasKey DEF Replace, StepsOfStart, ReplaceValvesExact
    <2>2. UNCHANGED active \/ Completed(op.key)
      BY <1>9 DEF Replace, Raised, AfterValves, Proceed, Cleanup
    <2>3. QED
      BY <2>1, <2>2, <1>1, <1>8
  <1>10. CASE Engage
    <2>1. op.key \in Keys /\ step # "downPump" /\ UNCHANGED <<pump, pumpOk>>
      BY <1>10, StartHasKey DEF Engage, StepsOfStart, SetValve, gatewayVars
    <2>2. UNCHANGED active \/ Completed(op.key)
      BY <1>10 DEF Engage, Raised, AfterValves, Proceed, Cleanup
    <2>3. QED
      BY <2>1, <2>2, <1>1, <1>8
  <1>11. CASE EngagePump
    <2>1. op.key \in Keys /\ UNCHANGED pumpOk
      BY <1>11, StartHasKey DEF EngagePump, StepsOfStart
    <2>2. PICK result \in Results :
            /\ SetPump(ProfilePump[op.key], result)
            /\ \/ result = "raise" /\ Raised
               \/ result = "ok" /\ Completed(op.key)
               \/ result = "fail" /\ Cleanup
      BY <1>11 DEF EngagePump
    <2>3. CASE result = "raise"
      <3>1. UNCHANGED <<active, pump, pumpOk>>
        BY <2>1, <2>2, <2>3 DEF SetPump, Raised
      <3>2. QED
        BY <3>1, <1>1, <1>11 DEF EngagePump
    <2>4. CASE result = "ok"
      BY <2>1, <2>2, <2>4, <1>8
    <2>5. CASE result = "fail"
      BY <2>2, <2>5 DEF Cleanup
    <2>6. QED
      BY <2>3, <2>4, <2>5
  <1>12. CASE DownPump
    <2>1. PICK result \in {"ok", "fail"} : SetPump(0, result) /\ pumpOk' = (result = "ok")
      BY <1>12 DEF DownPump
    <2>2. CASE result = "ok"
      BY <2>1, <2>2 DEF SetPump
    <2>3. CASE result = "fail"
      BY <2>1, <2>3
    <2>4. QED
      BY <2>1, <2>2, <2>3
  <1>13. CASE DownReady
    BY <1>13, <1>1 DEF DownReady, ProbeReadiness, gatewayVars
  <1>14. CASE DownBulk
    BY <1>14, <1>1 DEF DownBulk, AllValvesOff
  <1>15. CASE DownEach
    BY <1>15, <1>1 DEF DownEach, SetValve, gatewayVars
  <1>16. CASE HoldAges
    BY <1>16, <1>2 DEF HoldAges, gatewayVars
  <1>17. CASE ValveKey
    BY <1>17, <1>2 DEF ValveKey, holdVars, SetValve
  <1>18. CASE Environment
    BY <1>18, <1>2 DEF Environment, holdVars, Detach, Attach, ToggleSettings
  <1>19. CASE UNCHANGED vars
    BY <1>19, <1>2 DEF vars, holdVars, gatewayVars
  <1>20. QED
    BY <1>3, <1>4, <1>5, <1>6, <1>7, <1>9, <1>10, <1>11, <1>12, <1>13, <1>14, <1>15,
       <1>16, <1>17, <1>18, <1>19 DEF Next, HolderStep

(* A pump left running without a hold is always a pump whose stop was not  *)
(* confirmed (hui_hold.py), whatever fails on the way: any number of       *)
(* modules, undervoltage, damaged settings, keys and reconnects included.  *)
THEOREM PumpOwned == Spec => []PumpNeverRunsUnowned
  <1>1. Init => PumpInv
    BY DEF Init, GatewayInit, PumpInv
  <1>2. PumpInv => PumpNeverRunsUnowned
    BY DEF PumpInv, PumpNeverRunsUnowned
  <1>3. QED
    BY TypeInvInit, TypeInvNext, PumpInvNext, <1>1, <1>2, PTL DEF Spec
-----------------------------------------------------------------------------
(* Why a "safe" report can be believed on a stand with one valve module:   *)
(* once the pump-off is confirmed the pump stays off, and while the        *)
(* valve-by-valve fallback succeeds only the valves still to do are open.  *)
SafeInv ==
    /\ step \in {"downReady", "downBulk", "downEach"} /\ pumpOk => pump = 0
    /\ step = "downEach" /\ opOk => Energised \subseteq todo
    /\ SafeMeansDeenergised

(* A routine that ends tells "safe" only when the pump and the valves were *)
(* confirmed.                                                              *)
LEMMA SafeReport ==
    ASSUME NEW valvesOk \in BOOLEAN, DownReturns(valvesOk)
    PROVE  /\ step' \in {"idle", "engage"}
           /\ step' = "idle" /\ reply'.status = "safe" => pumpOk /\ valvesOk
  <1>1. DownStatus(valvesOk) = "safe" => pumpOk /\ valvesOk
    BY DEF DownStatus
  <1>2. ASSUME NEW status, Release(status) PROVE step' = "idle" /\ reply'.status = status
    BY <1>2 DEF Release
  <1>3. \/ step' = "engage"
        \/ Release("failed")
        \/ Release(DownStatus(valvesOk))
    BY DEF DownReturns
  <1>4. QED
    BY <1>1, <1>2, <1>3

(* Nobody but the shutdown routine reports "safe".                         *)
LEMMA OtherReport ==
    ASSUME NEW status \in {"started", "failed", "error"}, Release(status)
    PROVE  step' = "idle" /\ reply'.status # "safe"
  BY DEF Release

LEMMA SafeInvNext ==
    ASSUME NEW c, Controllers = {c}, KeyValves = {}, TypeInv, SafeInv, [Next]_vars
    PROVE  SafeInv'
  <1> USE DEF TypeInv, TypeOK, GatewayTypeOK
  <1> DEFINE Quiet == step' \notin {"downReady", "downBulk", "downEach"}
             Unsafe == step' = "idle" => reply'.status # "safe"
  <1>1. ASSUME Quiet, Unsafe PROVE SafeInv'
    BY <1>1 DEF SafeInv, SafeMeansDeenergised
  <1>2. ASSUME UNCHANGED <<step, opOk, pumpOk, todo, reply, pump, coils>> PROVE SafeInv'
    BY <1>2 DEF SafeInv, SafeMeansDeenergised, Energised
  <1>3. ASSUME NEW o \in Operation, Request(o) PROVE SafeInv'
    BY <1>3, <1>2 DEF Request, gatewayVars
  <1>4. CASE Acquire
    <2>1. step' \in {"ready", "minHold", "downPump"}
      BY <1>4 DEF Acquire, FirstStep
    <2>2. QED
      BY <1>1, <2>1
  <1>5. CASE MinHoldEnds
    BY <1>5, <1>1 DEF MinHoldEnds
  <1>6. CASE StartReadiness
    <2>1. \/ Release("error") \/ Release("failed")
          \/ step' \in {"idlePump", "replace", "downPump"}
      BY <1>6 DEF StartReadiness, Abort
    <2>2. QED
      BY <2>1, <1>1, OtherReport
  <1>7. CASE IdlePump
    BY <1>7, <1>1 DEF IdlePump
  <1>8. CASE Replace \/ Engage \/ EngagePump
    <2>1. \/ Release("error") \/ Release("started")
          \/ step' \in {"downPump", "engage", "engagePump"}
      BY <1>8 DEF Replace, Engage, EngagePump, Raised, Abort, AfterValves, Proceed,
                  Completed, Cleanup
    <2>2. QED
      BY <2>1, <1>1, OtherReport
  <1>9. CASE DownPump
    <2>1. PICK result \in {"ok", "fail"} : SetPump(0, result) /\ pumpOk' = (result = "ok")
      BY <1>9 DEF DownPump
    <2>2. pumpOk' => pump' = 0
      <3>1. CASE result = "ok"
        BY <2>1, <3>1 DEF SetPump
      <3>2. CASE result = "fail"
        BY <2>1, <3>2
      <3>3. QED
        BY <3>1, <3>2
    <2>3. step' = "downReady"
      BY <1>9 DEF DownPump
    <2>4. QED
      BY <2>2, <2>3 DEF SafeInv, SafeMeansDeenergised
  <1>10. CASE DownReady
    <2>1. UNCHANGED <<pump, pumpOk>>
      BY <1>10 DEF DownReady, ProbeReadiness, gatewayVars
    <2>2. step = "downReady"
      BY <1>10 DEF DownReady
    <2>3. step' = "downBulk" \/ DownReturns(FALSE) \/ Release("error")
      BY <1>10 DEF DownReady, Abort
    <2>4. step' = "downBulk" \/ (Quiet /\ Unsafe)
      BY <2>3, SafeReport, OtherReport
    <2>5. CASE step' = "downBulk"
      BY <2>1, <2>2, <2>5 DEF SafeInv, SafeMeansDeenergised
    <2>6. QED
      BY <2>4, <2>5, <1>1
  <1>11. CASE DownBulk
    <2>1. PICK result \in {"ok", "fail"} :
            /\ AllValvesOff(result)
            /\ \/ result = "ok" /\ DownReturns(TRUE)
               \/ result # "ok" /\ step' = "downEach" /\ todo' = Valves
      BY <1>11 DEF DownBulk
    <2>2. UNCHANGED <<pump, pumpOk>> /\ step = "downBulk"
      BY <1>11 DEF DownBulk, AllValvesOff
    <2>3. CASE result = "ok"
      <3>1. coils'[c] = {}
        BY <2>1, <2>3 DEF AllValvesOff, BulkOffOk
      <3>2. Energised' = {}
        BY <3>1 DEF Energised
      <3>3. /\ step' \in {"idle", "engage"}
            /\ step' = "idle" /\ reply'.status = "safe" => pumpOk
        BY <2>1, <2>3, SafeReport
      <3>4. QED
        BY <3>2, <3>3, <2>2 DEF SafeInv, SafeMeansDeenergised
    <2>4. CASE result # "ok"
      <3>1. coils' \in [Controllers -> SUBSET Valves]
        BY <2>1, AllValvesOffType
      <3>2. Energised' \subseteq Valves
        BY <3>1 DEF Energised
      <3>3. QED
        BY <3>2, <2>1, <2>2, <2>4 DEF SafeInv, SafeMeansDeenergised
    <2>5. QED
      BY <2>3, <2>4
  <1>12. CASE DownEach
    <2>1. UNCHANGED <<pump, pumpOk>> /\ step = "downEach"
      BY <1>12 DEF DownEach, SetValve, gatewayVars
    <2>2. CASE todo = {} /\ DownReturns(opOk) /\ UNCHANGED <<opOk, gatewayVars>>
      <3>1. /\ step' \in {"idle", "engage"}
            /\ step' = "idle" /\ reply'.status = "safe" => pumpOk /\ opOk
        BY <2>2, SafeReport
      <3>2. opOk => Energised' = {}
        BY <2>1, <2>2 DEF SafeInv, Energised, gatewayVars
      <3>3. QED
        BY <3>1, <3>2, <2>1 DEF SafeInv, SafeMeansDeenergised
    <2>3. ASSUME NEW v \in todo, NEW result \in Results,
                 SetValve(v, FALSE, result), todo' = todo \ {v},
                 opOk' = (opOk /\ result = "ok"), UNCHANGED <<op, step, interrupt, reply>>
          PROVE  SafeInv'
      <3>1. opOk' => result = "ok" /\ opOk
        BY <2>3
      <3>2. ASSUME result = "ok", opOk PROVE Energised' \subseteq todo'
        <4>1. PICK rejected \in SUBSET Controllers, applied \in SUBSET Controllers,
                   d \in Controllers :
                Wins(d, rejected) /\ SwitchOn(applied \cup {d}, v, FALSE)
          BY <2>3, <3>2 DEF SetValve
        <4>2. coils' = [b \in Controllers |-> IF b \in applied \cup {d}
                                              THEN coils[b] \ {v} ELSE coils[b]]
          BY <4>1 DEF SwitchOn, Switch
        <4>3. coils'[c] = coils[c] \ {v}
          BY <4>2
        <4>4. coils[c] \subseteq todo
          BY <2>1, <3>2 DEF SafeInv, Energised
        <4>5. QED
          BY <2>3, <4>3, <4>4 DEF Energised
      <3>3. QED
        BY <3>1, <3>2, <2>1, <2>3 DEF SafeInv, SafeMeansDeenergised
    <2>4. QED
      BY <1>12, <2>2, <2>3 DEF DownEach
  <1>13. CASE HoldAges
    BY <1>13, <1>2 DEF HoldAges, gatewayVars
  <1>14. CASE ValveKey
    BY <1>14 DEF ValveKey
  <1>15. CASE Environment
    BY <1>15, <1>2 DEF Environment, holdVars, Detach, Attach, ToggleSettings
  <1>16. CASE UNCHANGED vars
    BY <1>16, <1>2 DEF vars, holdVars, gatewayVars
  <1>17. QED
    BY <1>3, <1>4, <1>5, <1>6, <1>7, <1>8, <1>9, <1>10, <1>11, <1>12, <1>13, <1>14,
       <1>15, <1>16 DEF Next, HolderStep

(* With a single valve module and no valve keys, a stop or shutdown that   *)
(* reports "safe" (hui_hold.py, _shutdown_all_hui_hardware_unlocked) left  *)
(* the pump off and every output de-energised, whatever failed before and  *)
(* whatever is lost or reconnected meanwhile.                              *)
THEOREM SafeOnOneController ==
    ASSUME NEW c, Controllers = {c}, KeyValves = {}
    PROVE  Spec => []SafeMeansDeenergised
  <1>1. Init => SafeInv
    BY DEF Init, SafeInv, SafeMeansDeenergised
  <1>2. TypeInv /\ SafeInv /\ [Next]_vars => SafeInv'
    BY SafeInvNext
  <1>3. SafeInv => SafeMeansDeenergised
    BY DEF SafeInv
  <1>4. QED
    BY TypeInvInit, TypeInvNext, <1>1, <1>2, <1>3, PTL DEF Spec
-----------------------------------------------------------------------------
(* Without exceptions every start and shutdown clears the event on its way *)
(* out; and the request at the head of the queue is the one that runs.     *)
CauseInv ==
    /\ settingsOk
    /\ step = "idle" => op = NoOp
    /\ InterruptHasCause

LEMMA ReleaseKeepsCause ==
    ASSUME InterruptHasCause, NEW status, status # "error", Release(status), queue' = queue
    PROVE  InterruptHasCause'
  <1>1. interrupt' => interrupt /\ op.kind = "stop"
    BY Zenon DEF Release
  <1>2. QED
    BY <1>1 DEF InterruptHasCause

LEMMA CauseInvNext ==
    ASSUME ~Undervoltage, ~MayDamage, TypeInv, CauseInv, [Next]_vars
    PROVE  CauseInv'
  <1> USE DEF TypeInv, TypeOK
  <1> DEFINE Kept == UNCHANGED <<queue, op, interrupt>> /\ step' # "idle"
             Released == /\ queue' = queue
                         /\ \E status \in Statuses \ {"error"} : Release(status)
  <1>1. ASSUME Kept \/ Released, settingsOk' PROVE CauseInv'
    <2>1. CASE Kept
      BY <1>1, <2>1 DEF CauseInv, InterruptHasCause
    <2>2. CASE Released
      <3>1. step' = "idle" /\ op' = NoOp
        BY <2>2 DEF Release
      <3>2. InterruptHasCause'
        BY <2>2, ReleaseKeepsCause DEF CauseInv
      <3>3. QED
        BY <1>1, <3>1, <3>2 DEF CauseInv
    <2>3. QED
      BY <1>1, <2>1, <2>2
  <1>2. ASSUME UNCHANGED <<queue, op, interrupt, step>>, settingsOk' PROVE CauseInv'
    BY <1>2 DEF CauseInv, InterruptHasCause
  <1>3. ASSUME NEW o \in Operation, Request(o) PROVE CauseInv'
    <2>1. interrupt' => interrupt \/ o.kind \in {"start", "shutdown"}
      BY <1>3 DEF Request, Operation
    <2>2. /\ Len(queue') = Len(queue) + 1
          /\ queue'[Len(queue) + 1] = o
          /\ \A i \in 1..Len(queue) : queue'[i] = queue[i]
      BY <1>3 DEF Request
    <2>3. UNCHANGED <<op, step, settingsOk>>
      BY <1>3 DEF Request, gatewayVars
    <2>4. QED
      BY <2>1, <2>2, <2>3 DEF CauseInv, InterruptHasCause
  <1>4. CASE Acquire
    <2>1. /\ op' = queue[1]
          /\ Len(queue') = Len(queue) - 1
          /\ \A i \in 2..Len(queue) : queue'[i - 1] = queue[i]
          /\ UNCHANGED <<interrupt, settingsOk>>
      BY <1>4 DEF Acquire, gatewayVars
    <2>2. op.kind = "none" /\ step' # "idle"
      BY <1>4 DEF CauseInv, NoOp, Acquire, FirstStep
    <2>3. ASSUME interrupt
          PROVE  \/ op'.kind \in {"start", "shutdown"}
                 \/ \E i \in 1..Len(queue') : queue'[i].kind \in {"start", "shutdown"}
      <3>1. PICK i \in 1..Len(queue) : queue[i].kind \in {"start", "shutdown"}
        BY <2>2, <2>3 DEF CauseInv, InterruptHasCause
      <3>2. CASE i = 1
        BY <2>1, <3>1, <3>2
      <3>3. CASE i # 1
        <4>1. i \in 2..Len(queue) /\ i - 1 \in 1..Len(queue')
          BY <2>1, <3>3
        <4>2. queue'[i - 1].kind \in {"start", "shutdown"}
          BY <2>1, <3>1, <4>1
        <4>3. QED
          BY <4>1, <4>2
      <3>4. QED
        BY <3>2, <3>3
    <2>4. QED
      BY <2>1, <2>2, <2>3 DEF CauseInv, InterruptHasCause
  <1>5. CASE MinHoldEnds
    <2>1. ~interrupt' /\ step' # "idle" /\ UNCHANGED settingsOk
      BY <1>5 DEF MinHoldEnds, gatewayVars
    <2>2. QED
      BY <2>1 DEF CauseInv, InterruptHasCause
  <1>6. CASE StartReadiness
    <2>1. Kept \/ Released
      BY <1>6 DEF StartReadiness, ProbeReadiness, CauseInv
    <2>2. QED
      BY <1>6, <2>1, <1>1 DEF StartReadiness, ProbeReadiness, CauseInv
  <1>7. CASE IdlePump
    BY <1>7, <1>1 DEF IdlePump, SetPump, CauseInv
  <1>8. CASE Replace
    <2>1. PICK result \in Results :
            /\ ReplaceValvesExact(ProfileValves[op.key], result)
            /\ result # "raise" => AfterValves \/ Cleanup
      BY <1>8 DEF Replace
    <2>2. result # "raise" /\ settingsOk'
      BY <2>1 DEF ReplaceValvesExact, CauseInv
    <2>3. Kept \/ Released
      BY <1>8, <2>1, <2>2 DEF Replace, AfterValves, Proceed, Completed, Cleanup
    <2>4. QED
      BY <2>2, <2>3, <1>1
  <1>9. CASE Engage
    <2>1. (AfterValves \/ Proceed("engage") \/ Cleanup) /\ settingsOk'
      BY <1>9 DEF Engage, SetValve, CauseInv, gatewayVars
    <2>2. Kept \/ Released
      BY <1>9, <2>1 DEF Engage, AfterValves, Proceed, Completed, Cleanup
    <2>3. QED
      BY <2>1, <2>2, <1>1
  <1>10. CASE EngagePump
    <2>1. (Completed(op.key) \/ Cleanup) /\ settingsOk'
      BY <1>10 DEF EngagePump, SetPump, CauseInv
    <2>2. Kept \/ Released
      BY <1>10, <2>1 DEF EngagePump, Completed, Cleanup
    <2>3. QED
      BY <2>1, <2>2, <1>1
  <1>11. CASE DownPump
    BY <1>11, <1>1 DEF DownPump, SetPump, CauseInv
  <1>12. ASSUME NEW valvesOk \in BOOLEAN, DownReturns(valvesOk), UNCHANGED <<queue, settingsOk>>
         PROVE  CauseInv'
    <2>1. DownStatus(valvesOk) \in Statuses \ {"error"}
      BY DEF DownStatus
    <2>2. Kept \/ Released
      BY <1>12, <2>1 DEF DownReturns
    <2>3. QED
      BY <1>12, <2>2, <1>1 DEF CauseInv
  <1>13. CASE DownReady
    <2>1. UNCHANGED <<queue, settingsOk>>
      BY <1>13 DEF DownReady, ProbeReadiness, gatewayVars
    <2>2. Kept \/ DownReturns(FALSE)
      BY <1>13 DEF DownReady, ProbeReadiness, CauseInv
    <2>3. QED
      BY <2>1, <2>2, <1>12, <1>1 DEF CauseInv
  <1>14. CASE DownBulk
    <2>1. UNCHANGED <<queue, settingsOk>>
      BY <1>14 DEF DownBulk, AllValvesOff
    <2>2. Kept \/ DownReturns(TRUE)
      BY <1>14 DEF DownBulk
    <2>3. QED
      BY <2>1, <2>2, <1>12, <1>1 DEF CauseInv
  <1>15. CASE DownEach
    <2>1. UNCHANGED <<queue, settingsOk>>
      BY <1>15 DEF DownEach, SetValve, gatewayVars
    <2>2. UNCHANGED <<op, step, interrupt>> \/ DownReturns(opOk)
      BY <1>15 DEF DownEach
    <2>3. QED
      BY <2>1, <2>2, <1>12, <1>2 DEF CauseInv
  <1>16. CASE HoldAges
    BY <1>16, <1>2 DEF HoldAges, gatewayVars, CauseInv
  <1>17. CASE ValveKey
    BY <1>17, <1>2 DEF ValveKey, holdVars, SetValve, CauseInv
  <1>18. CASE Environment
    BY <1>18, <1>2 DEF Environment, holdVars, Detach, Attach, CauseInv
  <1>19. CASE UNCHANGED vars
    BY <1>19, <1>2 DEF vars, holdVars, gatewayVars, CauseInv
  <1>20. QED
    BY <1>3, <1>4, <1>5, <1>6, <1>7, <1>8, <1>9, <1>10, <1>11, <1>13, <1>14, <1>15,
       <1>16, <1>17, <1>18, <1>19 DEF Next, HolderStep

(* While no exception can occur (steady supply, readable settings), an     *)
(* interrupt event of hui_hold.py is never stale: a stop that finds it set *)
(* has a start or a shutdown behind it.                                    *)
THEOREM InterruptCaused ==
    ASSUME ~Undervoltage, ~MayDamage
    PROVE  Spec => []InterruptHasCause
  <1>1. Init => CauseInv
    BY DEF Init, GatewayInit, CauseInv, InterruptHasCause
  <1>2. TypeInv /\ CauseInv /\ [Next]_vars => CauseInv'
    BY CauseInvNext
  <1>3. CauseInv => InterruptHasCause
    BY DEF CauseInv
  <1>4. QED
    BY TypeInvInit, TypeInvNext, <1>1, <1>2, <1>3, PTL DEF Spec
-----------------------------------------------------------------------------
(* Why the active hold is what a stand with only the M5 module does.  The  *)
(* readiness probe of a start then leads to the exact replace or ends the  *)
(* start, never to the legacy engagement.  From its first command to the   *)
(* hardware a start either becomes the active hold or cleans up, and the   *)
(* cleanup forgets the hold before anything else.                          *)
Drives(key) ==
    /\ coils[M5] = ProfileValves[key]
    /\ ProfilePump[key] > 0 => pump = ProfilePump[key]

RecipeInv ==
    /\ settingsOk
    /\ step # "engage" /\ after # "engage"
    /\ step \in {"idle", "ready", "minHold"} /\ active # None => Drives(active)
    /\ step = "engagePump" => coils[M5] = ProfileValves[op.key]
    /\ step \in {"downReady", "downBulk", "downEach"} => active = None

(* A request that is done leaves the idle HUI with no hold or with one     *)
(* that the hardware follows.                                              *)
LEMMA RecipeIdle ==
    ASSUME RecipeInv, settingsOk', step' = "idle", UNCHANGED after,
           active' = None \/ Drives(active)'
    PROVE  RecipeInv'
  BY DEF RecipeInv

LEMMA RecipeInvNext ==
    ASSUME Controllers = {M5}, ~Undervoltage, ~MayDamage, KeyValves = {},
           TypeInv, RecipeInv, [Next]_vars
    PROVE  RecipeInv'
  <1> USE DEF TypeInv, TypeOK, GatewayTypeOK
  <1>1. ASSUME UNCHANGED <<after, active, op, coils, pump, settingsOk, step>>
        PROVE  RecipeInv'
    BY <1>1 DEF RecipeInv, Drives
  <1>2. ASSUME step' \in {"idlePump", "replace", "downPump"}, settingsOk', after' # "engage"
        PROVE  RecipeInv'
    BY <1>2 DEF RecipeInv
  <1>3. ASSUME NEW o \in Operation, Request(o) PROVE RecipeInv'
    BY <1>3, <1>1 DEF Request, gatewayVars
  <1>4. CASE Acquire
    <2>1. /\ step = "idle" /\ step' \in {"ready", "minHold", "downPump"}
          /\ after' = "report"
          /\ UNCHANGED <<active, coils, pump, settingsOk>>
      BY <1>4 DEF Acquire, FirstStep, gatewayVars
    <2>2. QED
      BY <2>1 DEF RecipeInv, Drives
  <1>5. CASE MinHoldEnds
    BY <1>5, <1>2 DEF MinHoldEnds, RecipeInv, gatewayVars
  <1>6. CASE StartReadiness
    <2>1. PICK result \in Results :
            /\ ProbeReadiness(result)
            /\ \/ result = "raise"
               \/ Release("failed") /\ UNCHANGED after
               \/ /\ result = "ok"
                  /\ \/ step' \in {"idlePump", "replace"} /\ UNCHANGED after
                     \/ M5 \notin Controllers \cap plugins'
      BY <1>6 DEF StartReadiness
    <2>2. settingsOk' /\ UNCHANGED <<coils, pump>> /\ result # "raise"
      BY <2>1 DEF ProbeReadiness, RecipeInv
    <2>3. step = "ready" /\ UNCHANGED active
      BY <1>6 DEF StartReadiness
    <2>4. CASE Release("failed") /\ UNCHANGED after
      BY <2>2, <2>3, <2>4, RecipeIdle DEF Release, RecipeInv, Drives
    <2>5. CASE step' \in {"idlePump", "replace"} /\ UNCHANGED after
      BY <2>2, <2>5, <1>2 DEF RecipeInv
    <2>6. ASSUME result = "ok" PROVE M5 \in Controllers \cap plugins'
      <3>1. GatewayTypeOK'
        BY <2>1, ProbeType
      <3>2. plugins' # {} /\ plugins' \subseteq {M5}
        BY <2>1, <2>6, <3>1 DEF ProbeReadiness
      <3>3. QED
        BY <3>2
    <2>7. QED
      BY <2>1, <2>2, <2>4, <2>5, <2>6
  <1>7. CASE IdlePump
    BY <1>7, <1>2 DEF IdlePump, SetPump, RecipeInv
  <1>8. CASE Replace
    <2>1. PICK result \in Results :
            /\ ReplaceValvesExact(ProfileValves[op.key], result)
            /\ \/ result = "raise"
               \/ result = "ok" /\ AfterValves
               \/ Cleanup
      BY <1>8 DEF Replace
    <2>2. settingsOk' /\ result # "raise"
      BY <2>1 DEF ReplaceValvesExact, RecipeInv
    <2>3. op.key \in Keys /\ ProfilePump[op.key] \in Nat
      BY <1>8, StartHasKey, GatewayAssumption DEF Replace, StepsOfStart
    <2>4. CASE Cleanup
      BY <2>2, <2>4, <1>2 DEF Cleanup
    <2>5. CASE result = "ok" /\ AfterValves
      <3>1. coils'[M5] = ProfileValves[op.key]
        BY <2>1, <2>5 DEF ReplaceValvesExact
      <3>2. CASE ProfilePump[op.key] > 0
        BY <2>2, <2>5, <3>1, <3>2 DEF AfterValves, Proceed, RecipeInv
      <3>3. CASE ~(ProfilePump[op.key] > 0)
        <4>1. active' = op.key /\ step' = "idle" /\ UNCHANGED after
          BY <2>5, <3>3 DEF AfterValves, Completed, Release
        <4>2. Drives(active)'
          BY <4>1, <3>1, <3>3 DEF Drives
        <4>3. QED
          BY <2>2, <4>1, <4>2, RecipeIdle
      <3>4. QED
        BY <3>2, <3>3
    <2>6. QED
      BY <2>1, <2>2, <2>4, <2>5
  <1>9. CASE Engage
    BY <1>9 DEF Engage, RecipeInv
  <1>10. CASE EngagePump
    <2>1. PICK result \in Results :
            /\ SetPump(ProfilePump[op.key], result)
            /\ \/ result = "raise"
               \/ result = "ok" /\ Completed(op.key) /\ UNCHANGED after
               \/ Cleanup
      BY <1>10 DEF EngagePump
    <2>2. settingsOk' /\ UNCHANGED coils /\ result # "raise"
      BY <2>1 DEF SetPump, RecipeInv
    <2>3. CASE Cleanup
      BY <2>2, <2>3, <1>2 DEF Cleanup
    <2>4. CASE result = "ok" /\ Completed(op.key) /\ UNCHANGED after
      <3>1. coils'[M5] = ProfileValves[op.key] /\ pump' = ProfilePump[op.key]
        BY <1>10, <2>1, <2>2, <2>4 DEF EngagePump, SetPump, RecipeInv
      <3>2. active' = op.key /\ step' = "idle"
        BY <2>4 DEF Completed, Release
      <3>3. Drives(active)'
        BY <3>1, <3>2 DEF Drives
      <3>4. QED
        BY <2>2, <2>4, <3>2, <3>3, RecipeIdle
    <2>5. QED
      BY <2>1, <2>2, <2>3, <2>4
  <1>11. CASE DownPump
    <2>1. /\ active' = None /\ step' = "downReady"
          /\ UNCHANGED after
      BY <1>11 DEF DownPump
    <2>2. settingsOk'
      BY <1>11 DEF DownPump, SetPump, RecipeInv
    <2>3. QED
      BY <2>1, <2>2 DEF RecipeInv
  <1>12. ASSUME step \in {"downReady", "downBulk", "downEach"},
                UNCHANGED <<after, active>>, settingsOk',
                \/ step' \in {"downReady", "downBulk", "downEach"}
                \/ \E valvesOk \in BOOLEAN : DownReturns(valvesOk)
         PROVE  RecipeInv'
    <2>1. active' = None /\ after # "engage"
      BY <1>12 DEF RecipeInv
    <2>2. ASSUME NEW valvesOk \in BOOLEAN, DownReturns(valvesOk) PROVE step' = "idle"
      BY <2>1, <2>2 DEF DownReturns, Release
    <2>3. CASE step' = "idle"
      BY <1>12, <2>1, <2>3, RecipeIdle
    <2>4. CASE step' \in {"downReady", "downBulk", "downEach"}
      BY <1>12, <2>1, <2>4 DEF RecipeInv
    <2>5. QED
      BY <1>12, <2>2, <2>3, <2>4
  <1>13. CASE DownReady
    <2>1. UNCHANGED <<after, active>> /\ settingsOk' /\ step = "downReady"
      BY <1>13 DEF DownReady, ProbeReadiness, RecipeInv, gatewayVars
    <2>2. step' = "downBulk" \/ DownReturns(FALSE)
      BY <1>13 DEF DownReady, ProbeReadiness, RecipeInv
    <2>3. QED
      BY <2>1, <2>2, <1>12
  <1>14. CASE DownBulk
    <2>1. UNCHANGED <<after, active>> /\ settingsOk' /\ step = "downBulk"
      BY <1>14 DEF DownBulk, AllValvesOff, RecipeInv
    <2>2. step' = "downEach" \/ DownReturns(TRUE)
      BY <1>14 DEF DownBulk
    <2>3. QED
      BY <2>1, <2>2, <1>12
  <1>15. CASE DownEach
    <2>1. UNCHANGED <<after, active>> /\ settingsOk' /\ step = "downEach"
      BY <1>15 DEF DownEach, SetValve, RecipeInv, gatewayVars
    <2>2. step' = "downEach" \/ DownReturns(opOk)
      BY <1>15, <2>1 DEF DownEach
    <2>3. QED
      BY <2>1, <2>2, <1>12
  <1>16. CASE HoldAges
    BY <1>16, <1>1 DEF HoldAges, gatewayVars
  <1>17. CASE ValveKey
    BY <1>17 DEF ValveKey
  <1>18. CASE Environment
    BY <1>18, <1>1 DEF Environment, holdVars, Detach, Attach
  <1>19. CASE UNCHANGED vars
    BY <1>19, <1>1 DEF vars, holdVars, gatewayVars
  <1>20. QED
    BY <1>3, <1>4, <1>5, <1>6, <1>7, <1>8, <1>9, <1>10, <1>11, <1>13, <1>14, <1>15,
       <1>16, <1>17, <1>18, <1>19 DEF Next, HolderStep

(* On a stand whose only valve module is the M5 module, with a steady      *)
(* supply, readable settings and no valve keys, the active hold of         *)
(* hui_hold.py is what the hardware does between two operations: exactly   *)
(* its valves are energised and its pump runs, whatever commands failed,   *)
(* were applied unnoticed, or lost the module on the way.                  *)
THEOREM RecipeIsDriven ==
    ASSUME Controllers = {M5}, ~Undervoltage, ~MayDamage, KeyValves = {}
    PROVE  Spec => []HoldDrivesItsRecipe
  <1>1. Init => RecipeInv
    BY DEF Init, GatewayInit, RecipeInv
  <1>2. TypeInv /\ RecipeInv /\ [Next]_vars => RecipeInv'
    BY RecipeInvNext
  <1>3. RecipeInv => HoldDrivesItsRecipe
    BY DEF RecipeInv, Drives, HoldDrivesItsRecipe, Energised
  <1>4. QED
    BY TypeInvInit, TypeInvNext, <1>1, <1>2, <1>3, PTL DEF Spec
=============================================================================
