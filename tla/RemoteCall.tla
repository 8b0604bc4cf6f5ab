----------------------------- MODULE RemoteCall -----------------------------
(***************************************************************************)
(* What the OQL-over-MQTT bridge promises its callers, without a network:  *)
(* a call is made once, it returns either an answer, which implies that    *)
(* its OQL was executed, or a timeout, which implies nothing; one life of  *)
(* the hardware agent executes it at most once; every call returns.        *)
(* MqttBridge is shown to implement this module.                           *)
(***************************************************************************)
EXTENDS Naturals

CONSTANT Calls

VARIABLES
  phase,      \* of each call: not made, made, answered or timed out
  runs,       \* executions of each call by the agent now alive
  everRan     \* the calls executed by some life of the agent

vars == <<phase, runs, everRan>>

Init ==
  /\ phase = [c \in Calls |-> "idle"]
  /\ runs = [c \in Calls |-> 0]
  /\ everRan = {}

Call(c) ==
  /\ phase[c] = "idle"
  /\ phase' = [phase EXCEPT ![c] = "called"]
  /\ UNCHANGED <<runs, everRan>>

\* Also after the caller was told that its call timed out.
Run(c) ==
  /\ phase[c] # "idle" /\ runs[c] = 0
  /\ runs' = [runs EXCEPT ![c] = 1]
  /\ everRan' = everRan \cup {c}
  /\ UNCHANGED phase

Answer(c) ==
  /\ phase[c] = "called" /\ c \in everRan
  /\ phase' = [phase EXCEPT ![c] = "answered"]
  /\ UNCHANGED <<runs, everRan>>

TimeOut(c) ==
  /\ phase[c] = "called"
  /\ phase' = [phase EXCEPT ![c] = "timedout"]
  /\ UNCHANGED <<runs, everRan>>

NewLife ==
  /\ runs' = [c \in Calls |-> 0]
  /\ UNCHANGED <<phase, everRan>>

Next ==
  \/ \E c \in Calls : Call(c) \/ Run(c) \/ Answer(c) \/ TimeOut(c)
  \/ NewLife

Spec ==
  /\ Init /\ [][Next]_vars
  /\ \A c \in Calls : WF_vars(Answer(c) \/ TimeOut(c))
=============================================================================
