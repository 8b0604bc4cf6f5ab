----------------------------- MODULE MqttBridge -----------------------------
(***************************************************************************)
(* OQL over MQTT: the controller on the application node publishes a       *)
(* request and awaits the correlated answer; the agent on the hardware Pi  *)
(* runs the requests one at a time and publishes the answers               *)
(* (oqlos/hardware/transport/mqtt_oql_bridge.py).                          *)
(*                                                                         *)
(* The broker and the two paho clients are external and modelled by what   *)
(* the bridge relies on: QoS-1 messages are delivered at least once while  *)
(* both ends are connected, a clean session keeps nothing for an absent    *)
(* subscriber, and the last will of a session is published when the broker *)
(* notices, possibly much later, that the session died.                    *)
(***************************************************************************)
EXTENDS Naturals, Sequences, SequencesExt

CONSTANTS Calls,      \* calls of OqlMqttController.execute
          Ids,        \* correlation ids
          Corr,       \* the id of each call; HTTP clients may choose it, so
                      \* two calls can carry one id
          DedupeTtl,  \* dedupe_ttl of the agent
          MaxFaults,  \* bound on the faults of each kind a behaviour contains
          None        \* no call

FaultKinds == {"duplicate", "linkloss", "restart"}

ASSUME CorrAssumption == Corr \in [Calls -> Ids]
ASSUME BoundAssumption == DedupeTtl \in Nat /\ MaxFaults \in [FaultKinds -> Nat]
ASSUME NoneAssumption == None \notin Calls

VARIABLES
  outcome,    \* where each call of execute stands
  answer,     \* the request whose answer resolved the call's future
  pending,    \* OqlMqttController._pending: the call owning an id's future
  requests,   \* copies of each call's request the broker is delivering
  responses,  \* copies of the answers to each call's request on their way
  link,       \* the agent: down, connected, or cut off from the broker
  wills,      \* agent sessions that died and the broker has not noticed
  status,     \* the retained payload of the status topic
  seen,       \* OqlMqttAgent._seen, oldest insertion first
  queue,      \* handlers in _exec_lock's FIFO, the holder first
  busy,       \* the holder is executing its OQL
  ran,        \* executions of each call's OQL by the agent's process
  everRan,    \* history: the calls executed by any process of the agent
  faults      \* faults so far, by kind

controllerVars == <<outcome, answer, pending>>
networkVars == <<requests, responses>>
linkVars == <<link, wills, status>>
agentVars == <<seen, queue, busy, ran, everRan>>
vars == <<controllerVars, networkVars, linkVars, agentVars, faults>>

Returned == {"answered", "timedout"}

Session == faults["restart"]      \* every agent process has a client id of its own
Fault(kind) == /\ faults[kind] < MaxFaults[kind]
               /\ faults' = [faults EXCEPT ![kind] = @ + 1]

Init ==
  /\ outcome = [c \in Calls |-> "idle"]
  /\ answer = [c \in Calls |-> None]
  /\ pending = [i \in Ids |-> None]
  /\ requests = [c \in Calls |-> 0]
  /\ responses = [c \in Calls |-> 0]
  /\ link = "down" /\ wills = {} /\ status = "unset"
  /\ seen = <<>> /\ queue = <<>> /\ busy = FALSE
  /\ ran = [c \in Calls |-> 0] /\ everRan = {}
  /\ faults = [k \in FaultKinds |-> 0]

----------------------------------------------------------------------------
(* The controller *)

\* Register the future under the id, replacing whatever it holds, and publish.
Execute(c) ==
  /\ outcome[c] = "idle"
  /\ outcome' = [outcome EXCEPT ![c] = "waiting"]
  /\ pending' = [pending EXCEPT ![Corr[c]] = c]
  /\ requests' = [requests EXCEPT ![c] = @ + 1]
  /\ UNCHANGED <<answer, responses, linkVars, agentVars, faults>>

\* Mutant: answers are matched by arrival instead of by correlation id.
ResolveAnyWaiting(c) ==
  LET hit == {d \in Calls : outcome[d] = "waiting"} IN
    /\ outcome' = [d \in Calls |-> IF d \in hit THEN "resolved" ELSE outcome[d]]
    /\ answer' = [d \in Calls |-> IF d \in hit THEN c ELSE answer[d]]

\* Mutant: the future is resolved with the id instead of the answer.
ResolveWithId(c) ==
  LET owner == pending[Corr[c]]
      hit == {d \in Calls : d = owner /\ outcome[d] = "waiting"} IN
    /\ outcome' = [d \in Calls |-> IF d \in hit THEN "resolved" ELSE outcome[d]]
    /\ answer' = [d \in Calls |-> IF d \in hit THEN Corr[c] ELSE answer[d]]

\* The answer goes to whichever future the id holds, unless it is done.
Resolve(c) ==
  LET owner == pending[Corr[c]]
      hit == {d \in Calls : d = owner /\ outcome[d] = "waiting"} IN
    /\ outcome' = [d \in Calls |-> IF d \in hit THEN "resolved" ELSE outcome[d]]
    /\ answer' = [d \in Calls |-> IF d \in hit THEN c ELSE answer[d]]

ResolveResponse(c) ==
  /\ responses[c] > 0
  /\ responses' = [responses EXCEPT ![c] = @ - 1]
  /\ Resolve(c)
  /\ UNCHANGED <<pending, requests, linkVars, agentVars, faults>>

\* wait_for gives up: the future is cancelled, execute has not resumed yet.
Expire(c) ==
  /\ outcome[c] = "waiting"
  /\ outcome' = [outcome EXCEPT ![c] = "expired"]
  /\ UNCHANGED <<answer, pending, networkVars, linkVars, agentVars, faults>>

\* Mutant: the finally clause clears the whole table.
UnregisterAll(c) == pending' = [i \in Ids |-> None]

\* The finally clause: the id's entry goes, whoever registered it.
Unregister(c) == pending' = [pending EXCEPT ![Corr[c]] = None]

Finish(c) ==
  /\ \/ /\ outcome[c] = "resolved"
        /\ outcome' = [outcome EXCEPT ![c] = "answered"]
     \/ /\ outcome[c] = "expired"
        /\ outcome' = [outcome EXCEPT ![c] = "timedout"]
  /\ Unregister(c)
  /\ UNCHANGED <<answer, networkVars, linkVars, agentVars, faults>>

----------------------------------------------------------------------------
(* The agent *)

\* Mutant: only the first id is ever kept.
RememberFirst(i) ==
  LET s == Append(seen, i) IN IF Len(s) > 1 THEN Front(s) ELSE s

\* An id is remembered at the end; over the limit, the oldest is forgotten.
Remember(i) ==
  LET s == Append(seen, i) IN IF Len(s) > DedupeTtl THEN Tail(s) ELSE s

\* A redelivered request is dropped without an answer.
HandleRequest(c) ==
  /\ link = "connected" /\ requests[c] > 0
  /\ requests' = [requests EXCEPT ![c] = @ - 1]
  /\ \/ /\ Contains(seen, Corr[c])
        /\ UNCHANGED <<seen, queue>>
     \/ /\ ~Contains(seen, Corr[c])
        /\ seen' = Remember(Corr[c])
        /\ queue' = Append(queue, c)
  /\ UNCHANGED <<controllerVars, responses, linkVars, busy, ran, everRan, faults>>

RunOql ==
  /\ queue # <<>> /\ ~busy
  /\ busy' = TRUE
  /\ ran' = [ran EXCEPT ![Head(queue)] = @ + 1]
  /\ everRan' = everRan \cup {Head(queue)}
  /\ UNCHANGED <<controllerVars, networkVars, linkVars, seen, queue, faults>>

\* The lock is released and the answer published, in one step of the loop.
Reply ==
  /\ busy
  /\ busy' = FALSE
  /\ responses' = [responses EXCEPT ![Head(queue)] = @ + 1]
  /\ queue' = Tail(queue)
  /\ UNCHANGED <<controllerVars, requests, linkVars, seen, ran, everRan, faults>>

\* start: connect with the will set, subscribe, then announce online.
AgentStart ==
  /\ link = "down"
  /\ link' = "connected" /\ status' = "online"
  /\ UNCHANGED <<controllerVars, networkVars, wills, agentVars, faults>>

\* Nothing the agent knows survives its process.
Forget ==
  /\ seen' = <<>> /\ queue' = <<>> /\ busy' = FALSE
  /\ ran' = [c \in Calls |-> 0]
  /\ UNCHANGED everRan

\* Mutant: stop leaves the announcement to the broker.
FarewellByWill == UNCHANGED status

\* A clean DISCONNECT discards the will, so stop publishes offline itself.
Farewell == status' = IF link = "connected" THEN "offline" ELSE status

AgentStop ==
  /\ link # "down"
  /\ Fault("restart")
  /\ link' = "down"
  /\ Farewell
  /\ Forget
  /\ UNCHANGED <<controllerVars, networkVars, wills>>

AgentCrash ==
  /\ link # "down"
  /\ Fault("restart")
  /\ link' = "down"
  /\ wills' = IF link = "connected" THEN wills \cup {Session} ELSE wills
  /\ Forget
  /\ UNCHANGED <<controllerVars, networkVars, status>>

----------------------------------------------------------------------------
(* The broker and the network *)

LinkLost ==
  /\ link = "connected"
  /\ Fault("linkloss")
  /\ link' = "lost" /\ wills' = wills \cup {Session}
  /\ UNCHANGED <<controllerVars, networkVars, status, agentVars>>

\* paho reconnects with its own client id: the broker first closes the dead
\* session, publishing its will; _handle_connect only subscribes again.
Reconnect ==
  /\ link = "lost"
  /\ link' = "connected"
  /\ status' = IF Session \in wills THEN "offline" ELSE status
  /\ wills' = wills \ {Session}
  /\ UNCHANGED <<controllerVars, networkVars, agentVars, faults>>

\* The keepalive of a dead session runs out and its will is published.
BrokerNotices ==
  \E s \in wills :
    /\ wills' = wills \ {s} /\ status' = "offline"
    /\ UNCHANGED <<controllerVars, networkVars, link, agentVars, faults>>

\* The controller's client resends a publish whose acknowledgement was lost.
Redeliver(c) ==
  /\ outcome[c] # "idle"
  /\ Fault("duplicate")
  /\ requests' = [requests EXCEPT ![c] = @ + 1]
  /\ UNCHANGED <<controllerVars, responses, linkVars, agentVars>>

\* Nobody is subscribed to the request topic while the agent is away.
LoseRequest(c) ==
  /\ link # "connected" /\ requests[c] > 0
  /\ requests' = [requests EXCEPT ![c] = @ - 1]
  /\ UNCHANGED <<controllerVars, responses, linkVars, agentVars, faults>>

\* The controller is away, or the agent died with the answer unsent.
LoseResponse(c) ==
  /\ responses[c] > 0
  /\ responses' = [responses EXCEPT ![c] = @ - 1]
  /\ UNCHANGED <<controllerVars, requests, linkVars, agentVars, faults>>

----------------------------------------------------------------------------
Agent == RunOql \/ Reply \/ AgentStart \/ AgentStop \/ AgentCrash

Next ==
  \/ \E c \in Calls : \/ Execute(c) \/ ResolveResponse(c) \/ Expire(c)
                      \/ Finish(c) \/ HandleRequest(c) \/ Redeliver(c)
                      \/ LoseRequest(c) \/ LoseResponse(c)
  \/ Agent
  \/ LinkLost \/ Reconnect \/ BrokerNotices
  \/ /\ \A c \in Calls : outcome[c] \in Returned \* everyone has an answer
     /\ UNCHANGED vars

Spec == Init /\ [][Next]_vars

\* The event loop runs due timers and wakes the awaiting tasks; the paho
\* thread keeps reconnecting; a keepalive always runs out.
FairSpec ==
  /\ Spec
  /\ \A c \in Calls : WF_vars(Expire(c)) /\ WF_vars(Finish(c))
  /\ WF_vars(Reconnect) /\ WF_vars(BrokerNotices)

----------------------------------------------------------------------------
(* Properties *)

\* Every variable has its type; the memory of the agent keeps its limit.
TypeOK ==
  /\ outcome \in [Calls -> {"idle", "waiting", "resolved", "expired"} \cup Returned]
  /\ answer \in [Calls -> Calls \cup {None}]
  /\ pending \in [Ids -> Calls \cup {None}]
  /\ requests \in [Calls -> Nat] /\ responses \in [Calls -> Nat]
  /\ link \in {"down", "connected", "lost"}
  /\ wills \in SUBSET (0 .. MaxFaults["restart"])
  /\ status \in {"unset", "online", "offline"}
  /\ seen \in Seq(Ids) /\ Len(seen) <= DedupeTtl
  /\ queue \in Seq(Calls) /\ busy \in BOOLEAN
  /\ ran \in [Calls -> Nat] /\ everRan \subseteq Calls
  /\ faults \in [FaultKinds -> Nat]

\* A call whose future still waits is the one its id leads to: an answer that
\* arrives in time can always be matched (the _pending table of execute).
WaitingIsRegistered ==
  \A c \in Calls : outcome[c] = "waiting" => pending[Corr[c]] = c

\* A caller is handed the answer to its own request, and that request did run
\* on the hardware node (correlation of execute and _handle_request).
AnswersOwnRequest ==
  \A c \in Calls : answer[c] # None => answer[c] = c /\ c \in everRan

\* Once the broker has noticed every dead session, the retained status never
\* calls an absent agent online (last will and stop).
NoStaleOnline == link # "connected" /\ wills = {} => status # "online"

\* What a caller may rely on: its call returns; an answer means that the OQL
\* ran; and no process of the agent runs it twice, whatever QoS 1 redelivers
\* (execute, _handle_request and _run_oql implement RemoteCall).
Phase(c) == IF outcome[c] \in {"waiting", "resolved", "expired"}
            THEN "called" ELSE outcome[c]

Remote == INSTANCE RemoteCall
  WITH phase <- [c \in Calls |-> Phase(c)], runs <- ran, everRan <- everRan

ImplementsRemoteCall == Remote!Spec

\* An agent that stays connected is announced as online in the end
\* (the retained status topic).
StatusRecovers == <>[](link = "connected") => <>[](status = "online")
=============================================================================
