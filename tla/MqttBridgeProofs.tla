-------------------------- MODULE MqttBridgeProofs --------------------------
(***************************************************************************)
(* Theorems about MqttBridge, for every set of calls and every number of   *)
(* faults.  The type, the status and the refinement of RemoteCall are      *)
(* proved as they stand or under the assumptions that their statement      *)
(* names: callers with correlation ids of their own (execute makes a uuid  *)
(* when the caller gives none), and an agent that can remember every id.   *)
(***************************************************************************)
EXTENDS MqttBridge, FiniteSetTheorems, SequenceTheorems, TLAPS

\* The type invariant, by the parts that actions change together.
MessageTypes ==
  /\ outcome \in [Calls -> {"idle", "waiting", "resolved", "expired"} \cup Returned]
  /\ answer \in [Calls -> Calls \cup {None}]
  /\ pending \in [Ids -> Calls \cup {None}]
  /\ requests \in [Calls -> Nat] /\ responses \in [Calls -> Nat]

LinkTypes ==
  /\ link \in {"down", "connected", "lost"}
  /\ wills \in SUBSET (0 .. MaxFaults["restart"])
  /\ status \in {"unset", "online", "offline"}
  /\ faults \in [FaultKinds -> Nat]
  /\ \A k \in FaultKinds : faults[k] <= MaxFaults[k]

AgentTypes ==
  /\ seen \in Seq(Ids) /\ Len(seen) <= DedupeTtl
  /\ queue \in Seq(Calls) /\ busy \in BOOLEAN
  /\ busy => queue # <<>>
  /\ ran \in [Calls -> Nat] /\ everRan \subseteq Calls

TypeInv == MessageTypes /\ LinkTypes /\ AgentTypes

LEMMA TypeInvIsTyped == TypeInv => TypeOK
  BY DEF TypeInv, TypeOK, MessageTypes, LinkTypes, AgentTypes

LEMMA FaultType ==
  ASSUME LinkTypes, NEW kind \in FaultKinds, Fault(kind)
  PROVE  /\ faults' \in [FaultKinds -> Nat]
         /\ \A k \in FaultKinds : faults'[k] <= MaxFaults[k]
         /\ Session \in 0..MaxFaults["restart"]
  <1>1. \A k \in FaultKinds : faults[k] \in Nat /\ MaxFaults[k] \in Nat
    BY BoundAssumption DEF LinkTypes
  <1>2. \A k \in FaultKinds : faults'[k] = IF k = kind THEN faults[k] + 1 ELSE faults[k]
    BY DEF Fault, LinkTypes
  <1>3. faults' \in [FaultKinds -> Nat]
    BY <1>1, <1>2 DEF Fault, LinkTypes
  <1>4. \A k \in FaultKinds : faults'[k] <= MaxFaults[k]
    BY <1>1, <1>2 DEF Fault, LinkTypes
  <1>5. Session \in 0..MaxFaults["restart"]
    BY <1>1 DEF Session, LinkTypes, FaultKinds
  <1>6. QED
    BY <1>3, <1>4, <1>5

LEMMA RememberType ==
  ASSUME seen \in Seq(Ids), Len(seen) <= DedupeTtl, NEW i \in Ids
  PROVE  Remember(i) \in Seq(Ids) /\ Len(Remember(i)) <= DedupeTtl
  <1> DEFINE s == Append(seen, i)
  <1>1. s \in Seq(Ids) /\ s # <<>> /\ Len(s) = Len(seen) + 1 /\ Len(seen) \in Nat
    BY AppendProperties, LenProperties
  <1>2. Tail(s) \in Seq(Ids) /\ Len(Tail(s)) = Len(s) - 1
    BY <1>1, HeadTailProperties
  <1> HIDE DEF s
  <1>3. DedupeTtl \in Nat
    BY BoundAssumption
  <1>4. CASE Len(s) > DedupeTtl
    <2>1. Remember(i) = Tail(s)
      BY <1>4 DEF Remember, s
    <2>2. QED
      BY <1>1, <1>2, <1>3, <2>1
  <1>5. CASE ~(Len(s) > DedupeTtl)
    <2>1. Remember(i) = s
      BY <1>5 DEF Remember, s
    <2>2. QED
      BY <1>1, <1>3, <1>5, <2>1
  <1>6. QED
    BY <1>4, <1>5

LEMMA TypeInvInit == Init => TypeInv
  <1> SUFFICES ASSUME Init PROVE TypeInv
    OBVIOUS
  <1>1. MessageTypes
    BY DEF Init, MessageTypes
  <1>2. LinkTypes
    BY BoundAssumption DEF Init, LinkTypes
  <1>3. AgentTypes
    <2>1. seen \in Seq(Ids) /\ Len(seen) = 0 /\ queue \in Seq(Calls)
      BY EmptySeq DEF Init
    <2>2. Len(seen) <= DedupeTtl
      BY <2>1, BoundAssumption
    <2>3. QED
      BY <2>1, <2>2 DEF Init, AgentTypes
  <1>4. QED
    BY <1>1, <1>2, <1>3 DEF TypeInv

LEMMA TypeInvNext == TypeInv /\ [Next]_vars => TypeInv'
  <1> SUFFICES ASSUME TypeInv, [Next]_vars PROVE TypeInv'
    OBVIOUS
  <1> USE DEF TypeInv, controllerVars, networkVars, linkVars, agentVars
  <1>a. UNCHANGED <<controllerVars, networkVars>> => MessageTypes'
    BY DEF MessageTypes
  <1>b. UNCHANGED <<linkVars, faults>> => LinkTypes'
    BY DEF LinkTypes
  <1>c. UNCHANGED agentVars => AgentTypes'
    BY DEF AgentTypes
  <1>1. ASSUME NEW c \in Calls, Execute(c) PROVE TypeInv'
    <2>1. pending' \in [Ids -> Calls \cup {None}]
      BY <1>1 DEF Execute, MessageTypes
    <2>0. requests' \in [Calls -> Nat]
      BY <1>1 DEF Execute, MessageTypes
    <2>2. outcome' \in [Calls -> {"idle", "waiting", "resolved", "expired"} \cup Returned]
      BY <1>1 DEF Execute, MessageTypes
    <2>3. MessageTypes'
      BY <1>1, <2>1, <2>2 DEF Execute, MessageTypes
    <2>4. QED
      BY <1>1, <1>b, <1>c, <2>3 DEF Execute
  <1>2. ASSUME NEW c \in Calls, ResolveResponse(c) PROVE TypeInv'
    <2>1. outcome' \in [Calls -> {"idle", "waiting", "resolved", "expired"} \cup Returned]
      BY <1>2 DEF ResolveResponse, Resolve, MessageTypes
    <2>2. answer' \in [Calls -> Calls \cup {None}]
      BY <1>2 DEF ResolveResponse, Resolve, MessageTypes
    <2>3. responses' \in [Calls -> Nat]
      BY <1>2 DEF ResolveResponse, MessageTypes
    <2>4. MessageTypes'
      BY <1>2, <2>1, <2>2, <2>3 DEF ResolveResponse, MessageTypes
    <2>5. QED
      BY <1>2, <1>b, <1>c, <2>4 DEF ResolveResponse
  <1>3. ASSUME NEW c \in Calls, Expire(c) PROVE TypeInv'
    <2>1. MessageTypes'
      BY <1>3 DEF Expire, MessageTypes
    <2>2. QED
      BY <1>3, <1>b, <1>c, <2>1 DEF Expire
  <1>4. ASSUME NEW c \in Calls, Finish(c) PROVE TypeInv'
    <2>1. MessageTypes'
      BY <1>4 DEF Finish, Unregister, MessageTypes, Returned
    <2>2. QED
      BY <1>4, <1>b, <1>c, <2>1 DEF Finish
  <1>5. ASSUME NEW c \in Calls, HandleRequest(c) PROVE TypeInv'
    <2>1. MessageTypes'
      BY <1>5 DEF HandleRequest, MessageTypes
    <2>2. seen \in Seq(Ids) /\ Len(seen) <= DedupeTtl /\ Corr[c] \in Ids
      BY CorrAssumption DEF AgentTypes
    <2>3. seen' \in Seq(Ids) /\ Len(seen') <= DedupeTtl
      <3>1. seen' = seen \/ seen' = Remember(Corr[c])
        BY <1>5 DEF HandleRequest
      <3>2. QED
        BY <3>1, <2>2, RememberType
    <2>4. queue' \in Seq(Calls) /\ (busy' => queue' # <<>>)
      <3>1. queue' = queue \/ queue' = Append(queue, c)
        BY <1>5 DEF HandleRequest
      <3>2. Append(queue, c) \in Seq(Calls) /\ Append(queue, c) # <<>>
        BY AppendProperties DEF AgentTypes
      <3>3. busy' = busy
        BY <1>5 DEF HandleRequest
      <3>4. QED
        BY <3>1, <3>2, <3>3 DEF AgentTypes
    <2>5. AgentTypes'
      BY <1>5, <2>3, <2>4 DEF HandleRequest, AgentTypes
    <2>6. QED
      BY <1>5, <1>b, <2>1, <2>5 DEF HandleRequest
  <1>6. ASSUME NEW c \in Calls, Redeliver(c) PROVE TypeInv'
    <2>1. MessageTypes'
      BY <1>6 DEF Redeliver, MessageTypes
    <2>2. LinkTypes'
      <3>1. Fault("duplicate") /\ UNCHANGED linkVars
        BY <1>6 DEF Redeliver
      <3>2. QED
        BY <3>1, FaultType DEF LinkTypes, FaultKinds
    <2>3. QED
      BY <1>6, <1>c, <2>1, <2>2 DEF Redeliver
  <1>7. ASSUME NEW c \in Calls, LoseRequest(c) PROVE TypeInv'
    <2>1. MessageTypes'
      BY <1>7 DEF LoseRequest, MessageTypes
    <2>2. QED
      BY <1>7, <1>b, <1>c, <2>1 DEF LoseRequest
  <1>8. ASSUME NEW c \in Calls, LoseResponse(c) PROVE TypeInv'
    <2>1. MessageTypes'
      BY <1>8 DEF LoseResponse, MessageTypes
    <2>2. QED
      BY <1>8, <1>b, <1>c, <2>1 DEF LoseResponse
  <1>9. CASE RunOql
    <2>1. Head(queue) \in Calls
      BY <1>9, HeadTailProperties DEF RunOql, AgentTypes
    <2>2. AgentTypes'
      BY <1>9, <2>1 DEF RunOql, AgentTypes
    <2>3. QED
      BY <1>9, <1>a, <1>b, <2>2 DEF RunOql
  <1>10. CASE Reply
    <2>1. Head(queue) \in Calls /\ Tail(queue) \in Seq(Calls)
      BY <1>10, HeadTailProperties DEF Reply, AgentTypes
    <2>2. MessageTypes'
      BY <1>10, <2>1 DEF Reply, MessageTypes
    <2>3. AgentTypes'
      BY <1>10, <2>1 DEF Reply, AgentTypes
    <2>4. QED
      BY <1>10, <1>b, <2>2, <2>3 DEF Reply
  <1>11. CASE AgentStart
    <2>1. LinkTypes'
      BY <1>11 DEF AgentStart, LinkTypes
    <2>2. QED
      BY <1>11, <1>a, <1>c, <2>1 DEF AgentStart
  <1>12. CASE AgentStop \/ AgentCrash
    <2>1. Fault("restart") /\ Forget
      BY <1>12 DEF AgentStop, AgentCrash
    <2>2. /\ link' = "down" /\ status' \in {"unset", "online", "offline"}
          /\ wills' \subseteq wills \cup {Session}
          /\ UNCHANGED <<controllerVars, networkVars>>
      BY <1>12 DEF AgentStop, AgentCrash, Farewell, LinkTypes
    <2>3. LinkTypes'
      BY <2>1, <2>2, FaultType DEF LinkTypes, FaultKinds
    <2>4. AgentTypes'
      <3>1. seen' \in Seq(Ids) /\ Len(seen') = 0 /\ queue' \in Seq(Calls)
        BY <2>1, EmptySeq DEF Forget
      <3>2. Len(seen') <= DedupeTtl
        BY <3>1, BoundAssumption
      <3>3. QED
        BY <2>1, <3>1, <3>2 DEF Forget, AgentTypes
    <2>5. QED
      BY <1>a, <2>2, <2>3, <2>4
  <1>13. CASE LinkLost
    <2>1. Fault("linkloss") /\ link' = "lost" /\ wills' = wills \cup {Session}
          /\ status' = status
      BY <1>13 DEF LinkLost
    <2>2. LinkTypes'
      BY <2>1, FaultType DEF LinkTypes, FaultKinds
    <2>3. QED
      BY <1>13, <1>a, <1>c, <2>2 DEF LinkLost
  <1>14. CASE Reconnect
    <2>1. LinkTypes'
      BY <1>14 DEF Reconnect, LinkTypes
    <2>2. QED
      BY <1>14, <1>a, <1>c, <2>1 DEF Reconnect
  <1>15. CASE BrokerNotices
    <2>1. LinkTypes'
      BY <1>15 DEF BrokerNotices, LinkTypes
    <2>2. QED
      BY <1>15, <1>a, <1>c, <2>1 DEF BrokerNotices
  <1>16. CASE UNCHANGED vars
    BY <1>16, <1>a, <1>b, <1>c DEF vars
  <1>17. QED
    BY <1>1, <1>2, <1>3, <1>4, <1>5, <1>6, <1>7, <1>8, <1>9, <1>10, <1>11, <1>12,
       <1>13, <1>14, <1>15, <1>16 DEF Next, Agent

(* The reachable states are well typed; the memory of the agent keeps its  *)
(* limit (dedupe_ttl).                                                     *)
THEOREM TypeCorrect == Spec => []TypeOK
  BY TypeInvInit, TypeInvNext, TypeInvIsTyped, PTL DEF Spec
----------------------------------------------------------------------------
(* The retained status never calls an absent agent online once the broker  *)
(* has noticed every dead session (last will, stop), with any ids.         *)
THEOREM StatusIsNotStale == Spec => []NoStaleOnline
  <1>1. Init => NoStaleOnline
    BY DEF Init, NoStaleOnline
  <1>2. NoStaleOnline /\ [Next]_vars => NoStaleOnline'
    <2> SUFFICES ASSUME NoStaleOnline, [Next]_vars PROVE NoStaleOnline'
      OBVIOUS
    <2>1. CASE UNCHANGED linkVars
      BY <2>1 DEF NoStaleOnline, linkVars
    <2>2. CASE AgentStart \/ Reconnect \/ BrokerNotices
      BY <2>2 DEF AgentStart, Reconnect, BrokerNotices, NoStaleOnline
    <2>3. CASE AgentStop \/ AgentCrash \/ LinkLost
      BY <2>3 DEF AgentStop, AgentCrash, LinkLost, Farewell, NoStaleOnline
    <2>4. ASSUME NEW c \in Calls,
                 \/ Execute(c) \/ ResolveResponse(c) \/ Expire(c) \/ Finish(c)
                 \/ HandleRequest(c) \/ Redeliver(c) \/ LoseRequest(c)
                 \/ LoseResponse(c)
          PROVE  UNCHANGED linkVars
      BY <2>4 DEF Execute, ResolveResponse, Expire, Finish, HandleRequest,
                  Redeliver, LoseRequest, LoseResponse
    <2>5. RunOql \/ Reply \/ UNCHANGED vars => UNCHANGED linkVars
      BY DEF RunOql, Reply, vars
    <2>6. QED
      BY <2>1, <2>2, <2>3, <2>4, <2>5 DEF Next, Agent
  <1>3. QED
    BY <1>1, <1>2, PTL DEF Spec
----------------------------------------------------------------------------
(* No two calls share a correlation id.                                    *)
OwnIds == \A c, d \in Calls : Corr[c] = Corr[d] => c = d

(* An entry of the pending table leads to a call of its id; answers exist  *)
(* only to what has run, and a resolved call has been handed one.          *)
EntriesAreOfTheirId == \A i \in Ids : pending[i] # None => Corr[pending[i]] = i

AnswersAreOfRuns ==
  /\ busy => queue # <<>> /\ Head(queue) \in everRan
  /\ \A c \in Calls : responses[c] > 0 => c \in everRan

ResolvedHasAnswer == \A c \in Calls : outcome[c] = "resolved" => answer[c] # None

MatchInv ==
  /\ EntriesAreOfTheirId /\ WaitingIsRegistered
  /\ AnswersAreOfRuns /\ AnswersOwnRequest /\ ResolvedHasAnswer

LEMMA MatchInvNext ==
  ASSUME OwnIds, TypeInv, MatchInv, [Next]_vars
  PROVE  MatchInv'
  <1> USE DEF TypeInv, MatchInv, MessageTypes, controllerVars, networkVars,
              linkVars, agentVars
  <1>a. UNCHANGED controllerVars
        => EntriesAreOfTheirId' /\ WaitingIsRegistered' /\ ResolvedHasAnswer'
    BY DEF EntriesAreOfTheirId, WaitingIsRegistered, ResolvedHasAnswer
  <1>b. UNCHANGED <<responses, busy, queue, everRan>> => AnswersAreOfRuns'
    BY DEF AnswersAreOfRuns
  <1>c. UNCHANGED answer /\ everRan \subseteq everRan' => AnswersOwnRequest'
    BY DEF AnswersOwnRequest
  <1>1. ASSUME NEW c \in Calls, Execute(c) PROVE MatchInv'
    <2>1. /\ Corr[c] \in Ids /\ outcome[c] = "idle" /\ outcome'[c] = "waiting"
          /\ pending'[Corr[c]] = c
      BY <1>1, CorrAssumption DEF Execute
    <2>2. \A d \in Calls : d # c => outcome'[d] = outcome[d] /\ Corr[d] # Corr[c]
      BY <1>1 DEF Execute, OwnIds
    <2>3. \A i \in Ids : i # Corr[c] => pending'[i] = pending[i]
      BY <1>1 DEF Execute
    <2>4. UNCHANGED <<answer, responses, busy, queue, everRan>>
      BY <1>1 DEF Execute
    <2>5. EntriesAreOfTheirId'
      BY <2>1, <2>3 DEF EntriesAreOfTheirId
    <2>6. WaitingIsRegistered'
      BY <2>1, <2>2, <2>3, CorrAssumption DEF WaitingIsRegistered
    <2>7. ResolvedHasAnswer'
      BY <2>1, <2>2, <2>4 DEF ResolvedHasAnswer
    <2>8. QED
      BY <1>b, <1>c, <2>4, <2>5, <2>6, <2>7
  <1>2. ASSUME NEW c \in Calls, ResolveResponse(c) PROVE MatchInv'
    <2>1. pending[Corr[c]] # None => pending[Corr[c]] = c
      BY CorrAssumption DEF EntriesAreOfTheirId, OwnIds
    <2>2. c \in everRan
      BY <1>2 DEF ResolveResponse, AnswersAreOfRuns
    <2>3. \A d \in Calls :
            \/ outcome'[d] = outcome[d] /\ answer'[d] = answer[d]
            \/ d = c /\ outcome'[d] = "resolved" /\ answer'[d] = c
      BY <1>2, <2>1, NoneAssumption DEF ResolveResponse, Resolve
    <2>4. \A d \in Calls : responses'[d] > 0 => d = c \/ responses[d] > 0
      BY <1>2 DEF ResolveResponse
    <2>5. UNCHANGED <<pending, busy, queue, everRan>>
      BY <1>2 DEF ResolveResponse
    <2>6. EntriesAreOfTheirId' /\ WaitingIsRegistered'
      BY <2>3, <2>5 DEF EntriesAreOfTheirId, WaitingIsRegistered
    <2>7. AnswersAreOfRuns'
      BY <2>2, <2>4, <2>5 DEF AnswersAreOfRuns
    <2>8. AnswersOwnRequest'
      BY <2>2, <2>3, <2>5 DEF AnswersOwnRequest
    <2>9. ResolvedHasAnswer'
      BY <2>3, NoneAssumption DEF ResolvedHasAnswer
    <2>10. QED
      BY <2>6, <2>7, <2>8, <2>9
  <1>3. ASSUME NEW c \in Calls, Expire(c) PROVE MatchInv'
    <2>1. \A d \in Calls : outcome'[d] = outcome[d] \/ outcome'[d] = "expired"
      BY <1>3 DEF Expire
    <2>2. UNCHANGED <<answer, pending, responses, busy, queue, everRan>>
      BY <1>3 DEF Expire
    <2>3. EntriesAreOfTheirId' /\ WaitingIsRegistered' /\ ResolvedHasAnswer'
      BY <2>1, <2>2 DEF EntriesAreOfTheirId, WaitingIsRegistered, ResolvedHasAnswer
    <2>4. QED
      BY <1>b, <1>c, <2>2, <2>3
  <1>4. ASSUME NEW c \in Calls, Finish(c) PROVE MatchInv'
    <2>1. outcome'[c] \notin {"waiting", "resolved"}
      BY <1>4 DEF Finish
    <2>2. \A d \in Calls : d # c => outcome'[d] = outcome[d] /\ Corr[d] # Corr[c]
      BY <1>4 DEF Finish, OwnIds
    <2>3. \A i \in Ids : pending'[i] = IF i = Corr[c] THEN None ELSE pending[i]
      BY <1>4 DEF Finish, Unregister
    <2>4. UNCHANGED <<answer, responses, busy, queue, everRan>>
      BY <1>4 DEF Finish
    <2>5. EntriesAreOfTheirId'
      BY <2>3 DEF EntriesAreOfTheirId
    <2>6. WaitingIsRegistered'
      BY <2>1, <2>2, <2>3, CorrAssumption DEF WaitingIsRegistered
    <2>7. ResolvedHasAnswer'
      BY <2>1, <2>2, <2>4 DEF ResolvedHasAnswer
    <2>8. QED
      BY <1>b, <1>c, <2>4, <2>5, <2>6, <2>7
  <1>5. ASSUME NEW c \in Calls, HandleRequest(c) PROVE MatchInv'
    <2>1. UNCHANGED <<controllerVars, responses, busy, everRan>>
      BY <1>5 DEF HandleRequest
    <2>2. queue' = queue \/ queue' = Append(queue, c)
      BY <1>5 DEF HandleRequest
    <2>3. queue \in Seq(Calls)
      BY DEF AgentTypes
    <2>4. queue # <<>> => queue' # <<>> /\ Head(queue') = Head(queue)
      <3>1. Append(queue, c) # <<>>
        BY <2>3, AppendProperties
      <3>2. Head(Append(queue, c)) = IF queue = <<>> THEN c ELSE Head(queue)
        BY <2>3, HeadTailAppend
      <3>3. QED
        BY <2>2, <3>1, <3>2
    <2>5. AnswersAreOfRuns'
      BY <2>1, <2>4 DEF AnswersAreOfRuns
    <2>6. QED
      BY <1>a, <1>c, <2>1, <2>5
  <1>6. ASSUME NEW c \in Calls, Redeliver(c) \/ LoseRequest(c) PROVE MatchInv'
    BY <1>6, <1>a, <1>b, <1>c DEF Redeliver, LoseRequest
  <1>7. ASSUME NEW c \in Calls, LoseResponse(c) PROVE MatchInv'
    <2>1. AnswersAreOfRuns'
      BY <1>7 DEF LoseResponse, AnswersAreOfRuns
    <2>2. QED
      BY <1>7, <1>a, <1>c, <2>1 DEF LoseResponse
  <1>8. CASE RunOql
    <2>1. AnswersAreOfRuns'
      BY <1>8 DEF RunOql, AnswersAreOfRuns
    <2>2. QED
      BY <1>8, <1>a, <1>c, <2>1 DEF RunOql
  <1>9. CASE Reply
    <2>1. \A d \in Calls : responses'[d] > 0 => d = Head(queue) \/ responses[d] > 0
      BY <1>9 DEF Reply
    <2>2. AnswersAreOfRuns'
      BY <1>9, <2>1 DEF Reply, AnswersAreOfRuns
    <2>3. QED
      BY <1>9, <1>a, <1>c, <2>2 DEF Reply
  <1>10. CASE AgentStart \/ LinkLost \/ Reconnect \/ BrokerNotices
    <2>1. UNCHANGED <<controllerVars, networkVars, agentVars>>
      BY <1>10 DEF AgentStart, LinkLost, Reconnect, BrokerNotices
    <2>2. QED
      BY <2>1, <1>a, <1>b, <1>c
  <1>11. CASE AgentStop \/ AgentCrash
    <2>1. Forget /\ UNCHANGED <<controllerVars, networkVars>>
      BY <1>11 DEF AgentStop, AgentCrash
    <2>2. AnswersAreOfRuns'
      BY <2>1 DEF Forget, AnswersAreOfRuns
    <2>3. QED
      BY <2>1, <2>2, <1>a, <1>c DEF Forget
  <1>12. CASE UNCHANGED vars
    BY <1>12, <1>a, <1>b, <1>c DEF vars
  <1>13. QED
    BY <1>1, <1>2, <1>3, <1>4, <1>5, <1>6, <1>7, <1>8, <1>9, <1>10, <1>11, <1>12
    DEF Next, Agent

LEMMA MatchInvInit == Init => MatchInv
  BY DEF Init, MatchInv, EntriesAreOfTheirId, WaitingIsRegistered, AnswersAreOfRuns,
         AnswersOwnRequest, ResolvedHasAnswer

(* With ids of their own, a call that waits can always be matched, ...     *)
THEOREM WaitersCanBeMatched ==
  ASSUME OwnIds
  PROVE  Spec => []WaitingIsRegistered
  <1>1. TypeInv /\ MatchInv /\ [Next]_vars => MatchInv'
    BY MatchInvNext
  <1>2. MatchInv => WaitingIsRegistered
    BY DEF MatchInv
  <1>3. QED
    BY TypeInvInit, TypeInvNext, MatchInvInit, <1>1, <1>2, PTL DEF Spec

(* ... and a caller is handed the answer to its own request, which has run *)
(* on the hardware node, whatever is lost, duplicated, late or restarted.  *)
THEOREM AnswersAreOwn ==
  ASSUME OwnIds
  PROVE  Spec => []AnswersOwnRequest
  <1>1. TypeInv /\ MatchInv /\ [Next]_vars => MatchInv'
    BY MatchInvNext
  <1>2. MatchInv => AnswersOwnRequest
    BY DEF MatchInv
  <1>3. QED
    BY TypeInvInit, TypeInvNext, MatchInvInit, <1>1, <1>2, PTL DEF Spec
----------------------------------------------------------------------------
(* The agent remembers every id there is: dedupe_ttl is large enough.      *)
MemoryIsLarge == IsFiniteSet(Ids) /\ Cardinality(Ids) <= DedupeTtl

Distinct(s) == \A j, k \in 1..Len(s) : s[j] = s[k] => j = k

\* One life of the agent runs a request once because its id is in the memory
\* from its first delivery on, queued, running or done.
OnceInv ==
  /\ Distinct(seen) /\ Distinct(queue)
  /\ \A k \in 1..Len(queue) :
       /\ Contains(seen, Corr[queue[k]]) /\ outcome[queue[k]] # "idle"
       /\ ran[queue[k]] = IF k = 1 /\ busy THEN 1 ELSE 0
  /\ \A c \in Calls : ran[c] > 0 => Contains(seen, Corr[c])
  /\ \A c \in Calls : requests[c] > 0 => outcome[c] # "idle"

(* What is appended to a sequence of distinct elements that does not       *)
(* contain it leaves the elements distinct.                                *)
LEMMA AppendDistinct ==
  ASSUME NEW S, NEW s \in Seq(S), NEW e \in S, Distinct(s), ~Contains(s, e)
  PROVE  Distinct(Append(s, e))
  <1>1. \A k \in 1..Len(s) : Append(s, e)[k] = s[k] /\ s[k] # e
    BY AppendProperties DEF Contains
  <1>2. Len(Append(s, e)) = Len(s) + 1 /\ Append(s, e)[Len(s) + 1] = e /\ Len(s) \in Nat
    BY AppendProperties, LenProperties
  <1>3. \A k \in 1..Len(s) + 1 : k \in 1..Len(s) \/ k = Len(s) + 1
    BY <1>2
  <1>4. QED
    BY <1>1, <1>2, <1>3 DEF Distinct

(* An agent that can remember every id forgets none.                       *)
LEMMA NothingForgotten ==
  ASSUME MemoryIsLarge, NEW i \in Ids, seen \in Seq(Ids), Distinct(seen),
         ~Contains(seen, i)
  PROVE  Remember(i) = Append(seen, i)
  <1> DEFINE s == Append(seen, i)
  <1>1. s \in Seq(Ids) /\ Distinct(s) /\ Len(s) \in Nat
    BY AppendDistinct, AppendProperties, LenProperties
  <1>2. Len(s) <= Cardinality(Ids)
    <2>1. s \in Injection(1..Len(s), Ids)
      BY <1>1, LenProperties DEF Injection, IsInjective, Distinct
    <2>2. Cardinality(1..Len(s)) <= Cardinality(Ids)
      BY <2>1, FS_Injection DEF MemoryIsLarge
    <2>3. Cardinality(1..Len(s)) = Len(s)
      BY <1>1, FS_Interval
    <2>4. QED
      BY <2>2, <2>3
  <1>3. Cardinality(Ids) \in Nat /\ DedupeTtl \in Nat
    BY FS_CardinalityType, BoundAssumption DEF MemoryIsLarge
  <1>4. ~(Len(s) > DedupeTtl)
    BY <1>1, <1>2, <1>3 DEF MemoryIsLarge
  <1>5. QED
    BY <1>4 DEF Remember

LEMMA OnceInvInit == Init => OnceInv
  <1> SUFFICES ASSUME Init PROVE OnceInv
    OBVIOUS
  <1>1. Len(seen) = 0 /\ Len(queue) = 0
    BY EmptySeq DEF Init
  <1>2. Distinct(seen) /\ Distinct(queue)
    BY <1>1 DEF Distinct
  <1>3. QED
    BY <1>1, <1>2 DEF Init, OnceInv

LEMMA OnceInvNext ==
  ASSUME OwnIds, MemoryIsLarge, TypeInv, OnceInv, [Next]_vars
  PROVE  OnceInv'
  <1> USE DEF controllerVars, networkVars, linkVars, agentVars
  <1> DEFINE Started(c) == outcome[c] # "idle"
  <1>t. queue \in Seq(Calls) /\ seen \in Seq(Ids) /\ Len(queue) \in Nat
    BY LenProperties DEF TypeInv, AgentTypes
  <1>q. \A k \in 1..Len(queue) : queue[k] \in Calls
    BY <1>t, ElementOfSeq
  <1>1. ASSUME UNCHANGED agentVars,
               \A d \in Calls : Started(d) => Started(d)',
               \A d \in Calls : requests'[d] > 0 => Started(d)' \/ requests[d] > 0
        PROVE  OnceInv'
    BY <1>1, <1>q DEF OnceInv, Distinct
  <1>2. ASSUME NEW c \in Calls, Execute(c) PROVE OnceInv'
    <2>1. outcome'[c] # "idle" /\ \A d \in Calls : d # c => outcome'[d] = outcome[d]
      BY <1>2 DEF Execute, TypeInv, MessageTypes
    <2>2. \A d \in Calls : requests'[d] > 0 => d = c \/ requests[d] > 0
      BY <1>2 DEF Execute, TypeInv, MessageTypes
    <2>3. QED
      BY <1>1, <1>2, <2>1, <2>2 DEF Execute
  <1>3. ASSUME NEW c \in Calls, ResolveResponse(c) PROVE OnceInv'
    <2>1. \A d \in Calls : outcome'[d] = outcome[d] \/ outcome'[d] = "resolved"
      BY <1>3 DEF ResolveResponse, Resolve
    <2>2. QED
      BY <1>1, <1>3, <2>1 DEF ResolveResponse
  <1>4. ASSUME NEW c \in Calls, Expire(c) \/ Finish(c) PROVE OnceInv'
    <2>1. \A d \in Calls :
            outcome'[d] = outcome[d] \/ outcome'[d] \in {"expired", "answered", "timedout"}
      BY <1>4 DEF Expire, Finish, TypeInv, MessageTypes
    <2>2. UNCHANGED <<requests, agentVars>>
      BY <1>4 DEF Expire, Finish
    <2>3. QED
      BY <1>1, <2>1, <2>2
  <1>5. ASSUME NEW c \in Calls, LoseRequest(c) \/ Redeliver(c) PROVE OnceInv'
    <2>1. UNCHANGED <<outcome, agentVars>>
      BY <1>5 DEF LoseRequest, Redeliver
    <2>2. \A d \in Calls : requests'[d] > 0 => requests[d] > 0 \/ outcome[d] # "idle"
      BY <1>5 DEF LoseRequest, Redeliver, TypeInv, MessageTypes
    <2>3. QED
      BY <1>1, <2>1, <2>2
  <1>6. ASSUME NEW c \in Calls, HandleRequest(c) PROVE OnceInv'
    <2>1. UNCHANGED <<outcome, busy, ran>> /\ outcome[c] # "idle"
      BY <1>6 DEF HandleRequest, OnceInv
    <2>2. \A d \in Calls : requests'[d] > 0 => requests[d] > 0
      BY <1>6 DEF HandleRequest, TypeInv, MessageTypes
    <2>3. CASE UNCHANGED <<seen, queue>>
      BY <1>1, <1>6, <2>2, <2>3 DEF HandleRequest
    <2>4. CASE /\ ~Contains(seen, Corr[c])
               /\ seen' = Remember(Corr[c]) /\ queue' = Append(queue, c)
      <3>1. seen' = Append(seen, Corr[c]) /\ Distinct(seen')
        BY <2>4, <1>t, CorrAssumption, NothingForgotten, AppendDistinct DEF OnceInv
      <3>2. Contains(seen', Corr[c])
            /\ \A i \in Ids : Contains(seen, i) => Contains(seen', i)
        BY <3>1, <1>t, CorrAssumption, AppendProperties, LenProperties DEF Contains
      <3>3. ~Contains(queue, c)
        BY <2>4 DEF OnceInv, Contains
      <3>4. Distinct(queue')
        BY <2>4, <3>3, <1>t, AppendDistinct DEF OnceInv
      <3>5. /\ Len(queue') = Len(queue) + 1 /\ queue'[Len(queue) + 1] = c
            /\ \A k \in 1..Len(queue) : queue'[k] = queue[k]
        BY <2>4, <1>t, AppendProperties
      <3>6. ran[c] = 0
        BY <2>4 DEF OnceInv, TypeInv, AgentTypes
      <3>7. busy => Len(queue) > 0
        BY <1>t, EmptySeq DEF TypeInv, AgentTypes
      <3>8. ASSUME NEW k \in 1..Len(queue')
            PROVE  /\ Contains(seen', Corr[queue'[k]]) /\ outcome'[queue'[k]] # "idle"
                   /\ ran'[queue'[k]] = IF k = 1 /\ busy' THEN 1 ELSE 0
        <4>1. CASE k \in 1..Len(queue)
          BY <4>1, <3>2, <3>5, <2>1, <1>q, CorrAssumption DEF OnceInv
        <4>2. CASE k = Len(queue) + 1
          BY <4>2, <3>2, <3>5, <3>6, <3>7, <2>1, <1>t
        <4>3. QED
          BY <4>1, <4>2, <3>5, <1>t
      <3>9. \A d \in Calls : ran'[d] > 0 => Contains(seen', Corr[d])
        BY <2>1, <3>2, CorrAssumption DEF OnceInv
      <3>10. \A d \in Calls : requests'[d] > 0 => outcome'[d] # "idle"
        BY <2>1, <2>2 DEF OnceInv
      <3>11. QED
        BY <3>1, <3>4, <3>8, <3>9, <3>10 DEF OnceInv
    <2>5. QED
      BY <1>6, <2>3, <2>4 DEF HandleRequest
  <1>7. CASE RunOql
    <2>1. queue # <<>> /\ ~busy /\ busy' = TRUE /\ UNCHANGED <<seen, queue, outcome, requests>>
      BY <1>7 DEF RunOql
    <2>2. 1 \in 1..Len(queue) /\ Head(queue) = queue[1]
      BY <2>1, <1>t, EmptySeq
    <2>3. Head(queue) \in Calls /\ ran[Head(queue)] = 0
      BY <2>1, <2>2, <1>q DEF OnceInv
    <2>4. \A d \in Calls : ran'[d] = IF d = Head(queue) THEN 1 ELSE ran[d]
      BY <1>7, <2>3 DEF RunOql, TypeInv, AgentTypes
    <2>5. \A k \in 1..Len(queue) : queue[k] = Head(queue) <=> k = 1
      BY <2>2 DEF OnceInv, Distinct
    <2>6. \A k \in 1..Len(queue) : ran'[queue[k]] = IF k = 1 /\ busy' THEN 1 ELSE 0
      BY <2>1, <2>4, <2>5, <1>q DEF OnceInv
    <2>7. \A d \in Calls : ran'[d] > 0 => Contains(seen, Corr[d])
      BY <2>2, <2>4 DEF OnceInv
    <2>8. QED
      BY <2>1, <2>6, <2>7 DEF OnceInv, Distinct
  <1>8. CASE Reply
    <2>1. /\ busy /\ busy' = FALSE /\ queue' = Tail(queue)
          /\ UNCHANGED <<seen, ran, outcome, requests>>
      BY <1>8 DEF Reply
    <2>2. queue # <<>>
      BY <2>1 DEF TypeInv, AgentTypes
    <2>3. /\ Len(queue') = Len(queue) - 1
          /\ \A k \in 1..Len(queue') : k + 1 \in 1..Len(queue) /\ queue'[k] = queue[k + 1]
      BY <2>1, <2>2, <1>t, HeadTailProperties
    <2>4. Distinct(queue')
      BY <2>3, <1>t DEF OnceInv, Distinct
    <2>5. ASSUME NEW k \in 1..Len(queue')
          PROVE  /\ Contains(seen', Corr[queue'[k]]) /\ outcome'[queue'[k]] # "idle"
                 /\ ran'[queue'[k]] = 0
      BY <2>1, <2>3, <1>t DEF OnceInv
    <2>6. QED
      BY <2>1, <2>4, <2>5 DEF OnceInv, Distinct
  <1>9. CASE AgentStart \/ LinkLost \/ Reconnect \/ BrokerNotices
    BY <1>1, <1>9 DEF AgentStart, LinkLost, Reconnect, BrokerNotices
  <1>10. CASE AgentStop \/ AgentCrash
    <2>1. Forget /\ UNCHANGED <<outcome, requests>>
      BY <1>10 DEF AgentStop, AgentCrash
    <2>2. Len(seen') = 0 /\ Len(queue') = 0
      BY <2>1, EmptySeq DEF Forget
    <2>3. QED
      BY <2>1, <2>2 DEF Forget, OnceInv, Distinct
  <1>11. ASSUME NEW c \in Calls, LoseResponse(c) PROVE OnceInv'
    BY <1>1, <1>11 DEF LoseResponse
  <1>12. CASE UNCHANGED vars
    BY <1>1, <1>12 DEF vars
  <1>13. QED
    BY <1>2, <1>3, <1>4, <1>5, <1>6, <1>7, <1>8, <1>9, <1>10, <1>11, <1>12
    DEF Next, Agent

\* The safety of RemoteCall: its initial states and steps.
RemoteSafety == Remote!Init /\ [][Remote!Next]_(Remote!vars)

LEMMA RemoteStep ==
  ASSUME TypeInv, MatchInv, OnceInv, [Next]_vars
  PROVE  [Remote!Next]_(Remote!vars)
  <1> USE DEF Remote!vars, Remote!Next
  <1> DEFINE phase == [c \in Calls |-> Phase(c)]
  <1>1. ASSUME UNCHANGED <<ran, everRan>>, \A d \in Calls : Phase(d)' = Phase(d)
        PROVE  UNCHANGED Remote!vars
    BY <1>1
  <1>2. ASSUME NEW c \in Calls, Execute(c) PROVE Remote!Call(c)
    <2>1. Phase(c) = "idle" /\ Phase(c)' = "called"
      BY <1>2 DEF Execute, Phase, TypeInv, MessageTypes
    <2>2. \A d \in Calls : d # c => Phase(d)' = Phase(d)
      BY <1>2 DEF Execute, Phase, TypeInv, MessageTypes
    <2>3. phase' = [phase EXCEPT ![c] = "called"]
      BY <2>1, <2>2
    <2>4. QED
      BY <1>2, <2>1, <2>3 DEF Execute, agentVars, Remote!Call
  <1>3. ASSUME NEW c \in Calls, ResolveResponse(c) PROVE UNCHANGED Remote!vars
    <2>1. \A d \in Calls :
            \/ outcome'[d] = outcome[d]
            \/ outcome[d] = "waiting" /\ outcome'[d] = "resolved"
      BY <1>3 DEF ResolveResponse, Resolve
    <2>2. \A d \in Calls : Phase(d)' = Phase(d)
      BY <2>1 DEF Phase
    <2>3. QED
      BY <1>1, <1>3, <2>2 DEF ResolveResponse, agentVars
  <1>4. ASSUME NEW c \in Calls, Expire(c) PROVE UNCHANGED Remote!vars
    <2>1. \A d \in Calls :
            \/ outcome'[d] = outcome[d]
            \/ outcome[d] = "waiting" /\ outcome'[d] = "expired"
      BY <1>4 DEF Expire, TypeInv, MessageTypes
    <2>2. \A d \in Calls : Phase(d)' = Phase(d)
      BY <2>1 DEF Phase
    <2>3. QED
      BY <1>1, <1>4, <2>2 DEF Expire, agentVars
  <1>5. ASSUME NEW c \in Calls, Finish(c)
        PROVE  Remote!Answer(c) \/ Remote!TimeOut(c)
    <2>1. UNCHANGED <<ran, everRan>>
      BY <1>5 DEF Finish, agentVars
    <2>2. \A d \in Calls : d # c => Phase(d)' = Phase(d)
      BY <1>5 DEF Finish, Phase, TypeInv, MessageTypes
    <2>3. CASE outcome[c] = "resolved" /\ outcome' = [outcome EXCEPT ![c] = "answered"]
      <3>1. c \in everRan
        BY <2>3 DEF MatchInv, ResolvedHasAnswer, AnswersOwnRequest
      <3>2. Phase(c) = "called" /\ Phase(c)' = "answered"
        BY <2>3 DEF Phase, TypeInv, MessageTypes
      <3>3. phase' = [phase EXCEPT ![c] = "answered"]
        BY <3>2, <2>2
      <3>4. QED
        BY <2>1, <3>1, <3>2, <3>3 DEF Remote!Answer
    <2>4. CASE outcome[c] = "expired" /\ outcome' = [outcome EXCEPT ![c] = "timedout"]
      <3>1. Phase(c) = "called" /\ Phase(c)' = "timedout"
        BY <2>4 DEF Phase, TypeInv, MessageTypes
      <3>2. phase' = [phase EXCEPT ![c] = "timedout"]
        BY <3>1, <2>2
      <3>3. QED
        BY <2>1, <3>1, <3>2 DEF Remote!TimeOut
    <2>5. QED
      BY <1>5, <2>3, <2>4 DEF Finish
  <1>6. CASE RunOql
    <2>1. queue \in Seq(Calls) /\ queue # <<>> /\ ~busy
      BY <1>6 DEF RunOql, TypeInv, AgentTypes
    <2>2. 1 \in 1..Len(queue) /\ Head(queue) = queue[1] /\ Head(queue) \in Calls
      BY <2>1, EmptySeq, HeadTailProperties
    <2>3. ran[Head(queue)] = 0 /\ outcome[Head(queue)] # "idle"
      BY <2>1, <2>2 DEF OnceInv
    <2>4. ran' = [ran EXCEPT ![Head(queue)] = 1] /\ everRan' = everRan \cup {Head(queue)}
      BY <1>6, <2>3 DEF RunOql
    <2>5. phase' = phase
      BY <1>6 DEF RunOql, controllerVars, Phase
    <2>6. Phase(Head(queue)) # "idle"
      BY <2>3 DEF Phase
    <2>7. Remote!Run(Head(queue))
      BY <2>2, <2>3, <2>4, <2>5, <2>6 DEF Remote!Run
    <2>8. QED
      BY <2>2, <2>7
  <1>7. CASE AgentStop \/ AgentCrash
    <2>1. phase' = phase
      BY <1>7 DEF AgentStop, AgentCrash, controllerVars, Phase
    <2>2. Remote!NewLife
      BY <1>7, <2>1 DEF AgentStop, AgentCrash, Forget, Remote!NewLife
    <2>3. QED
      BY <2>2
  <1>8. ASSUME UNCHANGED <<outcome, ran, everRan>> PROVE UNCHANGED Remote!vars
    BY <1>1, <1>8 DEF Phase
  <1>9. CASE Reply \/ AgentStart \/ LinkLost \/ Reconnect \/ BrokerNotices \/ UNCHANGED vars
    BY <1>8, <1>9 DEF Reply, AgentStart, LinkLost, Reconnect, BrokerNotices, vars,
                      controllerVars, agentVars
  <1>10. ASSUME NEW c \in Calls,
                HandleRequest(c) \/ Redeliver(c) \/ LoseRequest(c) \/ LoseResponse(c)
         PROVE  UNCHANGED Remote!vars
    BY <1>8, <1>10 DEF HandleRequest, Redeliver, LoseRequest, LoseResponse,
                       controllerVars, agentVars
  <1>11. QED
    BY <1>2, <1>3, <1>4, <1>5, <1>6, <1>7, <1>9, <1>10 DEF Next, Agent

(* The bridge implements RemoteCall, for any number of calls, losses,      *)
(* redeliveries and restarts: a call is made once, an answer means that    *)
(* its OQL ran, and no life of the agent runs a request twice (execute,    *)
(* _handle_request, _run_oql).  Its callers choose ids of their own and    *)
(* the memory of the agent holds them all.                                 *)
THEOREM BridgeImplementsRemoteCall ==
  ASSUME OwnIds, MemoryIsLarge
  PROVE  Spec => RemoteSafety
  <1>1. Init => Remote!Init
    BY DEF Init, Remote!Init, Phase
  <1>2. TypeInv /\ MatchInv /\ [Next]_vars => MatchInv'
    BY MatchInvNext
  <1>3. TypeInv /\ OnceInv /\ [Next]_vars => OnceInv'
    BY OnceInvNext
  <1>4. TypeInv /\ MatchInv /\ OnceInv /\ [Next]_vars => [Remote!Next]_(Remote!vars)
    BY RemoteStep
  <1>5. QED
    BY TypeInvInit, TypeInvNext, MatchInvInit, OnceInvInit, <1>1, <1>2, <1>3, <1>4, PTL
    DEF Spec, RemoteSafety

\* What a caller reads off RemoteCall.
Promised ==
  \A c \in Calls : /\ ran[c] \in {0, 1}
                   /\ ran[c] = 1 => c \in everRan
                   /\ c \in everRan => outcome[c] # "idle"
                   /\ outcome[c] = "answered" => c \in everRan

LEMMA RemotePromises ==
  ASSUME TypeInv, Promised, [Remote!Next]_(Remote!vars)
  PROVE  /\ \A c \in Calls : ran'[c] \in {0, 1} /\ (ran'[c] = 1 => c \in everRan')
         /\ \A c \in Calls : c \in everRan' => Phase(c)' # "idle"
         /\ \A c \in Calls : Phase(c)' = "answered" => c \in everRan'
  <1> DEFINE phase == [c \in Calls |-> Phase(c)]
  <1>1. ran \in [Calls -> Nat] /\ everRan \subseteq Calls
    BY DEF TypeInv, AgentTypes
  <1>2. /\ \A c \in Calls : phase[c] = Phase(c) /\ phase'[c] = Phase(c)'
        /\ \A c \in Calls : c \in everRan => phase[c] # "idle"
        /\ \A c \in Calls : phase[c] = "answered" => c \in everRan
    BY DEF Promised, Phase
  <1>3. ASSUME NEW c \in Calls, phase[c] = "idle" \/ phase[c] = "called",
               NEW to \in {"called", "answered", "timedout"},
               phase' = [phase EXCEPT ![c] = to], UNCHANGED <<ran, everRan>>,
               to = "answered" => c \in everRan
        PROVE  /\ \A d \in Calls : d \in everRan' => phase'[d] # "idle"
               /\ \A d \in Calls : phase'[d] = "answered" => d \in everRan'
    <2>1. \A d \in Calls : phase'[d] = IF d = c THEN to ELSE phase[d]
      BY <1>3
    <2> HIDE DEF phase
    <2>2. QED
      BY <1>2, <1>3, <2>1
  <1>4. ASSUME NEW c \in Calls, Remote!Call(c) \/ Remote!Answer(c) \/ Remote!TimeOut(c)
        PROVE  /\ UNCHANGED <<ran, everRan>>
               /\ \A d \in Calls : d \in everRan' => phase'[d] # "idle"
               /\ \A d \in Calls : phase'[d] = "answered" => d \in everRan'
    <2>1. CASE Remote!Call(c)
      BY <1>3, <2>1 DEF Remote!Call
    <2>2. CASE Remote!Answer(c)
      BY <1>3, <2>2 DEF Remote!Answer
    <2>3. CASE Remote!TimeOut(c)
      BY <1>3, <2>3 DEF Remote!TimeOut
    <2>4. QED
      BY <1>4, <2>1, <2>2, <2>3
  <1>5. ASSUME NEW c \in Calls, Remote!Run(c)
        PROVE  /\ phase' = phase /\ phase[c] # "idle"
               /\ ran' = [ran EXCEPT ![c] = 1] /\ everRan' = everRan \cup {c}
    BY <1>5 DEF Remote!Run
  <1>6. ASSUME Remote!NewLife
        PROVE  phase' = phase /\ ran' = [c \in Calls |-> 0] /\ everRan' = everRan
    BY <1>6 DEF Remote!NewLife
  <1>7. ASSUME UNCHANGED Remote!vars
        PROVE  phase' = phase /\ UNCHANGED <<ran, everRan>>
    BY <1>7 DEF Remote!vars
  <1> HIDE DEF phase
  <1> DEFINE Kept ==
        /\ \A c \in Calls : ran'[c] \in {0, 1} /\ (ran'[c] = 1 => c \in everRan')
        /\ \A c \in Calls : c \in everRan' => phase'[c] # "idle"
        /\ \A c \in Calls : phase'[c] = "answered" => c \in everRan'
  <1>8. Kept
    <2>1. ASSUME NEW c \in Calls, Remote!Call(c) \/ Remote!Answer(c) \/ Remote!TimeOut(c)
          PROVE  Kept
      BY <1>4, <2>1 DEF Promised
    <2>2. QED
      BY <1>1, <1>2, <1>5, <1>6, <1>7, <2>1 DEF Promised, Remote!Next
  <1>9. QED
    BY <1>2, <1>8

(* What that means for a caller: whatever is lost, redelivered or restarted,*)
(* no life of the agent runs a call twice, nothing runs that was not asked *)
(* for, and an answer means that the OQL ran (_handle_request, _run_oql).  *)
THEOREM CallsRunAtMostOnce ==
  ASSUME OwnIds, MemoryIsLarge
  PROVE  Spec => []Promised
  <1>1. Init => Promised
    BY DEF Init, Promised
  <1>2. TypeInv /\ Promised /\ [Remote!Next]_(Remote!vars) => Promised'
    <2> SUFFICES ASSUME TypeInv, Promised, [Remote!Next]_(Remote!vars) PROVE Promised'
      OBVIOUS
    <2>1. \A c \in Calls : Phase(c)' # "idle" => outcome'[c] # "idle"
      BY DEF Phase
    <2>2. \A c \in Calls : outcome'[c] = "answered" => Phase(c)' = "answered"
      BY DEF Phase
    <2>3. QED
      BY RemotePromises, <2>1, <2>2 DEF Promised
  <1>3. QED
    BY TypeInvInit, TypeInvNext, BridgeImplementsRemoteCall, <1>1, <1>2, PTL
    DEF Spec, RemoteSafety
=============================================================================
