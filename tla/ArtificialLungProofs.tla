------------------------ MODULE ArtificialLungProofs ------------------------
(***************************************************************************)
(* Theorems about ArtificialLung, for every number of callers, health      *)
(* checks, error texts, calls and losses.  Two locks are awaited and held  *)
(* by those whose read or motor command is under way; on top of them, what *)
(* a stop has established lasts while no start is in progress, and what    *)
(* the sidecar aborted is what the second status shows.                    *)
(***************************************************************************)
EXTENDS ArtificialLung, SequenceTheorems, TLAPS

InQueue(q, x) == \E i \in 1..Len(q) : q[i] = x
Distinct(q) == \A i, j \in 1..Len(q) : q[i] = q[j] => i = j

(* Joining a queue of distinct callers.                                    *)
LEMMA QueueJoin ==
  ASSUME NEW S, NEW q \in Seq(S), NEW e \in S, Distinct(q), ~InQueue(q, e),
         NEW a, a = Append(q, e)
  PROVE  /\ a \in Seq(S) /\ a # <<>> /\ Distinct(a)
         /\ \A x \in S : InQueue(a, x) <=> InQueue(q, x) \/ x = e
         /\ q # <<>> => Head(a) = Head(q)
  <1>1. /\ a \in Seq(S) /\ a # <<>> /\ Len(a) = Len(q) + 1 /\ Len(q) \in Nat
        /\ a[Len(q) + 1] = e /\ \A k \in 1..Len(q) : a[k] = q[k]
    BY AppendProperties, LenProperties
  <1>2. Head(a) = IF q = <<>> THEN e ELSE Head(q)
    BY HeadTailAppend
  <1>3. \A k \in 1..Len(a) : k \in 1..Len(q) \/ k = Len(q) + 1
    BY <1>1
  <1>4. Distinct(a)
    BY <1>1, <1>3 DEF Distinct, InQueue
  <1>5. \A x \in S : InQueue(a, x) <=> InQueue(q, x) \/ x = e
    BY <1>1, <1>3 DEF InQueue
  <1>6. QED
    BY <1>1, <1>2, <1>4, <1>5

(* Leaving it at its head.                                                 *)
LEMMA QueueLeave ==
  ASSUME NEW S, NEW q \in Seq(S), q # <<>>, Distinct(q)
  PROVE  /\ Tail(q) \in Seq(S) /\ Distinct(Tail(q))
         /\ InQueue(q, Head(q)) /\ Head(q) \in S
         /\ \A x \in S : InQueue(Tail(q), x) <=> InQueue(q, x) /\ x # Head(q)
  <1> DEFINE t == Tail(q)
  <1>1. /\ t \in Seq(S) /\ Len(t) = Len(q) - 1 /\ Len(q) \in Nat \ {0}
        /\ \A k \in 1..Len(t) : t[k] = q[k + 1]
    BY HeadTailProperties, EmptySeq
  <1>2. Head(q) = q[1] /\ Head(q) \in S
    BY HeadTailProperties
  <1> HIDE DEF t
  <1>3. \A k \in 1..Len(t) : k + 1 \in 1..Len(q) /\ k + 1 # 1
    BY <1>1
  <1>4. Distinct(t)
    BY <1>1, <1>3 DEF Distinct
  <1>5. 1 \in 1..Len(q) /\ InQueue(q, Head(q))
    BY <1>1, <1>2 DEF InQueue
  <1>6. ASSUME NEW x \in S PROVE InQueue(t, x) <=> InQueue(q, x) /\ x # Head(q)
    <2>1. InQueue(t, x) => InQueue(q, x) /\ x # Head(q)
      BY <1>1, <1>2, <1>3, <1>5 DEF InQueue, Distinct
    <2>2. ASSUME NEW k \in 1..Len(q), q[k] = x, x # Head(q) PROVE InQueue(t, x)
      <3>1. k # 1 /\ k - 1 \in 1..Len(t) /\ t[k - 1] = q[k]
        BY <1>1, <1>2, <2>2
      <3>2. QED
        BY <3>1, <2>2 DEF InQueue
    <2>3. QED
      BY <2>1, <2>2 DEF InQueue
  <1>7. QED
    BY <1>1, <1>2, <1>4, <1>5, <1>6 DEF t

-----------------------------------------------------------------------------
(* The types.                                                              *)
Legs == {"none", "spawned", "done", "granted", "reading", "posting", "accepted",
         "checking", "releasing"}
Statuses == Texts \cup {Bad, Unread}

DeviceTypes ==
  /\ valve \in BOOLEAN /\ late \in BOOLEAN /\ safeSince \in BOOLEAN
  /\ motion \in Users \cup {Nobody, None}
  /\ error \in Texts
  /\ calls \in 0..MaxCalls /\ lost \in 0..MaxLost

ReadTypes ==
  /\ cache \in Statuses
  /\ seen \in [Readers -> Statuses]
  /\ read \in [Readers -> {"none", "waiting", "fetching", "served", "got"}]

CallTypes ==
  /\ pc \in [Users -> {"idle"} \cup StartSteps \cup StopSteps]
  /\ leg \in [Users -> Legs]
  /\ previous \in [Users -> Texts]
  /\ motorOk \in [Users -> {"yes", "no", "aborted"}]
  /\ valveOk \in [Users -> {"yes", "no", "skipped"}]
  /\ aborted \in [Users -> Errors \cup {None}]
  /\ blind \subseteq Users /\ alone \subseteq Users

Types == DeviceTypes /\ ReadTypes /\ CallTypes

LEMMA TypesInit == Init => Types
  <1> SUFFICES ASSUME Init PROVE Types
    OBVIOUS
  <1>1. calls \in 0..MaxCalls /\ lost \in 0..MaxLost
    BY LungAssumption DEF Init
  <1>2. DeviceTypes
    BY <1>1 DEF Init, DeviceTypes
  <1>3. ReadTypes
    BY DEF Init, ReadTypes, Statuses
  <1>4. CallTypes
    BY DEF Init, CallTypes, Legs, Texts
  <1>5. QED
    BY <1>2, <1>3, <1>4 DEF Types

LEMMA Counted ==
  ASSUME NEW n \in 0..MaxCalls, n < MaxCalls
  PROVE  n + 1 \in 0..MaxCalls
  BY LungAssumption

LEMMA Lost ==
  ASSUME NEW n \in 0..MaxLost, n < MaxLost
  PROVE  n + 1 \in 0..MaxLost
  BY LungAssumption

LEMMA DeviceTypesNext == Types /\ [Next]_vars => DeviceTypes'
  <1> SUFFICES ASSUME Types, [Next]_vars PROVE DeviceTypes'
    OBVIOUS
  <1> USE DEF Types, DeviceTypes, deviceVars, historyVars
  <1>1. ASSUME NEW u \in Users, Start(u) \/ Stop(u) PROVE DeviceTypes'
    BY <1>1, Counted DEF Start, Stop
  <1>2. ASSUME NEW u \in Users, MainStep(u) PROVE DeviceTypes'
    <2>1. CASE Opened(u) \/ CleanedUp(u)
      BY <2>1 DEF Opened, CleanedUp
    <2>2. CASE Powered(u) \/ StartEnds(u)
      BY <2>2 DEF Powered, StartEnds
    <2>3. CASE Shut(u)
      BY <2>3 DEF Shut
    <2>4. CASE StopEnds(u)
      BY <2>4 DEF StopEnds
    <2>5. QED
      BY <1>2, <2>1, <2>2, <2>3, <2>4 DEF MainStep
  <1>3. ASSUME NEW u \in Users, LegStep(u) PROVE DeviceTypes'
    <2>1. CASE LegBegins(u) \/ Preflight(u) \/ Send(u)
      BY <2>1 DEF LegBegins, Preflight, Send
    <2>2. CASE PostServed(u)
      BY <2>2 DEF PostServed
    <2>3. CASE PostLost(u)
      BY <2>3, Lost DEF PostLost
    <2>4. CASE PostAnswered(u) \/ Checked(u)
      BY <2>4 DEF PostAnswered, Checked
    <2>5. CASE StopMotor(u) \/ ReleaseCoils(u)
      BY <2>5, Lost DEF StopMotor, ReleaseCoils
    <2>6. QED
      BY <1>3, <2>1, <2>2, <2>3, <2>4, <2>5 DEF LegStep
  <1>4. ASSUME NEW r \in Readers, ReadStep(r) PROVE DeviceTypes'
    BY <1>4, Lost DEF ReadStep, Wake, Serve, Store, FetchLost
  <1>5. ASSUME NEW p \in Probers, Probe(p) \/ ProbeEnds(p) PROVE DeviceTypes'
    BY <1>5 DEF Probe, ProbeEnds
  <1>6. ASSUME NEW e \in Errors, Abort(e) PROVE DeviceTypes'
    BY <1>6 DEF Abort, Texts
  <1>7. CASE Expire \/ MotionEnds \/ LateMotion \/ UNCHANGED vars
    BY <1>7 DEF Expire, MotionEnds, LateMotion, vars
  <1>8. QED
    BY <1>1, <1>2, <1>3, <1>4, <1>5, <1>6, <1>7 DEF Next

LEMMA ReadWithTypes ==
  ASSUME ReadTypes, NEW r \in Readers, NEW c \in Statuses, ReadWith(r, c)
  PROVE  /\ read' \in [Readers -> {"none", "waiting", "fetching", "served", "got"}]
         /\ seen' \in [Readers -> Statuses]
  BY DEF ReadTypes, ReadWith

LEMMA ReadTypesNext == Types /\ [Next]_vars => ReadTypes'
  <1> SUFFICES ASSUME Types, [Next]_vars PROVE ReadTypes'
    OBVIOUS
  <1> USE DEF Types, ReadTypes, readVars
  <1>0. Users \subseteq Readers /\ Probers \subseteq Readers /\ Unread \in Statuses
    BY DEF Readers, Statuses
  <1>1. ASSUME NEW u \in Users, Start(u) \/ Stop(u) PROVE ReadTypes'
    BY <1>1 DEF Start, Stop
  <1>2. ASSUME NEW u \in Users, MainStep(u) PROVE ReadTypes'
    BY <1>2 DEF MainStep, Opened, Powered, StartEnds, CleanedUp, Shut, StopEnds
  <1>3. ASSUME NEW u \in Users, LegStep(u) PROVE ReadTypes'
    <2>1. CASE LegBegins(u) \/ PostServed(u) \/ PostLost(u)
      BY <2>1 DEF LegBegins, PostServed, PostLost
    <2>2. CASE StopMotor(u) \/ ReleaseCoils(u)
      BY <1>0, <2>2 DEF StopMotor, ReleaseCoils
    <2>3. CASE Preflight(u) \/ PostAnswered(u)
      BY <1>0, <2>3, ReadWithTypes DEF Preflight, PostAnswered
    <2>4. CASE Send(u) \/ Checked(u)
      BY <1>0, <2>4 DEF Send, Checked, ReadEnds
    <2>5. QED
      BY <1>3, <2>1, <2>2, <2>3, <2>4 DEF LegStep
  <1>4. ASSUME NEW r \in Readers, ReadStep(r) PROVE ReadTypes'
    BY <1>0, <1>4 DEF ReadStep, Wake, Serve, Store, FetchLost, DeviceTypes, Statuses
  <1>5. ASSUME NEW p \in Probers, Probe(p) \/ ProbeEnds(p) PROVE ReadTypes'
    BY <1>0, <1>5, ReadWithTypes DEF Probe, ProbeEnds, ReadEnds
  <1>6. ASSUME NEW e \in Errors, Abort(e) PROVE ReadTypes'
    BY <1>6 DEF Abort
  <1>7. CASE Expire \/ MotionEnds \/ LateMotion \/ UNCHANGED vars
    BY <1>0, <1>7 DEF Expire, MotionEnds, LateMotion, vars
  <1>8. QED
    BY <1>1, <1>2, <1>3, <1>4, <1>5, <1>6, <1>7 DEF Next

LEMMA ReturnTypes ==
  ASSUME CallTypes, NEW u \in Users, Return(u), alone' \subseteq Users
  PROVE  CallTypes'
  BY DEF CallTypes, Return, Legs, Texts

LEMMA GoesTypes ==
  ASSUME CallTypes, NEW u \in Users, NEW step \in StartSteps, Goes(u, step),
         alone' \subseteq Users
  PROVE  CallTypes'
  BY DEF CallTypes, Goes

LEMMA LegEndsTypes ==
  ASSUME CallTypes, NEW u \in Users, NEW ok \in {"yes", "no", "aborted"}, LegEnds(u, ok)
  PROVE  leg' \in [Users -> Legs] /\ motorOk' \in [Users -> {"yes", "no", "aborted"}]
  BY DEF CallTypes, LegEnds, Legs

LEMMA CallTypesNext == Types /\ [Next]_vars => CallTypes'
  <1> SUFFICES ASSUME Types, [Next]_vars PROVE CallTypes'
    OBVIOUS
  <1> USE DEF Types, callVars, historyVars
  <1>1. ASSUME NEW u \in Users, Start(u) PROVE CallTypes'
    BY <1>1 DEF Start, CallTypes, StartSteps
  <1>2. ASSUME NEW u \in Users, Stop(u) PROVE CallTypes'
    <2>1. pc' \in [Users -> {"idle"} \cup StartSteps \cup StopSteps]
      BY <1>2 DEF Stop, CallTypes, StopSteps
    <2>2. leg' \in [Users -> Legs] /\ alone' \subseteq Users
      BY <1>2 DEF Stop, CallTypes, Legs
    <2>3. QED
      BY <1>2, <2>1, <2>2 DEF Stop, CallTypes
  <1>3. ASSUME NEW u \in Users, MainStep(u) PROVE CallTypes'
    <2>1. alone' \subseteq Users
      BY <1>3 DEF MainStep, Opened, Powered, StartEnds, CleanedUp, Shut, StopEnds, CallTypes
    <2>2. CASE Opened(u) \/ StartEnds(u) \/ CleanedUp(u)
      BY <2>1, <2>2, ReturnTypes, GoesTypes DEF Opened, StartEnds, CleanedUp, StartSteps
    <2>3. CASE Powered(u)
      <3>1. CASE Return(u)
        BY <2>1, <3>1, ReturnTypes
      <3>2. CASE /\ pc' = [pc EXCEPT ![u] = "motor"] /\ leg' = [leg EXCEPT ![u] = "granted"]
                 /\ UNCHANGED <<previous, motorOk, valveOk, aborted, blind>>
        BY <2>1, <3>2 DEF CallTypes, StartSteps, Legs
      <3>3. QED
        BY <2>3, <3>1, <3>2 DEF Powered
    <2>4. CASE Shut(u)
      BY <2>4 DEF Shut, CallTypes, StopSteps
    <2>5. CASE StopEnds(u)
      BY <2>1, <2>5, ReturnTypes DEF StopEnds
    <2>6. QED
      BY <1>3, <2>2, <2>3, <2>4, <2>5 DEF MainStep
  <1>4. ASSUME NEW u \in Users, LegStep(u) PROVE CallTypes'
    <2>1. CASE LegBegins(u)
      BY <2>1 DEF LegBegins, CallTypes, Legs
    <2>2. CASE Preflight(u)
      BY <2>2 DEF Preflight, CallTypes, Legs
    <2>3. CASE Send(u)
      <3>1. CASE LegEnds(u, "no") /\ UNCHANGED previous
        BY <2>3, <3>1, LegEndsTypes DEF Send, CallTypes
      <3>2. CASE leg' = [leg EXCEPT ![u] = "posting"] /\ UNCHANGED motorOk
                 /\ previous' = [previous EXCEPT ![u] = ErrorIn(seen[u])]
        <4>1. ErrorIn(seen[u]) \in Texts
          BY DEF ErrorIn, Texts
        <4>2. QED
          BY <2>3, <3>2, <4>1 DEF Send, CallTypes, Legs
      <3>3. QED
        BY <2>3, <3>1, <3>2 DEF Send
    <2>4. CASE PostServed(u)
      <3>1. CASE leg' = [leg EXCEPT ![u] = "accepted"] /\ UNCHANGED motorOk
        BY <2>4, <3>1 DEF PostServed, CallTypes, Legs
      <3>2. CASE LegEnds(u, "yes") \/ LegEnds(u, "no")
        BY <2>4, <3>2, LegEndsTypes DEF PostServed, CallTypes
      <3>3. QED
        BY <2>4, <3>1, <3>2 DEF PostServed
    <2>5. CASE PostLost(u)
      BY <2>5, LegEndsTypes DEF PostLost, CallTypes
    <2>6. CASE PostAnswered(u)
      BY <2>6 DEF PostAnswered, CallTypes, Legs
    <2>7. CASE Checked(u)
      <3>1. leg' \in [Users -> Legs] /\ motorOk' \in [Users -> {"yes", "no", "aborted"}]
        BY <2>7, LegEndsTypes DEF Checked
      <3>2. QED
        BY <2>7, <3>1 DEF Checked, CallTypes
    <2>8. CASE StopMotor(u)
      <3>1. ASSUME NEW ok \in {"yes", "no"}, AfterStop(u, ok)
            PROVE  leg' \in [Users -> Legs] /\ motorOk' \in [Users -> {"yes", "no", "aborted"}]
        BY <3>1 DEF AfterStop, CallTypes, Legs
      <3>2. QED
        BY <2>8, <3>1 DEF StopMotor, CallTypes
    <2>9. CASE ReleaseCoils(u)
      <3>1. motorOk[u] \in {"yes", "no", "aborted"}
        BY DEF CallTypes
      <3>2. leg' \in [Users -> Legs] /\ motorOk' \in [Users -> {"yes", "no", "aborted"}]
        BY <2>9, <3>1, LegEndsTypes DEF ReleaseCoils
      <3>3. QED
        BY <2>9, <3>2 DEF ReleaseCoils, CallTypes
    <2>10. QED
      BY <1>4, <2>1, <2>2, <2>3, <2>4, <2>5, <2>6, <2>7, <2>8, <2>9 DEF LegStep
  <1>5. ASSUME NEW r \in Readers, ReadStep(r) PROVE CallTypes'
    BY <1>5 DEF ReadStep, Wake, Serve, Store, FetchLost, CallTypes
  <1>6. ASSUME NEW p \in Probers, Probe(p) \/ ProbeEnds(p) PROVE CallTypes'
    BY <1>6 DEF Probe, ProbeEnds, CallTypes
  <1>7. ASSUME NEW e \in Errors, Abort(e) PROVE CallTypes'
    BY <1>7 DEF Abort, CallTypes
  <1>8. CASE Expire \/ MotionEnds \/ LateMotion \/ UNCHANGED vars
    BY <1>8 DEF Expire, MotionEnds, LateMotion, vars, CallTypes
  <1>9. QED
    BY <1>1, <1>2, <1>3, <1>4, <1>5, <1>6, <1>7, <1>8 DEF Next

LEMMA TypesHold == Spec => []Types
  <1>1. Types /\ [Next]_vars => Types'
    BY DeviceTypesNext, ReadTypesNext, CallTypesNext DEF Types
  <1>2. QED
    BY <1>1, TypesInit, PTL DEF Spec
-----------------------------------------------------------------------------
(* What a stop has established.                                            *)
Commanding == {"reading", "posting", "accepted", "checking"}

\* Nobody any more answers for what moves the motor, if anything does.
Unowned == {None, Nobody}

\* While stops that no start has overlapped go on, and after one of them said
\* safe, no start is about, so that only a late command undoes what the stop
\* did to the motor, and nothing what it did to the valve.
StopInv ==
  /\ \A u \in Users : pc[u] = "idle" => motorOk[u] = "no" /\ valveOk[u] = "no"
  /\ \A u \in Users : leg[u] \in Commanding => pc[u] = "motor"
  /\ \A u \in Users : pc[u] \in StopSteps => motorOk[u] # "aborted"
  /\ alone # {} \/ safeSince => \A u \in Users : ~Starting(u)
  /\ \A u \in alone : /\ pc[u] \in StopSteps
                      /\ motorOk[u] = "yes" => motion \in Unowned
                      /\ valveOk[u] = "yes" => ~valve
  /\ safeSince => motion \in Unowned /\ ~valve

LEMMA StopInvInit == Init => StopInv
  BY DEF Init, StopInv, Commanding, Starting, StartSteps

(* A step of a start finds no lone stop and no safe rest; it may move and  *)
(* open what it likes.                                                     *)
LEMMA StartDisturbs ==
  ASSUME Types, StopInv, NEW u \in Users, Starting(u),
         \A v \in Users : v # u => pc'[v] = pc[v] /\ leg'[v] = leg[v]
                                   /\ motorOk'[v] = motorOk[v] /\ valveOk'[v] = valveOk[v],
         UNCHANGED <<alone, safeSince>>,
         pc'[u] = "idle" => motorOk'[u] = "no" /\ valveOk'[u] = "no",
         leg'[u] \in Commanding => pc'[u] = "motor",
         pc'[u] \notin StopSteps
  PROVE  StopInv'
  <1>1. alone = {} /\ safeSince = FALSE
    BY DEF StopInv, Types, DeviceTypes
  <1>2. QED
    BY <1>1 DEF StopInv

(* A step after which the devices are at rest where they were at rest.     *)
LEMMA RestLasts ==
  ASSUME StopInv, UNCHANGED <<pc, valveOk, motorOk, alone, safeSince>>,
         motion \in Unowned => motion' \in Unowned, ~valve => ~valve',
         \A u \in Users : leg'[u] \in Commanding => leg[u] \in Commanding
  PROVE  StopInv'
  BY DEF StopInv, Starting

LEMMA StopInvNext == Types /\ StopInv /\ [Next]_vars => StopInv'
  <1> SUFFICES ASSUME Types, StopInv, [Next]_vars PROVE StopInv'
    OBVIOUS
  <1> USE DEF deviceVars, readVars, callVars, historyVars, Unowned
  <1>0. /\ pc \in [Users -> {"idle"} \cup StartSteps \cup StopSteps]
        /\ leg \in [Users -> Legs]
        /\ motorOk \in [Users -> {"yes", "no", "aborted"}]
        /\ valveOk \in [Users -> {"yes", "no", "skipped"}]
        /\ alone \subseteq Users /\ safeSince \in BOOLEAN /\ late \in BOOLEAN /\ valve \in BOOLEAN
    BY DEF Types, CallTypes, DeviceTypes
  <1>1. ASSUME NEW u \in Users, Start(u) PROVE StopInv'
    <2>1. \A v \in Users : pc'[v] = IF v = u THEN "opening" ELSE pc[v]
      BY <1>0, <1>1 DEF Start
    <2>2. alone' = {} /\ safeSince' = FALSE /\ UNCHANGED <<leg, motorOk, valveOk>>
          /\ pc[u] = "idle"
      BY <1>1 DEF Start
    <2>3. \A v \in Users : pc'[v] = "idle" => motorOk'[v] = "no" /\ valveOk'[v] = "no"
      BY <2>1, <2>2 DEF StopInv
    <2>4. \A v \in Users : leg'[v] \in Commanding => pc'[v] = "motor"
      BY <2>1, <2>2 DEF StopInv
    <2>5. \A v \in Users : pc'[v] \in StopSteps => motorOk'[v] # "aborted"
      BY <2>1, <2>2 DEF StopInv, StopSteps
    <2>6. QED
      BY <2>2, <2>3, <2>4, <2>5 DEF StopInv
  <1>2. ASSUME NEW u \in Users, Stop(u) PROVE StopInv'
    <2>1. \A v \in Users : /\ pc'[v] = IF v = u THEN "stopping" ELSE pc[v]
                           /\ leg'[v] = IF v = u THEN "spawned" ELSE leg[v]
      BY <1>0, <1>2 DEF Stop
    <2>2. UNCHANGED <<motorOk, valveOk, safeSince, late, motion, valve>> /\ pc[u] = "idle"
      BY <1>2 DEF Stop
    <2>3. \A v \in Users : pc'[v] = "idle" => motorOk'[v] = "no" /\ valveOk'[v] = "no"
      BY <2>1, <2>2 DEF StopInv
    <2>4. \A v \in Users : leg'[v] \in Commanding => pc'[v] = "motor"
      BY <2>1, <2>2 DEF StopInv, Commanding
    <2>5. alone' # {} \/ safeSince' => \A v \in Users : ~Starting(v)'
      <3>1. \A v \in Users : Starting(v)' => Starting(v)
        BY <2>1 DEF Starting, StartSteps
      <3>2. alone' # {} => alone # {} \/ \A v \in Users : ~Starting(v)
        BY <1>2 DEF Stop
      <3>3. QED
        BY <2>2, <3>1, <3>2 DEF StopInv
    <2>6. ASSUME NEW v \in alone'
          PROVE  /\ pc'[v] \in StopSteps
                 /\ motorOk'[v] = "yes" => motion' \in Unowned
                 /\ valveOk'[v] = "yes" => ~valve'
      <3>1. v = u \/ v \in alone
        BY <1>2 DEF Stop
      <3>2. CASE v = u
        BY <2>1, <2>2, <3>2 DEF StopInv, StopSteps
      <3>3. CASE v # u
        BY <1>0, <2>1, <2>2, <3>1, <3>3 DEF StopInv
      <3>4. QED
        BY <3>2, <3>3
    <2>7. \A v \in Users : pc'[v] \in StopSteps => motorOk'[v] # "aborted"
      BY <2>1, <2>2 DEF StopInv
    <2>8. QED
      BY <2>2, <2>3, <2>4, <2>5, <2>6, <2>7 DEF StopInv
  <1>3. ASSUME NEW u \in Users, Opened(u) \/ Powered(u) \/ StartEnds(u) \/ CleanedUp(u)
        PROVE  StopInv'
    <2>1. Starting(u)
      BY <1>3 DEF Opened, Powered, StartEnds, CleanedUp, Starting, StartSteps
    <2>2. leg[u] \notin Commanding \/ pc[u] = "motor"
      BY DEF StopInv
    <2>3. CASE Return(u) /\ UNCHANGED <<alone, safeSince>>
      <3>1. \A v \in Users : /\ pc'[v] = IF v = u THEN "idle" ELSE pc[v]
                             /\ leg'[v] = IF v = u THEN "none" ELSE leg[v]
                             /\ motorOk'[v] = IF v = u THEN "no" ELSE motorOk[v]
                             /\ valveOk'[v] = IF v = u THEN "no" ELSE valveOk[v]
        BY <1>0, <2>3 DEF Return
      <3>2. QED
        BY <2>1, <2>3, <3>1, StartDisturbs DEF Commanding, StopSteps
    <2>4. ASSUME NEW step \in {"powered", "closing"}, Goes(u, step),
                 leg[u] \notin Commanding, UNCHANGED <<alone, safeSince>>
          PROVE  StopInv'
      <3>1. \A v \in Users : pc'[v] = IF v = u THEN step ELSE pc[v]
        BY <1>0, <2>4 DEF Goes
      <3>2. UNCHANGED <<leg, motorOk, valveOk>>
        BY <2>4 DEF Goes
      <3>3. QED
        BY <2>1, <2>4, <3>1, <3>2, StartDisturbs DEF StopSteps
    <2>5. CASE Opened(u)
      <3>1. leg[u] \notin Commanding
        BY <2>2, <2>5 DEF Opened
      <3>2. QED
        BY <2>3, <2>4, <2>5, <3>1 DEF Opened
    <2>6. CASE Powered(u)
      <3>1. CASE /\ pc' = [pc EXCEPT ![u] = "motor"] /\ leg' = [leg EXCEPT ![u] = "granted"]
                 /\ UNCHANGED <<motorOk, valveOk, alone, safeSince>>
        <4>1. \A v \in Users : /\ pc'[v] = IF v = u THEN "motor" ELSE pc[v]
                               /\ leg'[v] = IF v = u THEN "granted" ELSE leg[v]
          BY <1>0, <3>1
        <4>2. QED
          BY <2>1, <3>1, <4>1, StartDisturbs DEF StopSteps, Commanding
      <3>2. QED
        BY <2>3, <2>6, <3>1 DEF Powered
    <2>7. CASE StartEnds(u)
      <3>1. leg[u] \notin Commanding
        BY <2>7 DEF StartEnds, Commanding
      <3>2. QED
        BY <2>3, <2>4, <2>7, <3>1 DEF StartEnds
    <2>8. CASE CleanedUp(u)
      BY <2>3, <2>8 DEF CleanedUp
    <2>9. QED
      BY <1>3, <2>5, <2>6, <2>7, <2>8
  <1>4. ASSUME NEW u \in Users, Shut(u) PROVE StopInv'
    <2>1. \A v \in Users : /\ pc'[v] = IF v = u THEN "joining" ELSE pc[v]
                           /\ v # u => valveOk'[v] = valveOk[v]
      BY <1>0, <1>4 DEF Shut
    <2>2. /\ UNCHANGED <<motion, late, leg, motorOk, alone, safeSince>>
          /\ pc[u] = "stopping" /\ (valve' => valve)
          /\ valveOk'[u] = "yes" => ~valve'
      <3>1. CASE valve' = FALSE
        BY <1>4, <3>1 DEF Shut
      <3>2. ASSUME NEW w \in {"skipped", "no"}, valveOk' = [valveOk EXCEPT ![u] = w],
                   valve' \in {FALSE, valve}
            PROVE  valveOk'[u] # "yes" /\ (valve' => valve)
        <4>1. valveOk'[u] = w
          BY <1>0, <3>2
        <4>2. valve' = FALSE \/ valve' = valve
          BY <3>2
        <4>3. QED
          BY <3>2, <4>1, <4>2
      <3>3. QED
        BY <1>4, <3>1, <3>2 DEF Shut
    <2>3. \A v \in Users : pc'[v] = "idle" => motorOk'[v] = "no" /\ valveOk'[v] = "no"
      BY <2>1, <2>2 DEF StopInv
    <2>4. \A v \in Users : leg'[v] \in Commanding => pc'[v] = "motor"
      BY <2>1, <2>2 DEF StopInv
    <2>5. \A v \in Users : Starting(v)' => Starting(v)
      BY <2>1 DEF Starting, StartSteps
    <2>6. ASSUME NEW v \in alone'
          PROVE  /\ pc'[v] \in StopSteps
                 /\ motorOk'[v] = "yes" => motion' \in Unowned
                 /\ valveOk'[v] = "yes" => ~valve'
      BY <1>0, <2>1, <2>2 DEF StopInv, StopSteps
    <2>7. \A v \in Users : pc'[v] \in StopSteps => motorOk'[v] # "aborted"
      BY <2>1, <2>2 DEF StopInv, StopSteps
    <2>8. QED
      BY <2>2, <2>3, <2>4, <2>5, <2>6, <2>7 DEF StopInv
  <1>5. ASSUME NEW u \in Users, StopEnds(u) PROVE StopInv'
    <2>1. \A v \in Users : /\ pc'[v] = IF v = u THEN "idle" ELSE pc[v]
                           /\ leg'[v] = IF v = u THEN "none" ELSE leg[v]
                           /\ motorOk'[v] = IF v = u THEN "no" ELSE motorOk[v]
                           /\ valveOk'[v] = IF v = u THEN "no" ELSE valveOk[v]
      BY <1>0, <1>5 DEF StopEnds, Return
    <2>2. alone' = alone \ {u} /\ UNCHANGED <<motion, valve, late>>
      BY <1>5 DEF StopEnds
    <2>3. safeSince' => safeSince \/ (u \in alone /\ motorOk[u] = "yes" /\ valveOk[u] = "yes")
      <3>1. motorOk[u] \in {"yes", "no", "aborted"} /\ valveOk[u] \in {"yes", "no", "skipped"}
        BY <1>0
      <3>2. motorOk[u] \in {"yes", "no"}
        BY <1>5, <3>1 DEF StopEnds, StopInv, StopSteps
      <3>3. QED
        BY <1>5, <3>1, <3>2 DEF StopEnds, Verdict
    <2>4. \A v \in Users : Starting(v)' => Starting(v)
      BY <2>1 DEF Starting, StartSteps
    <2>5. \A v \in Users : pc'[v] = "idle" => motorOk'[v] = "no" /\ valveOk'[v] = "no"
      BY <2>1 DEF StopInv
    <2>6. \A v \in Users : leg'[v] \in Commanding => pc'[v] = "motor"
      BY <2>1 DEF StopInv, Commanding
    <2>7. alone' # {} \/ safeSince' => \A v \in Users : ~Starting(v)'
      BY <2>2, <2>3, <2>4 DEF StopInv
    <2>8. ASSUME NEW v \in alone'
          PROVE  /\ pc'[v] \in StopSteps
                 /\ motorOk'[v] = "yes" => motion' \in Unowned
                 /\ valveOk'[v] = "yes" => ~valve'
      BY <1>0, <2>1, <2>2 DEF StopInv
    <2>9. safeSince' => motion' \in Unowned /\ ~valve'
      BY <2>2, <2>3 DEF StopInv
    <2>10. \A v \in Users : pc'[v] \in StopSteps => motorOk'[v] # "aborted"
      BY <2>1 DEF StopInv
    <2>11. QED
      BY <2>5, <2>6, <2>7, <2>8, <2>9, <2>10 DEF StopInv
  <1>6. ASSUME NEW u \in Users, leg[u] \in Commanding \/ (pc[u] = "motor" /\ leg[u] = "granted"),
               \A v \in Users : v # u => leg'[v] = leg[v] /\ motorOk'[v] = motorOk[v],
               UNCHANGED <<pc, valveOk, alone, safeSince>>
        PROVE  StopInv'
    <2>1. pc[u] = "motor" /\ Starting(u)
      BY <1>6 DEF StopInv, Starting, StartSteps
    <2>2. QED
      BY <1>6, <2>1, StartDisturbs DEF StopSteps
  <1>7. ASSUME NEW u \in Users,
               Preflight(u) \/ Send(u) \/ PostServed(u) \/ PostLost(u)
               \/ PostAnswered(u) \/ Checked(u)
        PROVE  StopInv'
    <2>1. /\ leg[u] \in Commanding \/ (pc[u] = "motor" /\ leg[u] = "granted")
          /\ UNCHANGED <<pc, valveOk, alone, safeSince>>
      BY <1>7 DEF Preflight, Send, PostServed, PostLost, PostAnswered, Checked, Commanding
    <2>2. \A v \in Users : v # u => leg'[v] = leg[v] /\ motorOk'[v] = motorOk[v]
      BY <1>0, <1>7 DEF Preflight, Send, PostServed, PostLost, PostAnswered, Checked, LegEnds
    <2>3. QED
      BY <1>6, <2>1, <2>2
  <1>8. ASSUME NEW u \in Users, LegBegins(u) PROVE StopInv'
    <2>1. \A v \in Users : leg'[v] \in Commanding => leg[v] \in Commanding
      BY <1>0, <1>8 DEF LegBegins, Commanding
    <2>2. QED
      BY <1>8, <2>1, RestLasts DEF LegBegins
  <1>9. ASSUME NEW u \in Users, NEW ok \in {"yes", "no"},
               motorOk' = [motorOk EXCEPT ![u] = ok], ok = "yes" => motion' = None,
               motion' \in {None, motion},
               \A v \in Users : leg'[v] \in Commanding => leg[v] \in Commanding,
               pc[u] # "idle", UNCHANGED <<pc, valveOk, alone, safeSince, late, valve>>
        PROVE  StopInv'
    <2>1. \A v \in Users : motorOk'[v] = IF v = u THEN ok ELSE motorOk[v]
      BY <1>0, <1>9
    <2>2. \A v \in Users : pc'[v] = "idle" => motorOk'[v] = "no" /\ valveOk'[v] = "no"
      BY <1>9, <2>1 DEF StopInv
    <2>3. \A v \in Users : leg'[v] \in Commanding => pc'[v] = "motor"
      BY <1>9 DEF StopInv
    <2>4. \A v \in Users : pc'[v] \in StopSteps => motorOk'[v] # "aborted"
      BY <1>9, <2>1 DEF StopInv
    <2>5. alone' # {} \/ safeSince' => \A v \in Users : ~Starting(v)'
      BY <1>9 DEF StopInv, Starting
    <2>6. ASSUME NEW v \in alone'
          PROVE  /\ pc'[v] \in StopSteps
                 /\ motorOk'[v] = "yes" => motion' \in Unowned
                 /\ valveOk'[v] = "yes" => ~valve'
      BY <1>0, <1>9, <2>1 DEF StopInv
    <2>7. safeSince' => motion' \in Unowned /\ ~valve'
      BY <1>9 DEF StopInv
    <2>8. QED
      BY <2>2, <2>3, <2>4, <2>5, <2>6, <2>7 DEF StopInv
  <1>10. ASSUME NEW u \in Users, StopMotor(u) PROVE StopInv'
    <2>1. ASSUME NEW ok \in {"yes", "no"}, AfterStop(u, ok),
                 motion' \in {None, motion}, ok = "yes" => motion' = None
          PROVE  StopInv'
      <3>1. \A v \in Users : leg'[v] \in Commanding => leg[v] \in Commanding
        BY <1>0, <2>1 DEF AfterStop, Commanding
      <3>2. pc[u] # "idle" /\ UNCHANGED <<pc, valveOk, alone, safeSince, late, valve>>
        BY <1>10 DEF StopMotor, StopSteps
      <3>3. motorOk' = [motorOk EXCEPT ![u] = ok]
        BY <2>1 DEF AfterStop
      <3>4. QED
        BY <1>9, <2>1, <3>1, <3>2, <3>3
    <2>2. QED
      BY <1>10, <2>1 DEF StopMotor
  <1>11. ASSUME NEW u \in Users, ReleaseCoils(u) PROVE StopInv'
    <2>1. PICK ok \in {"no", motorOk[u]} : LegEnds(u, ok) /\ motion' \in {None, motion}
                                           /\ (motion' # None => ok = "no")
      BY <1>11 DEF ReleaseCoils
    <2>2. \A v \in Users : leg'[v] \in Commanding => leg[v] \in Commanding
      BY <1>0, <2>1 DEF LegEnds, Commanding
    <2>3. UNCHANGED <<pc, valveOk, alone, safeSince, late, valve>>
      BY <1>11 DEF ReleaseCoils
    <2>4. \A v \in Users : motorOk'[v] = IF v = u THEN ok ELSE motorOk[v]
      BY <1>0, <2>1 DEF LegEnds
    <2>5. \A v \in Users : pc'[v] = "idle" => motorOk'[v] = "no" /\ valveOk'[v] = "no"
      BY <2>3, <2>4 DEF StopInv
    <2>6. \A v \in Users : leg'[v] \in Commanding => pc'[v] = "motor"
      BY <2>2, <2>3 DEF StopInv
    <2>7. \A v \in Users : pc'[v] \in StopSteps => motorOk'[v] # "aborted"
      BY <2>3, <2>4 DEF StopInv
    <2>8. alone' # {} \/ safeSince' => \A v \in Users : ~Starting(v)'
      BY <2>3 DEF StopInv, Starting
    <2>9. ASSUME NEW v \in alone'
          PROVE  /\ pc'[v] \in StopSteps
                 /\ motorOk'[v] = "yes" => motion' \in Unowned
                 /\ valveOk'[v] = "yes" => ~valve'
      BY <1>0, <2>1, <2>3, <2>4 DEF StopInv
    <2>10. safeSince' => motion' \in Unowned /\ ~valve'
      BY <2>1, <2>3 DEF StopInv
    <2>11. QED
      BY <2>5, <2>6, <2>7, <2>8, <2>9, <2>10 DEF StopInv
  <1>12. ASSUME NEW r \in Readers, ReadStep(r) PROVE StopInv'
    BY <1>12, RestLasts DEF ReadStep, Wake, Serve, Store, FetchLost
  <1>13. ASSUME NEW p \in Probers, Probe(p) \/ ProbeEnds(p) PROVE StopInv'
    BY <1>13, RestLasts DEF Probe, ProbeEnds
  <1>14. ASSUME NEW e \in Errors, Abort(e) PROVE StopInv'
    BY <1>14, RestLasts DEF Abort
  <1>15. CASE Expire \/ MotionEnds \/ UNCHANGED vars
    BY <1>15, RestLasts DEF Expire, MotionEnds, vars
  <1>16. CASE LateMotion
    BY <1>16, RestLasts DEF LateMotion
  <1>17. QED
    BY <1>1, <1>2, <1>3, <1>4, <1>5, <1>7, <1>8, <1>10, <1>11, <1>12, <1>13, <1>14, <1>15, <1>16
    DEF Next, MainStep, LegStep

(* A stop that said "safe" and that no start overlapped leaves the valve   *)
(* closed until the next start, and no motion but that of a command given  *)
(* up on and served late, whether or not one was pending when it began.    *)
THEOREM SafeStaysSafe == Spec => []SafeStopIsSafe
  <1>1. StopInv => SafeStopIsSafe
    BY DEF StopInv, SafeStopIsSafe, Unowned
  <1>2. QED
    BY <1>1, StopInvInit, StopInvNext, TypesHold, PTL DEF Spec
-----------------------------------------------------------------------------
(* Who waits for which lock.                                               *)
Held == {"waiting", "fetching", "served"}
Free == {"none", "spawned", "done"}
Reading(r) == statusLock # <<>> /\ Head(statusLock) = r

\* The status lock is awaited and held by those that read, each once.
ReadInv ==
  /\ statusLock \in Seq(Readers) /\ Distinct(statusLock)
  /\ \A r \in Readers : read[r] \in Held <=> InQueue(statusLock, r)
  /\ \A r \in Readers : read[r] \in {"fetching", "served"} => Reading(r)

\* LOCK is awaited and held by motor commands, and the one under way holds it.
MotorInv ==
  /\ motorLock \in Seq(Users) /\ Distinct(motorLock)
  /\ \A u \in Users : leg[u] \notin Free <=> InQueue(motorLock, u)
  /\ \A u \in Users : leg[u] \in Commanding => Granted(u)

\* The motor part of a call goes with where the call is, and a caller reads a
\* status only in the two steps that wait for one.
LegInv ==
  /\ \A u \in Users : leg[u] = "none" <=> pc[u] \in {"idle", "opening", "powered"}
  /\ \A u \in Users : pc[u] = "closing" => leg[u] = "done"
  /\ \A u \in Users : leg[u] \in {"spawned", "releasing"} => pc[u] \in StopSteps
  /\ \A u \in Users : read[u] # "none" <=> leg[u] \in {"reading", "checking"}

RunInv == ReadInv /\ MotorInv /\ LegInv

(* A reader that enters: it is at the end of the queue, or has its status. *)
LEMMA ReadEnters ==
  ASSUME Types, ReadInv, NEW r \in Readers, NEW c, read[r] = "none", ReadWith(r, c)
  PROVE  /\ ReadInv'
         /\ \A x \in Readers : x # r => read'[x] = read[x]
         /\ read'[r] \in Held \cup {"got"}
  <1>1. read \in [Readers -> {"none", "waiting", "fetching", "served", "got"}]
    BY DEF Types, ReadTypes
  <1>2. CASE read' = [read EXCEPT ![r] = "got"] /\ UNCHANGED statusLock
    <2>1. \A x \in Readers : read'[x] = IF x = r THEN "got" ELSE read[x]
      BY <1>1, <1>2
    <2>2. \A x \in Readers : read'[x] \in Held <=> read[x] \in Held
      BY <2>1 DEF Held
    <2>3. \A x \in Readers : read'[x] \in {"fetching", "served"} => read[x] \in {"fetching", "served"}
      BY <2>1
    <2>4. QED
      BY <1>2, <2>1, <2>2, <2>3 DEF ReadInv, Reading, Distinct, InQueue
  <1>3. ASSUME NEW x0 \in {"waiting", "fetching"}, x0 = "fetching" => statusLock = <<>>,
               read' = [read EXCEPT ![r] = x0], statusLock' = Append(statusLock, r)
        PROVE  ReadInv' /\ (\A x \in Readers : x # r => read'[x] = read[x])
               /\ read'[r] \in Held
    <2>1. \A x \in Readers : read'[x] = IF x = r THEN x0 ELSE read[x]
      BY <1>1, <1>3
    <2>2. PICK q : q = statusLock
      OBVIOUS
    <2>3. PICK a : a = Append(q, r)
      OBVIOUS
    <2>4. q \in Seq(Readers) /\ Distinct(q) /\ ~InQueue(q, r)
      BY <2>2 DEF ReadInv, Held
    <2>5. /\ a \in Seq(Readers) /\ a # <<>> /\ Distinct(a)
          /\ \A x \in Readers : InQueue(a, x) <=> InQueue(q, x) \/ x = r
          /\ q # <<>> => Head(a) = Head(q)
      BY <2>3, <2>4, QueueJoin
    <2>6. q = <<>> => Head(a) = r
      BY <2>3, <2>4, HeadTailAppend
    <2>7. statusLock' = a
      BY <1>3, <2>2, <2>3
    <2>8. statusLock' \in Seq(Readers) /\ Distinct(statusLock')
      BY <2>5, <2>7 DEF Distinct
    <2>9. \A x \in Readers : read'[x] \in Held <=> InQueue(statusLock', x)
      BY <2>1, <2>2, <2>5, <2>7 DEF ReadInv, Held, InQueue
    <2>10. \A x \in Readers : read'[x] \in {"fetching", "served"} =>
             statusLock' # <<>> /\ Head(statusLock') = x
      BY <1>3, <2>1, <2>2, <2>5, <2>6, <2>7 DEF ReadInv, Reading
    <2>11. QED
      BY <2>1, <2>8, <2>9, <2>10 DEF ReadInv, Reading, Held
  <1>4. CASE c # Unread
    BY <1>1, <1>2, <1>4 DEF ReadWith
  <1>5. CASE c = Unread
    <2>1. read' = [read EXCEPT ![r] = IF statusLock = <<>> THEN "fetching" ELSE "waiting"]
          /\ statusLock' = Append(statusLock, r)
      BY <1>5 DEF ReadWith
    <2>2. CASE statusLock = <<>>
      BY <1>3, <2>1, <2>2
    <2>3. CASE statusLock # <<>>
      BY <1>3, <2>1, <2>3
    <2>4. QED
      BY <2>2, <2>3
  <1>6. QED
    BY <1>4, <1>5, <1>1, <1>2 DEF ReadWith

(* The reader at the head leaves with what it got.                         *)
LEMMA ReadLeaves ==
  ASSUME Types, ReadInv, NEW r \in Readers, Reading(r),
         read' = [read EXCEPT ![r] = "got"], statusLock' = Tail(statusLock)
  PROVE  ReadInv'
  <1>1. \A x \in Readers : read'[x] = IF x = r THEN "got" ELSE read[x]
    BY DEF Types, ReadTypes
  <1>2. PICK q : q = statusLock
    OBVIOUS
  <1>3. q \in Seq(Readers) /\ Distinct(q) /\ q # <<>> /\ Head(q) = r
    BY <1>2 DEF ReadInv, Reading
  <1>4. PICK t : t = Tail(q)
    OBVIOUS
  <1>5. t \in Seq(Readers) /\ Distinct(t) /\ \A x \in Readers : InQueue(t, x) <=> InQueue(q, x) /\ x # r
    BY <1>3, <1>4, QueueLeave
  <1>6. statusLock' = t
    BY <1>2, <1>4
  <1>7. \A x \in Readers : read'[x] \in Held <=> InQueue(statusLock', x)
    <2>1. \A x \in Readers : read'[x] \in Held <=> read[x] \in Held /\ x # r
      BY <1>1 DEF Held
    <2>2. \A x \in Readers : read'[x] \in Held <=> InQueue(t, x)
      BY <1>2, <1>5, <2>1 DEF ReadInv
    <2>3. QED
      BY <1>6, <2>2 DEF InQueue
  <1>8. \A x \in Readers : read'[x] \notin {"fetching", "served"}
    BY <1>1, <1>2, <1>3 DEF ReadInv, Reading
  <1>9. QED
    BY <1>5, <1>6, <1>7, <1>8 DEF ReadInv, Distinct

(* A reader goes on without the queue.                                     *)
LEMMA ReadStays ==
  ASSUME ReadInv, UNCHANGED statusLock,
         \A x \in Readers : read'[x] \in Held <=> read[x] \in Held,
         \A x \in Readers : read'[x] \in {"fetching", "served"}
                              => read[x] \in {"fetching", "served"} \/ Reading(x)
  PROVE  ReadInv'
  BY DEF ReadInv, Reading, Distinct, InQueue

(* LOCK: a command joins its queue, leaves it, or queues again.            *)
LEMMA MotorJoins ==
  ASSUME Types, MotorInv, NEW u \in Users, leg[u] \in Free,
         leg' = [leg EXCEPT ![u] = "granted"], motorLock' = Append(motorLock, u)
  PROVE  MotorInv'
  <1>1. \A x \in Users : leg'[x] = IF x = u THEN "granted" ELSE leg[x]
    BY DEF Types, CallTypes
  <1>2. PICK q : q = motorLock
    OBVIOUS
  <1>3. PICK a : a = Append(q, u)
    OBVIOUS
  <1>4. q \in Seq(Users) /\ Distinct(q) /\ ~InQueue(q, u)
    BY <1>2 DEF MotorInv
  <1>5. /\ a \in Seq(Users) /\ a # <<>> /\ Distinct(a)
        /\ \A x \in Users : InQueue(a, x) <=> InQueue(q, x) \/ x = u
        /\ q # <<>> => Head(a) = Head(q)
    BY <1>3, <1>4, QueueJoin
  <1>6. motorLock' = a
    BY <1>2, <1>3
  <1>7. \A x \in Users : leg'[x] \notin Free <=> InQueue(motorLock', x)
    BY <1>1, <1>2, <1>5, <1>6 DEF MotorInv, Free, InQueue
  <1>8. \A x \in Users : leg'[x] \in Commanding => motorLock' # <<>> /\ Head(motorLock') = x
    BY <1>1, <1>2, <1>5, <1>6 DEF MotorInv, Granted, Commanding
  <1>9. QED
    BY <1>5, <1>6, <1>7, <1>8 DEF MotorInv, Granted, Distinct

LEMMA MotorLeaves ==
  ASSUME Types, MotorInv, NEW u \in Users, Granted(u), NEW ok, LegEnds(u, ok)
  PROVE  MotorInv'
  <1>1. \A x \in Users : leg'[x] = IF x = u THEN "done" ELSE leg[x]
    BY DEF Types, CallTypes, LegEnds
  <1>2. PICK q : q = motorLock
    OBVIOUS
  <1>3. q \in Seq(Users) /\ Distinct(q) /\ q # <<>> /\ Head(q) = u
    BY <1>2 DEF MotorInv, Granted
  <1>4. PICK t : t = Tail(q)
    OBVIOUS
  <1>5. t \in Seq(Users) /\ Distinct(t) /\ \A x \in Users : InQueue(t, x) <=> InQueue(q, x) /\ x # u
    BY <1>3, <1>4, QueueLeave
  <1>6. motorLock' = t
    BY <1>2, <1>4 DEF LegEnds
  <1>7. \A x \in Users : leg'[x] \notin Free <=> InQueue(motorLock', x)
    BY <1>1, <1>2, <1>5, <1>6 DEF MotorInv, Free, InQueue
  <1>8. \A x \in Users : leg'[x] \notin Commanding
    BY <1>1, <1>2, <1>3 DEF MotorInv, Granted, Commanding
  <1>9. QED
    BY <1>5, <1>6, <1>7, <1>8 DEF MotorInv, Distinct

LEMMA MotorQueuesAgain ==
  ASSUME Types, MotorInv, NEW u \in Users, Granted(u), NEW ok, AfterStop(u, ok)
  PROVE  MotorInv'
  <1>1. CASE LegEnds(u, ok)
    BY <1>1, MotorLeaves
  <1>2. CASE leg' = [leg EXCEPT ![u] = "releasing"] /\ motorLock' = Append(Tail(motorLock), u)
    <2>1. \A x \in Users : leg'[x] = IF x = u THEN "releasing" ELSE leg[x]
      BY <1>2 DEF Types, CallTypes
    <2>2. PICK q : q = motorLock
      OBVIOUS
    <2>3. q \in Seq(Users) /\ Distinct(q) /\ q # <<>> /\ Head(q) = u
      BY <2>2 DEF MotorInv, Granted
    <2>4. PICK t : t = Tail(q)
      OBVIOUS
    <2>5. t \in Seq(Users) /\ Distinct(t) /\ InQueue(q, u)
          /\ \A x \in Users : InQueue(t, x) <=> InQueue(q, x) /\ x # u
      BY <2>3, <2>4, QueueLeave
    <2>6. PICK a : a = Append(t, u)
      OBVIOUS
    <2>7. /\ a \in Seq(Users) /\ Distinct(a)
          /\ \A x \in Users : InQueue(a, x) <=> InQueue(t, x) \/ x = u
      BY <2>5, <2>6, QueueJoin
    <2>8. motorLock' = a
      BY <1>2, <2>2, <2>4, <2>6
    <2>9. \A x \in Users : leg'[x] \notin Free <=> InQueue(motorLock', x)
      BY <2>1, <2>2, <2>5, <2>7, <2>8 DEF MotorInv, Free, InQueue
    <2>10. \A x \in Users : leg'[x] \notin Commanding
      BY <2>1, <2>2, <2>3 DEF MotorInv, Granted, Commanding
    <2>11. QED
      BY <2>7, <2>8, <2>9, <2>10 DEF MotorInv, Distinct
  <1>3. QED
    BY <1>1, <1>2 DEF AfterStop, LegEnds

LEMMA MotorStays ==
  ASSUME MotorInv, UNCHANGED motorLock,
         \A x \in Users : leg'[x] \in Free <=> leg[x] \in Free,
         \A x \in Users : leg'[x] \in Commanding => leg[x] \in Commanding \/ Granted(x)
  PROVE  MotorInv'
  BY DEF MotorInv, Granted, Distinct, InQueue

LEMMA RunInvInit == Init => RunInv
  <1> SUFFICES ASSUME Init PROVE RunInv
    OBVIOUS
  <1>1. statusLock = <<>> /\ motorLock = <<>> /\ Len(statusLock) = 0 /\ Len(motorLock) = 0
    BY DEF Init
  <1>2. statusLock \in Seq(Readers) /\ motorLock \in Seq(Users)
    BY <1>1
  <1>3. /\ Distinct(statusLock) /\ \A r \in Readers : ~InQueue(statusLock, r)
        /\ Distinct(motorLock) /\ \A u \in Users : ~InQueue(motorLock, u)
    BY <1>1 DEF Distinct, InQueue
  <1>4. ReadInv
    BY <1>2, <1>3 DEF Init, ReadInv, Held
  <1>5. MotorInv
    BY <1>2, <1>3 DEF Init, MotorInv, Free, Commanding
  <1>6. LegInv
    BY DEF Init, LegInv, Readers
  <1>7. QED
    BY <1>4, <1>5, <1>6 DEF RunInv

(* The reads: what they change is the status lock.                         *)
LEMMA ReadsRun ==
  ASSUME Types, RunInv, ReadInv', UNCHANGED <<leg, pc, motorLock>>,
         \A u \in Users : read'[u] # "none" <=> read[u] # "none"
  PROVE  RunInv'
  <1>1. MotorInv'
    BY MotorStays DEF RunInv
  <1>2. LegInv'
    BY DEF RunInv, LegInv
  <1>3. QED
    BY <1>1, <1>2 DEF RunInv

LEMMA ReadStepRuns ==
  ASSUME Types, RunInv, NEW r \in Readers, ReadStep(r)
  PROVE  RunInv'
  <1> USE DEF callVars
  <1>0. read \in [Readers -> {"none", "waiting", "fetching", "served", "got"}]
        /\ Users \subseteq Readers
    BY DEF Types, ReadTypes, Readers
  <1>1. ASSUME NEW x0, read[r] # "none", x0 # "none", read' = [read EXCEPT ![r] = x0]
        PROVE  /\ \A x \in Readers : read'[x] = IF x = r THEN x0 ELSE read[x]
               /\ \A u \in Users : read'[u] # "none" <=> read[u] # "none"
    BY <1>0, <1>1
  <1>2. UNCHANGED <<leg, pc, motorLock>>
    BY DEF ReadStep, Wake, Serve, Store, FetchLost
  <1>3. ReadInv
    BY DEF RunInv
  <1>4. CASE Wake(r)
    <2>1. read[r] = "waiting" /\ Reading(r)
      <3>1. InQueue(statusLock, r) /\ statusLock \in Seq(Readers)
        BY <1>3, <1>4 DEF Wake, ReadInv, Held
      <3>2. statusLock # <<>>
        BY <3>1 DEF InQueue
      <3>3. QED
        BY <1>4, <3>2 DEF Wake, Reading
    <2>2. CASE read' = [read EXCEPT ![r] = "got"] /\ statusLock' = Tail(statusLock)
      BY <1>1, <1>2, <1>3, <2>1, <2>2, ReadLeaves, ReadsRun
    <2>3. CASE read' = [read EXCEPT ![r] = "fetching"] /\ UNCHANGED statusLock
      <3>1. /\ \A x \in Readers : read'[x] = IF x = r THEN "fetching" ELSE read[x]
            /\ \A u \in Users : read'[u] # "none" <=> read[u] # "none"
        BY <1>1, <2>1, <2>3
      <3>2. ReadInv'
        BY <1>3, <2>1, <2>3, <3>1, ReadStays DEF Held
      <3>3. QED
        BY <1>2, <3>1, <3>2, ReadsRun
    <2>4. QED
      BY <1>4, <2>2, <2>3 DEF Wake
  <1>5. CASE Serve(r)
    <2>1. /\ \A x \in Readers : read'[x] = IF x = r THEN "served" ELSE read[x]
          /\ \A u \in Users : read'[u] # "none" <=> read[u] # "none"
      BY <1>1, <1>5 DEF Serve
    <2>2. ReadInv'
      BY <1>3, <1>5, <2>1, ReadStays DEF Serve, Held
    <2>3. QED
      BY <1>2, <2>1, <2>2, ReadsRun
  <1>6. CASE Store(r) \/ FetchLost(r)
    <2>1. /\ read[r] \in {"fetching", "served"} /\ read' = [read EXCEPT ![r] = "got"]
          /\ statusLock' = Tail(statusLock)
      BY <1>6 DEF Store, FetchLost
    <2>2. Reading(r) /\ read[r] # "none"
      BY <1>3, <2>1 DEF ReadInv
    <2>3. QED
      BY <1>1, <1>2, <1>3, <2>1, <2>2, ReadLeaves, ReadsRun
  <1>7. QED
    BY <1>4, <1>5, <1>6 DEF ReadStep

LEMMA ProbeRuns ==
  ASSUME Types, RunInv, NEW p \in Probers, Probe(p) \/ ProbeEnds(p)
  PROVE  RunInv'
  <1>1. p \in Readers /\ p \notin Users /\ Users \subseteq Readers
    BY LungAssumption DEF Readers
  <1>2. UNCHANGED <<leg, pc, motorLock>>
    BY DEF Probe, ProbeEnds, callVars
  <1>3. ReadInv
    BY DEF RunInv
  <1>4. CASE Probe(p)
    <2>1. ReadInv' /\ \A x \in Readers : x # p => read'[x] = read[x]
      BY <1>1, <1>3, <1>4, ReadEnters DEF Probe
    <2>2. \A u \in Users : read'[u] = read[u]
      BY <1>1, <2>1
    <2>3. QED
      BY <1>2, <2>1, <2>2, ReadsRun
  <1>5. CASE ProbeEnds(p)
    <2>1. \A x \in Readers : read'[x] = IF x = p THEN "none" ELSE read[x]
      BY <1>5 DEF ProbeEnds, ReadEnds, Types, ReadTypes
    <2>2. read[p] = "got" /\ UNCHANGED statusLock
      BY <1>5 DEF ProbeEnds, ReadEnds
    <2>3. ReadInv'
      BY <1>3, <2>1, <2>2, ReadStays DEF Held
    <2>4. \A u \in Users : read'[u] = read[u]
      BY <1>1, <2>1
    <2>5. QED
      BY <1>2, <2>3, <2>4, ReadsRun
  <1>6. QED
    BY <1>4, <1>5

(* The calls: they change no read and, but for LOCK, only where they are.  *)
LEMMA CallsRun ==
  ASSUME Types, RunInv, UNCHANGED <<read, statusLock>>, MotorInv', NEW u \in Users,
         \A v \in Users : v # u => pc'[v] = pc[v] /\ leg'[v] = leg[v],
         leg'[u] = "none" <=> pc'[u] \in {"idle", "opening", "powered"},
         pc'[u] = "closing" => leg'[u] = "done",
         leg'[u] \in {"spawned", "releasing"} => pc'[u] \in StopSteps,
         leg'[u] \in {"reading", "checking"} <=> leg[u] \in {"reading", "checking"}
  PROVE  RunInv'
  <1>1. ReadInv'
    BY ReadStays DEF RunInv
  <1>2. LegInv'
    BY DEF RunInv, LegInv
  <1>3. QED
    BY <1>1, <1>2 DEF RunInv

LEMMA MainRuns ==
  ASSUME Types, StopInv, RunInv, NEW u \in Users, Start(u) \/ Stop(u) \/ MainStep(u)
  PROVE  RunInv'
  <1> USE DEF readVars
  <1>0. /\ pc \in [Users -> {"idle"} \cup StartSteps \cup StopSteps] /\ leg \in [Users -> Legs]
        /\ MotorInv /\ LegInv
    BY DEF Types, CallTypes, RunInv
  <1>1. UNCHANGED <<read, statusLock>>
    BY DEF Start, Stop, MainStep, Opened, Powered, StartEnds, CleanedUp, Shut, StopEnds
  <1>2. ASSUME NEW step, pc' = [pc EXCEPT ![u] = step], UNCHANGED <<leg, motorLock>>,
               leg[u] = "none" <=> step \in {"idle", "opening", "powered"},
               step = "closing" => leg[u] = "done",
               leg[u] \in {"spawned", "releasing"} => step \in StopSteps
        PROVE  RunInv'
    <2>1. \A v \in Users : pc'[v] = IF v = u THEN step ELSE pc[v]
      BY <1>0, <1>2
    <2>2. MotorInv'
      BY <1>0, <1>2, MotorStays
    <2>3. QED
      BY <1>1, <1>2, <2>1, <2>2, CallsRun
  <1>3. ASSUME Return(u), UNCHANGED motorLock, leg[u] \in {"none", "done"} PROVE RunInv'
    <2>1. \A v \in Users : /\ pc'[v] = IF v = u THEN "idle" ELSE pc[v]
                           /\ leg'[v] = IF v = u THEN "none" ELSE leg[v]
      BY <1>0, <1>3 DEF Return
    <2>2. MotorInv'
      BY <1>0, <1>3, <2>1, MotorStays DEF Free, Commanding
    <2>3. QED
      BY <1>1, <1>3, <2>1, <2>2, CallsRun
  <1>4. CASE Start(u)
    BY <1>0, <1>2, <1>4 DEF Start, LegInv
  <1>5. CASE Stop(u)
    <2>1. \A v \in Users : /\ pc'[v] = IF v = u THEN "stopping" ELSE pc[v]
                           /\ leg'[v] = IF v = u THEN "spawned" ELSE leg[v]
      BY <1>0, <1>5 DEF Stop
    <2>2. leg[u] = "none"
      BY <1>0, <1>5 DEF Stop, LegInv
    <2>3. MotorInv'
      BY <1>0, <1>5, <2>1, <2>2, MotorStays DEF Stop, Free, Commanding
    <2>4. QED
      BY <1>1, <2>1, <2>2, <2>3, CallsRun DEF StopSteps
  <1>6. CASE Opened(u)
    <2>1. leg[u] = "none"
      BY <1>0, <1>6 DEF Opened, LegInv
    <2>2. QED
      BY <1>2, <1>3, <1>6, <2>1 DEF Opened, Goes
  <1>7. CASE Powered(u)
    <2>1. leg[u] = "none"
      BY <1>0, <1>7 DEF Powered, LegInv
    <2>2. CASE Return(u) /\ UNCHANGED motorLock
      BY <1>3, <2>1, <2>2
    <2>3. CASE /\ pc' = [pc EXCEPT ![u] = "motor"] /\ leg' = [leg EXCEPT ![u] = "granted"]
               /\ motorLock' = Append(motorLock, u)
      <3>1. \A v \in Users : /\ pc'[v] = IF v = u THEN "motor" ELSE pc[v]
                             /\ leg'[v] = IF v = u THEN "granted" ELSE leg[v]
        BY <1>0, <2>3
      <3>2. MotorInv'
        BY <1>0, <2>1, <2>3, MotorJoins DEF Free
      <3>3. QED
        BY <1>1, <2>1, <3>1, <3>2, CallsRun
    <2>4. QED
      BY <1>7, <2>2, <2>3 DEF Powered
  <1>8. CASE StartEnds(u)
    BY <1>2, <1>3, <1>8 DEF StartEnds, Goes
  <1>9. CASE CleanedUp(u)
    <2>1. leg[u] = "done"
      BY <1>0, <1>9 DEF CleanedUp, LegInv
    <2>2. QED
      BY <1>3, <1>9, <2>1 DEF CleanedUp
  <1>10. CASE Shut(u)
    <2>1. leg[u] # "none"
      BY <1>0, <1>10 DEF Shut, LegInv
    <2>2. QED
      BY <1>2, <1>10, <2>1 DEF Shut, StopSteps
  <1>11. CASE StopEnds(u)
    BY <1>3, <1>11 DEF StopEnds
  <1>12. QED
    BY <1>4, <1>5, <1>6, <1>7, <1>8, <1>9, <1>10, <1>11 DEF MainStep

LEMMA LegRuns ==
  ASSUME Types, StopInv, RunInv, NEW u \in Users, LegStep(u)
  PROVE  RunInv'
  <1> USE DEF readVars
  <1>0. /\ leg \in [Users -> Legs] /\ u \in Readers
        /\ read \in [Readers -> {"none", "waiting", "fetching", "served", "got"}]
        /\ ReadInv /\ MotorInv /\ LegInv
    BY DEF Types, CallTypes, ReadTypes, RunInv, Readers
  <1>1. UNCHANGED pc
    BY DEF LegStep, LegBegins, Preflight, Send, PostServed, PostLost, PostAnswered, Checked,
           StopMotor, ReleaseCoils
  <1>2. leg[u] \in Commanding => pc[u] = "motor" /\ Granted(u)
    BY <1>0 DEF StopInv, MotorInv
  <1>3. leg[u] \in Commanding \cup {"granted", "spawned", "releasing"}
          => pc[u] \notin {"idle", "opening", "powered", "closing"}
    BY <1>0, <1>2 DEF LegInv, Commanding
  <1>4. ASSUME NEW new \in {"granted", "accepted", "releasing", "done"},
               leg' = [leg EXCEPT ![u] = new], new = "releasing" => pc[u] \in StopSteps,
               leg[u] \in {"granted", "spawned", "posting", "accepted", "releasing"},
               UNCHANGED <<read, statusLock>>, MotorInv'
        PROVE  RunInv'
    <2>1. /\ leg'[u] = new /\ pc'[u] = pc[u]
          /\ \A v \in Users : v # u => pc'[v] = pc[v] /\ leg'[v] = leg[v]
      BY <1>0, <1>1, <1>4
    <2>2. pc[u] \notin {"idle", "opening", "powered", "closing"}
      BY <1>3, <1>4 DEF Commanding
    <2>3. leg'[u] \in {"reading", "checking"} <=> leg[u] \in {"reading", "checking"}
      BY <1>4, <2>1
    <2>4. leg'[u] = "none" <=> pc'[u] \in {"idle", "opening", "powered"}
      BY <2>1, <2>2, <1>4
    <2>5. leg'[u] \in {"spawned", "releasing"} => pc'[u] \in StopSteps
      BY <2>1, <1>4
    <2>6. pc'[u] = "closing" => leg'[u] = "done"
      BY <2>1, <2>2
    <2>7. QED
      BY <1>4, <2>1, <2>3, <2>4, <2>5, <2>6, CallsRun
  <1>5. ASSUME NEW ok, LegEnds(u, ok), Granted(u), UNCHANGED <<read, statusLock>>,
               leg[u] \in {"posting", "accepted", "releasing"}
        PROVE  RunInv'
    <2>1. leg' = [leg EXCEPT ![u] = "done"] /\ MotorInv'
      BY <1>0, <1>5, MotorLeaves DEF LegEnds
    <2>2. QED
      BY <1>4, <1>5, <2>1
  <1>6. CASE LegBegins(u)
    <2>1. leg[u] = "spawned" /\ pc[u] \in StopSteps
      BY <1>0, <1>6 DEF LegBegins, LegInv
    <2>2. CASE leg' = [leg EXCEPT ![u] = "done"] /\ UNCHANGED motorLock
      <3>1. \A v \in Users : leg'[v] = IF v = u THEN "done" ELSE leg[v]
        BY <1>0, <2>2
      <3>2. MotorInv'
        BY <1>0, <2>1, <2>2, <3>1, MotorStays DEF Free, Commanding
      <3>3. QED
        BY <1>4, <1>6, <2>1, <2>2, <3>2 DEF LegBegins
    <2>3. CASE leg' = [leg EXCEPT ![u] = "granted"] /\ motorLock' = Append(motorLock, u)
      <3>1. MotorInv'
        BY <1>0, <2>1, <2>3, MotorJoins DEF Free
      <3>2. QED
        BY <1>4, <1>6, <2>1, <2>3, <3>1 DEF LegBegins
    <2>4. QED
      BY <1>6, <2>2, <2>3 DEF LegBegins
  <1>7. ASSUME NEW new \in {"reading", "checking"}, NEW c,
               leg' = [leg EXCEPT ![u] = new], UNCHANGED motorLock,
               leg[u] \in {"granted", "accepted"}, Granted(u), ReadWith(u, c)
        PROVE  RunInv'
    <2>1. read[u] = "none"
      BY <1>0, <1>7 DEF LegInv
    <2>2. ReadInv' /\ (\A x \in Readers : x # u => read'[x] = read[x]) /\ read'[u] # "none"
      BY <1>0, <1>7, <2>1, ReadEnters DEF Held
    <2>3. \A v \in Users : leg'[v] = IF v = u THEN new ELSE leg[v]
      BY <1>0, <1>7
    <2>4. MotorInv'
      BY <1>0, <1>7, <2>3, MotorStays DEF Free, Commanding
    <2>5. LegInv'
      <3>1. \A v \in Users : v # u => read'[v] = read[v]
        BY <2>2 DEF Readers
      <3>2. pc[u] \notin {"idle", "opening", "powered", "closing"}
        BY <1>3, <1>7 DEF Commanding
      <3>3. QED
        BY <1>0, <1>1, <1>7, <2>2, <2>3, <3>1, <3>2 DEF LegInv
    <2>6. QED
      BY <2>2, <2>4, <2>5 DEF RunInv
  <1>8. ASSUME NEW new \in {"posting", "done"}, leg' = [leg EXCEPT ![u] = new],
               leg[u] \in {"reading", "checking"}, ReadEnds(u), UNCHANGED statusLock, MotorInv'
        PROVE  RunInv'
    <2>1. \A x \in Readers : read'[x] = IF x = u THEN "none" ELSE read[x]
      BY <1>0, <1>8 DEF ReadEnds
    <2>2. ReadInv'
      BY <1>0, <1>8, <2>1, ReadStays DEF ReadEnds, Held
    <2>3. \A v \in Users : leg'[v] = IF v = u THEN new ELSE leg[v]
      BY <1>0, <1>8
    <2>4. LegInv'
      <3>1. \A v \in Users : read'[v] = IF v = u THEN "none" ELSE read[v]
        BY <2>1 DEF Readers
      <3>2. pc[u] \notin {"idle", "opening", "powered", "closing"}
        BY <1>3, <1>8 DEF Commanding
      <3>3. QED
        BY <1>0, <1>1, <1>8, <2>3, <3>1, <3>2 DEF LegInv
    <2>5. QED
      BY <1>8, <2>2, <2>4 DEF RunInv
  <1>9. CASE Preflight(u)
    BY <1>7, <1>9 DEF Preflight
  <1>10. CASE Send(u)
    <2>1. leg[u] = "reading" /\ Granted(u) /\ ReadEnds(u) /\ UNCHANGED statusLock
      BY <1>2, <1>10 DEF Send, Commanding
    <2>2. CASE LegEnds(u, "no")
      <3>1. MotorInv'
        BY <1>0, <2>1, <2>2, MotorLeaves
      <3>2. QED
        BY <1>8, <2>1, <2>2, <3>1 DEF LegEnds
    <2>3. CASE leg' = [leg EXCEPT ![u] = "posting"] /\ UNCHANGED motorLock
      <3>1. \A v \in Users : leg'[v] = IF v = u THEN "posting" ELSE leg[v]
        BY <1>0, <2>3
      <3>2. MotorInv'
        BY <1>0, <2>1, <2>3, <3>1, MotorStays DEF Free, Commanding
      <3>3. QED
        BY <1>8, <2>1, <2>3, <3>2
    <2>4. QED
      BY <1>10, <2>2, <2>3 DEF Send
  <1>11. CASE PostServed(u)
    <2>1. leg[u] = "posting" /\ Granted(u) /\ UNCHANGED <<read, statusLock>>
      BY <1>2, <1>11 DEF PostServed, Commanding
    <2>2. CASE leg' = [leg EXCEPT ![u] = "accepted"] /\ UNCHANGED motorLock
      <3>1. \A v \in Users : leg'[v] = IF v = u THEN "accepted" ELSE leg[v]
        BY <1>0, <2>2
      <3>2. MotorInv'
        BY <1>0, <2>1, <2>2, <3>1, MotorStays DEF Free, Commanding
      <3>3. QED
        BY <1>4, <2>1, <2>2, <3>2
    <2>3. QED
      BY <1>5, <1>11, <2>1, <2>2 DEF PostServed
  <1>12. CASE PostLost(u)
    <2>1. leg[u] \in {"posting", "accepted"} /\ Granted(u) /\ LegEnds(u, "no")
          /\ UNCHANGED <<read, statusLock>>
      BY <1>2, <1>12 DEF PostLost, Commanding
    <2>2. QED
      BY <1>5, <2>1
  <1>13. CASE PostAnswered(u)
    <2>1. leg[u] = "accepted" /\ Granted(u)
      BY <1>2, <1>13 DEF PostAnswered, Commanding
    <2>2. QED
      BY <1>7, <1>13, <2>1 DEF PostAnswered
  <1>14. CASE Checked(u)
    <2>1. leg[u] = "checking" /\ Granted(u) /\ ReadEnds(u) /\ UNCHANGED statusLock
      BY <1>2, <1>14 DEF Checked, Commanding
    <2>2. PICK ok : LegEnds(u, ok)
      BY <1>14 DEF Checked
    <2>3. MotorInv'
      BY <1>0, <2>1, <2>2, MotorLeaves
    <2>4. QED
      BY <1>8, <2>1, <2>2, <2>3 DEF LegEnds
  <1>15. CASE StopMotor(u)
    <2>1. /\ leg[u] = "granted" /\ Granted(u) /\ pc[u] \in StopSteps
          /\ UNCHANGED <<read, statusLock>>
      BY <1>15 DEF StopMotor
    <2>2. PICK ok : AfterStop(u, ok)
      BY <1>15 DEF StopMotor
    <2>3. MotorInv'
      BY <1>0, <2>1, <2>2, MotorQueuesAgain
    <2>4. PICK new \in {"releasing", "done"} : leg' = [leg EXCEPT ![u] = new]
      BY <2>2 DEF AfterStop
    <2>5. QED
      BY <1>4, <2>1, <2>3, <2>4
  <1>16. CASE ReleaseCoils(u)
    <2>1. leg[u] = "releasing" /\ Granted(u) /\ UNCHANGED <<read, statusLock>>
      BY <1>16 DEF ReleaseCoils
    <2>2. QED
      BY <1>5, <1>16, <2>1 DEF ReleaseCoils
  <1>17. QED
    BY <1>6, <1>9, <1>10, <1>11, <1>12, <1>13, <1>14, <1>15, <1>16 DEF LegStep

LEMMA RunInvNext == Types /\ StopInv /\ RunInv /\ [Next]_vars => RunInv'
  <1> SUFFICES ASSUME Types, StopInv, RunInv, [Next]_vars PROVE RunInv'
    OBVIOUS
  <1>1. ASSUME NEW e \in Errors, Abort(e) PROVE UNCHANGED <<readVars, callVars>>
    BY <1>1 DEF Abort
  <1>2. CASE Expire \/ MotionEnds \/ LateMotion \/ UNCHANGED vars
             \/ UNCHANGED <<readVars, callVars>>
    <2>1. UNCHANGED <<read, statusLock, pc, leg, motorLock>>
      BY <1>2 DEF Expire, MotionEnds, LateMotion, vars, readVars, callVars
    <2>2. ReadInv'
      BY <2>1, ReadStays DEF RunInv
    <2>3. QED
      BY <2>1, <2>2, ReadsRun
  <1>3. QED
    BY <1>1, <1>2, MainRuns, LegRuns, ReadStepRuns, ProbeRuns DEF Next

LEMMA LocksHold == Spec => [](Types /\ StopInv /\ RunInv)
  <1>1. Types /\ [Next]_vars => Types'
    BY DeviceTypesNext, ReadTypesNext, CallTypesNext DEF Types
  <1>2. QED
    BY <1>1, TypesInit, StopInvInit, StopInvNext, RunInvInit, RunInvNext, PTL DEF Spec

(* TypeOK, with the queues of both locks, holds of every reachable state:  *)
(* whatever readers and callers give up, nobody is forgotten in a queue    *)
(* and nobody reads or commands without standing in it.                    *)
THEOREM TypeCorrect == Spec => []TypeOK
  <1>1. ASSUME Types, RunInv PROVE TypeOK
    <2>1. /\ statusLock \in Seq(Readers) /\ DOMAIN statusLock = 1..Len(statusLock)
          /\ motorLock \in Seq(Users) /\ DOMAIN motorLock = 1..Len(motorLock)
      BY <1>1 DEF RunInv, ReadInv, MotorInv
    <2>2. \A r \in Readers : (read[r] \in {"waiting", "fetching", "served"})
                             <=> \E i \in DOMAIN statusLock : statusLock[i] = r
      BY <1>1, <2>1 DEF RunInv, ReadInv, Held, InQueue
    <2>3. ASSUME NEW i \in 2..Len(statusLock) PROVE read[statusLock[i]] = "waiting"
      <3>1. Len(statusLock) \in Nat
        BY <2>1, LenProperties
      <3>2. i \in 1..Len(statusLock) /\ 1 \in 1..Len(statusLock) /\ i # 1
        BY <3>1
      <3>3. statusLock[i] \in Readers
        BY <2>1, <3>2, ElementOfSeq
      <3>4. read[statusLock[i]] \in Held
        BY <1>1, <3>2, <3>3 DEF RunInv, ReadInv, InQueue
      <3>5. Head(statusLock) = statusLock[1]
        BY <2>1
      <3>6. ~Reading(statusLock[i])
        BY <1>1, <3>2, <3>5 DEF RunInv, ReadInv, Distinct, Reading
      <3>7. QED
        BY <1>1, <3>3, <3>4, <3>6 DEF RunInv, ReadInv, Held
    <2>4. \A u \in Users : (leg[u] \in {"none", "spawned", "done"})
                           <=> \A i \in DOMAIN motorLock : motorLock[i] # u
      BY <1>1, <2>1 DEF RunInv, MotorInv, Free, InQueue
    <2>5. QED
      BY <1>1, <2>2, <2>3, <2>4
      DEF TypeOK, Types, DeviceTypes, ReadTypes, CallTypes, Statuses
  <1>2. QED
    BY <1>1, LocksHold, PTL
-----------------------------------------------------------------------------
(* What the sidecar aborted.                                               *)

\* The text of a start's abort stays the last one until its second status is
\* served, and is then what that status shows.
AbortOf(u) ==
  /\ aborted[u] # None =>
       leg[u] \in {"accepted", "checking", "done"} /\ pc[u] \in {"motor", "closing"}
  /\ u \notin blind =>
       /\ leg[u] = "checking" => read[u] \in {"fetching", "served", "got"}
       /\ aborted[u] # None /\ AwaitsStatus(u) => error = aborted[u]
       /\ aborted[u] # None /\ leg[u] = "checking" /\ read[u] \in {"served", "got"}
            => seen[u] \in {aborted[u], Bad, Unread}
       /\ pc[u] = "motor" /\ leg[u] = "done" /\ motorOk[u] = "yes"
            => aborted[u] \in {None, previous[u]}

AbortInv == \A u \in Users : AbortOf(u)

LEMMA AbortInvInit == Init => AbortInv
  BY DEF Init, AbortInv, AbortOf

(* A step of something else leaves what is known of a start's abort.       *)
LEMMA AbortKept ==
  ASSUME NEW u \in Users, AbortOf(u), UNCHANGED error,
         pc'[u] = pc[u], leg'[u] = leg[u], read'[u] = read[u], seen'[u] = seen[u],
         motorOk'[u] = motorOk[u], previous'[u] = previous[u], aborted'[u] = aborted[u],
         u \in blind => u \in blind'
  PROVE  AbortOf(u)'
  BY DEF AbortOf, AwaitsStatus

(* Nothing is known of a call with no abort, nor asked of it before it     *)
(* reads its second status.                                                *)
LEMMA NoAbort ==
  ASSUME NEW u \in Users, aborted'[u] = None, leg'[u] # "checking"
  PROVE  AbortOf(u)'
  BY DEF AbortOf

LEMMA MainAborts ==
  ASSUME Types, StopInv, RunInv, AbortInv,
         NEW u \in Users, Start(u) \/ Stop(u) \/ MainStep(u)
  PROVE  AbortInv'
  <1> USE DEF deviceVars, readVars
  <1>0. /\ pc \in [Users -> {"idle"} \cup StartSteps \cup StopSteps]
        /\ leg \in [Users -> Legs] /\ previous \in [Users -> Texts]
        /\ motorOk \in [Users -> {"yes", "no", "aborted"}]
        /\ aborted \in [Users -> Errors \cup {None}]
        /\ LegInv /\ AbortOf(u)
    BY DEF Types, CallTypes, RunInv, AbortInv
  <1>1. UNCHANGED <<error, read, seen>>
    BY DEF Start, Stop, MainStep, Opened, Powered, StartEnds, CleanedUp, Shut, StopEnds
  <1>2. ASSUME NEW v \in Users, v # u PROVE AbortOf(v)'
    <2>1. pc'[v] = pc[v] /\ leg'[v] = leg[v]
      BY <1>0, <1>2 DEF Start, Stop, MainStep, Opened, Powered, StartEnds, CleanedUp, Shut,
                        StopEnds, Return, Goes
    <2>2. motorOk'[v] = motorOk[v] /\ previous'[v] = previous[v]
      BY <1>0, <1>2 DEF Start, Stop, MainStep, Opened, Powered, StartEnds, CleanedUp, Shut,
                        StopEnds, Return, Goes
    <2>3. aborted'[v] = aborted[v] /\ (v \in blind => v \in blind')
      BY <1>0, <1>2 DEF Start, Stop, MainStep, Opened, Powered, StartEnds, CleanedUp, Shut,
                        StopEnds, Return, Goes, historyVars
    <2>4. QED
      BY <1>1, <2>1, <2>2, <2>3, AbortKept DEF AbortInv
  <1> SUFFICES AbortOf(u)'
    BY <1>2 DEF AbortInv
  <1>3. ASSUME Return(u) PROVE AbortOf(u)'
    <2>1. aborted'[u] = None /\ leg'[u] = "none"
      BY <1>0, <1>3 DEF Return
    <2>2. QED
      BY <2>1, NoAbort
  <1>4. ASSUME pc[u] \notin {"motor", "closing"}, UNCHANGED aborted, leg'[u] # "checking"
        PROVE  AbortOf(u)'
    <2>1. aborted[u] = None
      BY <1>0, <1>4 DEF AbortOf
    <2>2. QED
      BY <1>4, <2>1, NoAbort
  <1>5. CASE Start(u) \/ Stop(u)
    <2>1. leg'[u] \in {leg[u], "spawned"} /\ pc[u] = "idle" /\ UNCHANGED aborted
      BY <1>0, <1>5 DEF Start, Stop
    <2>2. leg[u] = "none"
      BY <1>0, <2>1 DEF LegInv
    <2>3. QED
      BY <1>4, <2>1, <2>2
  <1>6. CASE Opened(u)
    <2>1. leg[u] = "none" /\ pc[u] = "opening"
      BY <1>0, <1>6 DEF Opened, LegInv
    <2>2. QED
      BY <1>3, <1>4, <1>6, <2>1 DEF Opened, Goes
  <1>7. CASE Powered(u)
    <2>1. CASE leg' = [leg EXCEPT ![u] = "granted"] /\ UNCHANGED aborted
      <3>1. leg'[u] = "granted"
        BY <1>0, <2>1
      <3>2. QED
        BY <1>4, <1>7, <2>1, <3>1 DEF Powered
    <2>2. QED
      BY <1>3, <1>7, <2>1 DEF Powered
  <1>8. CASE StartEnds(u)
    <2>1. CASE Goes(u, "closing")
      <3>1. pc'[u] = "closing" /\ leg'[u] = "done"
        BY <1>0, <1>8, <2>1 DEF StartEnds, Goes
      <3>2. QED
        BY <3>1 DEF AbortOf, AwaitsStatus
    <2>2. QED
      BY <1>3, <1>8, <2>1 DEF StartEnds
  <1>9. CASE CleanedUp(u) \/ StopEnds(u)
    BY <1>3, <1>9 DEF CleanedUp, StopEnds
  <1>10. CASE Shut(u)
    <2>1. pc[u] = "stopping" /\ leg'[u] = leg[u] /\ UNCHANGED aborted
      BY <1>10 DEF Shut, historyVars
    <2>2. leg[u] # "checking"
      BY <2>1 DEF StopInv, Commanding
    <2>3. QED
      BY <1>4, <2>1, <2>2
  <1>11. QED
    BY <1>5, <1>6, <1>7, <1>8, <1>9, <1>10 DEF MainStep

LEMMA LegAborts ==
  ASSUME Types, StopInv, RunInv, AbortInv, NEW u \in Users, LegStep(u)
  PROVE  AbortInv'
  <1> USE DEF deviceVars, readVars, historyVars
  <1>0. /\ leg \in [Users -> Legs] /\ previous \in [Users -> Texts]
        /\ motorOk \in [Users -> {"yes", "no", "aborted"}]
        /\ aborted \in [Users -> Errors \cup {None}]
        /\ read \in [Readers -> {"none", "waiting", "fetching", "served", "got"}]
        /\ seen \in [Readers -> Statuses]
        /\ Users \subseteq Readers /\ AbortOf(u)
    BY DEF Types, CallTypes, ReadTypes, RunInv, AbortInv, Readers
  <1>1. UNCHANGED <<error, pc, aborted>>
    BY DEF LegStep, LegBegins, Preflight, Send, PostServed, PostLost, PostAnswered, Checked,
           StopMotor, ReleaseCoils
  <1>2. ASSUME NEW v \in Users, v # u PROVE AbortOf(v)'
    <2>0. v \in Readers /\ u \in Readers
      BY <1>0
    <2>1. leg'[v] = leg[v]
      BY <1>0, <1>2 DEF LegStep, LegBegins, Preflight, Send, PostServed, PostLost,
            PostAnswered, Checked, StopMotor, ReleaseCoils, LegEnds, AfterStop
    <2>2. read'[v] = read[v] /\ seen'[v] = seen[v]
      BY <1>0, <2>0, <1>2 DEF LegStep, LegBegins, Preflight, Send, PostServed, PostLost,
            PostAnswered, Checked, StopMotor, ReleaseCoils, ReadWith, ReadEnds
    <2>3. motorOk'[v] = motorOk[v] /\ previous'[v] = previous[v]
      BY <1>0, <1>2 DEF LegStep, LegBegins, Preflight, Send, PostServed, PostLost,
            PostAnswered, Checked, StopMotor, ReleaseCoils, LegEnds, AfterStop
    <2>4. v \in blind => v \in blind'
      BY DEF LegStep, LegBegins, Preflight, Send, PostServed, PostLost, PostAnswered, Checked,
             StopMotor, ReleaseCoils
    <2>5. QED
      BY <1>1, <2>1, <2>2, <2>3, <2>4, AbortKept DEF AbortInv
  <1> SUFFICES AbortOf(u)'
    BY <1>2 DEF AbortInv
  <1>3. ASSUME leg[u] \notin {"accepted", "checking", "done"}, leg'[u] # "checking"
        PROVE  AbortOf(u)'
    <2>1. aborted[u] = None
      BY <1>0, <1>3 DEF AbortOf
    <2>2. QED
      BY <1>1, <1>3, <2>1, NoAbort
  <1>4. CASE LegBegins(u) \/ Preflight(u) \/ Send(u) \/ PostServed(u)
             \/ StopMotor(u) \/ ReleaseCoils(u)
    <2>1. leg[u] \in {"spawned", "granted", "reading", "posting", "releasing"}
      BY <1>4 DEF LegBegins, Preflight, Send, PostServed, StopMotor, ReleaseCoils
    <2>2. leg'[u] # "checking"
      BY <1>0, <1>4 DEF LegBegins, Preflight, Send, PostServed, StopMotor, ReleaseCoils,
                        LegEnds, AfterStop
    <2>3. QED
      BY <1>3, <2>1, <2>2
  <1>5. CASE PostLost(u)
    <2>1. leg'[u] = "done" /\ motorOk'[u] = "no"
          /\ leg[u] \in {"posting", "accepted"}
      BY <1>0, <1>5 DEF PostLost, LegEnds
    <2>2. QED
      BY <1>0, <1>1, <2>1 DEF AbortOf, AwaitsStatus
  <1>6. CASE PostAnswered(u)
    <2>1. leg[u] = "accepted" /\ leg'[u] = "checking"
      BY <1>0, <1>6 DEF PostAnswered
    <2>2. CASE statusLock = <<>>
      <3>1. read'[u] = "fetching" /\ UNCHANGED <<blind, seen>>
        BY <1>0, <1>6, <2>2 DEF PostAnswered, ReadWith
      <3>2. QED
        BY <1>0, <1>1, <2>1, <3>1 DEF AbortOf, AwaitsStatus
    <2>3. CASE statusLock # <<>>
      <3>1. u \in blind'
        BY <1>6, <2>3 DEF PostAnswered
      <3>2. QED
        BY <1>0, <1>1, <2>1, <3>1 DEF AbortOf
    <2>4. QED
      BY <2>2, <2>3
  <1>7. CASE Checked(u)
    <2>1. leg[u] = "checking" /\ leg'[u] = "done" /\ read[u] = "got" /\ UNCHANGED previous
      BY <1>0, <1>7 DEF Checked, LegEnds, ReadEnds
    <2>2. motorOk'[u] = "yes" => ErrorIn(seen[u]) \in {Quiet, previous[u]}
      BY <1>0, <1>7 DEF Checked, LegEnds
    <2>3. u \notin blind' => u \notin blind /\ seen[u] \notin {Bad, Unread}
      BY <1>7 DEF Checked
    <2>4. ASSUME aborted[u] # None, u \notin blind', motorOk'[u] = "yes"
          PROVE  aborted[u] = previous[u]
      <3>1. seen[u] = aborted[u] /\ aborted[u] \in Errors
        BY <1>0, <2>1, <2>3, <2>4 DEF AbortOf
      <3>2. aborted[u] # Quiet
        BY <3>1, LungAssumption DEF Markers
      <3>3. ErrorIn(seen[u]) = aborted[u]
        BY <3>1 DEF ErrorIn, Texts
      <3>4. QED
        BY <2>2, <2>4, <3>2, <3>3
    <2>5. QED
      BY <1>0, <1>1, <2>1, <2>4 DEF AbortOf, AwaitsStatus
  <1>8. QED
    BY <1>4, <1>5, <1>6, <1>7 DEF LegStep

LEMMA ReadAborts ==
  ASSUME Types, RunInv, AbortInv, NEW r \in Readers, ReadStep(r)
  PROVE  AbortInv'
  <1> USE DEF deviceVars, callVars, historyVars
  <1>0. /\ read \in [Readers -> {"none", "waiting", "fetching", "served", "got"}]
        /\ seen \in [Readers -> Statuses]
        /\ Users \subseteq Readers /\ LegInv
    BY DEF Types, ReadTypes, RunInv, Readers
  <1>1. UNCHANGED <<error, pc, leg, motorOk, previous, aborted, blind>>
    BY DEF ReadStep, Wake, Serve, Store, FetchLost
  <1>2. ASSUME NEW v \in Users, v # r PROVE AbortOf(v)'
    <2>1. v \in Readers
      BY <1>0
    <2>2. read'[v] = read[v] /\ seen'[v] = seen[v]
      BY <1>0, <1>2, <2>1 DEF ReadStep, Wake, Serve, Store, FetchLost
    <2>3. QED
      BY <1>1, <2>2, AbortKept DEF AbortInv
  <1>3. ASSUME r \in Users PROVE AbortOf(r)'
    <2>1. AbortOf(r)
      BY <1>3 DEF AbortInv
    <2>2. CASE leg[r] # "checking"
      <3>1. leg[r] = "reading"
        BY <1>0, <1>3, <2>2 DEF ReadStep, Wake, Serve, Store, FetchLost, LegInv
      <3>2. aborted[r] = None
        BY <2>1, <3>1 DEF AbortOf
      <3>3. QED
        BY <1>1, <1>3, <2>2, <3>2, NoAbort
    <2>3. CASE leg[r] = "checking" /\ r \in blind
      BY <1>1, <2>1, <2>3 DEF AbortOf
    <2>4. CASE leg[r] = "checking" /\ r \notin blind
      <3>1. read[r] \in {"fetching", "served"}
        BY <2>1, <2>4 DEF AbortOf, ReadStep, Wake, Serve, Store, FetchLost
      <3>2. CASE Serve(r)
        <4>1. read'[r] = "served" /\ seen'[r] \in {error, Bad}
          BY <1>0, <3>2 DEF Serve
        <4>2. aborted[r] # None => error = aborted[r]
          BY <2>1, <2>4, <3>2 DEF AbortOf, AwaitsStatus, Serve
        <4>3. QED
          BY <1>1, <2>1, <2>4, <4>1, <4>2 DEF AbortOf, AwaitsStatus
      <3>3. CASE Store(r)
        <4>1. read[r] = "served" /\ read'[r] = "got" /\ seen'[r] = seen[r]
          BY <1>0, <3>3 DEF Store
        <4>2. QED
          BY <1>1, <2>1, <2>4, <4>1 DEF AbortOf, AwaitsStatus
      <3>4. CASE FetchLost(r)
        <4>1. read'[r] = "got" /\ seen'[r] = Unread
          BY <1>0, <3>4 DEF FetchLost
        <4>2. QED
          BY <1>1, <2>1, <2>4, <4>1 DEF AbortOf, AwaitsStatus
      <3>5. QED
        BY <3>1, <3>2, <3>3, <3>4 DEF ReadStep, Wake
    <2>5. QED
      BY <2>2, <2>3, <2>4
  <1>4. QED
    BY <1>2, <1>3 DEF AbortInv

(* An abort is either the first of the start whose motion it is, with its  *)
(* text, or makes whoever has one already blind.                           *)
LEMMA SidecarAborts ==
  ASSUME Types, StopInv, AbortInv, NEW e \in Errors, Abort(e)
  PROVE  AbortInv'
  <1>1. UNCHANGED <<read, seen, pc, leg, motorOk, previous>> /\ error' = e
    BY DEF Abort, readVars, callVars
  <1>2. ASSUME NEW u \in Users PROVE AbortOf(u)'
    <2>1. AbortOf(u) /\ AwaitsStatus(u)' = AwaitsStatus(u)
      BY <1>1, <1>2 DEF AbortInv, AwaitsStatus
    <2>2. CASE AwaitsStatus(u) /\ aborted[u] # None
      <3>1. u \in blind' /\ aborted'[u] \in {e, aborted[u]}
        BY <1>2, <2>2 DEF Abort
      <3>2. leg[u] \in {"accepted", "checking", "done"} /\ pc[u] \in {"motor", "closing"}
        BY <2>1, <2>2 DEF AbortOf
      <3>3. QED
        BY <1>1, <3>1, <3>2 DEF AbortOf
    <2>3. CASE AwaitsStatus(u) /\ aborted[u] = None
      <3>1. aborted'[u] \in {e, None} /\ (u \in blind => u \in blind')
        BY <1>2, <2>3 DEF Abort
      <3>2. leg[u] \in {"accepted", "checking"} /\ pc[u] = "motor"
        BY <1>2, <2>3 DEF AwaitsStatus, StopInv, Commanding
      <3>3. leg[u] = "checking" => read[u] \notin {"served", "got"}
        BY <2>3 DEF AwaitsStatus
      <3>4. QED
        BY <1>1, <2>1, <3>1, <3>2, <3>3 DEF AbortOf
    <2>4. CASE ~AwaitsStatus(u)
      <3>1. aborted'[u] = aborted[u] /\ (u \in blind => u \in blind')
        BY <1>2, <2>4 DEF Abort
      <3>2. QED
        BY <1>1, <2>1, <2>4, <3>1 DEF AbortOf
    <2>5. QED
      BY <2>2, <2>3, <2>4
  <1>3. QED
    BY <1>2 DEF AbortInv

LEMMA AbortInvNext ==
  Types /\ StopInv /\ RunInv /\ AbortInv /\ [Next]_vars => AbortInv'
  <1> SUFFICES ASSUME Types, StopInv, RunInv, AbortInv, [Next]_vars PROVE AbortInv'
    OBVIOUS
  <1>1. ASSUME NEW p \in Probers, Probe(p) \/ ProbeEnds(p) PROVE AbortInv'
    <2>1. UNCHANGED <<error, pc, leg, motorOk, previous, aborted, blind>>
      BY <1>1 DEF Probe, ProbeEnds, deviceVars, callVars, historyVars
    <2>2. ASSUME NEW u \in Users PROVE AbortOf(u)'
      <3>1. u # p /\ u \in Readers /\ p \in Readers
        BY <1>1, <2>2, LungAssumption DEF Readers
      <3>2. read'[u] = read[u] /\ seen'[u] = seen[u]
        BY <1>1, <3>1 DEF Probe, ProbeEnds, ReadWith, ReadEnds, Types, ReadTypes
      <3>3. QED
        BY <2>1, <2>2, <3>2, AbortKept DEF AbortInv
    <2>3. QED
      BY <2>2 DEF AbortInv
  <1>2. CASE Expire \/ MotionEnds \/ LateMotion \/ UNCHANGED vars
    <2>1. UNCHANGED <<error, read, seen, pc, leg, motorOk, previous, aborted, blind>>
      BY <1>2 DEF Expire, MotionEnds, LateMotion, vars, deviceVars, readVars, callVars,
                  historyVars
    <2>2. QED
      BY <2>1, AbortKept DEF AbortInv
  <1>3. QED
    BY <1>1, <1>2, MainAborts, LegAborts, ReadAborts, SidecarAborts DEF Next

(* AbortIsReported: a start does not succeed over an abort of its motion   *)
(* that the sidecar knew of when it served the start's second status,      *)
(* whatever other readers of the cached status and late motions do; the    *)
(* exceptions are the blind spots of _reciprocate_abort_reason itself.     *)
THEOREM AbortsAreReported == Spec => []AbortIsReported
  <1>1. AbortInv => AbortIsReported
    BY DEF AbortInv, AbortOf, AbortIsReported
  <1>2. QED
    BY <1>1, LocksHold, AbortInvInit, AbortInvNext, PTL DEF Spec
=============================================================================
