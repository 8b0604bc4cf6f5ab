------------------------ MODULE ControlSourcesProofs ------------------------
(***************************************************************************)
(* Theorems about ControlSources, for every set of callers, forms and      *)
(* devices.  LOCK makes a lookup and its command, or a comparison and its  *)
(* save, one: whatever its holder has read of the settings stays true      *)
(* until it leaves, unless the settings become unreadable or damage gives  *)
(* the device to another controller.                                       *)
(***************************************************************************)
EXTENDS ControlSources, SequenceTheorems, FiniteSetTheorems, TLAPS

InQueue(q, x) == \E i \in 1..Len(q) : q[i] = x
Distinct(q) == \A i, j \in 1..Len(q) : q[i] = q[j] => i = j

(* Joining a queue of distinct users.                                      *)
LEMMA QueueJoin ==
  ASSUME NEW S, NEW q \in Seq(S), NEW e \in S, Distinct(q), ~InQueue(q, e)
  PROVE  /\ Append(q, e) \in Seq(S) /\ Append(q, e) # <<>> /\ Distinct(Append(q, e))
         /\ \A x \in S : InQueue(Append(q, e), x) <=> InQueue(q, x) \/ x = e
         /\ q # <<>> => Head(Append(q, e)) = Head(q)
  <1> DEFINE a == Append(q, e)
  <1>1. /\ a \in Seq(S) /\ a # <<>> /\ Len(a) = Len(q) + 1 /\ Len(q) \in Nat
        /\ a[Len(q) + 1] = e /\ \A k \in 1..Len(q) : a[k] = q[k]
    BY AppendProperties, LenProperties
  <1>2. Head(a) = IF q = <<>> THEN e ELSE Head(q)
    BY HeadTailAppend
  <1> HIDE DEF a
  <1>3. \A k \in 1..Len(a) : k \in 1..Len(q) \/ k = Len(q) + 1
    BY <1>1
  <1>4. Distinct(a)
    BY <1>1, <1>3 DEF Distinct, InQueue
  <1>5. \A x \in S : InQueue(a, x) <=> InQueue(q, x) \/ x = e
    BY <1>1, <1>3 DEF InQueue
  <1>6. QED
    BY <1>1, <1>2, <1>4, <1>5 DEF a

(* Leaving it at its head.                                                 *)
LEMMA QueueLeave ==
  ASSUME NEW S, NEW q \in Seq(S), q # <<>>, Distinct(q)
  PROVE  /\ Tail(q) \in Seq(S) /\ Distinct(Tail(q))
         /\ InQueue(q, Head(q)) /\ Head(q) \in S
         /\ \A x \in S : InQueue(Tail(q), x) <=> InQueue(q, x) /\ x # Head(q)
  <1> DEFINE t == Tail(q)
  <1>1. /\ t \in Seq(S) /\ Len(t) = Len(q) - 1 /\ Len(q) \in Nat \ {0}
        /\ \A k \in 1..Len(t) : t[k] = q[k + 1]
    BY HeadTailProperties, EmptySeq
  <1>2. Head(q) = q[1] /\ Head(q) \in S
    BY HeadTailProperties
  <1> HIDE DEF t
  <1>3. \A k \in 1..Len(t) : k + 1 \in 1..Len(q) /\ k + 1 # 1
    BY <1>1
  <1>4. Distinct(t)
    BY <1>1, <1>3 DEF Distinct
  <1>5. 1 \in 1..Len(q) /\ InQueue(q, Head(q))
    BY <1>1, <1>2 DEF InQueue
  <1>6. ASSUME NEW x \in S PROVE InQueue(t, x) <=> InQueue(q, x) /\ x # Head(q)
    <2>1. InQueue(t, x) => InQueue(q, x) /\ x # Head(q)
      BY <1>1, <1>2, <1>3, <1>5 DEF InQueue, Distinct
    <2>2. ASSUME NEW k \in 1..Len(q), q[k] = x, x # Head(q) PROVE InQueue(t, x)
      <3>1. k # 1 /\ k - 1 \in 1..Len(t) /\ t[k - 1] = q[k]
        BY <1>1, <1>2, <2>2
      <3>2. QED
        BY <3>1, <2>2 DEF InQueue
    <2>3. QED
      BY <2>1, <2>2 DEF InQueue
  <1>7. QED
    BY <1>1, <1>2, <1>4, <1>5, <1>6 DEF t

(* How often a user stands in a queue of distinct users.                   *)
LEMMA QueuedOnce ==
  ASSUME NEW S, NEW q \in Seq(S), Distinct(q), NEW x \in S
  PROVE  Cardinality({i \in DOMAIN q : q[i] = x}) = IF InQueue(q, x) THEN 1 ELSE 0
  <1> DEFINE places == {i \in DOMAIN q : q[i] = x}
  <1>1. DOMAIN q = 1..Len(q)
    BY LenProperties
  <1>2. CASE InQueue(q, x)
    <2>1. PICK i \in 1..Len(q) : q[i] = x
      BY <1>2 DEF InQueue
    <2>2. places = {i}
      BY <1>1, <2>1 DEF Distinct
    <2>3. QED
      BY <1>2, <2>2, FS_Singleton
  <1>3. CASE ~InQueue(q, x)
    <2>1. places = {}
      BY <1>1, <1>3 DEF InQueue
    <2>2. QED
      BY <1>3, <2>1, FS_EmptySet
  <1>4. QED
    BY <1>2, <1>3
----------------------------------------------------------------------------
Active == {"calling", "fanning", "checking", "saving"}

\* LOCK is awaited by the users in the middle of something, and held by the
\* one that has begun.
LockInv ==
  /\ lock \in Seq(Users) /\ Distinct(lock)
  /\ pc \in [Users -> {"idle", "queued", "putting"} \cup Active]
  /\ \A u \in Users : pc[u] # "idle" <=> InQueue(lock, u)
  /\ \A u \in Users : pc[u] \in Active => Holds(u)
  /\ \A u \in Callers : pc[u] \notin {"putting", "checking", "saving"}
  /\ \A u \in Editors : pc[u] \in {"idle", "putting", "checking", "saving"}

LEMMA LockJoin ==
  ASSUME LockInv, NEW u \in Users, pc[u] = "idle", Queue(u),
         NEW x \in {"queued", "putting"}, pc' = [pc EXCEPT ![u] = x],
         u \in Callers <=> x = "queued"
  PROVE  LockInv'
  <1>1. u \in Callers <=> u \notin Editors
    BY SourcesAssumption DEF Users
  <1>2. ~InQueue(lock, u) /\ lock \in Seq(Users) /\ Distinct(lock)
    BY DEF LockInv
  <1>3. /\ lock' \in Seq(Users) /\ lock' # <<>> /\ Distinct(lock')
        /\ \A y \in Users : InQueue(lock', y) <=> InQueue(lock, y) \/ y = u
        /\ lock # <<>> => Head(lock') = Head(lock)
    BY <1>2, QueueJoin DEF Queue
  <1>4. pc' \in [Users -> {"idle", "queued", "putting"} \cup Active]
    BY DEF LockInv
  <1>5. \A v \in Users : pc'[v] = IF v = u THEN x ELSE pc[v]
    BY DEF LockInv
  <1>6. \A v \in Users : pc'[v] # "idle" <=> InQueue(lock', v)
    BY <1>3, <1>5 DEF LockInv
  <1>7. \A v \in Users : pc'[v] \in Active => Holds(v)'
    BY <1>3, <1>5 DEF LockInv, Holds, Active
  <1>8. \A v \in Callers : pc'[v] \notin {"putting", "checking", "saving"}
    BY <1>1, <1>5 DEF LockInv, Users
  <1>9. \A v \in Editors : pc'[v] \in {"idle", "putting", "checking", "saving"}
    BY <1>1, <1>5 DEF LockInv, Users
  <1>10. QED
    BY <1>3, <1>4, <1>6, <1>7, <1>8, <1>9 DEF LockInv

LEMMA LockLeave ==
  ASSUME LockInv, NEW u \in Users, pc[u] # "idle", Holds(u), Release(u)
  PROVE  LockInv'
  <1>1. lock \in Seq(Users) /\ lock # <<>> /\ Head(lock) = u /\ Distinct(lock)
    BY DEF LockInv, Holds
  <1>2. /\ lock' \in Seq(Users) /\ Distinct(lock')
        /\ \A y \in Users : InQueue(lock', y) <=> InQueue(lock, y) /\ y # u
    BY <1>1, QueueLeave DEF Release
  <1>3. pc' \in [Users -> {"idle", "queued", "putting"} \cup Active]
    BY DEF LockInv, Release
  <1>4. \A v \in Users : pc'[v] = IF v = u THEN "idle" ELSE pc[v]
    BY DEF LockInv, Release
  <1>5. \A v \in Users : pc'[v] \notin Active
    BY <1>1, <1>4 DEF LockInv, Holds, Active
  <1>6. QED
    BY <1>2, <1>3, <1>4, <1>5 DEF LockInv, Users

LEMMA LockMove ==
  ASSUME LockInv, NEW u \in Users, pc[u] # "idle", Holds(u), UNCHANGED lock,
         NEW x \in Active, pc' = [pc EXCEPT ![u] = x],
         u \in Editors <=> x \in {"checking", "saving"}
  PROVE  LockInv'
  <1>1. u \in Callers <=> u \notin Editors
    BY SourcesAssumption DEF Users
  <1>2. pc' \in [Users -> {"idle", "queued", "putting"} \cup Active]
    BY DEF LockInv
  <1>3. \A v \in Users : pc'[v] = IF v = u THEN x ELSE pc[v]
    BY DEF LockInv
  <1>4. \A v \in Users : pc'[v] # "idle" <=> InQueue(lock', v)
    BY <1>3 DEF LockInv, Active
  <1>5. \A v \in Users : pc'[v] \in Active => Holds(v)'
    BY <1>3 DEF LockInv, Holds
  <1>6. \A v \in Callers : pc'[v] \notin {"putting", "checking", "saving"}
    BY <1>1, <1>3 DEF LockInv, Users, Active
  <1>7. \A v \in Editors : pc'[v] \in {"idle", "putting", "checking", "saving"}
    BY <1>1, <1>3 DEF LockInv, Users
  <1>8. QED
    BY <1>2, <1>4, <1>5, <1>6, <1>7 DEF LockInv

LEMMA UsersOfKind ==
  /\ Callers \subseteq Users /\ Editors \subseteq Users
  /\ \A u \in Users : u \in Callers <=> u \notin Editors
  BY SourcesAssumption DEF Users

LEMMA LockInvInit == Init => LockInv
  <1> SUFFICES ASSUME Init PROVE LockInv
    OBVIOUS
  <1>1. lock \in Seq(Users) /\ Len(lock) = 0
    BY EmptySeq DEF Init
  <1>2. QED
    BY <1>1, UsersOfKind DEF Init, LockInv, Distinct, InQueue, Active

LEMMA LockInvNext == LockInv /\ [Next]_vars => LockInv'
  <1> SUFFICES ASSUME LockInv, [Next]_vars PROVE LockInv'
    OBVIOUS
  <1> USE UsersOfKind
  <1>a. UNCHANGED <<pc, lock>> => LockInv'
    BY DEF LockInv, Holds
  <1>1. ASSUME NEW u \in Callers, NEW c, NEW d, Call(u, c, d) PROVE LockInv'
    BY <1>1, LockJoin DEF Call
  <1>2. ASSUME NEW u \in Callers, Resolve(u) PROVE LockInv'
    <2>1. pc[u] # "idle" /\ Holds(u)
      BY <1>2 DEF Resolve
    <2>2. \/ UNCHANGED lock /\ \E x \in {"calling", "fanning"} : pc' = [pc EXCEPT ![u] = x]
          \/ Release(u)
      BY <1>2 DEF Resolve, CallEnds
    <2>3. QED
      BY <2>1, <2>2, LockMove, LockLeave DEF Active
  <1>3. ASSUME NEW u \in Callers, Confirmed(u) \/ Unconfirmed(u) \/ FannedOut(u)
        PROVE  LockInv'
    <2>1. pc[u] \in Active
      BY <1>3 DEF Confirmed, Unconfirmed, FannedOut, Active
    <2>2. Release(u) \/ UNCHANGED <<pc, lock>>
      BY <1>3 DEF Confirmed, Unconfirmed, FannedOut, CallEnds
    <2>3. QED
      BY <1>a, <2>1, <2>2, LockLeave DEF LockInv, Active
  <1>4. ASSUME NEW u \in Editors, Load(u) PROVE LockInv'
    BY <1>4, <1>a DEF Load, callVars
  <1>5. ASSUME NEW u \in Editors, NEW s, Put(u, s) PROVE LockInv'
    BY <1>5, LockJoin DEF Put
  <1>6. ASSUME NEW u \in Editors, Compare(u) PROVE LockInv'
    <2>1. pc[u] # "idle" /\ Holds(u)
      BY <1>6 DEF Compare
    <2>2. \/ UNCHANGED lock /\ pc' = [pc EXCEPT ![u] = "checking"]
          \/ Release(u)
      BY <1>6 DEF Compare, PutEnds
    <2>3. QED
      BY <2>1, <2>2, LockMove, LockLeave DEF Active
  <1>7. ASSUME NEW u \in Editors, PutFails(u) \/ SaveJson(u) PROVE LockInv'
    <2>1. pc[u] \in {"checking", "saving"} /\ Release(u)
      BY <1>7 DEF PutFails, SaveJson, PutEnds
    <2>2. QED
      BY <2>1, LockLeave DEF LockInv, Active
  <1>7a. ASSUME NEW u \in Editors, SaveRig(u) PROVE LockInv'
    <2>1. pc[u] # "idle" /\ Holds(u) /\ UNCHANGED lock
          /\ pc' = [pc EXCEPT ![u] = "saving"]
      BY <1>7a DEF SaveRig, LockInv, Active
    <2>2. QED
      BY <2>1, LockMove DEF Active
  <1>8. ASSUME NEW u \in Editors, NEW d, CheckIdle(u, d) PROVE LockInv'
    BY <1>8, <1>a DEF CheckIdle, callVars
  <1>9. ASSUME NEW d, NEW h, LateStart(d, h) PROVE LockInv'
    BY <1>9, <1>a DEF LateStart, callVars
  <1>10. CASE DamageRig \/ DamageJson
    BY <1>10, <1>a DEF DamageRig, DamageJson, callVars
  <1>11. CASE Crash
    <2>1. lock' \in Seq(Users) /\ Len(lock') = 0 /\ pc' = [u \in Users |-> "idle"]
      BY <1>11, EmptySeq DEF Crash
    <2>2. QED
      BY <2>1 DEF LockInv, Distinct, InQueue, Active
  <1>12. CASE UNCHANGED vars
    BY <1>12, <1>a DEF vars, callVars
  <1>13. QED
    BY <1>1, <1>2, <1>3, <1>4, <1>5, <1>6, <1>7, <1>7a, <1>8, <1>9, <1>10, <1>11,
       <1>12 DEF Next, Command, Update
----------------------------------------------------------------------------
Files == {"none", "rig", "json", "nothing"}

\* The types of the data, and what a command under way consists of: a motor
\* has one controller, the valves have the rest of their turn.
FileTypes ==
  /\ rig \in {Absent, Emptied, Refused, Garbled} \cup Contents
  /\ json \in {Absent, Broken} \cup Contents

HostTypes ==
  /\ driving \in [Devices -> SUBSET Hosts]
  /\ strays \in [Devices -> SUBSET Hosts] /\ moved \subseteq Devices
  /\ late \subseteq Devices \X Hosts

FormTypes ==
  /\ form \in [Editors -> [file : Files, sources : Contents \cup {None}]]
  /\ wanted \in [Editors -> Contents] /\ todo \in [Editors -> SUBSET Devices]
  /\ puts \in 0..MaxPuts

Asked(u) ==
  /\ job[u].command \in {"start", "stop"} /\ job[u].device \in Devices
  /\ pc[u] = "calling" =>
       /\ job[u].turn # <<>>
       /\ job[u].device # "valves" => Len(job[u].turn) = 1

JobTypes ==
  /\ job \in [Callers -> [command : {"none", "start", "stop"},
                          device : Devices \cup {None}, turn : Seq(Hosts)]]
  /\ \A u \in Callers : pc[u] # "idle" => Asked(u)

DataInv == FileTypes /\ HostTypes /\ FormTypes /\ JobTypes

LEMMA SelectionIsAllowed ==
  ASSUME NEW s \in Contents, NEW d \in Devices
  PROVE  s[d] \in Hosts \cup {"auto"} /\ (s[d] = "auto" => d = "valves")
  BY SourcesAssumption DEF Contents

LEMMA TurnOfSelection ==
  ASSUME NEW s \in Hosts \cup {"auto"}
  PROVE  /\ InTurn(s) \in Seq(Hosts) /\ InTurn(s) # <<>>
         /\ s # "auto" => Len(InTurn(s)) = 1
         /\ HostsOf(s) = {InTurn(s)[i] : i \in 1..Len(InTurn(s))}
  <1>1. DOMAIN <<"stacknet", "boardnet">> = 1..2 /\ DOMAIN <<s>> = 1..1
    OBVIOUS
  <1>2. s # "auto" => s \in Hosts
    OBVIOUS
  <1>3. InTurn(s) \in Seq(Hosts)
    BY <1>2 DEF InTurn, Hosts
  <1>4. QED
    BY <1>3, LenProperties DEF InTurn, HostsOf

(* What a snapshot is.                                                     *)
LEMMA SnapshotIsASelection ==
  ASSUME FileTypes, Readable
  PROVE  /\ Snapshot \in [file : Files \ {"none"}, sources : Contents]
         /\ rig \in Contents => Snapshot.sources = rig
         /\ ~RigHolds /\ json \in Contents => Snapshot.sources = json
  BY SourcesAssumption DEF FileTypes, Readable, RigHolds, Snapshot, Files

LEMMA DataInvInit == Init => DataInv
  <1> SUFFICES ASSUME Init PROVE DataInv
    OBVIOUS
  <1>1. FileTypes
    BY SourcesAssumption DEF Init, FileTypes
  <1>2. HostTypes
    BY DEF Init, HostTypes
  <1>3. FormTypes
    BY SourcesAssumption DEF Init, FormTypes, NoForm, Files
  <1>4. JobTypes
    BY EmptySeq, UsersOfKind DEF Init, JobTypes, NoJob
  <1>5. QED
    BY <1>1, <1>2, <1>3, <1>4 DEF DataInv

\* What a user's step leaves of the commands of the others.
LEMMA JobStep ==
  ASSUME JobTypes, LockInv, NEW u \in Callers,
         NEW j \in [command : {"none", "start", "stop"},
                    device : Devices \cup {None}, turn : Seq(Hosts)],
         job' = [job EXCEPT ![u] = j],
         \A v \in Users : v # u => pc'[v] = pc[v],
         pc'[u] # "idle" => Asked(u)'
  PROVE  JobTypes'
  <1>1. \A v \in Callers : job'[v] = IF v = u THEN j ELSE job[v]
    BY DEF JobTypes
  <1>2. job' \in [Callers -> [command : {"none", "start", "stop"},
                              device : Devices \cup {None}, turn : Seq(Hosts)]]
    BY DEF JobTypes
  <1>3. \A v \in Callers : pc'[v] # "idle" => Asked(v)'
    BY <1>1, UsersOfKind DEF JobTypes, Asked
  <1>4. QED
    BY <1>2, <1>3 DEF JobTypes

LEMMA DataInvNext == LockInv /\ DataInv /\ [Next]_vars => DataInv'
  <1> SUFFICES ASSUME LockInv, DataInv, [Next]_vars PROVE DataInv'
    OBVIOUS
  <1> USE UsersOfKind DEF DataInv, fileVars, hostVars, callVars, formVars, history
  <1>a. UNCHANGED fileVars => FileTypes'
    BY DEF FileTypes
  <1>b. UNCHANGED <<hostVars, history>> => HostTypes'
    BY DEF HostTypes
  <1>c. UNCHANGED formVars => FormTypes'
    BY DEF FormTypes
  <1>d. UNCHANGED <<job, pc>> => JobTypes'
    BY DEF JobTypes, Asked
  <1>e. pc \in [Users -> {"idle", "queued", "putting"} \cup Active]
    BY DEF LockInv
  <1>n. NoJob \in [command : {"none", "start", "stop"},
                   device : Devices \cup {None}, turn : Seq(Hosts)]
    BY EmptySeq DEF NoJob
  <1>f. ASSUME NEW u \in Editors, PutEnds(u), UNCHANGED puts
        PROVE  FormTypes' /\ JobTypes'
    <2>1. form' \in [Editors -> [file : Files, sources : Contents \cup {None}]]
      BY <1>f DEF PutEnds, FormTypes, NoForm, Files
    <2>2. wanted' \in [Editors -> Contents] /\ todo' \in [Editors -> SUBSET Devices]
      BY <1>f, SourcesAssumption DEF PutEnds, FormTypes
    <2>3. job' = job /\ \A v \in Callers : pc'[v] = pc[v]
      BY <1>e, <1>f DEF PutEnds, Release
    <2>4. QED
      BY <1>f, <2>1, <2>2, <2>3 DEF FormTypes, JobTypes, Asked
  <1>g. ASSUME NEW u \in Callers, CallEnds(u) PROVE JobTypes'
    <2>1. pc'[u] = "idle" /\ \A v \in Users : v # u => pc'[v] = pc[v]
      BY <1>e, <1>g DEF CallEnds, Release
    <2>2. QED
      BY <1>g, <1>n, <2>1, JobStep DEF CallEnds
  <1>1. ASSUME NEW u \in Callers, NEW c \in {"start", "stop"}, NEW d \in Devices,
               Call(u, c, d)
        PROVE  DataInv'
    <2> DEFINE j == [command |-> c, device |-> d, turn |-> <<>>]
    <2>1. j \in [command : {"none", "start", "stop"},
                 device : Devices \cup {None}, turn : Seq(Hosts)]
      BY EmptySeq
    <2>2. pc'[u] = "queued" /\ \A v \in Users : v # u => pc'[v] = pc[v]
      BY <1>e, <1>1 DEF Call
    <2>3. job' = [job EXCEPT ![u] = j] /\ job'[u] = j
      BY <1>1 DEF Call, JobTypes
    <2>4. Asked(u)'
      BY <2>2, <2>3 DEF Asked
    <2>5. JobTypes'
      BY <2>1, <2>2, <2>3, <2>4, JobStep
    <2>6. QED
      BY <1>1, <1>a, <1>b, <1>c, <2>5 DEF Call
  <1>2. ASSUME NEW u \in Callers, Resolve(u) PROVE DataInv'
    <2>1. pc[u] = "queued" /\ Asked(u) /\ UNCHANGED <<fileVars, hostVars, formVars, history>>
      BY <1>2 DEF Resolve, JobTypes
    <2>2. CASE Readable
      <3> DEFINE s == Selected(job[u].device)
                 j == [job[u] EXCEPT !.turn = InTurn(s)]
      <3>1. s \in Hosts \cup {"auto"} /\ (s = "auto" => job[u].device = "valves")
        BY <2>1, <2>2, SnapshotIsASelection, SelectionIsAllowed DEF Asked, Selected
      <3>2. /\ InTurn(s) \in Seq(Hosts) /\ InTurn(s) # <<>>
            /\ s # "auto" => Len(InTurn(s)) = 1
        BY <3>1, TurnOfSelection
      <3>3. pc' = [pc EXCEPT ![u] = "calling"] /\ job' = [job EXCEPT ![u] = j]
        BY <1>2, <2>2 DEF Resolve
      <3> HIDE DEF s
      <3>4. /\ j \in [command : {"none", "start", "stop"},
                      device : Devices \cup {None}, turn : Seq(Hosts)]
            /\ j.command = job[u].command /\ j.device = job[u].device
            /\ j.turn = InTurn(s)
        BY <3>2 DEF JobTypes
      <3>5. job'[u] = j /\ \A v \in Users : v # u => pc'[v] = pc[v]
        BY <1>e, <3>3 DEF JobTypes
      <3> HIDE DEF j
      <3>6. Asked(u)'
        BY <2>1, <3>1, <3>2, <3>4, <3>5 DEF Asked
      <3>7. JobTypes'
        BY <3>3, <3>4, <3>5, <3>6, JobStep
      <3>8. QED
        BY <1>a, <1>b, <1>c, <2>1, <3>7
    <2>3. CASE ~Readable /\ pc' = [pc EXCEPT ![u] = "fanning"] /\ UNCHANGED job
      <3>1. \A v \in Users : pc'[v] = IF v = u THEN "fanning" ELSE pc[v]
        BY <1>e, <2>3
      <3>2. JobTypes'
        BY <2>1, <2>3, <3>1 DEF JobTypes, Asked
      <3>3. QED
        BY <1>a, <1>b, <1>c, <2>1, <3>2
    <2>4. CASE CallEnds(u)
      BY <1>a, <1>b, <1>c, <1>g, <2>1, <2>4
    <2>5. QED
      BY <1>2, <2>2, <2>3, <2>4 DEF Resolve
  <1>h. ASSUME NEW u \in Callers, pc[u] = "calling"
        PROVE  Head(job[u].turn) \in Hosts /\ job[u].device \in Devices
               /\ Tail(job[u].turn) \in Seq(Hosts)
    <2>1. Asked(u) /\ job[u].turn \in Seq(Hosts)
      BY <1>h DEF JobTypes
    <2>2. QED
      BY <1>h, <2>1, HeadTailProperties DEF Asked
  <1>s. ASSUME NEW c, NEW d \in Devices, NEW h \in Hosts, Served(c, d, h),
               UNCHANGED <<late, moved>>
        PROVE  HostTypes'
    BY <1>s DEF Served, HostTypes
  <1>3. ASSUME NEW u \in Callers, Confirmed(u) PROVE DataInv'
    <2>1. HostTypes'
      BY <1>3, <1>h, <1>s DEF Confirmed
    <2>2. QED
      BY <1>3, <1>a, <1>c, <1>g, <2>1 DEF Confirmed
  <1>4. ASSUME NEW u \in Callers, Unconfirmed(u) PROVE DataInv'
    <2>0. pc[u] = "calling" /\ Head(job[u].turn) \in Hosts /\ job[u].device \in Devices
      BY <1>4, <1>h DEF Unconfirmed
    <2>1. ASSUME Served(job[u].command, job[u].device, Head(job[u].turn)),
                 UNCHANGED <<late, moved>>
          PROVE  HostTypes'
      BY <2>0, <2>1, <1>s
    <2>2. ASSUME UNCHANGED <<driving, strays, moved>>,
                 late' \in {late, late \cup {<<job[u].device, Head(job[u].turn)>>}}
          PROVE  HostTypes'
      BY <2>0, <2>2 DEF HostTypes
    <2>3. HostTypes'
      BY <1>4, <1>b, <2>1, <2>2 DEF Unconfirmed
    <2>4. CASE Len(job[u].turn) > 1 /\ job' = [job EXCEPT ![u].turn = Tail(@)]
               /\ UNCHANGED <<pc, lock>>
      <3> DEFINE j == [job[u] EXCEPT !.turn = Tail(job[u].turn)]
      <3>1. /\ j \in [command : {"none", "start", "stop"},
                      device : Devices \cup {None}, turn : Seq(Hosts)]
            /\ j.command = job[u].command /\ j.device = job[u].device
            /\ j.turn = Tail(job[u].turn)
        BY <2>0, <1>h DEF JobTypes
      <3>2. job' = [job EXCEPT ![u] = j] /\ job'[u] = j
        BY <2>4 DEF JobTypes
      <3> HIDE DEF j
      <3>3. job[u].turn \in Seq(Hosts) /\ Asked(u) /\ pc'[u] = "calling"
        BY <2>0, <2>4 DEF JobTypes
      <3>4. Tail(job[u].turn) # <<>> /\ job[u].device = "valves"
        <4>1. Len(Tail(job[u].turn)) = Len(job[u].turn) - 1
          BY <3>3, <2>0, HeadTailProperties DEF Asked
        <4> DEFINE n == Len(job[u].turn)
        <4>0. n \in Nat
          BY <3>3, LenProperties
        <4>6. n > 1
          BY <2>4
        <4> HIDE DEF n
        <4>2. n \in Nat /\ n # 1
          BY <4>0, <4>6
        <4>3. Len(Tail(job[u].turn)) # 0
          BY <4>1, <4>2, <4>6 DEF n
        <4>4. Tail(job[u].turn) # <<>>
          BY <4>3, EmptySeq
        <4>5. QED
          BY <2>0, <3>3, <4>2, <4>4 DEF Asked, n
      <3>5. Asked(u)'
        BY <2>0, <3>1, <3>2, <3>3, <3>4 DEF Asked
      <3>6. JobTypes'
        BY <2>4, <3>1, <3>2, <3>5, JobStep
      <3>7. QED
        BY <1>4, <1>a, <1>c, <2>3, <3>6 DEF Unconfirmed
    <2>5. QED
      BY <1>4, <1>a, <1>c, <1>g, <2>3, <2>4 DEF Unconfirmed
  <1>5. ASSUME NEW u \in Callers, FannedOut(u) PROVE DataInv'
    <2>1. HostTypes'
      BY <1>5 DEF FannedOut, HostTypes
    <2>2. QED
      BY <1>5, <1>a, <1>c, <1>g, <2>1 DEF FannedOut
  <1>6. ASSUME NEW u \in Editors, Load(u) PROVE DataInv'
    <2>1. Snapshot \in [file : Files, sources : Contents \cup {None}]
      BY <1>6, SnapshotIsASelection DEF Load
    <2>2. FormTypes'
      BY <1>6, <2>1 DEF Load, FormTypes
    <2>3. QED
      BY <1>6, <1>a, <1>b, <1>d, <2>2 DEF Load
  <1>7. ASSUME NEW u \in Editors, NEW s \in Contents, Put(u, s) PROVE DataInv'
    <2>1. FormTypes'
      BY <1>7, SourcesAssumption DEF Put, FormTypes
    <2>2. job' = job /\ \A v \in Callers : pc'[v] = pc[v]
      BY <1>e, <1>7 DEF Put
    <2>3. JobTypes'
      BY <2>2 DEF JobTypes, Asked
    <2>4. QED
      BY <1>7, <1>a, <1>b, <2>1, <2>3 DEF Put
  <1>8. ASSUME NEW u \in Editors, Compare(u) PROVE DataInv'
    <2>1. CASE pc' = [pc EXCEPT ![u] = "checking"]
               /\ todo' = [todo EXCEPT ![u] = {d \in Devices : wanted[u][d] # Selected(d)}]
               /\ UNCHANGED <<lock, job, form, wanted>>
      <3>1. FormTypes'
        BY <1>8, <2>1 DEF Compare, FormTypes
      <3>2. job' = job /\ \A v \in Callers : pc'[v] = pc[v]
        BY <1>e, <2>1
      <3>3. JobTypes'
        BY <3>2 DEF JobTypes, Asked
      <3>4. QED
        BY <1>8, <1>a, <1>b, <3>1, <3>3 DEF Compare
    <2>2. CASE PutEnds(u)
      BY <1>8, <1>a, <1>b, <1>f, <2>2 DEF Compare
    <2>3. QED
      BY <1>8, <2>1, <2>2 DEF Compare
  <1>9. ASSUME NEW u \in Editors, PutFails(u) PROVE DataInv'
    BY <1>9, <1>a, <1>b, <1>f DEF PutFails
  <1>10. ASSUME NEW u \in Editors, SaveJson(u) PROVE DataInv'
    <2>1. FileTypes'
      BY <1>10 DEF SaveJson, FileTypes, FormTypes
    <2>2. QED
      BY <1>10, <1>b, <1>f, <2>1 DEF SaveJson
  <1>10a. ASSUME NEW u \in Editors, SaveRig(u) PROVE DataInv'
    <2>1. FileTypes'
      BY <1>10a DEF SaveRig, FileTypes, FormTypes
    <2>2. job' = job /\ \A v \in Callers : pc'[v] = pc[v]
      BY <1>e, <1>10a DEF SaveRig
    <2>3. JobTypes'
      BY <2>2 DEF JobTypes, Asked
    <2>4. QED
      BY <1>10a, <1>b, <1>c, <2>1, <2>3 DEF SaveRig
  <1>11. ASSUME NEW u \in Editors, NEW d \in Devices, CheckIdle(u, d) PROVE DataInv'
    <2>1. strays' \in [Devices -> SUBSET Hosts]
      BY <1>11 DEF CheckIdle, HostTypes
    <2>2. HostTypes'
      BY <1>11, <2>1 DEF CheckIdle, HostTypes
    <2>3. FormTypes'
      BY <1>11 DEF CheckIdle, FormTypes
    <2>4. QED
      BY <1>11, <1>a, <1>d, <2>2, <2>3 DEF CheckIdle
  <1>12. ASSUME NEW d \in Devices, NEW h \in Hosts, LateStart(d, h) PROVE DataInv'
    <2>1. HostTypes'
      BY <1>12 DEF LateStart, HostTypes
    <2>2. QED
      BY <1>12, <1>a, <1>c, <1>d, <2>1 DEF LateStart
  <1>13. CASE DamageJson
    BY <1>13, <1>b, <1>c, <1>d DEF DamageJson, FileTypes
  <1>13a. CASE DamageRig
    <2>1. FileTypes' /\ HostTypes'
      BY <1>13a DEF DamageRig, FileTypes, HostTypes
    <2>2. QED
      BY <1>13a, <1>c, <1>d, <2>1 DEF DamageRig
  <1>14. CASE Crash
    <2>1. HostTypes'
      BY <1>14, <1>h DEF Crash, HostTypes
    <2>2. FormTypes'
      BY <1>14, SourcesAssumption DEF Crash, FormTypes
    <2>3. JobTypes'
      BY <1>14, <1>n DEF Crash, JobTypes
    <2>4. QED
      BY <1>14, <1>a, <2>1, <2>2, <2>3 DEF Crash
  <1>15. CASE UNCHANGED vars
    BY <1>15, <1>a, <1>b, <1>c, <1>d DEF vars
  <1>16. QED
    BY <1>1, <1>2, <1>3, <1>4, <1>5, <1>6, <1>7, <1>8, <1>9, <1>10, <1>10a, <1>11,
       <1>12, <1>13, <1>13a, <1>14, <1>15 DEF Next, Command, Update

(* Every variable keeps its type, and LOCK is held or awaited once by each *)
(* user in a command or a change of the settings (LOCK of                  *)
(* control_sources, update_sources).                                  *)
THEOREM TypeCorrect == Spec => []TypeOK
  <1>1. LockInv /\ DataInv => TypeOK
    <2> SUFFICES ASSUME LockInv, DataInv PROVE TypeOK
      OBVIOUS
    <2>1. \A u \in Users : Cardinality({i \in DOMAIN lock : lock[i] = u})
                             = IF pc[u] = "idle" THEN 0 ELSE 1
      BY QueuedOnce DEF LockInv
    <2>2. \A u \in Users : pc[u] \in Active => Holds(u)
      BY DEF LockInv, Active
    <2>3. QED
      BY <2>1, <2>2 DEF TypeOK, LockInv, Active, DataInv, FileTypes, HostTypes, FormTypes
  <1>2. QED
    BY LockInvInit, LockInvNext, DataInvInit, DataInvNext, <1>1, PTL DEF Spec
----------------------------------------------------------------------------
\* A command goes to the controllers the settings select, as long as they can
\* be read and damage has not moved the device: nobody else changes them while
\* the command holds LOCK.
Follows(u) ==
  pc[u] = "calling" /\ Readable /\ job[u].device \notin moved =>
    \A i \in 1..Len(job[u].turn) : job[u].turn[i] \in HostsOf(Selected(job[u].device))

\* A change of the settings was made for what they still are; what drives a
\* device is selected by them and, once it was checked, by the new ones.  That
\* holds also when they have become unreadable, or one file is written and the
\* other is not.
Compared(u) ==
  pc[u] \in {"checking", "saving"} =>
    /\ form[u].sources \in Contents
    /\ pc[u] = "checking" =>
         \A d \in Devices \ moved :
           /\ Readable => Selected(d) = form[u].sources[d]
           /\ driving[d] \subseteq HostsOf(form[u].sources[d]) \cup strays[d]
    /\ pc[u] = "saving" => todo[u] = {}
    /\ \A d \in Devices \ (todo[u] \cup moved) :
         driving[d] \subseteq HostsOf(wanted[u][d]) \cup strays[d]

Asks(u) ==
  pc[u] = "calling" /\ job[u].command = "stop"
    /\ job[u].device \notin {"valves"} \cup moved => Reaches(u)

SelectionInv ==
  /\ DriversAreSelected
  /\ \A u \in Callers : Follows(u) /\ Asks(u)
  /\ \A u \in Editors : Compared(u)

LEMMA OneActive ==
  ASSUME LockInv, NEW u \in Users, Holds(u)
  PROVE  \A v \in Users : v # u => pc[v] \notin Active
  BY DEF LockInv, Holds

LEMMA SameFiles ==
  UNCHANGED fileVars
    => (Readable <=> Readable') /\ Snapshot' = Snapshot
       /\ \A d \in Devices : Selected(d)' = Selected(d)
  BY DEF fileVars, Readable, RigHolds, Snapshot, Selected

\* No controller begins to drive a device unless it is counted among the strays.
Calm ==
  \A d \in Devices : \A h \in driving'[d] :
    h \in strays'[d] \/ (h \in driving[d] /\ h \notin strays[d])

(* A step that starts nothing unasked and leaves the settings and those    *)
(* who are in the middle of something as they were.                        *)
LEMMA SelectionKept ==
  ASSUME SelectionInv, UNCHANGED <<fileVars, moved>>, Calm, DataInv,
         \A v \in Callers : pc'[v] = "calling" => pc[v] = "calling" /\ job'[v] = job[v],
         \A v \in Editors : pc'[v] \in {"checking", "saving"} =>
           pc[v] = pc'[v] /\ form'[v] = form[v] /\ wanted'[v] = wanted[v]
                          /\ todo'[v] = todo[v]
  PROVE  SelectionInv'
  <1>1. DriversAreSelected'
    BY SameFiles DEF SelectionInv, DriversAreSelected, Calm
  <1>2. ASSUME NEW v \in Callers PROVE Follows(v)' /\ Asks(v)'
    <2>1. SUFFICES ASSUME pc'[v] = "calling" PROVE Follows(v)' /\ Asks(v)'
      BY DEF Follows, Asks
    <2>2. pc[v] = "calling" /\ job'[v] = job[v] /\ job[v].device \in Devices
      BY <2>1, UsersOfKind DEF DataInv, JobTypes, Asked
    <2>3. Follows(v)'
      BY <2>2, SameFiles DEF SelectionInv, Follows
    <2>4. Asks(v)'
      BY <2>2 DEF SelectionInv, Asks, Reaches, Calm
    <2>5. QED
      BY <2>3, <2>4
  <1>3. ASSUME NEW v \in Editors PROVE Compared(v)'
    BY <1>3, SameFiles DEF SelectionInv, Compared, Calm
  <1>4. QED
    BY <1>1, <1>2, <1>3 DEF SelectionInv

(* A command is served.                                                    *)
LEMMA SelectionServed ==
  ASSUME SelectionInv, LockInv, DataInv, UNCHANGED <<fileVars, moved>>,
         NEW u \in Callers, pc[u] = "calling",
         \/ Served(job[u].command, job[u].device, Head(job[u].turn))
         \/ UNCHANGED <<driving, strays>>
  PROVE  DriversAreSelected' /\ (job[u].command = "stop" => Calm)
  <1>1. /\ Asked(u) /\ job[u].device \in Devices /\ Head(job[u].turn) \in Hosts
        /\ job[u].turn # <<>> /\ job[u].turn \in Seq(Hosts)
    BY UsersOfKind, HeadTailProperties DEF DataInv, JobTypes, Asked
  <1>2. 1 \in 1..Len(job[u].turn) /\ Head(job[u].turn) = job[u].turn[1]
    BY <1>1, EmptySeq
  <1>3. Readable /\ job[u].device \notin moved
          => Head(job[u].turn) \in HostsOf(Selected(job[u].device))
    BY <1>2 DEF SelectionInv, Follows
  <1> DEFINE h == Head(job[u].turn)
             e == job[u].device
  <1> HIDE DEF h, e
  <1>4. CASE Served(job[u].command, e, h)
    <2>1. \A d \in Devices : d # e => driving'[d] = driving[d] /\ strays'[d] = strays[d]
      BY <1>4 DEF Served, DataInv, HostTypes
    <2>2. /\ driving'[e] = IF job[u].command = "start" THEN driving[e] \cup {h}
                                                      ELSE driving[e] \ {h}
          /\ strays'[e] = strays[e] \ {h}
      BY <1>1, <1>4 DEF Served, DataInv, HostTypes, e
    <2>3. DriversAreSelected'
      BY <1>3, <2>1, <2>2, SameFiles DEF SelectionInv, DriversAreSelected, h, e
    <2>4. job[u].command = "stop" => Calm
      BY <2>1, <2>2 DEF Calm
    <2>5. QED
      BY <2>3, <2>4
  <1>5. CASE UNCHANGED <<driving, strays>>
    BY <1>5, SameFiles DEF SelectionInv, DriversAreSelected, Calm
  <1>6. QED
    BY <1>4, <1>5 DEF h, e

LEMMA SelectionInvNext ==
  LockInv /\ DataInv /\ SelectionInv /\ [Next]_vars => SelectionInv'
  <1> SUFFICES ASSUME LockInv, DataInv, SelectionInv, [Next]_vars PROVE SelectionInv'
    OBVIOUS
  <1> USE UsersOfKind DEF fileVars, hostVars, callVars, formVars, history
  <1>e. pc \in [Users -> {"idle", "queued", "putting"} \cup Active]
    BY DEF LockInv
  <1>c. UNCHANGED <<driving, strays>> => Calm
    BY DEF Calm
  <1>g. ASSUME NEW u \in Callers, CallEnds(u)
        PROVE  \A v \in Callers : pc'[v] = "calling" => pc[v] = "calling" /\ job'[v] = job[v]
    BY <1>e, <1>g DEF CallEnds, Release, DataInv, JobTypes
  <1>i. ASSUME NEW u \in Callers, NEW x \in {"idle", "queued", "fanning"},
               pc' = [pc EXCEPT ![u] = x]
        PROVE  \A v \in Editors : pc'[v] \in {"checking", "saving"} => pc[v] = pc'[v]
    BY <1>e, <1>i
  <1>f. ASSUME NEW u \in Editors, PutEnds(u), UNCHANGED <<fileVars, driving, history>>
        PROVE  SelectionInv'
    <2>1. \A v \in Users : pc'[v] = IF v = u THEN "idle" ELSE pc[v]
      BY <1>e, <1>f DEF PutEnds, Release
    <2>2. \A v \in Editors : v # u => form'[v] = form[v] /\ wanted'[v] = wanted[v]
                                                        /\ todo'[v] = todo[v]
      BY <1>f DEF PutEnds, DataInv, FormTypes
    <2>3. QED
      BY <1>c, <1>f, <2>1, <2>2, SelectionKept DEF PutEnds
  <1>1. ASSUME NEW u \in Callers, NEW c, NEW d, Call(u, c, d) PROVE SelectionInv'
    <2>1. \A v \in Users : pc'[v] = IF v = u THEN "queued" ELSE pc[v]
      BY <1>e, <1>1 DEF Call
    <2>2. \A v \in Callers : v # u => job'[v] = job[v]
      BY <1>1 DEF Call, DataInv, JobTypes
    <2>3. QED
      BY <1>1, <1>c, <2>1, <2>2, SelectionKept DEF Call
  <1>2. ASSUME NEW u \in Callers, Resolve(u) PROVE SelectionInv'
    <2>1. UNCHANGED <<fileVars, driving, history, form, wanted, todo>> /\ Holds(u)
          /\ pc[u] = "queued"
      BY <1>2 DEF Resolve
    <2>2. CASE Readable
      <3> DEFINE s == Selected(job[u].device)
      <3>1. job[u].device \in Devices /\ s \in Hosts \cup {"auto"}
        BY <2>1, <2>2, SnapshotIsASelection, SelectionIsAllowed
        DEF DataInv, JobTypes, Asked, Selected
      <3>2. HostsOf(s) = {InTurn(s)[i] : i \in 1..Len(InTurn(s))}
            /\ DOMAIN InTurn(s) = 1..Len(InTurn(s))
        BY <3>1, TurnOfSelection, LenProperties
      <3>3. /\ \A v \in Users : pc'[v] = IF v = u THEN "calling" ELSE pc[v]
            /\ job'[u].turn = InTurn(s) /\ job'[u].device = job[u].device
            /\ \A v \in Callers : v # u => job'[v] = job[v]
        BY <1>e, <1>2, <2>2 DEF Resolve, DataInv, JobTypes
      <3>6. job[u].device \notin moved
              => driving[job[u].device] \subseteq HostsOf(s) \cup strays[job[u].device]
        BY <2>2, <3>1 DEF SelectionInv, DriversAreSelected
      <3> HIDE DEF s
      <3>7. Follows(u)'
        <4>1. Selected(job[u].device)' = s
          BY <3>1, <3>3, <2>1, SameFiles DEF s, Selected
        <4>2. \A i \in 1..Len(InTurn(s)) : InTurn(s)[i] \in HostsOf(s)
          BY <3>2
        <4>3. QED
          BY <3>3, <4>1, <4>2 DEF Follows
      <3>8. Asks(u)'
        BY <2>1, <3>2, <3>3, <3>6 DEF Asks, Reaches
      <3>9. \A v \in Users : v # u => pc'[v] \notin Active
        BY <2>1, <3>3, OneActive
      <3>10. DriversAreSelected'
        BY <2>1, SameFiles DEF SelectionInv, DriversAreSelected
      <3>11. QED
        BY <3>7, <3>8, <3>9, <3>10 DEF SelectionInv, Follows, Asks, Compared, Active
    <2>3. CASE pc' = [pc EXCEPT ![u] = "fanning"] /\ UNCHANGED job
      <3>1. \A v \in Callers : pc'[v] = "calling" => pc[v] = "calling" /\ job'[v] = job[v]
        BY <1>e, <2>3
      <3>2. QED
        BY <1>c, <1>i, <2>1, <2>3, <3>1, SelectionKept
    <2>4. CASE CallEnds(u)
      BY <1>c, <1>g, <1>i, <2>1, <2>4, SelectionKept DEF CallEnds, Release
    <2>5. QED
      BY <1>2, <2>2, <2>3, <2>4 DEF Resolve
  <1>3. ASSUME NEW u \in Callers, Confirmed(u) \/ Unconfirmed(u) PROVE SelectionInv'
    <2>1. /\ pc[u] = "calling" /\ UNCHANGED <<fileVars, moved, form, wanted, todo>>
          /\ \/ Served(job[u].command, job[u].device, Head(job[u].turn))
             \/ UNCHANGED <<driving, strays>>
      BY <1>3 DEF Confirmed, Unconfirmed
    <2>2. DriversAreSelected' /\ (job[u].command = "stop" => Calm)
      BY <2>1, SelectionServed
    <2>3. \A v \in Users : v # u => pc[v] \notin Active
      BY <2>1, OneActive DEF LockInv, Active
    <2>4. CASE CallEnds(u)
      <3>1. \A v \in Users : pc'[v] \notin Active
        BY <1>e, <2>3, <2>4 DEF CallEnds, Release, Active
      <3>2. QED
        BY <2>2, <3>1 DEF SelectionInv, Follows, Asks, Compared, Active
    <2>5. CASE Len(job[u].turn) > 1 /\ job' = [job EXCEPT ![u].turn = Tail(@)]
               /\ UNCHANGED <<pc, lock>>
      <3>1. job'[u].turn = Tail(job[u].turn) /\ job'[u].device = job[u].device
        BY <2>5 DEF DataInv, JobTypes
      <3>2. job[u].turn \in Seq(Hosts) /\ Asked(u)
        BY <2>1 DEF DataInv, JobTypes
      <3>3. /\ Len(Tail(job[u].turn)) = Len(job[u].turn) - 1 /\ Len(job[u].turn) \in Nat
            /\ \A i \in 1..Len(Tail(job[u].turn)) : Tail(job[u].turn)[i] = job[u].turn[i + 1]
        BY <2>1, <3>2, HeadTailProperties, LenProperties DEF Asked
      <3>4. Follows(u)'
        <4> DEFINE t == job[u].turn
        <4>1. \A i \in 1..Len(Tail(t)) : i + 1 \in 1..Len(t) /\ Tail(t)[i] = t[i + 1]
          BY <3>3
        <4>2. Readable /\ job[u].device \notin moved => \A i \in 1..Len(t) : t[i] \in HostsOf(Selected(job[u].device))
          BY <2>1 DEF SelectionInv, Follows
        <4> HIDE DEF t
        <4>3. job[u].device \in Devices
          BY <3>2 DEF Asked
        <4>4. QED
          BY <2>1, <3>1, <4>1, <4>2, <4>3, SameFiles DEF Follows, t
      <3>5. job[u].device = "valves"
        <4> DEFINE n == Len(job[u].turn)
        <4>1. n > 1 /\ n \in Nat
          BY <2>5, <3>3
        <4> HIDE DEF n
        <4>2. n # 1
          BY <4>1
        <4>3. QED
          BY <2>1, <3>2, <4>2 DEF Asked, n
      <3>6. Asks(u)'
        BY <3>1, <3>5 DEF Asks
      <3>7. QED
        BY <2>2, <2>3, <2>5, <3>4, <3>6 DEF SelectionInv, Follows, Asks, Compared, Active
    <2>6. QED
      BY <1>3, <2>4, <2>5 DEF Confirmed, Unconfirmed
  <1>4. ASSUME NEW u \in Callers, FannedOut(u) PROVE SelectionInv'
    <2>1. Calm
      BY <1>4 DEF FannedOut, Calm, DataInv, HostTypes
    <2>2. QED
      BY <1>4, <1>g, <1>i, <2>1, SelectionKept DEF FannedOut, CallEnds, Release
  <1>5. ASSUME NEW u \in Editors, Load(u) PROVE SelectionInv'
    <2>1. \A v \in Editors : v # u => form'[v] = form[v]
      BY <1>5 DEF Load, DataInv, FormTypes
    <2>2. QED
      BY <1>5, <1>c, <2>1, SelectionKept DEF Load
  <1>6. ASSUME NEW u \in Editors, NEW s \in Contents, Put(u, s) PROVE SelectionInv'
    <2>1. \A v \in Users : pc'[v] = IF v = u THEN "putting" ELSE pc[v]
      BY <1>e, <1>6 DEF Put
    <2>2. \A v \in Editors : v # u => wanted'[v] = wanted[v]
      BY <1>6 DEF Put, DataInv, FormTypes
    <2>3. QED
      BY <1>6, <1>c, <2>1, <2>2, SelectionKept DEF Put
  <1>7. ASSUME NEW u \in Editors, Compare(u) PROVE SelectionInv'
    <2>1. CASE /\ Readable /\ form[u] = Snapshot /\ pc[u] = "putting"
               /\ pc' = [pc EXCEPT ![u] = "checking"]
               /\ todo' = [todo EXCEPT ![u] = {d \in Devices : wanted[u][d] # Selected(d)}]
               /\ UNCHANGED <<lock, job, form, wanted>>
      <3>1. UNCHANGED <<fileVars, driving, history>> /\ Holds(u)
        BY <1>7 DEF Compare
      <3>2. form[u].sources \in Contents
            /\ \A d \in Devices : Selected(d) = form[u].sources[d]
        BY <2>1, SnapshotIsASelection DEF DataInv, Selected
      <3>3. \A d \in Devices \ moved : driving[d] \subseteq HostsOf(form[u].sources[d]) \cup strays[d]
        BY <2>1, <3>2 DEF SelectionInv, DriversAreSelected
      <3>4. \A d \in Devices \ todo'[u] : wanted[u][d] = form[u].sources[d]
        BY <2>1, <3>2 DEF DataInv, FormTypes
      <3>5. Compared(u)'
        BY <2>1, <3>1, <3>2, <3>3, <3>4, SameFiles DEF Compared
      <3>6. \A v \in Users : v # u => pc'[v] \notin Active
        BY <1>e, <2>1, <3>1, OneActive
      <3>7. pc'[u] = "checking"
        BY <1>e, <2>1
      <3>8. DriversAreSelected'
        BY <3>1, SameFiles DEF SelectionInv, DriversAreSelected
      <3>9. QED
        BY <3>5, <3>6, <3>7, <3>8 DEF SelectionInv, Follows, Asks, Compared, Active
    <2>2. CASE PutEnds(u)
      BY <1>7, <1>f, <2>2 DEF Compare
    <2>3. QED
      BY <1>7, <2>1, <2>2 DEF Compare
  <1>8. ASSUME NEW u \in Editors, PutFails(u) PROVE SelectionInv'
    BY <1>8, <1>f DEF PutFails
  <1>9. ASSUME NEW u \in Editors, SaveRig(u) PROVE SelectionInv'
    <2>1. /\ pc[u] = "checking" /\ todo[u] = {} /\ pc' = [pc EXCEPT ![u] = "saving"]
          /\ rig' = IF rig = Absent THEN Absent ELSE wanted[u]
          /\ UNCHANGED <<json, driving, form, wanted, todo, history, job>>
      BY <1>9 DEF SaveRig
    <2>2. wanted[u] \in Contents
      BY DEF DataInv, FormTypes
    <2>3. \A d \in Devices \ moved : driving[d] \subseteq HostsOf(wanted[u][d]) \cup strays[d]
      BY <2>1 DEF SelectionInv, Compared
    <2>4. DriversAreSelected'
      <3>1. CASE rig = Absent
        BY <2>1, <3>1, SameFiles DEF SelectionInv, DriversAreSelected
      <3>2. CASE rig # Absent
        <4>1. Snapshot'.sources = wanted[u]
          BY <2>1, <2>2, <3>2, SourcesAssumption DEF Snapshot, RigHolds
        <4>2. QED
          BY <2>1, <2>3, <4>1 DEF DriversAreSelected, Selected
      <3>3. QED
        BY <3>1, <3>2
    <2>5. \A v \in Users : v # u => pc'[v] \notin Active
      BY <2>1, OneActive DEF LockInv, Active
    <2>6. Compared(u)'
      <3>1. pc'[u] = "saving" /\ form[u].sources \in Contents
        BY <1>e, <2>1 DEF SelectionInv, Compared
      <3>2. QED
        BY <2>1, <2>3, <3>1 DEF Compared
    <2>7. u \notin Callers
      OBVIOUS
    <2>8. QED
      BY <2>4, <2>5, <2>6, <2>7 DEF SelectionInv, Follows, Asks, Compared, Active
  <1>9a. ASSUME NEW u \in Editors, SaveJson(u) PROVE SelectionInv'
    <2>1. /\ pc[u] = "saving" /\ PutEnds(u) /\ json' = wanted[u]
          /\ UNCHANGED <<rig, hostVars, history>>
      BY <1>9a DEF SaveJson
    <2>2. wanted[u] \in Contents
      BY DEF DataInv, FormTypes
    <2>3. \A d \in Devices \ moved : driving[d] \subseteq HostsOf(wanted[u][d]) \cup strays[d]
      BY <2>1 DEF SelectionInv, Compared
    <2>4. DriversAreSelected'
      <3>1. CASE RigHolds
        <4>1. Snapshot' = Snapshot /\ Readable
          BY <2>1, <3>1 DEF Snapshot, RigHolds, Readable
        <4>2. QED
          BY <2>1, <4>1 DEF SelectionInv, DriversAreSelected, Selected
      <3>2. CASE ~RigHolds
        <4>1. Snapshot'.sources = wanted[u]
          BY <2>1, <2>2, <3>2, SourcesAssumption DEF Snapshot, RigHolds
        <4>2. QED
          BY <2>1, <2>3, <4>1 DEF DriversAreSelected, Selected
      <3>3. QED
        BY <3>1, <3>2
    <2>5. \A v \in Users : v # u => pc[v] \notin Active
      BY <2>1, OneActive DEF LockInv, Active
    <2>6. \A v \in Users : pc'[v] \notin Active
      BY <1>e, <2>1, <2>5 DEF PutEnds, Release, Active
    <2>7. QED
      BY <2>4, <2>6 DEF SelectionInv, Follows, Asks, Compared, Active
  <1>10. ASSUME NEW u \in Editors, NEW d \in Devices, CheckIdle(u, d) PROVE SelectionInv'
    <2>1. /\ pc[u] = "checking" /\ UNCHANGED <<fileVars, moved, driving, lock, pc, job, form, wanted>>
          /\ \A v \in Editors : v # u => todo'[v] = todo[v]
          /\ todo'[u] = todo[u] \ {d}
      BY <1>10 DEF CheckIdle, DataInv, FormTypes
    <2>2. PICK skipped \in SUBSET Owners(u, d) :
            /\ driving[d] \cap (Owners(u, d) \ skipped) = {}
            /\ strays' = [strays EXCEPT ![d] = @ \cup (driving[d] \cap skipped)]
      BY <1>10 DEF CheckIdle
    <2>3. /\ \A e \in Devices : strays[e] \subseteq strays'[e]
          /\ strays'[d] = strays[d] \cup (driving[d] \cap skipped)
      BY <2>2 DEF DataInv, HostTypes
    <2>4. d \notin moved => driving[d] \subseteq strays'[d]
      BY <2>1, <2>2, <2>3 DEF SelectionInv, Compared, Owners
    <2>5. Compared(u)'
      BY <2>1, <2>3, <2>4, SameFiles DEF SelectionInv, Compared
    <2>6. \A v \in Users : v # u => pc'[v] \notin Active
      BY <2>1, OneActive DEF LockInv, Active
    <2>7. DriversAreSelected'
      BY <2>1, <2>3, SameFiles DEF SelectionInv, DriversAreSelected
    <2>8. QED
      BY <2>1, <2>5, <2>6, <2>7 DEF SelectionInv, Follows, Asks, Compared, Active
  <1>11. ASSUME NEW d \in Devices, NEW h \in Hosts, LateStart(d, h) PROVE SelectionInv'
    <2>1. Calm
      BY <1>11 DEF LateStart, Calm, DataInv, HostTypes
    <2>2. QED
      BY <1>11, <2>1, SelectionKept DEF LateStart
  <1>12. CASE DamageJson
    <2>1. ~RigHolds => ~Readable'
      BY <1>12 DEF DamageJson, Readable, RigHolds
    <2>2. RigHolds => Snapshot' = Snapshot /\ Readable /\ Readable'
      BY <1>12 DEF DamageJson, Readable, RigHolds, Snapshot
    <2>3. \A d \in Devices : RigHolds => Selected(d)' = Selected(d)
      BY <2>2 DEF Selected
    <2>4. UNCHANGED <<driving, history, pc, job, form, wanted, todo>>
      BY <1>12 DEF DamageJson
    <2>5. DriversAreSelected'
      BY <2>1, <2>2, <2>3, <2>4 DEF SelectionInv, DriversAreSelected
    <2>6. \A v \in Callers : Follows(v)' /\ Asks(v)'
      <3> SUFFICES ASSUME NEW v \in Callers PROVE Follows(v)' /\ Asks(v)'
        OBVIOUS
      <3>1. Asks(v)'
        BY <2>4 DEF SelectionInv, Asks, Reaches
      <3>2. pc[v] = "calling" => job[v].device \in Devices
        BY DEF DataInv, JobTypes, Asked
      <3>3. Follows(v)'
        BY <2>1, <2>2, <2>3, <2>4, <3>2 DEF SelectionInv, Follows
      <3>4. QED
        BY <3>1, <3>3
    <2>7. \A v \in Editors : Compared(v)'
      BY <2>1, <2>2, <2>3, <2>4 DEF SelectionInv, Compared
    <2>8. QED
      BY <2>5, <2>6, <2>7 DEF SelectionInv
  <1>12a. CASE DamageRig
    <2>1. /\ Readable /\ moved \subseteq moved'
          /\ \A d \in Devices \ moved' : Readable' => Selected(d)' = Selected(d)
      BY <1>12a DEF DamageRig, Readable
    <2>2. UNCHANGED <<driving, strays, pc, job, form, wanted, todo>>
      BY <1>12a DEF DamageRig
    <2>3. DriversAreSelected'
      BY <2>1, <2>2 DEF SelectionInv, DriversAreSelected
    <2>4. ASSUME NEW v \in Callers PROVE Follows(v)' /\ Asks(v)'
      <3>1. Asks(v)'
        BY <2>1, <2>2 DEF SelectionInv, Asks, Reaches
      <3>2. pc[v] = "calling" => job[v].device \in Devices
        BY DEF DataInv, JobTypes, Asked
      <3>3. Follows(v)'
        BY <2>1, <2>2, <3>2 DEF SelectionInv, Follows
      <3>4. QED
        BY <3>1, <3>3
    <2>5. ASSUME NEW v \in Editors PROVE Compared(v)'
      BY <2>1, <2>2, <2>5 DEF SelectionInv, Compared
    <2>6. QED
      BY <2>3, <2>4, <2>5 DEF SelectionInv
  <1>13. CASE Crash
    BY <1>13, <1>c, SelectionKept DEF Crash
  <1>14. CASE UNCHANGED vars
    BY <1>14, <1>c, SelectionKept DEF vars
  <1>15. QED
    BY <1>1, <1>2, <1>3, <1>4, <1>5, <1>6, <1>7, <1>8, <1>9, <1>9a, <1>10, <1>11,
       <1>12, <1>12a, <1>13, <1>14 DEF Next, Command, Update

LEMMA SelectionInvInit == Init => SelectionInv
  BY UsersOfKind DEF Init, SelectionInv, DriversAreSelected, Follows, Asks, Compared

(* What drives a device is selected for it, across changes of the          *)
(* settings, half written ones, restarts and damage to either file         *)
(* (motor_command, ensure_idle, save, snapshot).                           *)
THEOREM SelectedAlone == Spec => []DriversAreSelected
  <1>1. SelectionInv => DriversAreSelected
    BY DEF SelectionInv
  <1>2. QED
    BY LockInvInit, LockInvNext, DataInvInit, DataInvNext, SelectionInvInit,
       SelectionInvNext, <1>1, PTL DEF Spec

(* The stop of a motor is sent to the controller that drives it, also when *)
(* the settings were changed since it was started, or damaged in a way     *)
(* that selects what was selected (motor_command).                         *)
THEOREM StopReachesTheDriver == Spec => []StopAsksTheDriver
  <1>1. SelectionInv => StopAsksTheDriver
    BY DEF SelectionInv, StopAsksTheDriver, Asks
  <1>2. QED
    BY LockInvInit, LockInvNext, DataInvInit, DataInvNext, SelectionInvInit,
       SelectionInvNext, <1>1, PTL DEF Spec

(* A change of the settings replaces what its form was showing: nobody     *)
(* writes between its comparison and its save (update_sources).            *)
THEOREM ChangesAreOfWhatWasSeen == Spec => ReplacesWhatWasSeen
  <1>1. SelectionInv /\ [Next]_vars =>
          [\A u \in Editors :
             pc[u] = "checking" /\ pc'[u] = "saving" /\ Readable
               => \A d \in Devices \ moved : Selected(d) = form[u].sources[d]]_vars
    BY DEF SelectionInv, Compared
  <1>2. QED
    BY LockInvInit, LockInvNext, DataInvInit, DataInvNext, SelectionInvInit,
       SelectionInvNext, <1>1, PTL DEF Spec, ReplacesWhatWasSeen
=============================================================================
