----------------------- MODULE GatewayLifecycleProofs -----------------------
(***************************************************************************)
(* Theorems about GatewayLifecycle, for every number of requests and of    *)
(* plugins, and whatever ports these share.                                *)
(***************************************************************************)
EXTENDS GatewayLifecycle, SequenceTheorems, WellFoundedInduction, TLAPS

(* Every non-empty set of naturals has a least element, from the minimal   *)
(* elements of a well-founded relation.                                    *)
LEMMA LeastElement ==
  ASSUME NEW T \in SUBSET Nat, T # {}
  PROVE  \E n \in T : \A m \in T : n <= m
  <1> DEFINE R == OpToRel(<, Nat)
  <1>1. IsWellFoundedOn(R, Nat)
    BY NatLessThanWellFounded
  <1>2. R = {p \in Nat \X Nat : p[1] < p[2]}
    BY DEF OpToRel
  <1> HIDE DEF R
  <1>3. \E x \in T : \A y \in T : ~ (<<y, x>> \in R)
    BY <1>1, WFMin
  <1>4. ASSUME NEW a \in Nat, NEW b \in Nat, <<a, b>> \notin R PROVE b <= a
    <2>1. ~ (<<a, b>>[1] < <<a, b>>[2])
      BY <1>2, <1>4
    <2>2. QED
      BY <2>1
  <1>5. QED
    BY <1>3, <1>4

(* The plugins are in an order, which First goes by.                       *)
LEMMA OrderedPlugins ==
  /\ DOMAIN Order = 1..Len(Order) /\ Len(Order) \in Nat
  /\ \A k \in DOMAIN Order : Order[k] \in Plugins
  <1>1. Order \in Seq(Plugins)
    BY LifecycleAssumption
  <1>2. QED
    BY <1>1, LenProperties, ElementOfSeq

LEMMA FirstOfSome ==
  ASSUME NEW ps \in SUBSET Plugins, ps # {}
  PROVE  First(ps) \in ps /\ \A q \in ps \ {First(ps)} : Before(First(ps), q)
  <1> DEFINE K == {k \in DOMAIN Order : Order[k] \in ps}
  <1>1. K \in SUBSET Nat /\ K # {}
    BY OrderedPlugins DEF Plugins
  <1>2. PICK k \in K : \A l \in K : k <= l
    BY <1>1, LeastElement
  <1>3. ASSUME NEW q \in ps \ {Order[k]} PROVE Before(Order[k], q)
    <2>1. PICK l \in DOMAIN Order : Order[l] = q
      BY DEF Plugins
    <2>2. l \in K /\ l # k
      BY <2>1
    <2>3. k < l
      BY <1>1, <1>2, <2>2
    <2>4. QED
      BY <2>1, <2>3 DEF Before
  <1>4. QED
    BY <1>2, <1>3 DEF First

-----------------------------------------------------------------------------
(* The types.                                                              *)
Ids == 0..Len(owner)

Steps == {"idle", "begun", "initconnect", "health", "connecting", "probing", "opening",
          "closing", "locking", "dropping", "releasing", "reopening"}

DeviceTypes ==
  /\ owner \in Seq(Plugins)
  /\ gateway \in [Plugins -> Ids] /\ registry \in [Plugins -> Ids]
  /\ marked \subseteq Ids \ {0} /\ open \subseteq Ids \ {0} /\ fresh \subseteq Ids \ {0}
  /\ suspended \subseteq Plugins /\ loose \subseteq Plugins
  /\ initDone \in BOOLEAN /\ initLock \in Tasks \cup {None}
  /\ reconf \in Tasks \cup {None} /\ begun \in 0..MaxBegun

\* Where a task awaits a plugin; where it holds the reconfiguration lock.
Awaits == {"initconnect", "health", "connecting", "probing", "opening", "closing",
           "dropping", "reopening"}
Holding == {"dropping", "releasing", "reopening"}

TaskTypes ==
  /\ pc \in [Tasks -> Steps] /\ op \in [Tasks -> Ops \cup {"none"}]
  /\ sel \in [Tasks -> SUBSET Plugins]
  /\ todo \in [Tasks -> SUBSET Plugins] /\ again \in [Tasks -> SUBSET Plugins]
  /\ at \in [Tasks -> Plugins \cup {None}] /\ inst \in [Tasks -> Ids]
  /\ \A t \in Tasks : pc[t] # "idle" => op[t] \in Ops /\ sel[t] # {}
  /\ \A t \in Tasks : pc[t] \in Awaits => at[t] \in Plugins /\ inst[t] # 0

Types == DeviceTypes /\ TaskTypes

LEMMA TypesInit == Init => Types
  <1> SUFFICES ASSUME Init PROVE Types
    OBVIOUS
  <1>1. owner \in Seq(Plugins) /\ Len(owner) = 0
    BY EmptySeq DEF Init
  <1>2. begun \in 0..MaxBegun
    BY LifecycleAssumption DEF Init
  <1>3. DeviceTypes
    <2>1. 0 \in Ids
      BY <1>1 DEF Ids
    <2>2. QED
      BY <1>1, <1>2, <2>1 DEF Init, DeviceTypes
  <1>4. TaskTypes
    BY <1>1 DEF Init, TaskTypes, Ids, Steps, Awaits
  <1>5. QED
    BY <1>3, <1>4 DEF Types

(* What creating an instance does: the first of the plugins gets a new one. *)
LEMMA Created ==
  ASSUME DeviceTypes, NEW t \in Tasks, NEW ps \in SUBSET Plugins, ps # {}, NEW where,
         Create(t, ps, where)
  PROVE  /\ Len(owner) \in Nat /\ owner' \in Seq(Plugins) /\ Len(owner') = Len(owner) + 1
         /\ \A i \in 1..Len(owner) : owner'[i] = owner[i]
         /\ \E p \in ps :
              /\ owner'[Len(owner) + 1] = p
              /\ registry' = [registry EXCEPT ![p] = Len(owner) + 1]
              /\ Goto(t, where, p, Len(owner) + 1)
              /\ todo' = [todo EXCEPT ![t] = ps \ {p}]
              /\ loose' \in {loose, loose \cup {p}}
              /\ registry[p] # 0 \/ (p \in suspended /\ op[t] \in {"apply", "connect"})
                   => p \in loose'
         /\ UNCHANGED <<op, sel, again, begun>>
  <1> DEFINE p == First(ps)
  <1>1. p \in ps /\ p \in Plugins
    BY FirstOfSome
  <1>2. owner \in Seq(Plugins) /\ Len(owner) \in Nat
    BY LenProperties DEF DeviceTypes
  <1>3. owner' = Append(owner, p)
    BY DEF Create
  <1>4. /\ owner' \in Seq(Plugins) /\ Len(owner') = Len(owner) + 1
        /\ owner'[Len(owner) + 1] = p /\ \A i \in 1..Len(owner) : owner'[i] = owner[i]
    BY <1>1, <1>2, <1>3, AppendProperties
  <1>5. /\ registry' = [registry EXCEPT ![p] = Len(owner) + 1]
        /\ Goto(t, where, p, Len(owner) + 1)
        /\ todo' = [todo EXCEPT ![t] = ps \ {p}]
        /\ loose' = IF registry[p] # 0 \/ (p \in suspended /\ op[t] \in {"apply", "connect"})
                    THEN loose \cup {p} ELSE loose
        /\ UNCHANGED <<op, sel, again, begun>>
    BY DEF Create
  <1> HIDE DEF p
  <1>6. QED
    BY <1>1, <1>2, <1>4, <1>5

(* The loop that disconnects: entries are cleared up to one plugin that is  *)
(* registered, or all of them.                                              *)
LEMMA Dropped ==
  ASSUME NEW t \in Tasks, NEW ps \in SUBSET Plugins, Drop(t, ps)
  PROVE  \E gone \in SUBSET ps :
           /\ gateway' = [p \in Plugins |-> IF p \in gone THEN 0 ELSE gateway[p]]
           /\ todo' = [todo EXCEPT ![t] = ps \ gone]
           /\ \/ /\ gone = ps /\ \A p \in ps : registry[p] = 0
                 /\ Goto(t, "releasing", None, 0)
              \/ \E q \in gone : /\ registry[q] # 0 /\ Goto(t, "dropping", q, registry[q])
                                 /\ \A p \in gone \ {q} : registry[p] = 0
  <1>1. PICK gone \in SUBSET ps :
           /\ gateway' = [p \in Plugins |-> IF p \in gone THEN 0 ELSE gateway[p]]
           /\ todo' = [todo EXCEPT ![t] = ps \ gone]
           /\ \/ /\ gone = ps /\ {p \in gone : registry[p] # 0} = {}
                 /\ Goto(t, "releasing", None, 0)
              \/ \E q \in gone : /\ {p \in gone : registry[p] # 0} = {q}
                                 /\ Goto(t, "dropping", q, registry[q])
    BY DEF Drop
  <1>2. {p \in gone : registry[p] # 0} = {} => \A p \in gone : registry[p] = 0
    OBVIOUS
  <1>3. ASSUME NEW q \in gone, {p \in gone : registry[p] # 0} = {q}
        PROVE  registry[q] # 0 /\ \A p \in gone \ {q} : registry[p] = 0
    BY <1>3
  <1>4. QED
    BY <1>1, <1>2, <1>3

(* A task that stays in its operation, and one that returns.               *)
LEMMA GoesOn ==
  ASSUME TaskTypes, NEW t \in Tasks, NEW where \in Steps, NEW p \in Plugins \cup {None},
         NEW i \in Ids', Ids \subseteq Ids', Goto(t, where, p, i), pc[t] # "idle",
         where \in Awaits => p \in Plugins /\ i # 0, UNCHANGED <<op, sel>>,
         todo' \in [Tasks -> SUBSET Plugins], again' \in [Tasks -> SUBSET Plugins]
  PROVE  TaskTypes'
  <1> USE DEF TaskTypes
  <1>1. /\ pc' \in [Tasks -> Steps] /\ at' \in [Tasks -> Plugins \cup {None}]
        /\ inst' \in [Tasks -> Ids']
    BY DEF Goto
  <1>2. \A u \in Tasks : /\ pc'[u] = IF u = t THEN where ELSE pc[u]
                         /\ at'[u] = IF u = t THEN p ELSE at[u]
                         /\ inst'[u] = IF u = t THEN i ELSE inst[u]
    BY DEF Goto
  <1>3. QED
    BY <1>1, <1>2

LEMMA Returns ==
  ASSUME TaskTypes, NEW t \in Tasks, Return(t), Ids \subseteq Ids', 0 \in Ids'
  PROVE  TaskTypes'
  <1> USE DEF TaskTypes
  <1>1. /\ pc' \in [Tasks -> Steps] /\ at' \in [Tasks -> Plugins \cup {None}]
        /\ inst' \in [Tasks -> Ids'] /\ op' \in [Tasks -> Ops \cup {"none"}]
    BY DEF Return, Goto, Steps
  <1>2. /\ sel' \in [Tasks -> SUBSET Plugins] /\ todo' \in [Tasks -> SUBSET Plugins]
        /\ again' \in [Tasks -> SUBSET Plugins]
    BY DEF Return
  <1>3. \A u \in Tasks : /\ pc'[u] = IF u = t THEN "idle" ELSE pc[u]
                         /\ u # t => /\ at'[u] = at[u] /\ inst'[u] = inst[u]
                                     /\ op'[u] = op[u] /\ sel'[u] = sel[u]
    BY DEF Return, Goto
  <1>4. QED
    BY <1>1, <1>2, <1>3 DEF Awaits

LEMMA Creates ==
  ASSUME Types, NEW t \in Tasks, NEW ps \in SUBSET Plugins, ps # {},
         NEW where \in Steps, pc[t] # "idle", Create(t, ps, where)
  PROVE  /\ TaskTypes' /\ Ids \subseteq Ids' /\ owner' \in Seq(Plugins)
         /\ registry' \in [Plugins -> Ids'] /\ loose' \subseteq Plugins
         /\ UNCHANGED begun
  <1> USE DEF Types
  <1>1. /\ Len(owner) \in Nat /\ owner' \in Seq(Plugins) /\ Len(owner') = Len(owner) + 1
        /\ UNCHANGED <<op, sel, again, begun>>
    BY Created
  <1>2. Len(owner) + 1 \in Ids' /\ Ids \subseteq Ids' /\ Len(owner) + 1 # 0
    BY <1>1 DEF Ids
  <1>3. PICK p \in ps : /\ registry' = [registry EXCEPT ![p] = Len(owner) + 1]
                        /\ Goto(t, where, p, Len(owner) + 1)
                        /\ todo' = [todo EXCEPT ![t] = ps \ {p}]
                        /\ loose' \in {loose, loose \cup {p}}
    BY Created
  <1>4. todo' \in [Tasks -> SUBSET Plugins] /\ again' \in [Tasks -> SUBSET Plugins]
    BY <1>1, <1>3 DEF TaskTypes
  <1>5. TaskTypes'
    BY <1>1, <1>2, <1>3, <1>4, GoesOn
  <1>6. registry' \in [Plugins -> Ids'] /\ loose' \subseteq Plugins
    BY <1>2, <1>3 DEF DeviceTypes
  <1>7. QED
    BY <1>1, <1>2, <1>5, <1>6

LEMMA Drops ==
  ASSUME Types, NEW t \in Tasks, NEW ps \in SUBSET Plugins, Drop(t, ps), pc[t] # "idle",
         UNCHANGED <<owner, op, sel>>, again' \in [Tasks -> SUBSET Plugins]
  PROVE  TaskTypes' /\ gateway' \in [Plugins -> Ids]
  <1> USE DEF Types
  <1>1. Ids' = Ids /\ 0 \in Ids
    BY LenProperties DEF Ids, DeviceTypes
  <1>2. PICK gone \in SUBSET ps :
           /\ gateway' = [p \in Plugins |-> IF p \in gone THEN 0 ELSE gateway[p]]
           /\ todo' = [todo EXCEPT ![t] = ps \ gone]
           /\ \/ Goto(t, "releasing", None, 0)
              \/ \E q \in gone : registry[q] # 0 /\ Goto(t, "dropping", q, registry[q])
    BY Dropped
  <1>3. gateway' \in [Plugins -> Ids]
    BY <1>1, <1>2 DEF DeviceTypes
  <1>4. todo' \in [Tasks -> SUBSET Plugins]
    BY <1>2 DEF TaskTypes
  <1>5. CASE Goto(t, "releasing", None, 0)
    BY <1>1, <1>3, <1>4, <1>5, GoesOn DEF Steps, Awaits
  <1>6. ASSUME NEW q \in gone, registry[q] # 0, Goto(t, "dropping", q, registry[q])
        PROVE  TaskTypes'
    <2>1. q \in Plugins /\ registry[q] \in Ids
      BY DEF DeviceTypes
    <2>2. QED
      BY <1>1, <1>4, <1>6, <2>1, GoesOn DEF Steps
  <1>7. QED
    BY <1>2, <1>3, <1>5, <1>6

(* A plugin the operation names, and the instance it is about to probe.    *)
LEMMA TargetIsSelected ==
  ASSUME Types, NEW t \in Tasks, pc[t] # "idle"
  PROVE  Target(t) \in sel[t] /\ Target(t) \in Plugins
  BY DEF Types, TaskTypes, Target

LEMMA Acquires ==
  ASSUME Types, NEW t \in Tasks, NEW p \in Plugins, NEW i \in Ids \ {0}, pc[t] # "idle",
         Acquired(t, p, i), UNCHANGED owner
  PROVE  TaskTypes' /\ UNCHANGED begun
  <1>1. Ids' = Ids /\ 0 \in Ids /\ TaskTypes
    BY LenProperties DEF Ids, DeviceTypes, Types
  <1>2. CASE Goto(t, "probing", p, i) /\ UNCHANGED calls
    BY <1>1, <1>2, GoesOn DEF Steps, calls, TaskTypes
  <1>3. CASE Return(t)
    BY <1>1, <1>3, Returns DEF Return
  <1>4. QED
    BY <1>2, <1>3 DEF Acquired

(* What taking the lock does: the affected plugins are told by the ports    *)
(* before and after.                                                        *)
LEMMA Taking ==
  ASSUME NEW t \in Tasks, TakeReconf(t)
  PROVE  /\ pc[t] = "locking" /\ reconf = None /\ reconf' = t /\ fresh' = {}
         /\ UNCHANGED <<registry, owner, port, own, marked, open, initDone, initLock, op, sel, begun>>
         /\ \/ /\ op[t] = "suspend" /\ suspended' = suspended \cup sel[t] /\ Drop(t, sel[t])
               /\ UNCHANGED <<again, loose, config, old>>
            \/ /\ op[t] \in Rewires /\ op[t] # "suspend"
               /\ config' \in Profiles /\ old' = config /\ suspended' = suspended
               /\ Drop(t, Affected(sel[t], config, config'))
               /\ again' = [again EXCEPT ![t] = sel[t] \cup Affected(sel[t], config, config')]
               /\ loose' = loose \cup
                    {p \in Group(sel[t], config, config') : \E u \in Tasks \ {t} :
                        p \in Touches(u) /\ Disturbs(op[t], u)}
  BY DEF TakeReconf, MayReconfigure, Rewire, Rewires, devices, made, wiring

LEMMA AffectedPlugins ==
  ASSUME NEW ps, NEW was, NEW now
  PROVE  Affected(ps, was, now) \in SUBSET Plugins /\ Group(ps, was, now) \in SUBSET Plugins
  BY DEF Affected, Group

LEMMA ConnectTypes ==
  ASSUME Types, NEW i \in Ids \ {0}, NEW ok, Connected(i, ok), Ids \subseteq Ids'
  PROVE  open' \subseteq Ids' \ {0} /\ marked' \subseteq Ids' \ {0}
  BY DEF Connected, Types, DeviceTypes

LEMMA CloseTypes ==
  ASSUME Types, NEW t \in Tasks, NEW ok, Closed(t, ok), UNCHANGED owner
  PROVE  /\ open' \subseteq Ids \ {0} /\ marked' \subseteq Ids \ {0}
         /\ registry' \in [Plugins -> Ids]
  <1>1. 0 \in Ids
    BY LenProperties DEF Ids, Types, DeviceTypes
  <1>2. QED
    BY <1>1 DEF Closed, Types, DeviceTypes

LEMMA BeginTypes ==
  ASSUME Types, NEW t \in Tasks, NEW o \in Ops, NEW ps \in (SUBSET Plugins) \ {{}}, Begin(t, o, ps)
  PROVE  Types'
  <1>1. Ids' = Ids
    BY DEF Begin, Ids, made
  <1>2. begun' \in 0..MaxBegun
    BY LifecycleAssumption DEF Begin, Types, DeviceTypes
  <1>3. DeviceTypes'
    BY <1>1, <1>2 DEF Begin, Types, DeviceTypes, maps, devices, locks, made, wiring
  <1>4. TaskTypes'
    <2>1. \A u \in Tasks : /\ pc'[u] = IF u = t THEN "begun" ELSE pc[u]
                           /\ op'[u] = IF u = t THEN o ELSE op[u]
                           /\ sel'[u] = IF u = t THEN ps ELSE sel[u]
      BY DEF Begin, Types, TaskTypes
    <2>2. /\ pc' \in [Tasks -> Steps] /\ op' \in [Tasks -> Ops \cup {"none"}]
          /\ sel' \in [Tasks -> SUBSET Plugins]
      BY DEF Begin, Types, TaskTypes, Steps
    <2>3. \A u \in Tasks : pc'[u] # "idle" => op'[u] \in Ops /\ sel'[u] # {}
      BY <2>1 DEF Types, TaskTypes
    <2>4. \A u \in Tasks : pc'[u] \in Awaits => at'[u] \in Plugins /\ inst'[u] # 0
      BY <2>1 DEF Begin, Types, TaskTypes, Awaits
    <2>5. UNCHANGED <<todo, again, at, inst>>
      BY DEF Begin
    <2>6. QED
      BY <1>1, <2>2, <2>3, <2>4, <2>5 DEF Types, TaskTypes
  <1>5. QED
    BY <1>3, <1>4 DEF Types

LEMMA StepTypes ==
  ASSUME Types, NEW t \in Tasks, Step(t)
  PROVE  Types'
  <1> USE DEF Types, maps, devices, locks, calls, history, made, wiring
  <1>0. /\ 0 \in Ids /\ Len(owner) \in Nat /\ (owner' = owner => Ids' = Ids)
        /\ pc[t] # "idle"
    BY LenProperties DEF Ids, DeviceTypes, Step, InitTake, Enter, HealthEnds, ProbeEnds,
         TakeReconf, MayReconfigure, ReleaseEnds, InitConnectEnds, ConnectEnds, OpeningEnds,
         ClosingEnds, DropEnds, ReopenEnds, Rewire, Rewires
  <1>a. pc[t] \in Awaits => at[t] \in Plugins /\ inst[t] \in Ids \ {0}
    BY DEF TaskTypes
  <1>1. CASE InitTake(t)
    <2>1. Plugins # {} /\ Plugins \in SUBSET Plugins
      BY OrderedPlugins, LifecycleAssumption, EmptySeq DEF Plugins
    <2>2. /\ TaskTypes' /\ Ids \subseteq Ids' /\ owner' \in Seq(Plugins)
          /\ registry' \in [Plugins -> Ids'] /\ loose' \subseteq Plugins /\ UNCHANGED begun
      BY <1>0, <1>1, <2>1, Creates DEF InitTake, Steps
    <2>3. QED
      BY <1>1, <2>2 DEF InitTake, DeviceTypes
  <1>2. ASSUME NEW ok \in BOOLEAN, InitConnectEnds(t, ok) PROVE Types'
    <2>1. inst[t] \in Ids \ {0}
      BY <1>a, <1>2 DEF InitConnectEnds, Awaits
    <2>2. CASE todo[t] # {} /\ Create(t, todo[t], "initconnect")
               /\ UNCHANGED <<initDone, initLock>>
      <3>1. /\ TaskTypes' /\ Ids \subseteq Ids' /\ owner' \in Seq(Plugins)
            /\ registry' \in [Plugins -> Ids'] /\ loose' \subseteq Plugins /\ UNCHANGED begun
        BY <1>0, <2>2, Creates DEF Steps, TaskTypes
      <3>2. open' \subseteq Ids' \ {0} /\ marked' \subseteq Ids' \ {0}
        BY <1>2, <2>1, <3>1, ConnectTypes DEF InitConnectEnds
      <3>3. gateway' \in [Plugins -> Ids']
        BY <1>2, <2>1, <3>1 DEF InitConnectEnds, Attach, DeviceTypes
      <3>4. QED
        BY <1>2, <2>2, <3>1, <3>2, <3>3 DEF InitConnectEnds, DeviceTypes
    <2>3. CASE /\ initDone' = TRUE /\ initLock' = None /\ Goto(t, "begun", None, 0)
               /\ UNCHANGED <<registry, owner, calls, loose>>
      <3>1. TaskTypes'
        BY <1>0, <2>3, GoesOn DEF TaskTypes, Steps, Awaits
      <3>2. open' \subseteq Ids \ {0} /\ marked' \subseteq Ids \ {0}
        BY <1>0, <1>2, <2>1, <2>3, ConnectTypes DEF InitConnectEnds
      <3>3. gateway' \in [Plugins -> Ids]
        BY <1>2, <2>1 DEF InitConnectEnds, Attach, DeviceTypes
      <3>4. QED
        BY <1>0, <1>2, <2>3, <3>1, <3>2, <3>3 DEF InitConnectEnds, DeviceTypes
    <2>4. QED
      BY <1>2, <2>2, <2>3 DEF InitConnectEnds
  <1>3. CASE Enter(t)
    <2> DEFINE p == Target(t)
    <2>1. p \in Plugins /\ gateway[p] \in Ids /\ registry[p] \in Ids
      BY <1>0, TargetIsSelected DEF DeviceTypes
    <2> HIDE DEF p
    <2>2. CASE UNCHANGED <<maps, owner, loose>> /\ TaskTypes' /\ UNCHANGED begun
      BY <1>0, <1>3, <2>2 DEF Enter, DeviceTypes
    <2>3. CASE UNCHANGED gateway /\ \E where \in Steps : Create(t, {p}, where)
      <3>1. /\ TaskTypes' /\ Ids \subseteq Ids' /\ owner' \in Seq(Plugins)
            /\ registry' \in [Plugins -> Ids'] /\ loose' \subseteq Plugins /\ UNCHANGED begun
        BY <1>0, <2>1, <2>3, Creates
      <3>2. QED
        BY <1>3, <2>3, <3>1 DEF Enter, DeviceTypes
    <2>4. ASSUME NEW where \in Steps, NEW i \in Ids \ {0}, Goto(t, where, p, i),
                 UNCHANGED calls, UNCHANGED owner
          PROVE  TaskTypes' /\ UNCHANGED begun
      BY <1>0, <2>1, <2>4, GoesOn DEF TaskTypes
    <2>5. ASSUME Return(t), UNCHANGED owner PROVE TaskTypes' /\ UNCHANGED begun
      BY <1>0, <2>5, Returns DEF Return
    <2>6. CASE EnterAcquire(t, p)
      <3>1. CASE gateway[p] # 0 /\ Acquired(t, p, gateway[p])
        BY <1>0, <2>1, <2>2, <2>6, <3>1, Acquires DEF EnterAcquire, Create
      <3>2. QED
        BY <2>1, <2>2, <2>3, <2>4, <2>5, <2>6, <3>1 DEF EnterAcquire, Steps
    <2>7. CASE EnterReady(t, p)
      BY <2>1, <2>2, <2>4, <2>5, <2>7 DEF EnterReady, Steps
    <2>8. CASE EnterManage(t, p)
      BY <2>1, <2>2, <2>3, <2>4, <2>5, <2>8 DEF EnterManage, Steps
    <2>9. CASE EnterReconfigure(t)
      <3>1. TaskTypes'
        BY <1>0, <2>9, GoesOn DEF EnterReconfigure, Steps, Awaits, TaskTypes
      <3>2. QED
        BY <2>2, <2>9, <3>1 DEF EnterReconfigure
    <2>10. QED
      BY <1>3, <2>6, <2>7, <2>8, <2>9 DEF Enter, p
  <1>4. CASE HealthEnds(t)
    <2>1. at[t] \in Plugins /\ inst[t] \in Ids \ {0} /\ UNCHANGED owner
      BY <1>a, <1>4 DEF HealthEnds, Awaits
    <2>2. TaskTypes' /\ UNCHANGED begun
      <3>1. CASE Acquired(t, at[t], inst[t])
        BY <1>0, <2>1, <3>1, Acquires
      <3>2. CASE Return(t)
        BY <1>0, <2>1, <3>2, Returns DEF Return
      <3>3. CASE Goto(t, "connecting", at[t], inst[t]) /\ UNCHANGED calls
        BY <1>0, <2>1, <3>3, GoesOn DEF TaskTypes, Steps
      <3>4. QED
        BY <1>4, <3>1, <3>2, <3>3 DEF HealthEnds
    <2>3. gateway' \in [Plugins -> Ids]
      BY <1>4, <2>1 DEF HealthEnds, Attach, DeviceTypes
    <2>4. QED
      BY <1>0, <1>4, <2>1, <2>2, <2>3 DEF HealthEnds, DeviceTypes
  <1>5. CASE ProbeEnds(t)
    <2>1. at[t] \in Plugins /\ inst[t] \in Ids \ {0} /\ UNCHANGED owner /\ Return(t)
      BY <1>a, <1>5 DEF ProbeEnds, Awaits
    <2>2. TaskTypes' /\ UNCHANGED begun
      BY <1>0, <2>1, Returns DEF Return
    <2>3. gateway' \in [Plugins -> Ids] /\ marked' \subseteq Ids \ {0}
      BY <1>0, <1>5, <2>1 DEF ProbeEnds, Attach, DeviceTypes
    <2>4. QED
      BY <1>0, <1>5, <2>1, <2>2, <2>3 DEF ProbeEnds, DeviceTypes
  <1>6. CASE TakeReconf(t)
    <2>1. again' \in [Tasks -> SUBSET Plugins]
      BY <1>6, Taking, AffectedPlugins DEF TaskTypes
    <2>2. PICK ps \in SUBSET Plugins : Drop(t, ps)
      BY <1>6, Taking, AffectedPlugins DEF TaskTypes
    <2>3. TaskTypes' /\ gateway' \in [Plugins -> Ids]
      BY <1>0, <1>6, <2>1, <2>2, Drops, Taking
    <2>4. suspended' \subseteq Plugins /\ loose' \subseteq Plugins
      BY <1>6, Taking, AffectedPlugins DEF TaskTypes, DeviceTypes
    <2>5. QED
      BY <1>0, <1>6, <2>3, <2>4, Taking DEF DeviceTypes
  <1>b. ASSUME Finish(t), UNCHANGED owner
        PROVE  TaskTypes' /\ reconf' \in Tasks \cup {None} /\ suspended' \subseteq Plugins
               /\ UNCHANGED begun
    BY <1>0, <1>b, Returns DEF Finish, Unlock, Return, DeviceTypes
  <1>7. CASE ReleaseEnds(t)
    <2>1. CASE Finish(t) /\ UNCHANGED <<registry, owner, loose>>
      BY <1>0, <1>b, <1>7, <2>1 DEF ReleaseEnds, DeviceTypes
    <2>2. CASE again[t] # {} /\ Create(t, again[t], "reopening") /\ UNCHANGED <<reconf, suspended>>
      <3>1. /\ TaskTypes' /\ Ids \subseteq Ids' /\ owner' \in Seq(Plugins)
            /\ registry' \in [Plugins -> Ids'] /\ loose' \subseteq Plugins /\ UNCHANGED begun
        BY <1>0, <2>2, Creates DEF Steps, TaskTypes
      <3>2. QED
        BY <1>7, <2>2, <3>1 DEF ReleaseEnds, DeviceTypes
    <2>3. QED
      BY <1>7, <2>1, <2>2 DEF ReleaseEnds
  <1>8. ASSUME NEW ok \in BOOLEAN, ConnectEnds(t, ok) PROVE Types'
    <2>1. at[t] \in Plugins /\ inst[t] \in Ids \ {0} /\ UNCHANGED owner
      BY <1>a, <1>8 DEF ConnectEnds, Awaits
    <2>2. TaskTypes' /\ UNCHANGED begun
      BY <1>0, <1>8, <2>1, Acquires, Returns DEF ConnectEnds, Return
    <2>3. gateway' \in [Plugins -> Ids]
      BY <1>8, <2>1 DEF ConnectEnds, Attach, DeviceTypes
    <2>4. open' \subseteq Ids \ {0} /\ marked' \subseteq Ids \ {0}
      BY <1>0, <1>8, <2>1, ConnectTypes DEF ConnectEnds
    <2>5. QED
      BY <1>0, <1>8, <2>1, <2>2, <2>3, <2>4 DEF ConnectEnds, DeviceTypes
  <1>9. ASSUME NEW ok \in BOOLEAN, OpeningEnds(t, ok) PROVE Types'
    <2>1. at[t] \in Plugins /\ inst[t] \in Ids \ {0} /\ UNCHANGED owner /\ Return(t)
      BY <1>a, <1>9 DEF OpeningEnds, Awaits
    <2>2. TaskTypes' /\ UNCHANGED begun
      BY <1>0, <2>1, Returns DEF Return
    <2>3. gateway' \in [Plugins -> Ids]
      BY <1>9, <2>1 DEF OpeningEnds, Attach, DeviceTypes
    <2>4. open' \subseteq Ids \ {0} /\ marked' \subseteq Ids \ {0}
      BY <1>0, <1>9, <2>1, ConnectTypes DEF OpeningEnds
    <2>5. QED
      BY <1>0, <1>9, <2>1, <2>2, <2>3, <2>4 DEF OpeningEnds, DeviceTypes
  <1>10. ASSUME NEW ok \in BOOLEAN, ClosingEnds(t, ok) PROVE Types'
    <2>1. at[t] \in Plugins /\ UNCHANGED owner /\ Return(t) /\ Closed(t, ok)
      BY <1>a, <1>10 DEF ClosingEnds, Awaits
    <2>2. TaskTypes' /\ UNCHANGED begun
      BY <1>0, <2>1, Returns DEF Return
    <2>3. gateway' \in [Plugins -> Ids] /\ loose' \subseteq Plugins
      BY <1>0, <1>10, <2>1 DEF ClosingEnds, Attach, DeviceTypes
    <2>4. QED
      BY <1>0, <1>10, <2>1, <2>2, <2>3, CloseTypes DEF ClosingEnds, DeviceTypes
  <1>11. ASSUME NEW ok \in BOOLEAN, DropEnds(t, ok) PROVE Types'
    <2>1. at[t] \in Plugins /\ UNCHANGED owner /\ Closed(t, ok) /\ todo[t] \subseteq Plugins
      BY <1>a, <1>11 DEF DropEnds, Awaits, TaskTypes
    <2>2. loose' \subseteq Plugins
      BY <1>11, <2>1 DEF DropEnds, DeviceTypes
    <2>3. CASE Finish(t) /\ UNCHANGED gateway
      BY <1>0, <1>b, <1>11, <2>1, <2>2, <2>3, CloseTypes DEF DropEnds, DeviceTypes
    <2>4. CASE Drop(t, todo[t]) /\ UNCHANGED <<reconf, suspended, op, sel, again, begun>>
      <3>1. TaskTypes' /\ gateway' \in [Plugins -> Ids]
        BY <1>0, <2>1, <2>4, Drops DEF TaskTypes
      <3>2. QED
        BY <1>0, <1>11, <2>1, <2>2, <2>4, <3>1, CloseTypes DEF DropEnds, DeviceTypes
    <2>5. QED
      BY <1>11, <2>3, <2>4 DEF DropEnds
  <1>12. ASSUME NEW ok \in BOOLEAN, ReopenEnds(t, ok) PROVE Types'
    <2>1. at[t] \in Plugins /\ inst[t] \in Ids \ {0} /\ registry[at[t]] \in Ids
      BY <1>a, <1>12 DEF ReopenEnds, Awaits, DeviceTypes
    <2>2. ASSUME Ids \subseteq Ids'
          PROVE  /\ gateway' \in [Plugins -> Ids'] /\ fresh' \subseteq Ids' \ {0}
                 /\ open' \subseteq Ids' \ {0} /\ marked' \subseteq Ids' \ {0}
      <3>1. gateway' \in [Plugins -> Ids'] /\ fresh' \subseteq Ids' \ {0}
        BY <1>12, <2>1, <2>2 DEF ReopenEnds, Attach, DeviceTypes
      <3>2. QED
        BY <1>12, <2>1, <2>2, <3>1, ConnectTypes DEF ReopenEnds
    <2>3. CASE Finish(t) /\ UNCHANGED <<registry, owner, loose>>
      BY <1>0, <1>b, <1>12, <2>2, <2>3 DEF ReopenEnds, DeviceTypes
    <2>4. CASE todo[t] # {} /\ Create(t, todo[t], "reopening") /\ UNCHANGED <<reconf, suspended>>
      <3>1. /\ TaskTypes' /\ Ids \subseteq Ids' /\ owner' \in Seq(Plugins)
            /\ registry' \in [Plugins -> Ids'] /\ loose' \subseteq Plugins /\ UNCHANGED begun
        BY <1>0, <2>4, Creates DEF Steps, TaskTypes
      <3>2. QED
        BY <1>12, <2>2, <2>4, <3>1 DEF ReopenEnds, DeviceTypes
    <2>5. QED
      BY <1>12, <2>3, <2>4 DEF ReopenEnds
  <1>13. QED
    BY <1>1, <1>2, <1>3, <1>4, <1>5, <1>6, <1>7, <1>8, <1>9, <1>10, <1>11, <1>12 DEF Step

LEMMA TypesNext == Types /\ [Next]_vars => Types'
  <1> SUFFICES ASSUME Types, [Next]_vars PROVE Types'
    OBVIOUS
  <1>1. CASE UNCHANGED vars
    BY <1>1 DEF vars, maps, devices, locks, calls, history, Types, DeviceTypes, TaskTypes, Ids, made, wiring
  <1>2. QED
    BY <1>1, BeginTypes, StepTypes DEF Next, Quiet

-----------------------------------------------------------------------------
(* The tasks and their locks.                                              *)

\* A task works on the plugins it is said to touch only, awaits an instance of
\* the plugin it is at, and stands where its operation takes it.
TaskOf(t) ==
  /\ todo[t] \cup again[t] \subseteq Touches(t)
  /\ pc[t] \in Awaits =>
       at[t] \in Touches(t) /\ inst[t] \in 1..Len(owner) /\ owner[inst[t]] = at[t]
  /\ pc[t] \in {"begun", "locking"} => todo[t] = {}
  /\ pc[t] \notin Holding => again[t] = {}
  /\ op[t] = "suspend" => again[t] = {}
  /\ pc[t] = "reopening" => again[t] # {} /\ todo[t] \subseteq again[t]
  /\ pc[t] = "dropping" => at[t] \notin todo[t]
  /\ pc[t] = "initconnect" => op[t] \notin Manages
  /\ pc[t] \in {"health", "connecting"} => op[t] \in {"acquire", "check"}
  /\ pc[t] = "probing" => op[t] \in {"check", "ready"}
  /\ pc[t] \in {"opening", "closing"} => op[t] \in Manages
  /\ pc[t] \in Holding \cup {"locking"} => op[t] \in Reconfigures
  /\ pc[t] \notin {"idle", "begun", "initconnect", "opening", "closing"} => initDone

TaskInv == \A t \in Tasks : TaskOf(t)

\* Both maps name instances of the plugin.
OwnerInv ==
  \A p \in Plugins : /\ registry[p] # 0 => owner[registry[p]] = p
                     /\ gateway[p] # 0 => owner[gateway[p]] = p

\* The locks are held by the tasks that stand in what they protect, and nothing
\* is suspended before startup.
LockInv ==
  /\ \A t \in Tasks : pc[t] = "initconnect" <=> initLock = t
  /\ \A t \in Tasks : pc[t] \in Holding <=> reconf = t
  /\ initLock # None => ~initDone
  /\ ~initDone => suspended = {}

WorkInv == TaskInv /\ OwnerInv /\ LockInv

LEMMA WorkInvInit == Init => WorkInv
  <1> SUFFICES ASSUME Init PROVE WorkInv
    OBVIOUS
  <1>1. TaskInv
    BY DEF Init, TaskInv, TaskOf, Awaits, Holding
  <1>2. OwnerInv
    BY DEF Init, OwnerInv
  <1>3. LockInv
    BY LifecycleAssumption DEF Init, LockInv, Holding
  <1>4. QED
    BY <1>1, <1>2, <1>3 DEF WorkInv

(* Where a task goes.                                                      *)
LEMMA Goes ==
  ASSUME Types, NEW t \in Tasks, NEW where, NEW p, NEW i, Goto(t, where, p, i)
  PROVE  /\ pc'[t] = where /\ at'[t] = p /\ inst'[t] = i
         /\ \A u \in Tasks : u # t => pc'[u] = pc[u] /\ at'[u] = at[u] /\ inst'[u] = inst[u]
  BY DEF Goto, Types, TaskTypes

LEMMA Leaves ==
  ASSUME Types, NEW t \in Tasks, Return(t)
  PROVE  /\ pc'[t] = "idle" /\ op'[t] = "none" /\ sel'[t] = {} /\ todo'[t] = {} /\ again'[t] = {}
         /\ \A u \in Tasks : u # t =>
              /\ pc'[u] = pc[u] /\ at'[u] = at[u] /\ inst'[u] = inst[u]
              /\ op'[u] = op[u] /\ sel'[u] = sel[u]
              /\ todo'[u] = todo[u] /\ again'[u] = again[u]
  BY DEF Return, Goto, Types, TaskTypes

\* A task that a step is not of.
Unmoved(u) ==
  /\ pc'[u] = pc[u] /\ at'[u] = at[u] /\ inst'[u] = inst[u]
  /\ op'[u] = op[u] /\ sel'[u] = sel[u] /\ todo'[u] = todo[u] /\ again'[u] = again[u]

\* Instances are only added.
OwnersKept == /\ Len(owner) \in Nat /\ Len(owner') \in Nat /\ Len(owner) <= Len(owner')
              /\ \A i \in 1..Len(owner) : owner'[i] = owner[i]

\* A task has created an instance of p, the first of ps.
Made(t, ps, where, p) ==
  /\ pc'[t] = where /\ at'[t] = p /\ inst'[t] = Len(owner) + 1
  /\ inst'[t] \in 1..Len(owner') /\ inst'[t] \notin Ids /\ owner'[inst'[t]] = p
  /\ op'[t] = op[t] /\ sel'[t] = sel[t]
  /\ todo'[t] = ps \ {p} /\ again'[t] = again[t]
  /\ \A q \in Plugins : registry'[q] = IF q = p THEN inst'[t] ELSE registry[q]
  /\ loose' \in {loose, loose \cup {p}}
  /\ registry[p] # 0 \/ (p \in suspended /\ op[t] \in {"apply", "connect"}) => p \in loose'

LEMMA CreateMoves ==
  ASSUME Types, NEW t \in Tasks, NEW ps \in SUBSET Plugins, ps # {}, NEW where,
         Create(t, ps, where)
  PROVE  /\ OwnersKept /\ loose \subseteq loose'
         /\ \A u \in Tasks : u # t => Unmoved(u)
         /\ \E p \in ps : Made(t, ps, where, p)
  <1>1. /\ Len(owner) \in Nat /\ Len(owner') = Len(owner) + 1 /\ DeviceTypes
        /\ \A i \in 1..Len(owner) : owner'[i] = owner[i]
        /\ UNCHANGED <<op, sel, again>>
    BY Created DEF Types
  <1>2. PICK p \in ps :
              /\ owner'[Len(owner) + 1] = p
              /\ registry' = [registry EXCEPT ![p] = Len(owner) + 1]
              /\ Goto(t, where, p, Len(owner) + 1)
              /\ todo' = [todo EXCEPT ![t] = ps \ {p}]
              /\ loose' \in {loose, loose \cup {p}}
              /\ registry[p] # 0 \/ (p \in suspended /\ op[t] \in {"apply", "connect"})
                   => p \in loose'
    BY <1>1, Created
  <1>3. /\ pc'[t] = where /\ at'[t] = p /\ inst'[t] = Len(owner) + 1
        /\ \A u \in Tasks : u # t => pc'[u] = pc[u] /\ at'[u] = at[u] /\ inst'[u] = inst[u]
    BY <1>2, Goes
  <1>4. /\ todo'[t] = ps \ {p} /\ \A u \in Tasks : u # t => todo'[u] = todo[u]
    BY <1>2 DEF Types, TaskTypes
  <1>5. \A u \in Tasks : u # t => Unmoved(u)
    BY <1>1, <1>3, <1>4 DEF Unmoved
  <1>6. OwnersKept
    BY <1>1 DEF OwnersKept
  <1>7. Len(owner) + 1 \in 1..Len(owner') /\ Len(owner) + 1 \notin Ids
    BY <1>1 DEF Ids
  <1>8. \A q \in Plugins : registry'[q] = IF q = p THEN Len(owner) + 1 ELSE registry[q]
    BY <1>1, <1>2 DEF DeviceTypes
  <1>9. Made(t, ps, where, p)
    BY <1>1, <1>2, <1>3, <1>4, <1>7, <1>8 DEF Made
  <1>10. loose \subseteq loose'
    BY <1>2
  <1>11. QED
    BY <1>5, <1>6, <1>9, <1>10

\* A task has cleared the entries of gone, the first ones of ps, and stands at
\* the one of them that is registered, if there is any.
Cleared(t, ps, gone) ==
  /\ \A p \in Plugins : gateway'[p] = IF p \in gone THEN 0 ELSE gateway[p]
  /\ todo'[t] = ps \ gone
  /\ \/ gone = ps /\ (\A p \in ps : registry[p] = 0) /\ pc'[t] = "releasing"
     \/ /\ pc'[t] = "dropping" /\ at'[t] \in gone
        /\ registry[at'[t]] # 0 /\ inst'[t] = registry[at'[t]]
        /\ \A p \in gone \ {at'[t]} : registry[p] = 0

LEMMA DropMoves ==
  ASSUME Types, NEW t \in Tasks, NEW ps \in SUBSET Plugins, Drop(t, ps)
  PROVE  /\ \A u \in Tasks : u # t => /\ pc'[u] = pc[u] /\ at'[u] = at[u]
                                       /\ inst'[u] = inst[u] /\ todo'[u] = todo[u]
         /\ \E gone \in SUBSET ps : Cleared(t, ps, gone)
  <1>1. PICK gone \in SUBSET ps :
           /\ gateway' = [p \in Plugins |-> IF p \in gone THEN 0 ELSE gateway[p]]
           /\ todo' = [todo EXCEPT ![t] = ps \ gone]
           /\ \/ /\ gone = ps /\ \A p \in ps : registry[p] = 0
                 /\ Goto(t, "releasing", None, 0)
              \/ \E q \in gone : /\ registry[q] # 0 /\ Goto(t, "dropping", q, registry[q])
                                 /\ \A p \in gone \ {q} : registry[p] = 0
    BY Dropped
  <1>2. todo'[t] = ps \ gone /\ \A u \in Tasks : u # t => todo'[u] = todo[u]
    BY <1>1 DEF Types, TaskTypes
  <1>3. \A u \in Tasks : u # t => pc'[u] = pc[u] /\ at'[u] = at[u] /\ inst'[u] = inst[u]
    BY <1>1, Goes
  <1>4. Goto(t, "releasing", None, 0) => pc'[t] = "releasing"
    BY Goes
  <1>5. ASSUME NEW q \in gone, registry[q] # 0, Goto(t, "dropping", q, registry[q]),
               \A p \in gone \ {q} : registry[p] = 0
        PROVE  /\ pc'[t] = "dropping" /\ at'[t] \in gone
               /\ registry[at'[t]] # 0 /\ inst'[t] = registry[at'[t]]
               /\ \A p \in gone \ {at'[t]} : registry[p] = 0
    BY <1>5, Goes
  <1>6. \A p \in Plugins : gateway'[p] = IF p \in gone THEN 0 ELSE gateway[p]
    BY <1>1
  <1>7. Cleared(t, ps, gone)
    BY <1>1, <1>2, <1>4, <1>5, <1>6 DEF Cleared
  <1>8. QED
    BY <1>2, <1>3, <1>7

(* What every step of a task leaves alone.                                 *)
LEMMA StepFrame ==
  ASSUME Types, NEW t \in Tasks, Step(t)
  PROVE  /\ pc[t] # "idle"
         /\ \A u \in Tasks : u # t => Unmoved(u)
         /\ pc'[t] = "idle" \/ (op'[t] = op[t] /\ sel'[t] = sel[t])
         /\ OwnersKept /\ loose \subseteq loose' /\ (initDone => initDone')
  <1> USE DEF maps, devices, locks, calls, history, made, wiring
  <1>0. Len(owner) \in Nat /\ (UNCHANGED owner => OwnersKept)
    BY LenProperties DEF Types, DeviceTypes, OwnersKept
  <1>a. pc[t] # "idle"
    BY DEF Step, InitTake, Enter, HealthEnds, ProbeEnds, TakeReconf, MayReconfigure,
         ReleaseEnds, InitConnectEnds, ConnectEnds, OpeningEnds, ClosingEnds, DropEnds, ReopenEnds, Rewire, Rewires
  <1>b. loose \subseteq loose' /\ OwnersKept
    <2>1. ASSUME NEW ps \in SUBSET Plugins, ps # {}, NEW where, Create(t, ps, where)
          PROVE  loose \subseteq loose' /\ OwnersKept
      BY <2>1, CreateMoves
    <2>2. Plugins # {} /\ Plugins \in SUBSET Plugins /\ {Target(t)} \in SUBSET Plugins
      BY <1>a, TargetIsSelected, OrderedPlugins, LifecycleAssumption, EmptySeq DEF Plugins
    <2>3. todo[t] \in SUBSET Plugins /\ again[t] \in SUBSET Plugins
      BY DEF Types, TaskTypes
    <2>4. CASE InitTake(t)
      BY <2>1, <2>2, <2>4 DEF InitTake
    <2>5. CASE Enter(t)
      BY <1>0, <2>1, <2>2, <2>5
      DEF Enter, EnterAcquire, EnterReady, EnterManage, EnterReconfigure
    <2>6. CASE HealthEnds(t) \/ ProbeEnds(t) \/ TakeReconf(t)
      BY <1>0, <2>6, Taking DEF HealthEnds, ProbeEnds
    <2>7. CASE ReleaseEnds(t)
      BY <1>0, <2>1, <2>3, <2>7 DEF ReleaseEnds
    <2>8. ASSUME NEW ok \in BOOLEAN, InitConnectEnds(t, ok) PROVE loose \subseteq loose' /\ OwnersKept
      BY <1>0, <2>1, <2>3, <2>8 DEF InitConnectEnds
    <2>9. ASSUME NEW ok \in BOOLEAN, ReopenEnds(t, ok) PROVE loose \subseteq loose' /\ OwnersKept
      BY <1>0, <2>1, <2>3, <2>9 DEF ReopenEnds
    <2>10. ASSUME NEW ok \in BOOLEAN, ConnectEnds(t, ok) \/ OpeningEnds(t, ok)
           PROVE  loose \subseteq loose' /\ OwnersKept
      BY <1>0, <2>10 DEF ConnectEnds, OpeningEnds
    <2>11. ASSUME NEW ok \in BOOLEAN, ClosingEnds(t, ok) \/ DropEnds(t, ok)
           PROVE  loose \subseteq loose' /\ OwnersKept
      BY <1>0, <2>11 DEF ClosingEnds, DropEnds
    <2>12. QED
      BY <2>4, <2>5, <2>6, <2>7, <2>8, <2>9, <2>10, <2>11 DEF Step
  <1>c. initDone => initDone'
    BY DEF Step, InitTake, Enter, HealthEnds, ProbeEnds, TakeReconf, ReleaseEnds,
         InitConnectEnds, ConnectEnds, OpeningEnds, ClosingEnds, DropEnds, ReopenEnds, Rewire, Rewires
  <1> DEFINE Frame == /\ \A u \in Tasks : u # t => Unmoved(u)
                      /\ pc'[t] = "idle" \/ (op'[t] = op[t] /\ sel'[t] = sel[t])
  <1>d. ASSUME Return(t) PROVE Frame
    BY <1>d, Leaves DEF Unmoved
  <1>e. ASSUME NEW where, NEW p, NEW i, Goto(t, where, p, i), UNCHANGED calls PROVE Frame
    BY <1>e, Goes DEF Unmoved
  <1>f. ASSUME NEW ps \in SUBSET Plugins, ps # {}, NEW where, Create(t, ps, where) PROVE Frame
    <2>1. PICK p \in ps : Made(t, ps, where, p)
      BY <1>f, CreateMoves
    <2>2. QED
      BY <1>f, <2>1, CreateMoves DEF Made
  <1>g. ASSUME NEW ps \in SUBSET Plugins, Drop(t, ps), UNCHANGED <<op, sel>>,
               \A u \in Tasks : u # t => again'[u] = again[u]
        PROVE  Frame
    BY <1>g, DropMoves DEF Unmoved
  <1>h. ASSUME NEW p, NEW i, Acquired(t, p, i) PROVE Frame
    BY <1>d, <1>e, <1>h DEF Acquired
  <1> HIDE DEF Frame
  <1>1. CASE InitTake(t)
    <2>1. Plugins # {} /\ Plugins \in SUBSET Plugins
      BY OrderedPlugins, LifecycleAssumption, EmptySeq DEF Plugins
    <2>2. QED
      BY <1>1, <1>f, <2>1, <1>a, <1>b, <1>c DEF InitTake, Frame
  <1>2. CASE Enter(t)
    <2>1. {Target(t)} \in SUBSET Plugins
      BY <1>a, TargetIsSelected
    <2>2. ASSUME EnterAcquire(t, Target(t)) PROVE Frame
      BY <2>1, <2>2, <1>d, <1>e, <1>f, <1>h DEF EnterAcquire
    <2>3. ASSUME EnterReady(t, Target(t)) PROVE Frame
      BY <2>3, <1>d, <1>e DEF EnterReady
    <2>4. ASSUME EnterManage(t, Target(t)) PROVE Frame
      BY <2>1, <2>4, <1>d, <1>e, <1>f DEF EnterManage
    <2>5. ASSUME EnterReconfigure(t) PROVE Frame
      BY <2>5, <1>e DEF EnterReconfigure
    <2>6. QED
      BY <1>2, <2>2, <2>3, <2>4, <2>5, <1>a, <1>b, <1>c DEF Enter, Frame
  <1>3. CASE HealthEnds(t)
    BY <1>3, <1>d, <1>e, <1>h, <1>a, <1>b, <1>c DEF HealthEnds, Frame
  <1>4. CASE ProbeEnds(t)
    BY <1>4, <1>d, <1>a, <1>b, <1>c DEF ProbeEnds, Frame
  <1>5. CASE TakeReconf(t)
    <2>1. \A u \in Tasks : u # t => again'[u] = again[u]
      BY <1>5, Taking DEF Types, TaskTypes
    <2>2. PICK ps \in SUBSET Plugins : Drop(t, ps)
      BY <1>5, Taking, AffectedPlugins DEF Types, TaskTypes
    <2>3. QED
      BY <1>5, <1>g, <2>1, <2>2, <1>a, <1>b, <1>c, Taking DEF Frame
  <1>6. CASE ReleaseEnds(t)
    <2>1. again[t] \in SUBSET Plugins
      BY DEF Types, TaskTypes
    <2>2. QED
      BY <1>6, <1>d, <1>f, <2>1, <1>a, <1>b, <1>c DEF ReleaseEnds, Finish, Frame
  <1>7. ASSUME NEW ok \in BOOLEAN,
               \/ InitConnectEnds(t, ok) \/ ConnectEnds(t, ok) \/ OpeningEnds(t, ok)
               \/ ClosingEnds(t, ok) \/ DropEnds(t, ok) \/ ReopenEnds(t, ok)
        PROVE  Frame
    <2>1. todo[t] \in SUBSET Plugins
      BY DEF Types, TaskTypes
    <2>2. CASE InitConnectEnds(t, ok)
      BY <1>e, <1>f, <2>1, <2>2 DEF InitConnectEnds
    <2>3. CASE ConnectEnds(t, ok)
      BY <1>d, <1>h, <2>3 DEF ConnectEnds
    <2>4. CASE OpeningEnds(t, ok) \/ ClosingEnds(t, ok)
      BY <1>d, <2>4 DEF OpeningEnds, ClosingEnds
    <2>5. CASE DropEnds(t, ok)
      BY <1>d, <1>g, <2>1, <2>5 DEF DropEnds, Finish
    <2>6. CASE ReopenEnds(t, ok)
      BY <1>d, <1>f, <2>1, <2>6 DEF ReopenEnds, Finish
    <2>7. QED
      BY <1>7, <2>2, <2>3, <2>4, <2>5, <2>6
  <1>8. QED
    BY <1>1, <1>2, <1>3, <1>4, <1>5, <1>6, <1>7, <1>a, <1>b, <1>c DEF Step, Frame

\* A task neither takes nor loses the reconfiguration lock, and while it has the
\* lock the ports stay as they are.
Steady(u) == (reconf' = u <=> reconf = u) /\ (reconf = u => UNCHANGED <<config, old>>)

(* A task that stays in its operation is steady but for taking the lock, and *)
(* every other task is.                                                     *)
LEMMA WiringFrame ==
  ASSUME Types, WorkInv, NEW t \in Tasks, Step(t)
  PROVE  /\ \A u \in Tasks : u # t => Steady(u)
         /\ pc'[t] = "idle" \/ pc[t] = "locking" \/ Steady(t)
  <1> USE DEF maps, devices, locks, calls, history, made, wiring
  <1>0. LockInv /\ None \notin Tasks
    BY LifecycleAssumption DEF WorkInv
  <1>1. CASE UNCHANGED <<reconf, config, old>>
    BY <1>1 DEF Steady
  <1>2. CASE TakeReconf(t)
    BY <1>0, <1>2, Taking DEF Steady
  <1>3. CASE Finish(t) /\ pc[t] \in Holding
    <2>1. reconf = t /\ reconf' = None /\ pc'[t] = "idle"
      BY <1>0, <1>3, Leaves DEF LockInv, Finish, Unlock
    <2>2. QED
      BY <1>0, <2>1 DEF Steady
  <1>4. ASSUME NEW ok \in BOOLEAN,
               ReleaseEnds(t) \/ DropEnds(t, ok) \/ ReopenEnds(t, ok)
        PROVE  (Finish(t) /\ pc[t] \in Holding) \/ UNCHANGED <<reconf, config, old>>
    BY <1>4 DEF ReleaseEnds, DropEnds, ReopenEnds, Holding
  <1>5. CASE ~TakeReconf(t) /\ ~ReleaseEnds(t)
             /\ \A ok \in BOOLEAN : ~DropEnds(t, ok) /\ ~ReopenEnds(t, ok)
    <2>1. UNCHANGED <<reconf, config, old>>
      BY <1>5 DEF Step, InitTake, Enter, HealthEnds, ProbeEnds, InitConnectEnds, ConnectEnds,
         OpeningEnds, ClosingEnds
    <2>2. QED
      BY <1>1, <2>1
  <1>6. QED
    BY <1>1, <1>2, <1>3, <1>4, <1>5

LEMMA TaskKept ==
  ASSUME Types, WorkInv, NEW u \in Tasks, Unmoved(u), Steady(u), OwnersKept,
         \/ initDone' = initDone
         \/ initDone' = TRUE /\ pc[u] # "initconnect"
  PROVE  TaskOf(u)'
  <1>1. TaskOf(u) /\ (pc[u] = "idle" => Touches(u) = {})
    BY DEF WorkInv, TaskInv, Touches
  <1>2. pc'[u] \in Awaits => inst'[u] \in 1..Len(owner') /\ owner'[inst'[u]] = at'[u]
    BY <1>1 DEF Unmoved, OwnersKept, TaskOf
  <1>3. CASE initDone' = initDone
    <2>1. Touches(u)' = Touches(u)
      BY <1>3 DEF Touches, WorksOn, Unmoved, Steady
    <2>2. QED
      BY <1>1, <1>2, <1>3, <2>1 DEF TaskOf, Unmoved
  <1>4. CASE initDone' = TRUE /\ ~initDone /\ pc[u] # "initconnect"
    <2>1. pc[u] \in {"idle", "begun", "opening", "closing"} /\ again[u] = {}
      BY <1>1, <1>4 DEF TaskOf, Holding
    <2>2. CASE pc[u] \in {"idle", "begun"}
      <3>1. todo[u] = {}
        BY <1>1, <2>2 DEF TaskOf
      <3>2. QED
        BY <1>4, <2>1, <2>2, <3>1 DEF TaskOf, Unmoved, Awaits, Holding
    <2>3. CASE pc[u] \in {"opening", "closing"}
      <3>1. op[u] \in Manages
        BY <1>1, <2>3 DEF TaskOf
      <3>2. Touches(u)' = Touches(u)
        BY <2>3, <3>1 DEF Touches, WorksOn, Unmoved, Manages, Rewires
      <3>3. QED
        BY <1>1, <1>2, <1>4, <2>1, <2>3, <3>1, <3>2 DEF TaskOf, Unmoved, Holding
    <2>4. QED
      BY <2>1, <2>2, <2>3
  <1>5. QED
    BY <1>3, <1>4 DEF Types, DeviceTypes

(* A task that returns has nothing to do.                                  *)
LEMMA TaskLeaves ==
  ASSUME Types, NEW t \in Tasks, Return(t)
  PROVE  TaskOf(t)'
  <1>1. pc'[t] = "idle" /\ op'[t] = "none" /\ todo'[t] = {} /\ again'[t] = {}
    BY Leaves
  <1>2. QED
    BY <1>1 DEF TaskOf, Awaits, Holding

LEMMA SameTouches ==
  ASSUME NEW t \in Tasks, pc[t] # "idle", pc'[t] # "idle", op'[t] = op[t], sel'[t] = sel[t],
         initDone' = initDone, Steady(t)
  PROVE  Touches(t)' = Touches(t)
  BY DEF Touches, WorksOn, Steady

LEMMA SelfGroup ==
  ASSUME NEW ps \in SUBSET Plugins, NEW was, NEW now
  PROVE  ps \subseteq Group(ps, was, now)
  BY DEF Group, Targets

(* An operation on a plugin is said to touch it, resume and apply once they  *)
(* have the lock.                                                           *)
LEMMA TouchesTarget ==
  ASSUME Types, NEW t \in Tasks, pc[t] # "idle", op[t] \notin Rewires \/ reconf = t
  PROVE  sel[t] \subseteq Touches(t) /\ Target(t) \in Touches(t)
  <1>1. sel[t] \in SUBSET Plugins
    BY DEF Types, TaskTypes
  <1>2. sel[t] \subseteq Touches(t)
    BY <1>1, SelfGroup DEF Touches, WorksOn
  <1>3. QED
    BY <1>2, TargetIsSelected

LEMMA TaskStep ==
  ASSUME Types, WorkInv, NEW t \in Tasks, Step(t)
  PROVE  TaskOf(t)'
  <1> USE DEF maps, devices, locks, calls, history, made, wiring
  <1>0. /\ pc[t] # "idle" /\ TaskOf(t) /\ OwnersKept
        /\ (pc'[t] = "idle" \/ (op'[t] = op[t] /\ sel'[t] = sel[t]))
        /\ (pc'[t] = "idle" \/ pc[t] = "locking" \/ Steady(t))
    BY StepFrame, WiringFrame DEF WorkInv, TaskInv
  <1>a. ASSUME NEW p \in Touches(t), NEW i \in Ids \ {0}, owner[i] = p, Acquired(t, p, i),
               UNCHANGED <<owner, initDone>>, initDone, op[t] \in {"acquire", "check"},
               todo[t] = {}, again[t] = {}, pc[t] # "locking"
        PROVE  TaskOf(t)'
    <2>1. CASE Goto(t, "probing", p, i) /\ op[t] = "check" /\ UNCHANGED calls
      <3>1. pc'[t] = "probing" /\ at'[t] = p /\ inst'[t] = i
        BY <2>1, Goes
      <3>2. Touches(t)' = Touches(t)
        BY <1>0, <1>a, <2>1, <3>1, SameTouches
      <3>3. i \in 1..Len(owner)
        BY DEF Ids
      <3>4. QED
        BY <1>a, <2>1, <3>1, <3>2, <3>3 DEF TaskOf, Holding
    <2>2. QED
      BY <1>a, <2>1, TaskLeaves DEF Acquired
  <1>b. ASSUME NEW ps \in SUBSET Plugins, ps # {}, ps \subseteq Touches(t),
               NEW where \in {"initconnect", "connecting", "opening", "reopening"},
               Create(t, ps, where), initDone' = initDone, pc[t] # "locking",
               \/ where = "initconnect" /\ op[t] \notin Manages /\ again[t] = {}
               \/ where = "connecting" /\ op[t] \in {"acquire", "check"} /\ again[t] = {}
                                       /\ initDone
               \/ where = "opening" /\ op[t] \in Manages /\ again[t] = {}
               \/ /\ where = "reopening" /\ ps \subseteq again[t] /\ op[t] \in Reconfigures
                  /\ initDone
        PROVE  TaskOf(t)'
    <2>0. PICK p \in ps : Made(t, ps, where, p)
      BY <1>b, CreateMoves
    <2>1. /\ pc'[t] = where /\ at'[t] = p
          /\ inst'[t] \in 1..Len(owner') /\ owner'[inst'[t]] = p
          /\ op'[t] = op[t] /\ sel'[t] = sel[t]
          /\ todo'[t] = ps \ {p} /\ again'[t] = again[t]
      BY <2>0 DEF Made
    <2>2. Touches(t)' = Touches(t)
      BY <1>0, <1>b, <2>1, SameTouches
    <2>3. again[t] \subseteq Touches(t) /\ (op[t] = "suspend" => again[t] = {})
      BY <1>0 DEF TaskOf
    <2>4. QED
      BY <1>b, <2>1, <2>2, <2>3 DEF TaskOf, Awaits, Holding, Manages, Reconfigures
  <1>c. ASSUME NEW ps \in SUBSET Plugins, ps \subseteq Touches(t)', Drop(t, ps), initDone,
               UNCHANGED <<initDone, owner, op, sel>>, again'[t] \subseteq Touches(t)',
               op[t] \in Reconfigures, op[t] = "suspend" => again'[t] = {}
        PROVE  TaskOf(t)'
    <2>0. PICK gone \in SUBSET ps : Cleared(t, ps, gone)
      BY <1>c, DropMoves
    <2>1. /\ todo'[t] = ps \ gone
          /\ \/ pc'[t] = "releasing"
             \/ /\ pc'[t] = "dropping" /\ at'[t] \in gone
                /\ registry[at'[t]] # 0 /\ inst'[t] = registry[at'[t]]
      BY <2>0 DEF Cleared
    <2>3. pc'[t] = "dropping" => inst'[t] \in 1..Len(owner) /\ owner[inst'[t]] = at'[t]
      BY <2>1 DEF WorkInv, OwnerInv, Types, DeviceTypes, Ids
    <2>4. QED
      BY <1>c, <2>1, <2>3 DEF TaskOf, Awaits, Holding, Manages, Reconfigures
  <1>d. todo[t] \in SUBSET Plugins /\ again[t] \in SUBSET Plugins /\ todo[t] \cup again[t] \subseteq Touches(t)
    BY <1>0 DEF Types, TaskTypes, TaskOf
  <1>1. CASE InitTake(t)
    <2>1. Plugins # {} /\ Touches(t) = Plugins /\ pc[t] # "locking"
      BY <1>1, OrderedPlugins, LifecycleAssumption, EmptySeq
      DEF Plugins, InitTake, Touches, WorksOn, WorkInv, LockInv, Holding
    <2>2. again[t] = {}
      BY <1>0, <1>1 DEF InitTake, TaskOf, Holding
    <2>3. QED
      BY <1>1, <1>b, <2>1, <2>2 DEF InitTake
  <1>2. CASE Enter(t)
    <2> DEFINE p == Target(t)
    <2>1. /\ pc[t] = "begun" /\ todo[t] = {} /\ again[t] = {} /\ (initDone \/ op[t] \in Manages)
          /\ UNCHANGED <<initDone>>
      BY <1>0, <1>2 DEF Enter, TaskOf, Holding
    <2>2. p \in Plugins /\ (op[t] \notin Reconfigures => p \in Touches(t))
      BY <2>1, TargetIsSelected, TouchesTarget DEF Reconfigures, Rewires
    <2>3. /\ registry[p] \in Ids /\ gateway[p] \in Ids
          /\ registry[p] # 0 => owner[registry[p]] = p
          /\ gateway[p] # 0 => owner[gateway[p]] = p
      BY <2>2 DEF WorkInv, OwnerInv, Types, DeviceTypes
    <2> HIDE DEF p
    <2>4. ASSUME NEW i \in Ids \ {0}, owner[i] = p, UNCHANGED <<owner, calls>>,
                 NEW where, Goto(t, where, p, i),
                 \/ where = "health" /\ op[t] \in {"acquire", "check"}
                 \/ where = "probing" /\ op[t] \in {"check", "ready"}
                 \/ where = "closing" /\ op[t] \in Manages
          PROVE  TaskOf(t)'
      <3>1. pc'[t] = where /\ at'[t] = p /\ inst'[t] = i
        BY <2>4, Goes
      <3>2. Touches(t)' = Touches(t)
        BY <1>0, <2>1, <2>4, <3>1, SameTouches
      <3>3. i \in 1..Len(owner)
        BY DEF Ids
      <3>4. initDone \/ where = "closing"
        BY <2>1, <2>4 DEF Manages
      <3>5. QED
        BY <2>1, <2>2, <2>4, <3>1, <3>2, <3>3, <3>4 DEF TaskOf, Holding, Manages, Reconfigures
    <2>5. CASE EnterAcquire(t, p)
      <3>1. op[t] \in {"acquire", "check"} /\ initDone /\ p \in Touches(t)
        BY <2>1, <2>2, <2>5 DEF EnterAcquire, Manages, Reconfigures
      <3>2. CASE Return(t)
        BY <3>2, TaskLeaves
      <3>3. CASE gateway[p] # 0 /\ Acquired(t, p, gateway[p]) /\ UNCHANGED owner
        BY <1>a, <2>1, <2>2, <2>3, <3>1, <3>3
      <3>4. CASE registry[p] # 0 /\ Goto(t, "health", p, registry[p]) /\ UNCHANGED <<owner, calls>>
        BY <2>3, <2>4, <3>1, <3>4
      <3>5. CASE Create(t, {p}, "connecting")
        <4>1. {p} \in SUBSET Plugins /\ {p} # {} /\ {p} \subseteq Touches(t)
          BY <2>2, <3>1
        <4>2. QED
          BY <1>b, <2>1, <3>1, <3>5, <4>1
      <3>6. QED
        BY <2>5, <3>2, <3>3, <3>4, <3>5 DEF EnterAcquire
    <2>6. CASE EnterReady(t, p)
      <3>1. CASE Return(t)
        BY <3>1, TaskLeaves
      <3>2. ASSUME NEW i \in {gateway[p], registry[p]}, i # 0, Goto(t, "probing", p, i),
                   UNCHANGED <<owner, calls>>, op[t] = "ready"
            PROVE  TaskOf(t)'
        BY <2>3, <2>4, <3>2
      <3>3. QED
        BY <2>6, <3>1, <3>2 DEF EnterReady
    <2>7. CASE EnterManage(t, p)
      <3>1. op[t] \in Manages /\ p \in Touches(t)
        BY <2>2, <2>7 DEF EnterManage, Manages, Reconfigures
      <3>2. CASE Return(t)
        BY <3>2, TaskLeaves
      <3>3. CASE registry[p] # 0 /\ Goto(t, "closing", p, registry[p]) /\ UNCHANGED <<owner, calls>>
        BY <2>3, <2>4, <3>1, <3>3
      <3>4. CASE Create(t, {p}, "opening")
        <4>1. {p} \in SUBSET Plugins /\ {p} # {} /\ {p} \subseteq Touches(t)
          BY <2>2, <3>1
        <4>2. QED
          BY <1>b, <2>1, <3>1, <3>4, <4>1
      <3>5. QED
        BY <2>7, <3>2, <3>3, <3>4 DEF EnterManage
    <2>8. CASE EnterReconfigure(t)
      <3>1. pc'[t] = "locking" /\ UNCHANGED calls /\ op[t] \in Reconfigures
        BY <2>8, Goes DEF EnterReconfigure
      <3>2. initDone
        BY <2>1, <3>1 DEF Manages, Reconfigures
      <3>3. QED
        BY <2>1, <3>1, <3>2 DEF TaskOf, Awaits, Holding
    <2>9. QED
      BY <1>2, <2>5, <2>6, <2>7, <2>8 DEF Enter, p
  <1>3. CASE HealthEnds(t)
    <2>1. /\ at[t] \in Touches(t) /\ inst[t] \in Ids \ {0} /\ owner[inst[t]] = at[t]
          /\ todo[t] = {} \/ todo[t] \subseteq Touches(t)
          /\ again[t] = {} /\ initDone /\ op[t] \in {"acquire", "check"}
          /\ UNCHANGED <<owner, initDone>> /\ pc[t] = "health"
      BY <1>0, <1>3 DEF HealthEnds, TaskOf, Awaits, Holding, Ids
    <2>2. CASE Return(t)
      BY <2>2, TaskLeaves
    <2>3. CASE \E where \in {"probing", "connecting"} :
                  Goto(t, where, at[t], inst[t]) /\ UNCHANGED calls
                  /\ (where = "probing" => op[t] = "check")
      <3>1. PICK where \in {"probing", "connecting"} :
                  Goto(t, where, at[t], inst[t]) /\ UNCHANGED calls
                  /\ (where = "probing" => op[t] = "check")
        BY <2>3
      <3>2. pc'[t] = where /\ at'[t] = at[t] /\ inst'[t] = inst[t]
        BY <3>1, Goes
      <3>3. Touches(t)' = Touches(t)
        BY <1>0, <2>1, <3>1, <3>2, SameTouches
      <3>4. inst[t] \in 1..Len(owner)
        BY <1>0, <1>3 DEF HealthEnds, TaskOf, Awaits
      <3>5. QED
        BY <1>d, <2>1, <3>1, <3>2, <3>3, <3>4 DEF TaskOf, Holding
    <2>4. QED
      BY <1>3, <2>2, <2>3 DEF HealthEnds, Acquired
  <1>4. CASE ProbeEnds(t)
    BY <1>4, TaskLeaves DEF ProbeEnds
  <1>5. CASE TakeReconf(t)
    <2>1. /\ initDone /\ op[t] \in Reconfigures /\ again[t] = {} /\ reconf' = t
          /\ UNCHANGED <<initDone, owner, op, sel>> /\ sel[t] \in SUBSET Plugins
      BY <1>0, <1>5, Taking DEF TaskOf, Holding, Types, TaskTypes
    <2>2. pc'[t] # "idle"
      BY <1>5, Taking, AffectedPlugins, DropMoves, <2>1 DEF Cleared
    <2>3. CASE op[t] = "suspend" /\ Drop(t, sel[t]) /\ UNCHANGED again
      <3>1. sel[t] \subseteq Touches(t)'
        BY <2>1, <2>2, <2>3 DEF Touches, WorksOn, Rewires, Manages
      <3>2. QED
        BY <1>c, <2>1, <2>3, <3>1
    <2>4. CASE /\ op[t] \in Rewires /\ op[t] # "suspend" /\ old' = config
               /\ Drop(t, Affected(sel[t], config, config'))
               /\ again' = [again EXCEPT ![t] = sel[t] \cup Affected(sel[t], config, config')]
      <3>1. Touches(t)' = Group(sel[t], config, config')
        BY <2>1, <2>2, <2>4 DEF Touches
      <3>2. /\ Affected(sel[t], config, config') \subseteq Touches(t)'
            /\ Affected(sel[t], config, config') \in SUBSET Plugins
            /\ sel[t] \subseteq Touches(t)'
        BY <2>1, <3>1, AffectedPlugins, SelfGroup DEF Affected
      <3>3. again'[t] = sel[t] \cup Affected(sel[t], config, config')
        BY <2>4 DEF Types, TaskTypes
      <3>4. QED
        BY <1>c, <2>1, <2>4, <3>2, <3>3
    <2>5. QED
      BY <1>5, <2>3, <2>4, Taking
  <1>6. CASE ReleaseEnds(t)
    <2>1. CASE Finish(t)
      BY <2>1, TaskLeaves DEF Finish
    <2>2. CASE again[t] # {} /\ Create(t, again[t], "reopening")
      <3>1. op[t] \in Reconfigures /\ initDone /\ UNCHANGED initDone /\ pc[t] = "releasing"
        BY <1>0, <1>6 DEF ReleaseEnds, TaskOf, Holding
      <3>2. QED
        BY <1>b, <1>d, <2>2, <3>1
    <2>3. QED
      BY <1>6, <2>1, <2>2 DEF ReleaseEnds
  <1>7. ASSUME NEW ok \in BOOLEAN, InitConnectEnds(t, ok) PROVE TaskOf(t)'
    <2>1. pc[t] = "initconnect" /\ again[t] = {} /\ op[t] \notin Manages
      BY <1>0, <1>7 DEF InitConnectEnds, TaskOf, Holding
    <2>2. CASE todo[t] # {} /\ Create(t, todo[t], "initconnect") /\ UNCHANGED initDone
      BY <1>b, <1>d, <2>1, <2>2
    <2>3. CASE Goto(t, "begun", None, 0) /\ UNCHANGED calls /\ todo[t] = {}
      <3>1. pc'[t] = "begun"
        BY <2>3, Goes
      <3>2. QED
        BY <2>1, <2>3, <3>1 DEF TaskOf, Awaits, Holding
    <2>4. QED
      BY <1>7, <2>2, <2>3 DEF InitConnectEnds
  <1>8. ASSUME NEW ok \in BOOLEAN, ConnectEnds(t, ok) PROVE TaskOf(t)'
    <2>1. CASE Return(t)
      BY <2>1, TaskLeaves
    <2>2. CASE Goto(t, "probing", at[t], inst[t]) /\ op[t] = "check" /\ UNCHANGED calls
      <3>1. pc'[t] = "probing" /\ at'[t] = at[t] /\ inst'[t] = inst[t]
            /\ UNCHANGED <<owner, initDone>> /\ pc[t] = "connecting"
        BY <1>8, <2>2, Goes DEF ConnectEnds
      <3>2. Touches(t)' = Touches(t)
        BY <1>0, <2>2, <3>1, SameTouches
      <3>3. /\ at[t] \in Touches(t) /\ inst[t] \in 1..Len(owner) /\ owner[inst[t]] = at[t]
            /\ again[t] = {} /\ initDone
        BY <1>0, <1>8 DEF ConnectEnds, TaskOf, Awaits, Holding
      <3>4. QED
        BY <1>d, <2>2, <3>1, <3>2, <3>3 DEF TaskOf, Holding
    <2>3. QED
      BY <1>8, <2>1, <2>2 DEF ConnectEnds, Acquired
  <1>9. ASSUME NEW ok \in BOOLEAN, OpeningEnds(t, ok) \/ ClosingEnds(t, ok) PROVE TaskOf(t)'
    BY <1>9, TaskLeaves DEF OpeningEnds, ClosingEnds
  <1>10. ASSUME NEW ok \in BOOLEAN, DropEnds(t, ok) PROVE TaskOf(t)'
    <2>1. CASE Finish(t)
      BY <2>1, TaskLeaves DEF Finish
    <2>2. CASE Drop(t, todo[t]) /\ UNCHANGED <<op, sel, again>>
      <3>1. /\ op[t] \in Reconfigures /\ initDone /\ UNCHANGED <<owner, initDone>>
            /\ op[t] = "suspend" => again[t] = {}
            /\ pc[t] = "dropping"
        BY <1>0, <1>10 DEF DropEnds, TaskOf, Holding
      <3>2. pc'[t] # "idle"
        BY <1>d, <2>2, DropMoves DEF Cleared
      <3>3. Touches(t)' = Touches(t)
        BY <1>0, <2>2, <3>1, <3>2, SameTouches
      <3>4. QED
        BY <1>c, <1>d, <2>2, <3>1, <3>3
    <2>3. QED
      BY <1>10, <2>1, <2>2 DEF DropEnds
  <1>11. ASSUME NEW ok \in BOOLEAN, ReopenEnds(t, ok) PROVE TaskOf(t)'
    <2>1. CASE Finish(t)
      BY <2>1, TaskLeaves DEF Finish
    <2>2. CASE todo[t] # {} /\ Create(t, todo[t], "reopening")
      <3>1. /\ op[t] \in Reconfigures /\ initDone /\ UNCHANGED initDone
            /\ todo[t] \subseteq again[t] /\ pc[t] = "reopening"
        BY <1>0, <1>11 DEF ReopenEnds, TaskOf, Holding
      <3>2. QED
        BY <1>b, <1>d, <2>2, <3>1
    <2>3. QED
      BY <1>11, <2>1, <2>2 DEF ReopenEnds
  <1>12. QED
    BY <1>1, <1>2, <1>3, <1>4, <1>5, <1>6, <1>7, <1>8, <1>9, <1>10, <1>11 DEF Step

-----------------------------------------------------------------------------
(* What a step may do to the maps and to the ports.                        *)

\* It creates an instance of q for its task.
Makes(t, q) ==
  /\ registry'[q] = Len(owner) + 1 /\ at'[t] = q /\ inst'[t] = Len(owner) + 1
  /\ inst'[t] \in 1..Len(owner') /\ inst'[t] \notin Ids /\ owner'[inst'[t]] = q
  /\ q \in Touches(t)
  /\ registry[q] # 0 \/ (q \in suspended /\ op[t] \in {"apply", "connect"}) => q \in loose'
  /\ \/ pc'[t] = "initconnect" /\ ~initDone
     \/ pc'[t] = "connecting" /\ q \notin suspended /\ op[t] \in {"acquire", "check"}
     \/ pc'[t] = "opening" /\ op[t] = "connect"
     \/ pc'[t] = "reopening" /\ pc[t] \in Holding /\ q \in again[t]

\* It takes the entry of q out of the registry when its instance is closed.
Closes(t, q) ==
  /\ pc[t] \in {"closing", "dropping"} /\ at[t] = q
  /\ registry'[q] = 0 /\ inst[t] \notin open' /\ gateway'[q] \in {0, gateway[q]}
  /\ pc[t] = "closing" => gateway'[q] = 0 \/ registry[q] = 0

Opens == {"initconnect", "connecting", "opening", "reopening"}
Attaches == Opens \cup {"health", "probing"}

MapEffect(t, q) ==
  /\ registry'[q] = registry[q] \/ Closes(t, q) \/ Makes(t, q)
  /\ \/ gateway'[q] \in {0, gateway[q]}
     \/ pc[t] \in Attaches /\ at[t] = q /\ gateway'[q] \in {inst[t], registry[q]}

OpenEffect(t) == \A i \in open' : i \in open \/ (pc[t] \in Opens /\ i = inst[t])

\* Its task comes to await the new instance, or one the maps name, or stays.
PlaceEffect(t) ==
  pc'[t] \in Awaits =>
    \/ Makes(t, at'[t])
    \/ /\ inst'[t] \in {registry[at'[t]], gateway[at'[t]]} \ {0}
       /\ registry'[at'[t]] = registry[at'[t]]
       /\ pc'[t] = "dropping" => inst'[t] = registry[at'[t]] /\ gateway'[at'[t]] = 0
    \/ /\ pc[t] \in Awaits /\ pc'[t] # "dropping" /\ at'[t] = at[t] /\ inst'[t] = inst[t]
       /\ registry'[at[t]] = registry[at[t]]

Effects(t) == (\A q \in Plugins : MapEffect(t, q)) /\ OpenEffect(t) /\ PlaceEffect(t)

LEMMA StepEffects ==
  ASSUME Types, WorkInv, NEW t \in Tasks, Step(t)
  PROVE  Effects(t)
  <1> USE DEF maps, devices, locks, calls, history, made, wiring
  <1>0. TaskOf(t) /\ LockInv /\ pc[t] # "idle"
    BY StepFrame DEF WorkInv, TaskInv
  <1>r. gateway \in [Plugins -> Ids] /\ registry \in [Plugins -> Ids]
    BY DEF Types, DeviceTypes
  <1>s. todo[t] \in SUBSET Plugins /\ again[t] \in SUBSET Plugins /\ sel[t] \in SUBSET Plugins
        /\ todo[t] \cup again[t] \subseteq Touches(t)
    BY <1>0 DEF Types, TaskTypes, TaskOf
  <1>a. ASSUME NEW ps \in SUBSET Plugins, ps # {}, ps \subseteq Touches(t), NEW where,
               Create(t, ps, where),
               \/ where = "initconnect" /\ ~initDone
               \/ where = "connecting" /\ ps \cap suspended = {} /\ op[t] \in {"acquire", "check"}
               \/ where = "opening" /\ op[t] = "connect"
               \/ where = "reopening" /\ pc[t] \in Holding /\ ps \subseteq again[t]
        PROVE  PlaceEffect(t) /\ \A q \in Plugins : registry'[q] = registry[q] \/ Makes(t, q)
    <2>1. PICK p \in ps : Made(t, ps, where, p)
      BY <1>a, CreateMoves
    <2>2. Makes(t, p) /\ at'[t] = p
      BY <1>a, <2>1 DEF Made, Makes
    <2>3. \A q \in Plugins : q # p => registry'[q] = registry[q]
      BY <2>1 DEF Made
    <2>4. QED
      BY <2>2, <2>3 DEF PlaceEffect
  <1>b. ASSUME NEW ps \in SUBSET Plugins, Drop(t, ps),
               \A q \in ps : registry'[q] = registry[q]
        PROVE  PlaceEffect(t) /\ \A q \in Plugins : gateway'[q] \in {0, gateway[q]}
    <2>1. PICK gone \in SUBSET ps : Cleared(t, ps, gone)
      BY <1>b, DropMoves
    <2>2. QED
      BY <1>b, <2>1 DEF Cleared, PlaceEffect, Awaits
  <1>c. ASSUME Return(t) PROVE PlaceEffect(t)
    BY <1>c, Leaves DEF PlaceEffect, Awaits
  <1>d. ASSUME NEW where \in {"health", "probing", "connecting"}, NEW p, NEW i, Goto(t, where, p, i),
               UNCHANGED registry, i # 0,
               i \in {registry[p], gateway[p]} \/ (pc[t] \in Awaits /\ p = at[t] /\ i = inst[t])
        PROVE  PlaceEffect(t)
    <2>1. pc'[t] = where /\ at'[t] = p /\ inst'[t] = i
      BY <1>d, Goes
    <2>2. QED
      BY <1>d, <2>1 DEF PlaceEffect
  <1>e. UNCHANGED open => OpenEffect(t)
    BY DEF OpenEffect
  <1>f. ASSUME NEW ok \in BOOLEAN, Connected(inst[t], ok), pc[t] \in Opens PROVE OpenEffect(t)
    BY <1>f DEF Connected, OpenEffect
  <1>g. ASSUME UNCHANGED gateway, \A q \in Plugins : registry'[q] = registry[q] \/ Makes(t, q)
        PROVE  \A q \in Plugins : MapEffect(t, q)
    BY <1>g DEF MapEffect
  <1>1. CASE InitTake(t)
    <2>1. Plugins # {} /\ Touches(t) = Plugins /\ ~initDone
      BY <1>1, OrderedPlugins, LifecycleAssumption, EmptySeq
      DEF Plugins, InitTake, Touches, WorksOn, WorkInv, LockInv, Holding
    <2>2. PlaceEffect(t) /\ \A q \in Plugins : registry'[q] = registry[q] \/ Makes(t, q)
      BY <1>1, <1>a, <2>1 DEF InitTake
    <2>3. QED
      BY <1>1, <1>e, <1>g, <2>2 DEF InitTake, Effects
  <1>2. CASE Enter(t)
    <2> DEFINE p == Target(t)
    <2>1. /\ op[t] \notin Reconfigures => p \in Touches(t)
          /\ p \in Plugins /\ {p} \in SUBSET Plugins /\ {p} # {}
      BY <1>0, TargetIsSelected, TouchesTarget DEF Reconfigures, Rewires
    <2> HIDE DEF p
    <2>2. OpenEffect(t)
      BY <1>2, <1>e DEF Enter
    <2>3. CASE EnterAcquire(t, p)
      <3>1. CASE Create(t, {p}, "connecting") /\ p \notin suspended /\ UNCHANGED gateway
        BY <1>a, <1>g, <2>1, <2>2, <2>3, <3>1 DEF EnterAcquire, Effects, Reconfigures
      <3>2. CASE UNCHANGED maps /\ PlaceEffect(t)
        BY <1>g, <2>2, <3>2 DEF Effects
      <3>3. CASE gateway[p] # 0 /\ Acquired(t, p, gateway[p]) /\ UNCHANGED maps
        BY <1>c, <1>d, <3>2, <3>3 DEF Acquired
      <3>4. CASE registry[p] # 0 /\ Goto(t, "health", p, registry[p]) /\ UNCHANGED maps
        BY <1>d, <3>2, <3>4
      <3>5. CASE Return(t) /\ UNCHANGED maps
        BY <1>c, <3>2, <3>5
      <3>6. QED
        BY <2>3, <3>1, <3>3, <3>4, <3>5 DEF EnterAcquire, Blocked
    <2>4. CASE EnterReady(t, p)
      <3>1. UNCHANGED maps
        BY <2>4 DEF EnterReady
      <3>2. CASE Return(t)
        BY <1>c, <1>g, <2>2, <3>1, <3>2 DEF Effects
      <3>3. ASSUME NEW i \in {gateway[p], registry[p]}, i # 0, Goto(t, "probing", p, i)
            PROVE  Effects(t)
        BY <1>d, <1>g, <2>2, <3>1, <3>3 DEF Effects
      <3>4. QED
        BY <2>4, <3>2, <3>3 DEF EnterReady
    <2>5. CASE EnterManage(t, p)
      <3>1. CASE Create(t, {p}, "opening") /\ op[t] = "connect" /\ UNCHANGED gateway
        BY <1>a, <1>g, <2>1, <2>2, <3>1 DEF Effects, Reconfigures
      <3>2. CASE Return(t) /\ UNCHANGED maps
        BY <1>c, <1>g, <2>2, <3>2 DEF Effects
      <3>3. CASE registry[p] # 0 /\ Goto(t, "closing", p, registry[p]) /\ UNCHANGED maps
        <4>1. pc'[t] = "closing" /\ at'[t] = p /\ inst'[t] = registry[p]
          BY <3>3, Goes
        <4>2. PlaceEffect(t)
          BY <3>3, <4>1 DEF PlaceEffect
        <4>3. QED
          BY <1>g, <2>2, <3>3, <4>2 DEF Effects
      <3>4. QED
        BY <2>5, <3>1, <3>2, <3>3 DEF EnterManage
    <2>6. CASE EnterReconfigure(t)
      <3>1. pc'[t] = "locking" /\ UNCHANGED maps
        BY <2>6, Goes DEF EnterReconfigure
      <3>2. PlaceEffect(t)
        BY <3>1 DEF PlaceEffect, Awaits
      <3>3. QED
        BY <1>g, <2>2, <3>1, <3>2 DEF Effects
    <2>7. QED
      BY <1>2, <2>3, <2>4, <2>5, <2>6 DEF Enter, p
  <1>w. pc[t] \in Awaits => at[t] \in Touches(t) /\ at[t] \in Plugins /\ inst[t] # 0
    BY <1>0 DEF TaskOf, Types, TaskTypes
  <1>3. CASE HealthEnds(t)
    <2>1. pc[t] = "health" /\ at[t] \in Plugins /\ inst[t] # 0 /\ UNCHANGED <<registry, open>>
      BY <1>3, <1>w DEF HealthEnds, Awaits
    <2>2. \A q \in Plugins : MapEffect(t, q)
      BY <1>3, <1>r, <2>1 DEF HealthEnds, Attach, MapEffect, Attaches
    <2>3. PlaceEffect(t)
      BY <1>3, <1>c, <1>d, <2>1 DEF HealthEnds, Acquired, Awaits
    <2>4. QED
      BY <1>e, <2>1, <2>2, <2>3 DEF Effects
  <1>4. CASE ProbeEnds(t)
    <2>1. pc[t] = "probing" /\ at[t] \in Plugins /\ UNCHANGED <<registry, open>> /\ Return(t)
      BY <1>4, <1>w DEF ProbeEnds, Awaits
    <2>2. \A q \in Plugins : MapEffect(t, q)
      BY <1>4, <1>r, <2>1 DEF ProbeEnds, Attach, MapEffect, Attaches
    <2>3. QED
      BY <1>c, <1>e, <2>1, <2>2 DEF Effects
  <1>5. CASE TakeReconf(t)
    <2>1. UNCHANGED registry /\ UNCHANGED open
      BY <1>5, Taking
    <2>2. PICK ps \in SUBSET Plugins : Drop(t, ps)
      BY <1>5, <1>s, Taking, AffectedPlugins
    <2>3. PlaceEffect(t) /\ \A q \in Plugins : gateway'[q] \in {0, gateway[q]}
      BY <1>b, <2>1, <2>2
    <2>4. QED
      BY <1>e, <2>1, <2>3 DEF Effects, MapEffect
  <1>6. CASE ReleaseEnds(t)
    <2>1. pc[t] \in Holding /\ UNCHANGED <<gateway, open>>
      BY <1>6 DEF ReleaseEnds, Holding
    <2>2. CASE Finish(t) /\ UNCHANGED registry
      BY <1>c, <1>e, <1>g, <2>1, <2>2 DEF Finish, Effects
    <2>3. CASE again[t] # {} /\ Create(t, again[t], "reopening")
      BY <1>a, <1>e, <1>g, <1>s, <2>1, <2>3 DEF Effects
    <2>4. QED
      BY <1>6, <2>2, <2>3 DEF ReleaseEnds
  <1>7. ASSUME NEW ok \in BOOLEAN, InitConnectEnds(t, ok) PROVE Effects(t)
    <2>1. pc[t] = "initconnect" /\ at[t] \in Plugins /\ ~initDone
      BY <1>0, <1>7, <1>w, LifecycleAssumption DEF InitConnectEnds, Awaits, LockInv
    <2>2. OpenEffect(t)
      BY <1>7, <1>f, <2>1 DEF InitConnectEnds, Opens
    <2>3. \A q \in Plugins : \/ gateway'[q] = gateway[q]
                             \/ at[t] = q /\ gateway'[q] = inst[t]
      BY <1>7, <1>r, <2>1 DEF InitConnectEnds, Attach
    <2>4. CASE todo[t] # {} /\ Create(t, todo[t], "initconnect")
      BY <1>a, <1>s, <2>1, <2>2, <2>3, <2>4 DEF Effects, MapEffect, Opens, Attaches
    <2>5. CASE Goto(t, "begun", None, 0) /\ UNCHANGED registry
      <3>1. PlaceEffect(t)
        BY <2>5, Goes DEF PlaceEffect, Awaits
      <3>2. QED
        BY <2>1, <2>2, <2>3, <2>5, <3>1 DEF Effects, MapEffect, Opens, Attaches
    <2>6. QED
      BY <1>7, <2>4, <2>5 DEF InitConnectEnds
  <1>8. ASSUME NEW ok \in BOOLEAN, ConnectEnds(t, ok) PROVE Effects(t)
    <2>1. pc[t] = "connecting" /\ at[t] \in Plugins /\ inst[t] # 0 /\ UNCHANGED registry
      BY <1>8, <1>w DEF ConnectEnds, Awaits
    <2>2. OpenEffect(t)
      BY <1>8, <1>f, <2>1 DEF ConnectEnds, Opens
    <2>3. \A q \in Plugins : MapEffect(t, q)
      BY <1>8, <1>r, <2>1 DEF ConnectEnds, Attach, MapEffect, Opens, Attaches
    <2>4. PlaceEffect(t)
      BY <1>8, <1>c, <1>d, <2>1 DEF ConnectEnds, Acquired, Awaits
    <2>5. QED
      BY <2>2, <2>3, <2>4 DEF Effects
  <1>9. ASSUME NEW ok \in BOOLEAN, OpeningEnds(t, ok) PROVE Effects(t)
    <2>1. pc[t] = "opening" /\ at[t] \in Plugins /\ UNCHANGED registry /\ Return(t)
      BY <1>9, <1>w DEF OpeningEnds, Awaits
    <2>2. OpenEffect(t)
      BY <1>9, <1>f, <2>1 DEF OpeningEnds, Opens
    <2>3. \A q \in Plugins : MapEffect(t, q)
      BY <1>9, <1>r, <2>1 DEF OpeningEnds, Attach, MapEffect, Opens, Attaches
    <2>4. QED
      BY <1>c, <2>1, <2>2, <2>3 DEF Effects
  <1>h. ASSUME NEW ok \in BOOLEAN, Closed(t, ok), pc[t] \in {"closing", "dropping"},
               \A q \in Plugins : gateway'[q] \in {0, gateway[q]},
               pc[t] = "closing" => ~ok \/ gateway'[at[t]] = 0 \/ registry[at[t]] = 0
        PROVE  (\A q \in Plugins : MapEffect(t, q)) /\ OpenEffect(t)
    <2>1. at[t] \in Plugins
      BY <1>h, <1>w DEF Awaits
    <2>2. CASE ~ok
      BY <1>h, <2>2 DEF Closed, MapEffect, OpenEffect
    <2>3. CASE ok
      <3>1. \A q \in Plugins : registry'[q] = IF q = at[t] THEN 0 ELSE registry[q]
        BY <1>h, <1>r, <2>3 DEF Closed
      <3>2. open' = open \ {inst[t]}
        BY <1>h, <2>3 DEF Closed
      <3>3. Closes(t, at[t])
        BY <1>h, <2>1, <2>3, <3>1, <3>2 DEF Closes
      <3>4. QED
        BY <1>h, <3>1, <3>2, <3>3 DEF MapEffect, OpenEffect
    <2>4. QED
      BY <2>2, <2>3
  <1>10. ASSUME NEW ok \in BOOLEAN, ClosingEnds(t, ok) PROVE Effects(t)
    <2>1. pc[t] = "closing" /\ at[t] \in Plugins /\ Return(t) /\ Closed(t, ok)
      BY <1>10, <1>w DEF ClosingEnds, Awaits
    <2>2. /\ \A q \in Plugins : gateway'[q] \in {0, gateway[q]}
          /\ ~ok \/ gateway'[at[t]] = 0 \/ registry[at[t]] = 0
      BY <1>10, <1>r, <2>1 DEF ClosingEnds, Attach
    <2>3. QED
      BY <1>c, <1>h, <2>1, <2>2 DEF Effects
  <1>11. ASSUME NEW ok \in BOOLEAN, DropEnds(t, ok) PROVE Effects(t)
    <2>1. pc[t] = "dropping" /\ Closed(t, ok) /\ at[t] \notin todo[t]
      BY <1>0, <1>11 DEF DropEnds, TaskOf
    <2>2. CASE Finish(t) /\ UNCHANGED gateway
      BY <1>c, <1>h, <2>1, <2>2 DEF Finish, Effects
    <2>3. CASE Drop(t, todo[t])
      <3>1. \A q \in todo[t] : registry'[q] = registry[q]
        BY <1>r, <1>s, <2>1 DEF Closed
      <3>2. PlaceEffect(t) /\ \A q \in Plugins : gateway'[q] \in {0, gateway[q]}
        BY <1>b, <1>s, <2>3, <3>1
      <3>3. QED
        BY <1>h, <2>1, <3>2 DEF Effects
    <2>4. QED
      BY <1>11, <2>2, <2>3 DEF DropEnds
  <1>12. ASSUME NEW ok \in BOOLEAN, ReopenEnds(t, ok) PROVE Effects(t)
    <2>1. pc[t] = "reopening" /\ at[t] \in Plugins /\ todo[t] \subseteq again[t]
      BY <1>0, <1>12, <1>w DEF ReopenEnds, Awaits, TaskOf
    <2>2. OpenEffect(t)
      BY <1>12, <1>f, <2>1 DEF ReopenEnds, Opens
    <2>3. \A q \in Plugins : \/ gateway'[q] = gateway[q]
                             \/ at[t] = q /\ gateway'[q] = registry[q]
      BY <1>12, <1>r, <2>1 DEF ReopenEnds, Attach
    <2>4. CASE Finish(t) /\ UNCHANGED registry
      BY <1>c, <2>1, <2>2, <2>3, <2>4 DEF Finish, Effects, MapEffect, Opens, Attaches
    <2>5. CASE todo[t] # {} /\ Create(t, todo[t], "reopening")
      <3>1. PlaceEffect(t) /\ \A q \in Plugins : registry'[q] = registry[q] \/ Makes(t, q)
        BY <1>a, <1>s, <2>1, <2>5 DEF Holding
      <3>2. QED
        BY <2>1, <2>2, <2>3, <3>1 DEF Effects, MapEffect, Opens, Attaches
    <2>6. QED
      BY <1>12, <2>4, <2>5 DEF ReopenEnds
  <1>13. QED
    BY <1>1, <1>2, <1>3, <1>4, <1>5, <1>6, <1>7, <1>8, <1>9, <1>10, <1>11, <1>12 DEF Step

(* Both maps go on naming instances of their plugin.                       *)
LEMMA OwnerStep ==
  ASSUME Types, WorkInv, NEW t \in Tasks, Step(t)
  PROVE  OwnerInv'
  <1>0. Effects(t) /\ OwnersKept /\ OwnerInv /\ TaskOf(t)
    BY StepEffects, StepFrame DEF WorkInv, TaskInv
  <1> SUFFICES ASSUME NEW p \in Plugins
               PROVE  /\ registry'[p] # 0 => owner'[registry'[p]] = p
                      /\ gateway'[p] # 0 => owner'[gateway'[p]] = p
    BY DEF OwnerInv
  <1>1. /\ registry[p] # 0 => registry[p] \in 1..Len(owner) /\ owner[registry[p]] = p
        /\ gateway[p] # 0 => gateway[p] \in 1..Len(owner) /\ owner[gateway[p]] = p
    BY <1>0 DEF OwnerInv, Types, DeviceTypes, Ids
  <1>2. ASSUME NEW i, i \in 1..Len(owner) /\ owner[i] = p PROVE owner'[i] = p
    BY <1>0, <1>2 DEF OwnersKept
  <1>3. MapEffect(t, p)
    BY <1>0 DEF Effects
  <1>4. registry'[p] # 0 => owner'[registry'[p]] = p
    BY <1>1, <1>2, <1>3 DEF MapEffect, Closes, Makes
  <1>5. pc[t] \in Awaits /\ at[t] = p => inst[t] \in 1..Len(owner) /\ owner[inst[t]] = p
    BY <1>0 DEF TaskOf
  <1>6. gateway'[p] # 0 => owner'[gateway'[p]] = p
    BY <1>1, <1>2, <1>3, <1>5 DEF MapEffect, Opens, Attaches, Awaits
  <1>7. QED
    BY <1>4, <1>6

(* The locks, when one task moves.                                         *)
LEMMA LocksKept ==
  ASSUME LockInv, NEW t \in Tasks, \A u \in Tasks : u # t => Unmoved(u),
         pc'[t] = "initconnect" <=> initLock' = t,
         initLock' = initLock \/ {initLock, initLock'} \subseteq {t, None},
         pc'[t] \in Holding <=> reconf' = t,
         reconf' = reconf \/ {reconf, reconf'} \subseteq {t, None},
         initLock' # None => ~initDone',
         ~initDone' => suspended' = {}
  PROVE  LockInv'
  <1>1. None \notin Tasks
    BY LifecycleAssumption
  <1>2. \A u \in Tasks : pc'[u] = "initconnect" <=> initLock' = u
    BY <1>1 DEF LockInv, Unmoved
  <1>3. \A u \in Tasks : pc'[u] \in Holding <=> reconf' = u
    BY <1>1 DEF LockInv, Unmoved
  <1>4. QED
    BY <1>2, <1>3 DEF LockInv

LEMMA LockStep ==
  ASSUME Types, WorkInv, NEW t \in Tasks, Step(t)
  PROVE  LockInv'
  <1> USE DEF maps, devices, locks, calls, history, made, wiring
  <1>0. /\ LockInv /\ TaskOf(t) /\ pc[t] # "idle" /\ \A u \in Tasks : u # t => Unmoved(u)
        /\ initDone \in BOOLEAN
    BY StepFrame DEF WorkInv, TaskInv, Types, DeviceTypes
  <1>i. ASSUME UNCHANGED <<initDone, initLock, reconf, suspended>>,
               pc[t] \notin {"initconnect"} \cup Holding,
               pc'[t] \notin {"initconnect"} \cup Holding
        PROVE  LockInv'
    <2>1. initLock # t /\ reconf # t
      BY <1>0, <1>i DEF LockInv
    <2>2. /\ pc'[t] = "initconnect" <=> initLock' = t
          /\ pc'[t] \in Holding <=> reconf' = t
      BY <1>i, <2>1
    <2>3. initLock' # None => ~initDone'
      BY <1>0, <1>i DEF LockInv
    <2>4. ~initDone' => suspended' = {}
      BY <1>0, <1>i DEF LockInv
    <2>5. QED
      BY <1>0, <1>i, <2>2, <2>3, <2>4, LocksKept
  <1>h. ASSUME UNCHANGED <<initDone, initLock>>, pc[t] \in Holding,
               \/ UNCHANGED <<reconf, suspended>> /\ pc'[t] \in Holding
               \/ reconf' = None /\ pc'[t] = "idle"
        PROVE  LockInv'
    <2>1. reconf = t /\ initLock # t /\ initDone /\ t # None
      BY <1>0, <1>h, LifecycleAssumption DEF LockInv, Holding, TaskOf
    <2>2. /\ pc'[t] = "initconnect" <=> initLock' = t
          /\ pc'[t] \in Holding <=> reconf' = t
      BY <1>h, <2>1 DEF Holding
    <2>3. initLock' # None => ~initDone'
      BY <1>0, <1>h DEF LockInv
    <2>4. QED
      BY <1>0, <1>h, <2>1, <2>2, <2>3, LocksKept
  <1>n. ASSUME NEW where, NEW p, NEW i, Goto(t, where, p, i) PROVE pc'[t] = where
    BY <1>n, Goes
  <1>c. ASSUME NEW ps \in SUBSET Plugins, ps # {}, NEW where, Create(t, ps, where)
        PROVE  pc'[t] = where
    <2>1. PICK p \in ps : Made(t, ps, where, p)
      BY <1>c, CreateMoves
    <2>2. QED
      BY <2>1 DEF Made
  <1>d. ASSUME NEW ps, Drop(t, ps) PROVE pc'[t] \in Holding
    BY <1>d, <1>n DEF Drop, Holding
  <1>l. ASSUME Return(t) PROVE pc'[t] = "idle"
    BY <1>l, Leaves
  <1>s. todo[t] \in SUBSET Plugins /\ again[t] \in SUBSET Plugins
    BY DEF Types, TaskTypes
  <1>1. CASE InitTake(t)
    <2>1. Plugins # {} /\ Plugins \in SUBSET Plugins
      BY OrderedPlugins, LifecycleAssumption, EmptySeq DEF Plugins
    <2>2. pc'[t] = "initconnect" /\ pc[t] = "begun" /\ initLock' = t /\ initLock = None
          /\ UNCHANGED <<initDone, reconf, suspended>> /\ ~initDone
      BY <1>1, <1>c, <2>1 DEF InitTake
    <2>3. reconf' # t /\ suspended' = {}
      BY <1>0, <2>2 DEF LockInv, Holding
    <2>4. /\ pc'[t] = "initconnect" <=> initLock' = t
          /\ pc'[t] \in Holding <=> reconf' = t
      BY <2>2, <2>3 DEF Holding
    <2>5. QED
      BY <1>0, <2>2, <2>3, <2>4, LocksKept
  <1>2. CASE Enter(t)
    <2>1. {Target(t)} \in SUBSET Plugins /\ {Target(t)} # {}
      BY <1>0, TargetIsSelected
    <2>2. ASSUME EnterAcquire(t, Target(t)) PROVE pc'[t] \notin {"initconnect"} \cup Holding
      BY <2>1, <2>2, <1>n, <1>c, <1>l DEF EnterAcquire, Acquired, Holding
    <2>3. ASSUME EnterReady(t, Target(t)) PROVE pc'[t] \notin {"initconnect"} \cup Holding
      BY <2>3, <1>n, <1>l DEF EnterReady, Holding
    <2>4. ASSUME EnterManage(t, Target(t)) PROVE pc'[t] \notin {"initconnect"} \cup Holding
      BY <2>1, <2>4, <1>n, <1>c, <1>l DEF EnterManage, Holding
    <2>5. ASSUME EnterReconfigure(t) PROVE pc'[t] \notin {"initconnect"} \cup Holding
      BY <2>5, <1>n DEF EnterReconfigure, Holding
    <2>6. pc[t] \notin {"initconnect"} \cup Holding
      BY <1>2 DEF Enter, Holding
    <2>7. QED
      BY <1>2, <1>i, <2>2, <2>3, <2>4, <2>5, <2>6 DEF Enter
  <1>3. CASE HealthEnds(t)
    <2>1. pc'[t] \notin {"initconnect"} \cup Holding
      BY <1>3, <1>n, <1>l DEF HealthEnds, Acquired, Holding
    <2>2. QED
      BY <1>3, <1>i, <2>1 DEF HealthEnds, Holding
  <1>4. CASE ProbeEnds(t)
    BY <1>4, <1>i, <1>l DEF ProbeEnds, Holding
  <1>5. CASE TakeReconf(t)
    <2>1. pc'[t] \in Holding
      BY <1>5, <1>d, Taking
    <2>2. pc[t] = "locking" /\ reconf = None /\ reconf' = t /\ initDone
          /\ UNCHANGED <<initDone, initLock>>
      BY <1>0, <1>5, Taking DEF TaskOf, Holding
    <2>3. initLock' # t /\ (initLock' # None => ~initDone')
      BY <1>0, <2>2 DEF LockInv
    <2>4. /\ pc'[t] = "initconnect" <=> initLock' = t
          /\ pc'[t] \in Holding <=> reconf' = t
      BY <2>1, <2>2, <2>3 DEF Holding
    <2>5. QED
      BY <1>0, <2>2, <2>3, <2>4, LocksKept
  <1>6. CASE ReleaseEnds(t)
    <2>1. pc[t] \in Holding /\ UNCHANGED <<initDone, initLock>>
      BY <1>6 DEF ReleaseEnds, Holding
    <2>2. CASE Finish(t)
      BY <1>h, <1>l, <2>1, <2>2 DEF Finish, Unlock
    <2>3. CASE again[t] # {} /\ Create(t, again[t], "reopening") /\ UNCHANGED <<reconf, suspended>>
      <3>1. pc'[t] = "reopening"
        BY <1>c, <1>s, <2>3
      <3>2. QED
        BY <1>h, <2>1, <2>3, <3>1 DEF Holding
    <2>4. QED
      BY <1>6, <2>2, <2>3 DEF ReleaseEnds
  <1>7. ASSUME NEW ok \in BOOLEAN, InitConnectEnds(t, ok) PROVE LockInv'
    <2>1. /\ pc[t] = "initconnect" /\ initLock = t /\ reconf # t /\ suspended = {} /\ ~initDone
          /\ UNCHANGED <<reconf, suspended>> /\ t # None
      BY <1>0, <1>7, LifecycleAssumption DEF InitConnectEnds, LockInv, Holding
    <2>2. CASE todo[t] # {} /\ Create(t, todo[t], "initconnect") /\ UNCHANGED <<initDone, initLock>>
      <3>1. pc'[t] = "initconnect"
        BY <1>c, <1>s, <2>2
      <3>2. /\ pc'[t] = "initconnect" <=> initLock' = t
            /\ pc'[t] \in Holding <=> reconf' = t
        BY <2>1, <2>2, <3>1 DEF Holding
      <3>3. QED
        BY <1>0, <2>1, <2>2, <3>2, LocksKept
    <2>3. CASE initDone' = TRUE /\ initLock' = None /\ Goto(t, "begun", None, 0)
      <3>1. pc'[t] = "begun"
        BY <1>n, <2>3
      <3>2. /\ pc'[t] = "initconnect" <=> initLock' = t
            /\ pc'[t] \in Holding <=> reconf' = t
        BY <2>1, <2>3, <3>1 DEF Holding
      <3>3. QED
        BY <1>0, <2>1, <2>3, <3>2, LocksKept
    <2>4. QED
      BY <1>7, <2>2, <2>3 DEF InitConnectEnds
  <1>8. ASSUME NEW ok \in BOOLEAN, ConnectEnds(t, ok) PROVE LockInv'
    <2>1. pc'[t] \notin {"initconnect"} \cup Holding
      BY <1>8, <1>n, <1>l DEF ConnectEnds, Acquired, Holding
    <2>2. QED
      BY <1>8, <1>i, <2>1 DEF ConnectEnds, Holding
  <1>9. ASSUME NEW ok \in BOOLEAN, OpeningEnds(t, ok) \/ ClosingEnds(t, ok) PROVE LockInv'
    BY <1>9, <1>i, <1>l DEF OpeningEnds, ClosingEnds, Holding
  <1>10. ASSUME NEW ok \in BOOLEAN, DropEnds(t, ok) PROVE LockInv'
    <2>1. pc[t] \in Holding /\ UNCHANGED <<initDone, initLock>>
      BY <1>10 DEF DropEnds, Holding
    <2>2. CASE Finish(t)
      BY <1>h, <1>l, <2>1, <2>2 DEF Finish, Unlock
    <2>3. CASE Drop(t, todo[t]) /\ UNCHANGED <<reconf, suspended>>
      BY <1>d, <1>h, <2>1, <2>3
    <2>4. QED
      BY <1>10, <2>2, <2>3 DEF DropEnds
  <1>11. ASSUME NEW ok \in BOOLEAN, ReopenEnds(t, ok) PROVE LockInv'
    <2>1. pc[t] \in Holding /\ UNCHANGED <<initDone, initLock>>
      BY <1>11 DEF ReopenEnds, Holding
    <2>2. CASE Finish(t)
      BY <1>h, <1>l, <2>1, <2>2 DEF Finish, Unlock
    <2>3. CASE todo[t] # {} /\ Create(t, todo[t], "reopening") /\ UNCHANGED <<reconf, suspended>>
      <3>1. pc'[t] = "reopening"
        BY <1>c, <1>s, <2>3
      <3>2. QED
        BY <1>h, <2>1, <2>3, <3>1 DEF Holding
    <2>4. QED
      BY <1>11, <2>2, <2>3 DEF ReopenEnds
  <1>12. QED
    BY <1>1, <1>2, <1>3, <1>4, <1>5, <1>6, <1>7, <1>8, <1>9, <1>10, <1>11 DEF Step

(* A request that begins is the only task that moves.                      *)
LEMMA BeginFrame ==
  ASSUME Types, NEW t \in Tasks, NEW o \in Ops, NEW ps \in (SUBSET Plugins) \ {{}}, Begin(t, o, ps)
  PROVE  /\ pc[t] = "idle" /\ pc'[t] = "begun" /\ op'[t] = o /\ sel'[t] = ps
         /\ todo'[t] = todo[t] /\ again'[t] = again[t]
         /\ \A u \in Tasks : u # t => Unmoved(u)
         /\ OwnersKept /\ loose \subseteq loose'
         /\ UNCHANGED <<gateway, registry, owner, marked, open, suspended, fresh,
                        initDone, initLock, reconf, config, old>>
  <1>1. /\ pc[t] = "idle" /\ UNCHANGED <<todo, again, at, inst>> /\ loose \subseteq loose'
        /\ UNCHANGED <<gateway, registry, owner, marked, open, suspended, fresh,
                       initDone, initLock, reconf, config, old>>
    BY DEF Begin, maps, devices, locks, made, wiring
  <1>2. \A u \in Tasks : /\ pc'[u] = IF u = t THEN "begun" ELSE pc[u]
                         /\ op'[u] = IF u = t THEN o ELSE op[u]
                         /\ sel'[u] = IF u = t THEN ps ELSE sel[u]
    BY DEF Begin, Types, TaskTypes
  <1>3. OwnersKept
    BY <1>1, LenProperties DEF OwnersKept, Types, DeviceTypes
  <1>4. QED
    BY <1>1, <1>2, <1>3 DEF Unmoved

LEMMA WorkInvNext == Types /\ WorkInv /\ [Next]_vars => WorkInv'
  <1> SUFFICES ASSUME Types, WorkInv, [Next]_vars PROVE WorkInv'
    OBVIOUS
  <1>1. ASSUME NEW t \in Tasks, NEW o \in Ops, NEW ps \in (SUBSET Plugins) \ {{}}, Begin(t, o, ps)
        PROVE  WorkInv'
    <2>1. /\ pc[t] = "idle" /\ pc'[t] = "begun"
          /\ todo'[t] = todo[t] /\ again'[t] = again[t]
          /\ \A u \in Tasks : u # t => Unmoved(u)
          /\ OwnersKept
          /\ UNCHANGED <<gateway, registry, owner, suspended, initDone, initLock, reconf,
                         config, old>>
      BY <1>1, BeginFrame
    <2>2. todo[t] = {} /\ again[t] = {}
      BY <2>1 DEF WorkInv, TaskInv, TaskOf, Touches
    <2>3. TaskOf(t)'
      BY <2>1, <2>2 DEF TaskOf, Awaits, Holding
    <2>4. ASSUME NEW u \in Tasks, u # t PROVE TaskOf(u)'
      BY <2>1, <2>4, TaskKept DEF Steady
    <2>5. OwnerInv'
      BY <2>1 DEF WorkInv, OwnerInv
    <2>6. LockInv'
      <3>1. initLock # t /\ reconf # t
        BY <2>1 DEF WorkInv, LockInv, Holding
      <3>2. /\ pc'[t] = "initconnect" <=> initLock' = t
            /\ pc'[t] \in Holding <=> reconf' = t
        BY <2>1, <3>1 DEF Holding
      <3>3. (initLock' # None => ~initDone') /\ (~initDone' => suspended' = {})
        BY <2>1 DEF WorkInv, LockInv
      <3>4. QED
        BY <2>1, <3>2, <3>3, LocksKept DEF WorkInv
    <2>7. QED
      BY <2>3, <2>4, <2>5, <2>6 DEF WorkInv, TaskInv
  <1>2. ASSUME NEW t \in Tasks, Step(t) PROVE WorkInv'
    <2>1. \A u \in Tasks : u # t => Unmoved(u)
      BY <1>2, StepFrame
    <2>2. OwnersKept
      BY <1>2, StepFrame
    <2>3. initDone' = initDone \/ (initDone' = TRUE /\ pc[t] = "initconnect")
      BY <1>2 DEF Step, InitTake, Enter, HealthEnds, ProbeEnds, TakeReconf, ReleaseEnds, locks,
           InitConnectEnds, ConnectEnds, OpeningEnds, ClosingEnds, DropEnds, ReopenEnds, made, wiring, Rewire, Rewires
    <2>4. ASSUME NEW u \in Tasks, u # t PROVE TaskOf(u)'
      <3>1. pc[t] = "initconnect" => pc[u] # "initconnect"
        BY <2>4 DEF WorkInv, LockInv
      <3>2. QED
        BY <1>2, <2>1, <2>2, <2>3, <2>4, <3>1, TaskKept, WiringFrame
    <2>5. TaskOf(t)'
      BY <1>2, TaskStep
    <2>6. QED
      BY <1>2, <2>4, <2>5, OwnerStep, LockStep DEF WorkInv, TaskInv
  <1>3. CASE UNCHANGED vars
    <2>1. UNCHANGED <<gateway, registry, owner, suspended, initDone, initLock, reconf,
                      config, old, pc, op, sel, todo, again, at, inst>>
      BY <1>3 DEF vars, maps, locks, calls, made, wiring
    <2>2. TaskInv'
      <3>1. ASSUME NEW u \in Tasks PROVE TaskOf(u)'
        <4>1. Unmoved(u) /\ OwnersKept
          BY <2>1, LenProperties DEF Unmoved, OwnersKept, Types, DeviceTypes
        <4>2. QED
          BY <2>1, <4>1, TaskKept DEF Steady
      <3>2. QED
        BY <3>1 DEF TaskInv
    <2>3. OwnerInv' /\ LockInv'
      BY <2>1 DEF WorkInv, OwnerInv, LockInv
    <2>4. QED
      BY <2>2, <2>3 DEF WorkInv
  <1>4. QED
    BY <1>1, <1>2, <1>3 DEF Next, Quiet

(* The ports.                                                              *)
PortTypes ==
  /\ port \in Seq(Ports) /\ Len(port) = Len(owner) /\ own \subseteq Ids \ {0}
  /\ config \in Profiles /\ old \in Profiles

LEMMA CreatePorts ==
  ASSUME Types, PortTypes, NEW t \in Tasks, NEW ps \in SUBSET Plugins, ps # {}, NEW where,
         Create(t, ps, where)
  PROVE  port' \in Seq(Ports) /\ Len(port') = Len(owner') /\ own' \subseteq Ids' \ {0}
  <1>1. First(ps) \in Plugins /\ config \in [Plugins -> Ports]
    BY FirstOfSome, LifecycleAssumption DEF PortTypes
  <1>2. PICK x \in Ports : port' = Append(port, x)
    BY <1>1 DEF Create
  <1>3. port' \in Seq(Ports) /\ Len(port') = Len(port) + 1
    BY <1>2, AppendProperties DEF PortTypes
  <1>4. Len(owner') = Len(owner) + 1 /\ Len(owner) \in Nat
    BY Created DEF Types
  <1>5. own' \subseteq own \cup {Len(owner) + 1}
    BY DEF Create
  <1>6. QED
    BY <1>3, <1>4, <1>5 DEF PortTypes, Ids

LEMMA PortTypesStep ==
  ASSUME Types, PortTypes, NEW t \in Tasks, Step(t)
  PROVE  PortTypes'
  <1> USE DEF maps, devices, locks, calls, history, made, wiring
  <1>0. /\ todo[t] \in SUBSET Plugins /\ again[t] \in SUBSET Plugins
        /\ Plugins # {} /\ Plugins \in SUBSET Plugins
    BY OrderedPlugins, LifecycleAssumption, EmptySeq DEF Plugins, Types, TaskTypes
  <1>1. config' \in Profiles /\ old' \in Profiles
    <2>1. CASE TakeReconf(t)
      BY <2>1, Taking DEF PortTypes
    <2>2. CASE ~TakeReconf(t)
      BY <2>2 DEF PortTypes, Step, InitTake, Enter, HealthEnds, ProbeEnds, ReleaseEnds, Finish,
         InitConnectEnds, ConnectEnds, OpeningEnds, ClosingEnds, DropEnds, ReopenEnds
    <2>3. QED
      BY <2>1, <2>2
  <1>2. CASE UNCHANGED made
    BY <1>1, <1>2 DEF PortTypes, Ids
  <1>3. ASSUME NEW ps \in SUBSET Plugins, ps # {}, NEW where, Create(t, ps, where)
        PROVE  PortTypes'
    BY <1>1, <1>3, CreatePorts DEF PortTypes
  <1>4. CASE HealthEnds(t)
    <2>1. UNCHANGED <<owner, own>>
      BY <1>4 DEF HealthEnds
    <2>2. CASE port' = [port EXCEPT ![inst[t]] = config[at[t]]]
      <3>1. at[t] \in Plugins /\ inst[t] \in Ids \ {0}
        BY <1>4 DEF HealthEnds, Types, TaskTypes, Awaits
      <3>2. config[at[t]] \in Ports
        BY <3>1, LifecycleAssumption DEF PortTypes
      <3>3. inst[t] \in 1..Len(port)
        BY <3>1 DEF PortTypes, Ids
      <3>4. port' \in Seq(Ports) /\ Len(port') = Len(port)
        BY <2>2, <3>2, <3>3, ExceptSeq DEF PortTypes
      <3>5. QED
        BY <1>1, <2>1, <3>4 DEF PortTypes, Ids
    <2>3. QED
      BY <1>2, <1>4, <2>1, <2>2 DEF HealthEnds
  <1>5. CASE InitTake(t)
    BY <1>0, <1>3, <1>5 DEF InitTake
  <1>6. CASE Enter(t)
    <2>1. {Target(t)} \in SUBSET Plugins /\ {Target(t)} # {}
      BY <1>6, TargetIsSelected DEF Enter
    <2>2. QED
      BY <1>2, <1>3, <1>6, <2>1
      DEF Enter, EnterAcquire, EnterReady, EnterManage, EnterReconfigure
  <1>7. CASE ReleaseEnds(t)
    BY <1>0, <1>2, <1>3, <1>7 DEF ReleaseEnds
  <1>8. ASSUME NEW ok \in BOOLEAN, InitConnectEnds(t, ok) PROVE PortTypes'
    BY <1>0, <1>2, <1>3, <1>8 DEF InitConnectEnds
  <1>9. ASSUME NEW ok \in BOOLEAN, ReopenEnds(t, ok) PROVE PortTypes'
    BY <1>0, <1>2, <1>3, <1>9 DEF ReopenEnds
  <1>10. ASSUME NEW ok \in BOOLEAN,
                \/ ProbeEnds(t) \/ TakeReconf(t) \/ ConnectEnds(t, ok)
                \/ OpeningEnds(t, ok) \/ ClosingEnds(t, ok) \/ DropEnds(t, ok)
         PROVE  PortTypes'
    BY <1>2, <1>10, Taking DEF ProbeEnds, ConnectEnds, OpeningEnds, ClosingEnds, DropEnds
  <1>11. QED
    BY <1>4, <1>5, <1>6, <1>7, <1>8, <1>9, <1>10 DEF Step

LEMMA PortTypesNext == Types /\ PortTypes /\ [Next]_vars => PortTypes'
  <1> SUFFICES ASSUME Types, PortTypes, [Next]_vars PROVE PortTypes'
    OBVIOUS
  <1>1. ASSUME NEW t \in Tasks, NEW o \in Ops, NEW ps \in (SUBSET Plugins) \ {{}}, Begin(t, o, ps)
        PROVE  PortTypes'
    BY <1>1 DEF Begin, PortTypes, made, wiring, Ids
  <1>2. CASE UNCHANGED vars
    BY <1>2 DEF vars, made, wiring, PortTypes, Ids
  <1>3. QED
    BY <1>1, <1>2, PortTypesStep DEF Next, Quiet

LEMMA WorkAlways == Spec => [](Types /\ WorkInv)
  <1>1. Init => Types /\ WorkInv
    BY TypesInit, WorkInvInit
  <1>2. (Types /\ WorkInv) /\ [Next]_vars => (Types /\ WorkInv)'
    BY TypesNext, WorkInvNext
  <1>3. QED
    BY <1>1, <1>2, PTL DEF Spec

LEMMA PortTypesAlways == Spec => []PortTypes
  <1>1. Init => PortTypes
    BY EmptySeq DEF Init, PortTypes, Ids
  <1>2. QED
    BY <1>1, PortTypesNext, WorkAlways, PTL DEF Spec

(* Every variable keeps its type, and the reconfiguration lock is held only *)
(* by a task that stands in what it protects: no path out of suspend,       *)
(* resume or apply, the KeyError among them, leaves it locked.              *)
THEOREM TypeCorrect == Spec => []TypeOK
  <1>1. Types /\ WorkInv /\ PortTypes => TypeOK
    <2> SUFFICES ASSUME Types, WorkInv, PortTypes PROVE TypeOK
      OBVIOUS
    <2>1. reconf # None => pc[reconf] \in {"dropping", "releasing", "reopening"}
      BY DEF Types, DeviceTypes, WorkInv, LockInv, Holding
    <2>2. {sel[t] : t \in Tasks} \cup {todo[t] : t \in Tasks} \cup {again[t] : t \in Tasks}
            \subseteq SUBSET Plugins
      BY DEF Types, TaskTypes
    <2>3. QED
      BY <2>1, <2>2 DEF Types, DeviceTypes, TaskTypes, PortTypes, TypeOK, Ids, Steps
  <1>2. QED
    BY <1>1, WorkAlways, PortTypesAlways, PTL

-----------------------------------------------------------------------------
(* One instance of a plugin.                                               *)

\* Operations that meet on a plugin share it.
ExclInv ==
  \A u, v \in Tasks : u # v =>
    \A p \in (Touches(u) \cap Touches(v)) \ loose : ~Disturbs(op[u], v)

\* Both maps and every task that awaits the plugin have the same instance, the
\* only one that can be open; one that is being closed is off the fast path.
PluginOk(p) ==
  /\ gateway[p] \in {0, registry[p]} /\ Of(p) \subseteq {registry[p]}
  /\ \A u \in Tasks : pc[u] \in Awaits /\ at[u] = p =>
       inst[u] = registry[p] /\ (pc[u] = "dropping" => gateway[p] = 0)

MapInv == \A p \in Plugins \ loose : PluginOk(p)

LEMMA TouchesPlugins ==
  ASSUME Types, NEW t \in Tasks
  PROVE  Touches(t) \subseteq Plugins
  <1>1. sel[t] \in SUBSET Plugins
    BY DEF Types, TaskTypes
  <1>2. QED
    BY <1>1, AffectedPlugins DEF Touches, WorksOn

(* A task comes to touch fewer plugins as it goes on, but for resume and     *)
(* apply when they take the lock.                                           *)
LEMMA TouchesShrink ==
  ASSUME Types, WorkInv, NEW t \in Tasks, Step(t), NEW u \in Tasks, u # t \/ pc[t] # "locking"
  PROVE  Touches(u)' \subseteq Touches(u) /\ (Touches(u)' = {} \/ op'[u] = op[u])
  <1>1. /\ pc[t] # "idle" /\ (u # t => Unmoved(u))
        /\ pc'[t] = "idle" \/ (op'[t] = op[t] /\ sel'[t] = sel[t])
        /\ initDone => initDone'
        /\ pc'[u] = "idle" \/ Steady(u)
    BY StepFrame, WiringFrame
  <1>2. Touches(u) \subseteq Plugins /\ sel[u] \in SUBSET Plugins
    BY TouchesPlugins DEF Types, TaskTypes
  <1>3. CASE pc'[u] = "idle" /\ (u = t \/ op'[u] = op[u])
    BY <1>3 DEF Touches
  <1>4. CASE op'[u] = op[u] /\ sel'[u] = sel[u] /\ pc[u] # "idle" /\ Steady(u)
    <2>1. WorksOn(op[u], sel[u])' \subseteq WorksOn(op[u], sel[u])
      BY <1>1, <1>2, <1>4 DEF WorksOn, Rewires, Manages
    <2>2. QED
      BY <1>4, <2>1 DEF Touches, Steady
  <1>5. QED
    BY <1>1, <1>3, <1>4 DEF Unmoved

(* Resume and apply come to touch their group when they take the lock; what  *)
(* somebody works on there who does not expect it is loose from then on.    *)
LEMMA TakeTouches ==
  ASSUME Types, WorkInv, NEW t \in Tasks, Step(t), pc[t] = "locking"
  PROVE  /\ op'[t] = op[t] /\ TakeReconf(t)
         /\ \A p \in Touches(t)' \ loose' : \A u \in Tasks \ {t} :
              p \in Touches(u) => p \in Touches(t) \/ ~Disturbs(op[t], u)
  <1>1. TakeReconf(t)
    BY DEF Step, InitTake, Enter, HealthEnds, ProbeEnds, InitConnectEnds, ConnectEnds,
       OpeningEnds, ClosingEnds, ReleaseEnds, DropEnds, ReopenEnds
  <1>2. UNCHANGED <<op, sel, initDone>> /\ reconf' = t /\ reconf # t
    BY <1>1, LifecycleAssumption, Taking
  <1>3. CASE op[t] = "suspend"
    <2>1. Touches(t)' \subseteq Touches(t)
      BY <1>2, <1>3 DEF Touches, WorksOn, Rewires
    <2>2. QED
      BY <1>1, <1>2, <2>1
  <1>4. CASE op[t] # "suspend"
    <2>1. /\ op[t] \in Rewires /\ old' = config
          /\ loose' = loose \cup {p \in Group(sel[t], config, config') : \E u \in Tasks \ {t} :
                                     p \in Touches(u) /\ Disturbs(op[t], u)}
      BY <1>1, <1>4, Taking
    <2>2. Touches(t)' \subseteq Group(sel[t], config, config')
      BY <1>2, <2>1 DEF Touches
    <2>3. QED
      BY <1>1, <1>2, <2>1, <2>2
  <1>5. QED
    BY <1>3, <1>4

LEMMA ExclBegin ==
  ASSUME Types, WorkInv, ExclInv, NEW t \in Tasks, NEW o \in Ops,
         NEW ps \in (SUBSET Plugins) \ {{}}, Begin(t, o, ps)
  PROVE  ExclInv'
  <1>0. pc[t] = "idle" /\ reconf # t
    BY BeginFrame DEF WorkInv, LockInv, Holding
  <1>1. /\ pc'[t] = "begun" /\ op'[t] = o /\ sel'[t] = ps /\ UNCHANGED <<initDone, reconf, config, old>>
        /\ \A u \in Tasks : u # t => Unmoved(u)
        /\ loose \subseteq loose'
    BY BeginFrame
  <1>2. Touches(t)' = WorksOn(o, ps) /\ WorksOn(o, ps) \subseteq Plugins
    BY <1>0, <1>1 DEF Touches, WorksOn
  <1>3. ASSUME NEW u \in Tasks, u # t PROVE Touches(u)' = Touches(u) /\ op'[u] = op[u]
    BY <1>1, <1>3 DEF Touches, WorksOn, Unmoved
  <1>4. ASSUME NEW u \in Tasks, u # t, NEW p \in Touches(u) \cap WorksOn(o, ps), p \notin loose'
        PROVE  ~Disturbs(o, u)
    <2>1. p \in Plugins
      BY <1>2
    <2>2. loose' = loose \cup {q \in Plugins : \E v \in Tasks \ {t} :
                                  q \in Touches(v) \cap WorksOn(o, ps) /\ Disturbs(o, v)}
      BY DEF Begin
    <2>3. QED
      BY <1>4, <2>1, <2>2
  <1> SUFFICES ASSUME NEW u \in Tasks, NEW v \in Tasks, u # v,
                      NEW p, p \in Touches(u)', p \in Touches(v)', p \notin loose'
               PROVE  ~Disturbs(op[u], v)'
    BY DEF ExclInv
  <1>5. CASE u = t
    <2>1. ~Disturbs(o, v)
      BY <1>2, <1>3, <1>4, <1>5
    <2>2. QED
      BY <1>1, <1>3, <1>5, <2>1 DEF Disturbs
  <1>6. CASE v = t
    <2>1. ~Disturbs(o, u)
      BY <1>2, <1>3, <1>4, <1>6
    <2>2. QED
      BY <1>1, <1>3, <1>6, <2>1 DEF Disturbs
  <1>7. CASE u # t /\ v # t
    <2>1. ~Disturbs(op[u], v)
      BY <1>1, <1>3, <1>7 DEF ExclInv
    <2>2. QED
      BY <1>3, <1>7, <2>1 DEF Disturbs
  <1>8. QED
    BY <1>5, <1>6, <1>7

LEMMA ExclStep ==
  ASSUME Types, WorkInv, ExclInv, NEW t \in Tasks, Step(t)
  PROVE  ExclInv'
  <1>1. loose \subseteq loose'
    BY StepFrame
  <1> SUFFICES ASSUME NEW u \in Tasks, NEW v \in Tasks, u # v,
                      NEW p, p \in Touches(u)', p \in Touches(v)', p \notin loose'
               PROVE  ~Disturbs(op[u], v)'
    BY DEF ExclInv
  <1>2. ASSUME NEW w \in {u, v}, w # t \/ pc[t] # "locking"
        PROVE  p \in Touches(w) /\ op'[w] = op[w]
    BY <1>2, TouchesShrink
  <1>3. CASE p \in Touches(u) /\ p \in Touches(v) /\ op'[u] = op[u] /\ op'[v] = op[v]
    <2>1. ~Disturbs(op[u], v)
      BY <1>1, <1>3 DEF ExclInv
    <2>2. QED
      BY <1>3, <2>1 DEF Disturbs
  <1>4. CASE pc[t] = "locking" /\ t \in {u, v}
    <2>1. PICK w \in {u, v} : w # t
      OBVIOUS
    <2>2. /\ op'[t] = op[t] /\ op'[w] = op[w] /\ p \in Touches(w) /\ p \in Touches(t)'
      BY <1>2, <1>4, <2>1, TakeTouches
    <2>3. p \in Touches(t) \/ ~Disturbs(op[t], w)
      BY <1>4, <2>1, <2>2, TakeTouches
    <2>4. CASE p \in Touches(t)
      BY <1>3, <1>4, <2>1, <2>2, <2>4
    <2>5. CASE ~Disturbs(op[t], w)
      BY <1>4, <2>1, <2>2, <2>5 DEF Disturbs
    <2>6. QED
      BY <2>3, <2>4, <2>5
  <1>5. QED
    BY <1>2, <1>3, <1>4

(* Nobody else awaits a plugin that one task reconfigures or manages.      *)
LEMMA Alone ==
  ASSUME Types, WorkInv, ExclInv, NEW t \in Tasks, NEW u \in Tasks, u # t,
         NEW p \in Touches(t) \ loose, pc[t] \in {"opening", "closing"} \cup Holding,
         pc[u] \in Awaits, at[u] = p
  PROVE  FALSE
  <1>1. TaskOf(t) /\ TaskOf(u) /\ LockInv
    BY DEF WorkInv, TaskInv
  <1>2. ~Disturbs(op[t], u)
    BY <1>1 DEF TaskOf, ExclInv
  <1>3. op[t] \in Reconfigures /\ pc[t] \in Holding /\ initDone
    BY <1>1, <1>2 DEF TaskOf, Disturbs, Holding
  <1>4. op[u] \in Reconfigures /\ op[u] \notin Manages
    BY <1>2, <1>3 DEF Disturbs
  <1>5. reconf = t
    BY <1>1, <1>3 DEF LockInv
  <1>6. pc[u] \notin Holding
    BY <1>1, <1>5 DEF LockInv
  <1>7. pc[u] # "initconnect"
    BY <1>1, <1>3, LifecycleAssumption DEF LockInv
  <1>8. pc[u] \in {"health", "connecting", "probing", "opening", "closing"}
    BY <1>6, <1>7 DEF Awaits, Holding
  <1>9. QED
    BY <1>1, <1>4, <1>8 DEF TaskOf, Reconfigures

LEMMA MapStep ==
  ASSUME Types, WorkInv, ExclInv, MapInv, NEW t \in Tasks, Step(t)
  PROVE  MapInv'
  <1>0. Effects(t) /\ OwnersKept /\ loose \subseteq loose'
        /\ \A u \in Tasks : u # t => Unmoved(u)
    BY StepEffects, StepFrame
  <1> SUFFICES ASSUME NEW p \in Plugins, p \notin loose' PROVE PluginOk(p)'
    BY DEF MapInv
  <1>1. PluginOk(p) /\ p \notin loose
    BY <1>0 DEF MapInv
  <1>2. MapEffect(t, p) /\ OpenEffect(t) /\ PlaceEffect(t)
    BY <1>0 DEF Effects
  <1>3. /\ registry[p] \in Ids /\ gateway[p] \in Ids /\ open \subseteq 1..Len(owner)
        /\ Len(owner) \in Nat
    BY LenProperties DEF Types, DeviceTypes, Ids
  <1>4. ASSUME NEW u \in Tasks, pc[u] \in Awaits
        PROVE  /\ at[u] \in Touches(u) /\ inst[u] \in 1..Len(owner) /\ owner[inst[u]] = at[u]
               /\ at[u] = p => inst[u] = registry[p] /\ (pc[u] = "dropping" => gateway[p] = 0)
    BY <1>1, <1>4 DEF WorkInv, TaskInv, TaskOf, PluginOk
  <1>5. \A i \in open : owner'[i] = p => i = registry[p]
    <2>1. \A i \in open : owner'[i] = owner[i]
      BY <1>0, <1>3 DEF OwnersKept
    <2>2. QED
      BY <1>1, <2>1 DEF PluginOk, Of
  <1>6. ASSUME pc[t] \in Opens, owner'[inst[t]] = p
        PROVE  at[t] = p /\ inst[t] = registry[p]
    <2>1. pc[t] \in Awaits
      BY <1>6 DEF Opens, Awaits
    <2>2. owner'[inst[t]] = at[t]
      BY <1>0, <1>4, <2>1 DEF OwnersKept
    <2>3. QED
      BY <1>4, <1>6, <2>1, <2>2
  <1>7. \A i \in open' : owner'[i] = p => i = registry[p]
    BY <1>2, <1>5, <1>6 DEF OpenEffect
  <1>8. Attaches \subseteq Awaits /\ {"closing", "dropping"} \subseteq Awaits
    BY DEF Attaches, Opens, Awaits
  <1>9. CASE registry'[p] = registry[p]
    <2>1. Of(p)' \subseteq {registry'[p]}
      BY <1>7, <1>9 DEF Of
    <2>2. gateway'[p] \in {0, registry'[p]}
      BY <1>1, <1>2, <1>4, <1>8, <1>9 DEF PluginOk, MapEffect
    <2>3. ASSUME NEW u \in Tasks, u # t, pc'[u] \in Awaits, at'[u] = p
          PROVE  inst'[u] = registry'[p] /\ (pc'[u] = "dropping" => gateway'[p] = 0)
      <3>1. pc[u] \in Awaits /\ at[u] = p /\ inst'[u] = registry[p] /\ pc'[u] = pc[u]
        BY <1>0, <1>4, <2>3 DEF Unmoved
      <3>2. ASSUME pc[u] = "dropping" PROVE gateway'[p] = 0
        <4>1. gateway[p] = 0 /\ p \in Touches(u)
          BY <1>4, <3>1, <3>2
        <4>2. ~(pc[t] \in Awaits /\ at[t] = p)
          BY <1>1, <2>3, <3>2, <4>1, Alone DEF Holding
        <4>3. QED
          BY <1>2, <1>8, <4>1, <4>2 DEF MapEffect
      <3>3. QED
        BY <1>9, <3>1, <3>2
    <2>4. ASSUME pc'[t] \in Awaits, at'[t] = p
          PROVE  inst'[t] = registry'[p] /\ (pc'[t] = "dropping" => gateway'[p] = 0)
      <3>1. ~Makes(t, p)
        BY <1>3, <1>9 DEF Makes
      <3>2. QED
        BY <1>1, <1>2, <1>4, <1>9, <2>4, <3>1 DEF PlaceEffect, PluginOk
    <2>5. QED
      BY <2>1, <2>2, <2>3, <2>4 DEF PluginOk
  <1>10. CASE Closes(t, p)
    <2>1. pc[t] \in {"closing", "dropping"} /\ at[t] = p /\ pc[t] \in Awaits
      BY <1>8, <1>10 DEF Closes
    <2>2. inst[t] = registry[p] /\ registry[p] # 0 /\ p \in Touches(t)
      BY <1>3, <1>4, <2>1
    <2>3. registry'[p] = 0 /\ gateway'[p] = 0
      BY <1>4, <1>10, <2>1, <2>2 DEF Closes
    <2>4. Of(p)' = {}
      BY <1>7, <1>10, <2>2 DEF Of, Closes
    <2>5. ASSUME NEW u \in Tasks, u # t, pc'[u] \in Awaits, at'[u] = p PROVE FALSE
      <3>1. pc[u] \in Awaits /\ at[u] = p
        BY <1>0, <2>5 DEF Unmoved
      <3>2. QED
        BY <1>1, <2>1, <2>2, <2>5, <3>1, Alone DEF Holding
    <2>6. ASSUME pc'[t] \in Awaits, at'[t] = p PROVE FALSE
      <3>1. ~Makes(t, p)
        BY <1>3, <2>3 DEF Makes
      <3>2. QED
        BY <1>2, <2>1, <2>2, <2>3, <2>6, <3>1 DEF PlaceEffect
    <2>7. QED
      BY <2>3, <2>4, <2>5, <2>6 DEF PluginOk
  <1>11. CASE Makes(t, p)
    <2>1. registry[p] = 0 /\ gateway[p] = 0
      BY <1>1, <1>11 DEF Makes, PluginOk
    <2>2. ASSUME NEW u \in Tasks, pc[u] \in Awaits PROVE at[u] # p
      BY <1>4, <2>1, <2>2
    <2>3. gateway'[p] = 0
      BY <1>2, <1>8, <2>1, <2>2 DEF MapEffect
    <2>4. Of(p)' = {}
      <3>1. 0 \notin open
        BY <1>3
      <3>2. ASSUME NEW i \in open', owner'[i] = p PROVE FALSE
        <4>1. i \notin open
          BY <1>5, <2>1, <3>1, <3>2
        <4>2. pc[t] \in Opens /\ i = inst[t]
          BY <1>2, <4>1 DEF OpenEffect
        <4>3. QED
          BY <1>6, <1>8, <2>2, <3>2, <4>2 DEF Attaches
      <3>3. QED
        BY <3>2 DEF Of
    <2>5. ASSUME NEW u \in Tasks, u # t, pc'[u] \in Awaits, at'[u] = p PROVE FALSE
      BY <1>0, <2>2, <2>5 DEF Unmoved
    <2>6. inst'[t] = registry'[p] /\ pc'[t] # "dropping"
      BY <1>11 DEF Makes
    <2>7. QED
      BY <2>3, <2>4, <2>5, <2>6 DEF PluginOk
  <1>12. QED
    BY <1>2, <1>9, <1>10, <1>11 DEF MapEffect

ShareInv == Types /\ WorkInv /\ ExclInv /\ MapInv

LEMMA MapBegin ==
  ASSUME Types, MapInv, NEW t \in Tasks, NEW o \in Ops, NEW ps \in (SUBSET Plugins) \ {{}},
         Begin(t, o, ps)
  PROVE  MapInv'
  <1>1. /\ pc'[t] = "begun" /\ loose \subseteq loose'
        /\ UNCHANGED <<gateway, registry, owner, open>>
        /\ \A u \in Tasks : u # t => Unmoved(u)
    BY BeginFrame
  <1> SUFFICES ASSUME NEW p \in Plugins \ loose PROVE PluginOk(p)'
    BY <1>1 DEF MapInv
  <1>2. PluginOk(p)
    BY DEF MapInv
  <1>3. Of(p)' = Of(p)
    BY <1>1 DEF Of
  <1>4. ASSUME NEW u \in Tasks, pc'[u] \in Awaits, at'[u] = p
        PROVE  inst'[u] = registry[p] /\ (pc'[u] = "dropping" => gateway[p] = 0)
    <2>1. u # t
      BY <1>1, <1>4 DEF Awaits
    <2>2. QED
      BY <1>1, <1>2, <1>4, <2>1 DEF PluginOk, Unmoved
  <1>5. QED
    BY <1>1, <1>2, <1>3, <1>4 DEF PluginOk

LEMMA ShareInvNext == ShareInv /\ [Next]_vars => ShareInv'
  <1> SUFFICES ASSUME ShareInv, [Next]_vars PROVE (ExclInv /\ MapInv)'
    BY TypesNext, WorkInvNext DEF ShareInv
  <1> USE DEF ShareInv
  <1>1. ASSUME NEW t \in Tasks, NEW o \in Ops, NEW ps \in (SUBSET Plugins) \ {{}}, Begin(t, o, ps)
        PROVE  (ExclInv /\ MapInv)'
    BY <1>1, ExclBegin, MapBegin
  <1>2. ASSUME NEW t \in Tasks, Step(t) PROVE (ExclInv /\ MapInv)'
    BY <1>2, ExclStep, MapStep
  <1>3. CASE UNCHANGED vars
    <2>1. UNCHANGED <<gateway, registry, owner, open, loose, initDone, reconf, config, old,
                      pc, op, sel, at, inst>>
      BY <1>3 DEF vars, maps, devices, locks, calls, history, made, wiring
    <2>2. \A t \in Tasks : Touches(t)' = Touches(t)
      BY <2>1 DEF Touches, WorksOn
    <2>3. \A u, v \in Tasks : Disturbs(op[u], v)' <=> Disturbs(op[u], v)
      BY <2>1 DEF Disturbs
    <2>4. ExclInv'
      BY <2>1, <2>2, <2>3 DEF ExclInv
    <2>5. MapInv'
      BY <2>1 DEF MapInv, PluginOk, Of
    <2>6. QED
      BY <2>4, <2>5
  <1>4. QED
    BY <1>1, <1>2, <1>3 DEF Next, Quiet

LEMMA ShareInvAlways == Spec => []ShareInv
  <1>1. Init => ShareInv
    <2> SUFFICES ASSUME Init PROVE ExclInv /\ MapInv
      BY TypesInit, WorkInvInit DEF ShareInv
    <2>1. ExclInv
      BY DEF Init, ExclInv, Touches
    <2>2. MapInv
      BY DEF Init, MapInv, PluginOk, Of, Awaits
    <2>3. QED
      BY <2>1, <2>2
  <1>2. QED
    BY <1>1, ShareInvNext, PTL DEF Spec

(* Where no operations met that do not exclude each other and every         *)
(* instance could be closed, the fast path and the registry never name two  *)
(* instances of a plugin and no second one keeps the port, at no await of    *)
(* any operation.                                                           *)
THEOREM NoSecondInstance == Spec => []OneInstance
  <1>1. ShareInv => OneInstance
    BY DEF ShareInv, MapInv, PluginOk, OneInstance
  <1>2. QED
    BY <1>1, ShareInvAlways, PTL

-----------------------------------------------------------------------------
(* A suspended plugin stays off its port.                                  *)

\* The suspended plugins that the holder of the lock may still find registered.
Pending(t) ==
  IF op[t] = "resume" THEN sel[t]
  ELSE IF op[t] = "suspend" /\ pc[t] = "dropping" THEN todo[t] \cup {at[t]} ELSE {}

\* A suspended plugin is not registered, unless it is just being suspended or
\* resumed; resume reconnects no suspended plugin but those it was asked to.
SuspInv ==
  /\ \A p \in suspended \ loose :
       registry[p] = 0 \/ \E t \in Tasks : reconf = t /\ p \in Pending(t)
  /\ \A t \in Tasks : op[t] = "resume" /\ pc[t] \in Holding =>
       again[t] \cap suspended \subseteq sel[t] \cup loose

(* Only plugins are suspended.                                             *)
LEMMA SuspendedPlugins ==
  ASSUME Types
  PROVE  suspended \subseteq Plugins
  BY DEF Types, DeviceTypes

(* A step of a task that does not hold the lock, and does not take it.      *)
LEMMA SuspBystander ==
  ASSUME ShareInv, SuspInv, LockInv', NEW t \in Tasks, Step(t), pc[t] \notin Holding,
         UNCHANGED <<reconf, suspended>>
  PROVE  SuspInv'
  <1>0. /\ Effects(t) /\ loose \subseteq loose' /\ LockInv
        /\ \A u \in Tasks : u # t => Unmoved(u)
    BY StepEffects, StepFrame DEF ShareInv, WorkInv
  <1>1. reconf # t /\ pc'[t] \notin Holding
    BY <1>0 DEF LockInv
  <1>2. ASSUME NEW u \in Tasks, reconf = u PROVE Pending(u)' = Pending(u)
    BY <1>0, <1>1, <1>2 DEF Pending, Unmoved
  <1>3. ASSUME NEW p \in suspended \ loose'
        PROVE  registry'[p] = 0 \/ \E u \in Tasks : reconf' = u /\ p \in Pending(u)'
    <2>1. p \in Plugins /\ p \notin loose
      BY <1>0, SuspendedPlugins DEF ShareInv
    <2>2. MapEffect(t, p)
      BY <1>0, <2>1 DEF Effects
    <2>3. ~Makes(t, p)
      BY <1>0, <1>1, <1>3 DEF Makes, LockInv, Holding
    <2>4. registry'[p] \in {0, registry[p]}
      BY <2>2, <2>3 DEF MapEffect, Closes
    <2>5. registry[p] = 0 \/ \E u \in Tasks : reconf = u /\ p \in Pending(u)
      BY <2>1 DEF SuspInv
    <2>6. QED
      BY <1>2, <2>4, <2>5
  <1>4. ASSUME NEW u \in Tasks, op'[u] = "resume", pc'[u] \in Holding
        PROVE  again'[u] \cap suspended \subseteq sel'[u] \cup loose'
    BY <1>0, <1>1, <1>4 DEF SuspInv, Unmoved
  <1>5. QED
    BY <1>3, <1>4 DEF SuspInv

(* A step that ends an operation under the lock.                           *)
LEMMA SuspFinish ==
  ASSUME ShareInv, SuspInv, LockInv', NEW t \in Tasks, Step(t), pc[t] \in Holding, Finish(t),
         \A p \in Plugins : registry'[p] \in {0, registry[p]},
         op[t] = "suspend" => \A p \in Pending(t) \ loose' : registry'[p] = 0
  PROVE  SuspInv'
  <1>0. loose \subseteq loose' /\ reconf = t /\ reconf' = None /\ pc'[t] = "idle"
        /\ suspended' = IF op[t] = "resume" THEN suspended \ sel[t] ELSE suspended
    BY StepFrame, Leaves DEF ShareInv, WorkInv, LockInv, Finish, Unlock
  <1>1. ASSUME NEW p \in suspended' \ loose' PROVE registry'[p] = 0
    <2>1. p \in suspended \ loose /\ p \in Plugins
      BY <1>0, <1>1, SuspendedPlugins DEF ShareInv
    <2>2. registry[p] = 0 \/ p \in Pending(t)
      BY <1>0, <2>1 DEF SuspInv
    <2>3. p \in Pending(t) => op[t] = "suspend"
      BY <1>0, <1>1 DEF Pending
    <2>4. QED
      BY <1>1, <2>1, <2>2, <2>3
  <1>2. \A u \in Tasks : pc'[u] \notin Holding
    BY <1>0, LifecycleAssumption DEF LockInv
  <1>3. QED
    BY <1>1, <1>2 DEF SuspInv

(* A step on the way under the lock.                                       *)
LEMMA SuspGoesOn ==
  ASSUME ShareInv, SuspInv, LockInv', NEW t \in Tasks, Step(t), pc[t] \in Holding,
         UNCHANGED <<reconf, suspended>>, op'[t] = op[t], sel'[t] = sel[t], again'[t] = again[t],
         op[t] = "suspend" => \A p \in Pending(t) \ loose' : registry'[p] = 0 \/ p \in Pending(t)'
  PROVE  SuspInv'
  <1>0. /\ Effects(t) /\ loose \subseteq loose' /\ LockInv /\ TaskOf(t) /\ reconf = t
        /\ \A u \in Tasks : u # t => Unmoved(u)
    BY StepEffects, StepFrame DEF ShareInv, WorkInv, TaskInv, LockInv
  <1>1. ASSUME NEW p \in suspended \ loose'
        PROVE  registry'[p] = 0 \/ p \in Pending(t)'
    <2>1. p \in Plugins /\ p \notin loose
      BY <1>0, SuspendedPlugins DEF ShareInv
    <2>2. MapEffect(t, p)
      BY <1>0, <2>1 DEF Effects
    <2>3. registry[p] = 0 \/ p \in Pending(t)
      BY <1>0, <2>1 DEF SuspInv
    <2>4. op[t] = "resume" => Pending(t)' = sel[t] /\ Pending(t) = sel[t]
      BY DEF Pending
    <2>5. op[t] \in {"suspend", "resume", "apply"} /\ (op[t] = "suspend" => again[t] = {})
      BY <1>0 DEF TaskOf, Reconfigures
    <2>6. op[t] = "apply" => Pending(t) = {}
      BY DEF Pending
    <2>7. ASSUME Makes(t, p) PROVE op[t] = "resume" /\ p \in sel[t]
      <3>1. p \in again[t]
        BY <1>0, <1>1, <2>5, <2>7 DEF Makes, LockInv, TaskOf, Holding
      <3>2. op[t] # "apply"
        BY <1>1, <2>7 DEF Makes
      <3>3. op[t] = "resume"
        BY <2>5, <3>1, <3>2
      <3>4. QED
        BY <1>1, <2>1, <3>1, <3>3 DEF SuspInv
    <2>8. ~Makes(t, p) => registry'[p] \in {0, registry[p]}
      BY <2>2 DEF MapEffect, Closes
    <2>9. CASE op[t] = "suspend"
      BY <1>1, <2>3, <2>7, <2>8, <2>9
    <2>10. CASE op[t] = "resume"
      BY <2>3, <2>4, <2>7, <2>8, <2>10
    <2>11. CASE op[t] = "apply"
      BY <2>3, <2>6, <2>7, <2>8, <2>11
    <2>12. QED
      BY <2>5, <2>9, <2>10, <2>11
  <1>2. ASSUME NEW u \in Tasks, op'[u] = "resume", pc'[u] \in Holding
        PROVE  again'[u] \cap suspended \subseteq sel'[u] \cup loose'
    <2>1. u = t
      BY <1>0, <1>2 DEF LockInv
    <2>2. QED
      BY <1>0, <1>2, <2>1 DEF SuspInv
  <1>3. QED
    BY <1>0, <1>1, <1>2 DEF SuspInv

LEMMA SuspStep ==
  ASSUME ShareInv, SuspInv, LockInv', NEW t \in Tasks, Step(t)
  PROVE  SuspInv'
  <1> USE DEF maps, devices, locks, calls, history, made, wiring
  <1>0. /\ Effects(t) /\ loose \subseteq loose' /\ LockInv /\ TaskOf(t) /\ Types /\ MapInv
        /\ \A u \in Tasks : u # t => Unmoved(u)
    BY StepEffects, StepFrame DEF ShareInv, WorkInv, TaskInv
  <1>r. registry \in [Plugins -> Ids]
    BY <1>0 DEF Types, DeviceTypes
  <1>1. CASE pc[t] \notin Holding /\ pc[t] # "locking"
    <2>1. UNCHANGED <<reconf, suspended>>
      BY <1>1 DEF Step, InitTake, Enter, HealthEnds, ProbeEnds, TakeReconf, MayReconfigure,
         ReleaseEnds, InitConnectEnds, ConnectEnds, OpeningEnds, ClosingEnds, DropEnds, ReopenEnds,
         Holding, Rewire, Rewires
    <2>2. QED
      BY <1>1, <2>1, SuspBystander
  <1>2. CASE TakeReconf(t)
    <2>1. /\ reconf = None /\ reconf' = t /\ UNCHANGED <<registry, op, sel>>
          /\ op[t] \in Reconfigures
      BY <1>0, <1>2, Taking DEF TaskOf
    <2>2. ASSUME NEW p \in suspended \ loose PROVE registry[p] = 0 /\ gateway[p] = 0
      <3>1. registry[p] = 0
        BY <2>1, <2>2, LifecycleAssumption DEF SuspInv
      <3>2. PluginOk(p)
        BY <1>0, <2>2, SuspendedPlugins DEF MapInv
      <3>3. QED
        BY <3>1, <3>2 DEF PluginOk
    <2>3. ASSUME NEW u \in Tasks, u # t PROVE pc'[u] \notin Holding
      BY <2>1, <2>3 DEF LockInv
    <2>4. CASE op[t] = "suspend"
      <3>1. suspended' = suspended \cup sel[t] /\ Drop(t, sel[t])
        BY <1>2, <2>4, Taking DEF Rewires
      <3>2. sel[t] \in SUBSET Plugins
        BY <1>0 DEF Types, TaskTypes
      <3>3. PICK gone \in SUBSET sel[t] : Cleared(t, sel[t], gone)
        BY <1>0, <3>1, <3>2, DropMoves
      <3>4. ASSUME NEW p \in sel[t] PROVE registry[p] = 0 \/ p \in Pending(t)'
        BY <2>1, <2>4, <3>3, <3>4 DEF Cleared, Pending
      <3>5. QED
        BY <1>0, <2>1, <2>2, <2>3, <2>4, <3>1, <3>4 DEF SuspInv
    <2>5. CASE op[t] # "suspend"
      <3> DEFINE active == Affected(sel[t], config, config')
      <3>1. suspended' = suspended /\ again' = [again EXCEPT ![t] = sel[t] \cup active]
        BY <1>2, <2>5, Taking
      <3>2. again'[t] = sel[t] \cup active
        BY <1>0, <3>1 DEF Types, TaskTypes
      <3>3. active \cap suspended \subseteq loose
        BY <2>2 DEF Affected, Active
      <3> HIDE DEF active
      <3>4. QED
        BY <1>0, <2>1, <2>2, <2>3, <3>1, <3>2, <3>3 DEF SuspInv
    <2>6. QED
      BY <2>4, <2>5
  <1>3. CASE ReleaseEnds(t)
    <2>1. pc[t] = "releasing" /\ pc[t] \in Holding
      BY <1>3 DEF ReleaseEnds, Holding
    <2>2. op[t] = "suspend" => Pending(t) = {}
      BY <2>1 DEF Pending
    <2>3. CASE Finish(t) /\ UNCHANGED registry
      BY <1>r, <2>1, <2>2, <2>3, SuspFinish
    <2>4. CASE again[t] # {} /\ Create(t, again[t], "reopening") /\ UNCHANGED <<reconf, suspended>>
      <3>1. op'[t] = op[t] /\ sel'[t] = sel[t] /\ again'[t] = again[t]
        BY <2>4 DEF Create
      <3>2. QED
        BY <2>1, <2>2, <2>4, <3>1, SuspGoesOn
    <2>5. QED
      BY <1>3, <2>3, <2>4 DEF ReleaseEnds
  <1>4. ASSUME NEW ok \in BOOLEAN, ReopenEnds(t, ok) PROVE SuspInv'
    <2>1. pc[t] = "reopening" /\ pc[t] \in Holding
      BY <1>4 DEF ReopenEnds, Holding
    <2>2. op[t] = "suspend" => Pending(t) = {}
      BY <2>1 DEF Pending
    <2>3. CASE Finish(t) /\ UNCHANGED registry
      BY <1>r, <2>1, <2>2, <2>3, SuspFinish
    <2>4. CASE todo[t] # {} /\ Create(t, todo[t], "reopening") /\ UNCHANGED <<reconf, suspended>>
      <3>1. op'[t] = op[t] /\ sel'[t] = sel[t] /\ again'[t] = again[t]
        BY <2>4 DEF Create
      <3>2. QED
        BY <2>1, <2>2, <2>4, <3>1, SuspGoesOn
    <2>5. QED
      BY <1>4, <2>3, <2>4 DEF ReopenEnds
  <1>5. ASSUME NEW ok \in BOOLEAN, DropEnds(t, ok) PROVE SuspInv'
    <2>1. pc[t] = "dropping" /\ pc[t] \in Holding /\ Closed(t, ok)
      BY <1>5 DEF DropEnds, Holding
    <2>2. \A p \in Plugins : registry'[p] = IF ok /\ p = at[t] THEN 0 ELSE registry[p]
      BY <1>r, <2>1 DEF Closed
    <2>3. op[t] = "suspend" => Pending(t) = todo[t] \cup {at[t]}
      BY <2>1 DEF Pending
    <2>4. at[t] \in Plugins /\ todo[t] \in SUBSET Plugins
      BY <1>0, <2>1 DEF Types, TaskTypes, Awaits
    <2>5. CASE ok /\ registry[at[t]] = 0
      <3>1. Finish(t) /\ loose' = loose \cup todo[t]
        BY <1>5, <2>5 DEF DropEnds
      <3>2. QED
        BY <2>1, <2>2, <2>3, <2>4, <2>5, <3>1, SuspFinish
    <2>6. CASE ~(ok /\ registry[at[t]] = 0)
      <3>1. /\ Drop(t, todo[t]) /\ loose' = IF ok THEN loose ELSE loose \cup {at[t]}
            /\ UNCHANGED <<reconf, suspended, op, sel, again>>
        BY <1>5, <2>6 DEF DropEnds
      <3>2. PICK gone \in SUBSET todo[t] : Cleared(t, todo[t], gone)
        BY <1>0, <2>4, <3>1, DropMoves
      <3>3. ASSUME op[t] = "suspend", NEW p \in todo[t] PROVE registry'[p] = 0 \/ p \in Pending(t)'
        <4>1. registry[p] = 0 \/ p \in Pending(t)'
          BY <3>1, <3>2, <3>3 DEF Cleared, Pending
        <4>2. QED
          BY <2>2, <2>4, <4>1
      <3>4. at[t] \in loose' \/ registry'[at[t]] = 0
        BY <2>2, <2>4, <3>1
      <3>5. QED
        BY <2>1, <2>3, <3>1, <3>3, <3>4, SuspGoesOn
    <2>7. QED
      BY <2>5, <2>6
  <1>6. CASE pc[t] \in Holding \cup {"locking"}
    <2>1. \/ TakeReconf(t) \/ ReleaseEnds(t)
          \/ \E ok \in BOOLEAN : DropEnds(t, ok) \/ ReopenEnds(t, ok)
      BY <1>6 DEF Step, InitTake, Enter, HealthEnds, ProbeEnds, InitConnectEnds, ConnectEnds,
         OpeningEnds, ClosingEnds, Holding
    <2>2. QED
      BY <1>2, <1>3, <1>4, <1>5, <2>1
  <1>7. QED
    BY <1>1, <1>6

LEMMA SuspBegin ==
  ASSUME ShareInv, SuspInv, NEW t \in Tasks, NEW o \in Ops, NEW ps \in (SUBSET Plugins) \ {{}},
         Begin(t, o, ps)
  PROVE  SuspInv'
  <1>1. /\ pc[t] = "idle" /\ pc'[t] = "begun" /\ loose \subseteq loose'
        /\ UNCHANGED <<registry, suspended, reconf>>
        /\ \A u \in Tasks : u # t => Unmoved(u)
    BY BeginFrame DEF ShareInv
  <1>2. ASSUME NEW u \in Tasks, reconf = u PROVE Pending(u)' = Pending(u)
    <2>1. u # t
      BY <1>1, <1>2 DEF ShareInv, WorkInv, LockInv, Holding
    <2>2. QED
      BY <1>1, <2>1 DEF Pending, Unmoved
  <1>3. \A p \in suspended \ loose' :
          registry[p] = 0 \/ \E u \in Tasks : reconf = u /\ p \in Pending(u)'
    BY <1>1, <1>2 DEF SuspInv
  <1>4. ASSUME NEW u \in Tasks, op'[u] = "resume", pc'[u] \in Holding
        PROVE  again'[u] \cap suspended \subseteq sel'[u] \cup loose'
    <2>1. u # t
      BY <1>1, <1>4 DEF Holding
    <2>2. QED
      BY <1>1, <1>4, <2>1 DEF SuspInv, Unmoved
  <1>5. QED
    BY <1>1, <1>3, <1>4 DEF SuspInv

LEMMA SuspInvNext == ShareInv /\ SuspInv /\ [Next]_vars => SuspInv'
  <1> SUFFICES ASSUME ShareInv, SuspInv, [Next]_vars PROVE SuspInv'
    OBVIOUS
  <1>1. LockInv'
    BY ShareInvNext DEF ShareInv, WorkInv
  <1>2. CASE UNCHANGED vars
    <2>1. UNCHANGED <<registry, suspended, reconf, loose, pc, op, sel, todo, again, at>>
      BY <1>2 DEF vars, maps, locks, calls, history, made, wiring
    <2>2. \A t \in Tasks : Pending(t)' = Pending(t)
      BY <2>1 DEF Pending
    <2>3. QED
      BY <2>1, <2>2 DEF SuspInv
  <1>3. QED
    BY <1>1, <1>2, SuspBegin, SuspStep DEF Next, Quiet

(* A suspended plugin holds no port and is not on the fast path, unless the *)
(* operation that suspends or resumes it is in progress, or operations met   *)
(* on it that do not exclude each other.                                    *)
THEOREM SuspendedKeepsOff == Spec => []SuspendedStaysDetached
  <1>1. Init => SuspInv
    BY DEF Init, SuspInv
  <1>2. Spec => []SuspInv
    BY <1>1, ShareInvAlways, SuspInvNext, PTL DEF Spec
  <1>3. ShareInv /\ SuspInv => SuspendedStaysDetached
    <2> SUFFICES ASSUME ShareInv, SuspInv, NEW p \in suspended \ loose
                 PROVE  \/ \E t \in Tasks : reconf = t /\ p \in Touches(t)
                        \/ gateway[p] = 0 /\ Of(p) = {}
      BY DEF SuspendedStaysDetached
    <2>1. CASE registry[p] = 0
      <3>1. PluginOk(p)
        BY SuspendedPlugins DEF ShareInv, MapInv
      <3>2. 0 \notin open
        BY DEF ShareInv, Types, DeviceTypes
      <3>3. QED
        BY <2>1, <3>1, <3>2 DEF PluginOk, Of
    <2>2. ASSUME NEW t \in Tasks, reconf = t, p \in Pending(t) PROVE p \in Touches(t)
      <3>1. TaskOf(t) /\ pc[t] # "idle"
        BY <2>2 DEF ShareInv, WorkInv, TaskInv, LockInv, Holding
      <3>2. sel[t] \subseteq Touches(t)
        BY <2>2, <3>1, TouchesTarget DEF ShareInv
      <3>3. QED
        BY <2>2, <3>1, <3>2 DEF Pending, TaskOf, Awaits
    <2>3. QED
      BY <2>1, <2>2 DEF SuspInv
  <1>4. QED
    BY <1>2, <1>3, ShareInvAlways, PTL

-----------------------------------------------------------------------------
(* A port is free when it is opened again.                                 *)

\* What a reconfiguration that will reconnect its group has come to: the
\* plugins still to close, none registered, none open but those it opened.
Free(t) ==
  op[t] # "suspend" =>
    \A p \in Group(sel[t], old, config) \ loose :
      /\ pc[t] = "dropping" => registry[p] = 0 \/ p \in todo[t] \cup {at[t]}
      /\ pc[t] = "releasing" => registry[p] = 0
      /\ pc[t] = "reopening" => Of(p) \subseteq fresh

FreeInv == \A t \in Tasks : Free(t)

(* The group of a reconfiguration is what it touches.                      *)
LEMMA GroupTouched ==
  ASSUME Types, WorkInv, NEW t \in Tasks, pc[t] \in Holding, op[t] # "suspend"
  PROVE  Touches(t) = Group(sel[t], old, config)
  <1>1. TaskOf(t) /\ reconf = t
    BY DEF WorkInv, TaskInv, LockInv
  <1>2. op[t] \in Rewires /\ pc[t] # "idle"
    BY <1>1 DEF TaskOf, Holding, Reconfigures, Rewires
  <1>3. QED
    BY <1>1, <1>2 DEF Touches

(* Nobody else brings back a plugin of the group.                          *)
LEMMA FreeFromOthers ==
  ASSUME ShareInv, FreeInv, NEW t \in Tasks, Step(t), NEW u \in Tasks, u # t
  PROVE  Free(u)'
  <1>0. /\ Effects(t) /\ OwnersKept /\ loose \subseteq loose' /\ Unmoved(u)
        /\ Types /\ WorkInv /\ ExclInv /\ LockInv /\ TaskOf(u) /\ TaskOf(t) /\ Free(u)
        /\ pc[u] \in Holding => UNCHANGED <<config, old>>
    BY StepEffects, StepFrame, WiringFrame DEF ShareInv, WorkInv, TaskInv, FreeInv, LockInv, Steady
  <1> SUFFICES ASSUME op[u] # "suspend", pc[u] \in Holding,
                      NEW p \in Group(sel[u], old, config), p \notin loose'
               PROVE  /\ registry[p] = 0 => registry'[p] = 0
                      /\ Of(p) \subseteq fresh => Of(p)' \subseteq fresh'
    BY <1>0 DEF Free, Unmoved, Holding
  <1>1. p \in Touches(u) /\ p \in Plugins /\ p \notin loose
    BY <1>0, GroupTouched, AffectedPlugins
  <1>2. reconf = u /\ pc[t] \notin Holding /\ initDone /\ op[u] \in Reconfigures
    BY <1>0 DEF LockInv, TaskOf, Holding
  <1>3. ~Makes(t, p)
    <2>1. ASSUME Makes(t, p) PROVE FALSE
      <3>1. p \in Touches(t) /\ op[t] \in {"acquire", "check", "connect"}
        BY <1>2, <2>1 DEF Makes
      <3>2. ~Disturbs(op[u], t)
        BY <1>0, <1>1, <3>1 DEF ExclInv
      <3>3. QED
        BY <1>2, <3>1, <3>2 DEF Disturbs, Reconfigures
    <2>2. QED
      BY <2>1
  <1>4. registry[p] = 0 => registry'[p] = 0
    <2>1. MapEffect(t, p)
      BY <1>0, <1>1 DEF Effects
    <2>2. QED
      BY <1>3, <2>1 DEF MapEffect, Closes
  <1>5. Of(p)' \subseteq Of(p)
    <2>1. \A i \in open : owner'[i] = owner[i]
      BY <1>0 DEF OwnersKept, Types, DeviceTypes, Ids
    <2>2. ASSUME NEW i \in open', owner'[i] = p PROVE i \in open
      <3>1. ASSUME pc[t] \in Opens, i = inst[t] PROVE FALSE
        <4>1. pc[t] \in Awaits
          BY <3>1 DEF Opens, Awaits
        <4>2. owner'[i] = at[t]
          BY <1>0, <3>1, <4>1 DEF TaskOf, OwnersKept
        <4>3. QED
          BY <1>0, <1>1, <2>2, <4>1, <4>2, Alone
      <3>2. QED
        BY <1>0, <3>1 DEF Effects, OpenEffect
    <2>3. QED
      BY <2>1, <2>2 DEF Of
  <1>6. fresh' = fresh
    <2>1. ~TakeReconf(t)
      BY <1>2, LifecycleAssumption, Taking
    <2>2. \A ok \in BOOLEAN : ~ReopenEnds(t, ok)
      BY <1>2 DEF ReopenEnds, Holding
    <2>3. QED
      BY <2>1, <2>2 DEF Step, InitTake, Enter, HealthEnds, ProbeEnds, ReleaseEnds, history,
           InitConnectEnds, ConnectEnds, OpeningEnds, ClosingEnds, DropEnds
  <1>7. QED
    BY <1>4, <1>5, <1>6

LEMMA FreeStep ==
  ASSUME ShareInv, FreeInv, LockInv', NEW t \in Tasks, Step(t)
  PROVE  Free(t)'
  <1> USE DEF maps, devices, locks, calls, history, made, wiring
  <1>0. /\ OwnersKept /\ loose \subseteq loose' /\ Types /\ WorkInv /\ MapInv
        /\ LockInv /\ TaskOf(t) /\ Free(t)
        /\ pc[t] \in Holding /\ pc'[t] # "idle" => UNCHANGED <<config, old>>
    BY StepFrame, WiringFrame DEF ShareInv, WorkInv, TaskInv, FreeInv, LockInv, Steady, Holding
  <1>r. registry \in [Plugins -> Ids] /\ open \subseteq Ids \ {0}
        /\ sel[t] \in SUBSET Plugins /\ todo[t] \in SUBSET Plugins /\ again[t] \in SUBSET Plugins
    BY <1>0 DEF Types, DeviceTypes, TaskTypes
  <1>o. \A i \in open : owner'[i] = owner[i]
    BY <1>0, <1>r DEF OwnersKept, Ids
  <1>1. CASE pc'[t] \notin Holding
    BY <1>1 DEF Free, Holding
  <1>2. CASE TakeReconf(t)
    <2> DEFINE group == Group(sel[t], config, config')
               active == Affected(sel[t], config, config')
    <2>1. UNCHANGED <<registry, op, sel>>
      BY <1>2, Taking
    <2>2. CASE op[t] # "suspend"
      <3>1. Drop(t, active) /\ active \in SUBSET Plugins /\ old' = config
        BY <1>2, <2>2, Taking, AffectedPlugins
      <3>2. PICK gone \in SUBSET active : Cleared(t, active, gone)
        BY <1>0, <3>1, DropMoves
      <3>3. group \in SUBSET Plugins /\ \A p \in group : p \notin active => registry[p] = 0
        BY AffectedPlugins DEF Affected, Active
      <3> HIDE DEF group, active
      <3>4. ASSUME NEW p \in group
            PROVE  /\ pc'[t] = "dropping" => registry[p] = 0 \/ p \in todo'[t] \cup {at'[t]}
                   /\ pc'[t] = "releasing" => registry[p] = 0
                   /\ pc'[t] # "reopening"
        BY <3>2, <3>3 DEF Cleared
      <3>5. group = Group(sel[t], old, config)'
        BY <2>1, <3>1 DEF group, Group, Targets
      <3>6. QED
        BY <2>1, <3>4, <3>5 DEF Free
    <2>3. QED
      BY <2>1, <2>2 DEF Free
  <1>3. CASE ReleaseEnds(t)
    <2>1. CASE Finish(t)
      BY <2>1, <1>0, <1>1, Leaves DEF Finish, Holding
    <2>2. CASE again[t] # {} /\ Create(t, again[t], "reopening")
      <3>1. UNCHANGED <<op, sel>> /\ UNCHANGED open /\ pc[t] = "releasing"
        BY <1>3, <2>2 DEF Create, ReleaseEnds
      <3>2. PICK q \in again[t] : Made(t, again[t], "reopening", q)
        BY <1>0, <1>r, <2>2, CreateMoves
      <3>3. pc'[t] = "reopening"
        BY <3>2 DEF Made
      <3>4. ASSUME op[t] # "suspend", NEW p \in Group(sel[t], old, config), p \notin loose'
            PROVE  Of(p)' = {}
        <4>1. registry[p] = 0 /\ p \in Plugins /\ p \notin loose
          BY <1>0, <3>1, <3>4 DEF Free, Group
        <4>2. PluginOk(p)
          BY <1>0, <4>1 DEF MapInv
        <4>3. Of(p) = {}
          BY <1>r, <4>1, <4>2 DEF PluginOk, Of
        <4>4. QED
          BY <1>o, <3>1, <4>3 DEF Of
      <3>5. QED
        BY <1>0, <3>1, <3>3, <3>4 DEF Free, Group, Targets, Holding
    <2>3. QED
      BY <1>3, <2>1, <2>2 DEF ReleaseEnds
  <1>4. ASSUME NEW ok \in BOOLEAN, ReopenEnds(t, ok) PROVE Free(t)'
    <2>1. CASE Finish(t)
      BY <2>1, <1>0, <1>1, Leaves DEF Finish, Holding
    <2>2. CASE todo[t] # {} /\ Create(t, todo[t], "reopening")
      <3>1. UNCHANGED <<op, sel>> /\ pc[t] = "reopening"
        BY <1>4, <2>2 DEF Create, ReopenEnds
      <3>2. PICK q \in todo[t] : Made(t, todo[t], "reopening", q)
        BY <1>0, <1>r, <2>2, CreateMoves
      <3>3. pc'[t] = "reopening"
        BY <3>2 DEF Made
      <3>4. fresh \subseteq fresh' /\ open' \subseteq open \cup fresh'
        BY <1>4 DEF ReopenEnds, Connected
      <3>5. ASSUME op[t] # "suspend", NEW p \in Group(sel[t], old, config), p \notin loose'
            PROVE  Of(p)' \subseteq fresh'
        <4>1. Of(p) \subseteq fresh
          BY <1>0, <3>1, <3>5 DEF Free
        <4>2. QED
          BY <1>o, <3>4, <4>1 DEF Of
      <3>6. QED
        BY <1>0, <3>1, <3>3, <3>5 DEF Free, Group, Targets, Holding
    <2>3. QED
      BY <1>4, <2>1, <2>2 DEF ReopenEnds
  <1>5. ASSUME NEW ok \in BOOLEAN, DropEnds(t, ok) PROVE Free(t)'
    <2>1. pc[t] = "dropping" /\ Closed(t, ok)
      BY <1>5 DEF DropEnds
    <2>2. \A p \in Plugins : registry'[p] = IF ok /\ p = at[t] THEN 0 ELSE registry[p]
      BY <1>r, <2>1 DEF Closed
    <2>3. CASE Finish(t)
      BY <2>3, <1>0, <1>1, Leaves DEF Finish, Holding
    <2>4. CASE /\ Drop(t, todo[t]) /\ loose' = IF ok THEN loose ELSE loose \cup {at[t]}
               /\ UNCHANGED <<op, sel>>
      <3>1. PICK gone \in SUBSET todo[t] : Cleared(t, todo[t], gone)
        BY <1>0, <1>r, <2>4, DropMoves
      <3>2. ASSUME op[t] # "suspend", NEW p \in Group(sel[t], old, config), p \notin loose'
            PROVE  /\ pc'[t] = "dropping" => registry'[p] = 0 \/ p \in todo'[t] \cup {at'[t]}
                   /\ pc'[t] = "releasing" => registry'[p] = 0
                   /\ pc'[t] # "reopening"
        <4>1. p \in Plugins /\ (registry[p] = 0 \/ p \in todo[t] \cup {at[t]})
          BY <1>0, <2>1, <3>2 DEF Free, Group
        <4>2. p = at[t] => registry'[p] = 0
          BY <2>2, <2>4, <3>2, <4>1
        <4>3. registry[p] = 0 => registry'[p] = 0
          BY <2>2, <4>1
        <4>4. p \in todo[t] =>
                /\ pc'[t] = "dropping" => registry[p] = 0 \/ p \in todo'[t] \cup {at'[t]}
                /\ pc'[t] = "releasing" => registry[p] = 0
          BY <3>1 DEF Cleared
        <4>5. pc'[t] # "reopening"
          BY <3>1 DEF Cleared
        <4>6. QED
          BY <4>1, <4>2, <4>3, <4>4, <4>5
      <3>3. QED
        BY <1>0, <2>1, <2>4, <3>2 DEF Free, Group, Targets, Holding
    <2>5. QED
      BY <1>5, <2>3, <2>4 DEF DropEnds
  <1>6. CASE /\ pc'[t] \in Holding /\ ~TakeReconf(t) /\ ~ReleaseEnds(t)
             /\ \A ok \in BOOLEAN : ~DropEnds(t, ok) /\ ~ReopenEnds(t, ok)
    <2>1. UNCHANGED reconf /\ pc[t] \notin Holding
      BY <1>6 DEF Step, InitTake, Enter, HealthEnds, ProbeEnds, InitConnectEnds, ConnectEnds,
         OpeningEnds, ClosingEnds, Holding
    <2>2. QED
      BY <1>0, <1>6, <2>1 DEF LockInv
  <1>7. QED
    BY <1>1, <1>2, <1>3, <1>4, <1>5, <1>6

LEMMA FreeInvNext == ShareInv /\ FreeInv /\ [Next]_vars => FreeInv'
  <1> SUFFICES ASSUME ShareInv, FreeInv, [Next]_vars PROVE FreeInv'
    OBVIOUS
  <1>1. LockInv'
    BY ShareInvNext DEF ShareInv, WorkInv
  <1>2. ASSUME NEW t \in Tasks, NEW o \in Ops, NEW ps \in (SUBSET Plugins) \ {{}}, Begin(t, o, ps)
        PROVE  FreeInv'
    <2>1. /\ pc'[t] = "begun" /\ loose \subseteq loose' /\ UNCHANGED <<registry, owner, open, fresh, config, old>>
          /\ \A u \in Tasks : u # t => Unmoved(u)
      BY <1>2, BeginFrame DEF ShareInv, Begin, wiring
    <2>2. ASSUME NEW u \in Tasks PROVE Free(u)'
      <3>1. CASE u = t
        BY <2>1, <3>1 DEF Free
      <3>2. CASE u # t
        <4>1. Free(u) /\ UNCHANGED <<pc[u], op[u], sel[u], todo[u], at[u]>>
          BY <2>1, <3>2 DEF FreeInv, Unmoved
        <4>2. UNCHANGED <<Group(sel[u], old, config), registry, fresh>>
          BY <2>1, <4>1 DEF Group, Targets
        <4>3. \A p : Of(p)' = Of(p)
          BY <2>1 DEF Of
        <4>4. QED
          BY <2>1, <4>1, <4>2, <4>3 DEF Free
      <3>3. QED
        BY <3>1, <3>2
    <2>3. QED
      BY <2>2 DEF FreeInv
  <1>3. ASSUME NEW t \in Tasks, Step(t) PROVE FreeInv'
    BY <1>1, <1>3, FreeStep, FreeFromOthers DEF FreeInv
  <1>4. CASE UNCHANGED vars
    <2>1. UNCHANGED <<registry, owner, open, fresh, loose, pc, op, sel, todo, at, config, old>>
      BY <1>4 DEF vars, maps, devices, calls, history, made, wiring
    <2>2. QED
      BY <2>1 DEF FreeInv, Free, Of, Group, Targets
  <1>5. QED
    BY <1>2, <1>3, <1>4 DEF Next, Quiet

(* While resume or apply releases and reopens the ports its plugins leave    *)
(* and come to, whatever the settings name before and after, nothing is open *)
(* there but what it opened itself, of all plugins that are configured for   *)
(* such a port: everything that shared it was taken off it first.            *)
THEOREM FreePortIsOpened == Spec => []PortIsFreeToOpen
  <1>1. Init => FreeInv
    BY DEF Init, FreeInv, Free
  <1>2. Spec => []FreeInv
    BY <1>1, ShareInvAlways, FreeInvNext, PTL DEF Spec
  <1>3. ShareInv /\ FreeInv => PortIsFreeToOpen
    <2> SUFFICES ASSUME ShareInv, FreeInv, NEW t \in Tasks, Reopens(t), NEW i \in Left(t),
                        owner[i] \notin loose, port[i] \in {old[owner[i]], config[owner[i]]}
                 PROVE  FALSE
      BY DEF PortIsFreeToOpen
    <2>1. Types /\ MapInv /\ Free(t)
      BY DEF ShareInv, WorkInv, FreeInv
    <2>2. op[t] # "suspend" /\ pc[t] \in {"releasing", "reopening"}
      BY DEF Reopens, Rewires
    <2>3. i \in open /\ i \notin fresh /\ \E q \in sel[t] : port[i] \in {old[q], config[q]}
      BY DEF Left
    <2>4. owner[i] \in Plugins /\ i # 0
      BY <2>1, <2>3 DEF Types, DeviceTypes, Ids
    <2>5. owner[i] \in Group(sel[t], old, config)
      BY <2>3, <2>4 DEF Group, Targets
    <2>6. CASE pc[t] = "reopening"
      BY <2>1, <2>2, <2>3, <2>5, <2>6 DEF Free, Of
    <2>7. CASE pc[t] = "releasing"
      <3>1. registry[owner[i]] = 0
        BY <2>1, <2>2, <2>5, <2>7 DEF Free
      <3>2. PluginOk(owner[i])
        BY <2>1, <2>4 DEF MapInv
      <3>3. QED
        BY <2>3, <2>4, <3>1, <3>2 DEF PluginOk, Of
    <2>8. QED
      BY <2>2, <2>6, <2>7
  <1>4. QED
    BY <1>2, <1>3, ShareInvAlways, PTL
=============================================================================
