-------------------------- MODULE GatewayLifecycle --------------------------
(***************************************************************************)
(* How plugins are connected, probed, suspended and reconnected            *)
(* (hardware/plugin_gateway.py, plugins/registry.py, api/plugins.py).      *)
(*                                                                         *)
(* Two maps name the instance of a plugin: the gateway's fast path         *)
(* (_plugins) and the process-wide registry.  Operations run on one event  *)
(* loop and interleave at every await.  _reconfigure_lock serialises       *)
(* suspend, resume and the application of settings, and nothing else:      *)
(* on-demand connects, probes and the management endpoints take no lock.   *)
(*                                                                         *)
(* An instance is open while it holds its device's port: the serial port   *)
(* its configuration named when it was connected.  Plugins may share a     *)
(* port, and applying settings moves them to others.  Devices answer,      *)
(* refuse or fail at will.                                                 *)
(***************************************************************************)
EXTENDS Naturals, Sequences, FiniteSets

CONSTANTS
    Tasks,      \* requests in progress at a time
    Order,      \* the plugins, in the order they are connected in
    Ports,      \* the serial ports
    Profiles,   \* what the persisted settings may give each plugin for a port
    Ops,        \* the operations that are asked for
    MaxBegun,   \* bound on the number of operations
    None

Plugins == {Order[k] : k \in DOMAIN Order}

ASSUME LifecycleAssumption ==
    /\ Order \in Seq(Plugins) /\ Order # <<>>
    /\ \A k, l \in DOMAIN Order : Order[k] = Order[l] => k = l
    /\ Profiles # {} /\ Profiles \subseteq [Plugins -> Ports]
    /\ Ops \subseteq {"acquire", "check", "ready", "suspend", "resume", "apply",
                      "connect", "disconnect"}
    /\ MaxBegun \in Nat
    /\ None \notin Tasks \cup Plugins

VARIABLES
    gateway,    \* PluginHardwareGateway._plugins, 0 for no entry
    registry,   \* PluginRegistry._instances, 0 for no entry
    owner,      \* the plugin of each instance created so far
    port,       \* the port it was last connected to
    own,        \* instances with a configuration of their own, the rest use
    config,     \* _plugin_configs: the port of each plugin, and
    old,        \* old_ports: what it was before the reconfiguration under way
    marked,     \* instances whose status is CONNECTED
    open,       \* instances that hold their port
    suspended,  \* _suspended_plugins
    initDone,   \* _init_done
    initLock,   \* holder of _init_lock
    reconf,     \* holder of _reconfigure_lock
    pc,         \* the await where each task stands
    op,         \* what it does
    sel,        \* to which plugins
    todo,       \* plugins its loop has still to go through
    again,      \* plugins it will reconnect after that
    at,         \* the plugin and
    inst,       \* the instance of the await
    begun,      \* operations begun
    fresh,      \* history: instances opened under the lock since it was taken
    loose       \* history: plugins on which operations met that do not exclude
                \* each other, or one failed half way

maps == <<gateway, registry>>
made == <<owner, port, own>>
wiring == <<config, old>>
devices == <<marked, open>>
locks == <<initDone, initLock, reconf>>
calls == <<op, sel, todo, again, begun>>
history == <<fresh, loose>>
vars == <<maps, made, wiring, devices, suspended, locks, pc, at, inst, calls, history>>

Init ==
    /\ gateway = [p \in Plugins |-> 0] /\ registry = gateway
    /\ owner = <<>> /\ port = <<>> /\ own = {}
    /\ config \in Profiles /\ old = config
    /\ marked = {} /\ open = {}
    /\ suspended = {}
    /\ initDone = FALSE /\ initLock = None /\ reconf = None
    /\ pc = [t \in Tasks |-> "idle"]
    /\ op = [t \in Tasks |-> "none"]
    /\ sel = [t \in Tasks |-> {}] /\ todo = sel /\ again = sel
    /\ at = [t \in Tasks |-> None]
    /\ inst = [t \in Tasks |-> 0]
    /\ begun = 0
    /\ fresh = {} /\ loose = {}

-----------------------------------------------------------------------------
Reconfigures == {"suspend", "resume", "apply"}
Manages == {"connect", "disconnect"}

\* Mutant: the ports the plugins come from are forgotten.
TargetsNew(ps, was, now) == {now[q] : q \in ps}

\* target_ports: the ports of ps before and after.
Targets(ps, was, now) == {was[q] : q \in ps} \cup {now[q] : q \in ps}

\* affected: the plugins that have been or will be on one of these.
Group(ps, was, now) ==
    {p \in Plugins : {was[p], now[p]} \cap Targets(ps, was, now) # {}}

Before(p, q) == \E k, l \in DOMAIN Order : Order[k] = p /\ Order[l] = q /\ k < l
First(ps) == CHOOSE p \in ps : \A q \in ps \ {p} : Before(p, q)

Goto(t, where, p, i) ==
    /\ pc' = [pc EXCEPT ![t] = where]
    /\ at' = [at EXCEPT ![t] = p]
    /\ inst' = [inst EXCEPT ![t] = i]

\* create_instance for the first of ps: a new instance, not connected yet,
\* takes the registry's entry whatever was there; a connect by name brings its
\* own configuration.
Create(t, ps, where) ==
    LET p == First(ps)
        i == Len(owner) + 1 IN
    /\ owner' = Append(owner, p)
    /\ own' = IF op[t] = "connect" THEN own \cup {i} ELSE own
    /\ \E x \in IF op[t] = "connect" THEN Ports ELSE {config[p]} : port' = Append(port, x)
    /\ registry' = [registry EXCEPT ![p] = i]
    /\ Goto(t, where, p, i)
    /\ todo' = [todo EXCEPT ![t] = ps \ {p}]
    /\ loose' = IF registry[p] # 0 \/ (p \in suspended /\ op[t] \in {"apply", "connect"})
                THEN loose \cup {p} ELSE loose
    /\ UNCHANGED <<op, sel, again, begun>>

Return(t) ==
    /\ Goto(t, "idle", None, 0)
    /\ op' = [op EXCEPT ![t] = "none"]
    /\ sel' = [sel EXCEPT ![t] = {}]
    /\ todo' = [todo EXCEPT ![t] = {}]
    /\ again' = [again EXCEPT ![t] = {}]
    /\ UNCHANGED begun

\* What a connect leaves of its instance.
Connected(i, ok) ==
    /\ open' = IF ok THEN open \cup {i} ELSE open \ {i}
    /\ marked' = IF ok THEN marked \cup {i} ELSE marked \ {i}

Attach(p, i) == gateway' = [gateway EXCEPT ![p] = i]

-----------------------------------------------------------------------------
(* A request arrives, and startup.                                         *)

Rewires == {"resume", "apply"}

\* The plugins an operation o on ps may work on; before startup, all.  What
\* resume and apply reconnect is known once they hold the lock.
WorksOn(o, ps) == IF ~initDone /\ o \notin Manages THEN Plugins
                  ELSE IF o \in Rewires THEN {} ELSE ps

Touches(t) == IF pc[t] = "idle" THEN {}
              ELSE IF reconf = t /\ op[t] \in Rewires THEN Group(sel[t], old, config)
              ELSE WorksOn(op[t], sel[t])

\* The lock keeps reconfigurations apart, on-demand connects and probes share
\* the registered instance; everything else disturbs.
Disturbs(o, u) ==
    \/ o \in Manages \/ op[u] \in Manages
    \/ (o \in Reconfigures) # (op[u] \in Reconfigures)

Begin(t, o, ps) ==
    /\ pc[t] = "idle" /\ begun < MaxBegun
    /\ o \notin Reconfigures => Cardinality(ps) = 1
    /\ begun' = begun + 1
    /\ pc' = [pc EXCEPT ![t] = "begun"]
    /\ op' = [op EXCEPT ![t] = o]
    /\ sel' = [sel EXCEPT ![t] = ps]
    /\ loose' = loose \cup
         {p \in Plugins : \E u \in Tasks \ {t} :
             /\ p \in Touches(u) \cap WorksOn(o, ps)
             /\ Disturbs(o, u)}
    /\ UNCHANGED <<maps, made, wiring, devices, suspended, locks, todo, again, at, inst, fresh>>

\* _initialize_plugins: the first caller connects the plugins one by one, the
\* others wait for its lock.
InitTake(t) ==
    /\ pc[t] = "begun" /\ op[t] \notin Manages
    /\ ~initDone /\ initLock = None
    /\ initLock' = t
    /\ Create(t, Plugins, "initconnect")
    /\ UNCHANGED <<gateway, wiring, devices, suspended, initDone, reconf, fresh>>

InitConnectEnds(t, ok) ==
    /\ pc[t] = "initconnect"
    /\ Connected(inst[t], ok)
    /\ IF ok THEN Attach(at[t], inst[t]) ELSE UNCHANGED gateway
    /\ IF todo[t] # {}
       THEN Create(t, todo[t], "initconnect") /\ UNCHANGED <<initDone, initLock>>
       ELSE /\ initDone' = TRUE /\ initLock' = None
            /\ Goto(t, "begun", None, 0)
            /\ UNCHANGED <<registry, made, calls, loose>>
    /\ UNCHANGED <<wiring, suspended, reconf, fresh>>

-----------------------------------------------------------------------------
(* On-demand connect and readiness.                                        *)

\* Mutant: nothing is suspended.
BlockedNever(p) == FALSE

Blocked(p) == p \in suspended

Target(t) == CHOOSE p \in sel[t] : TRUE

\* _get_or_connect_plugin has its plugin; plugin_readiness goes on to probe it.
Acquired(t, p, i) ==
    IF op[t] = "check" THEN Goto(t, "probing", p, i) /\ UNCHANGED calls
                       ELSE Return(t)

\* _get_or_connect_plugin up to its first await.
EnterAcquire(t, p) ==
    /\ op[t] \in {"acquire", "check"}
    /\ UNCHANGED gateway
    /\ \/ Blocked(p) /\ Return(t) /\ UNCHANGED <<registry, made, loose>>
       \/ /\ ~Blocked(p) /\ gateway[p] # 0
          /\ Acquired(t, p, gateway[p])
          /\ UNCHANGED <<registry, made, loose>>
       \/ /\ ~Blocked(p) /\ gateway[p] = 0 /\ registry[p] # 0
          /\ Goto(t, "health", p, registry[p])
          /\ UNCHANGED <<registry, made, calls, loose>>
       \/ /\ ~Blocked(p) /\ gateway[p] = 0 /\ registry[p] = 0
          /\ Create(t, {p}, "connecting")

\* A healthy instance is attached without another look at the suspensions; an
\* unhealthy one is connected again unless suspended meanwhile, to the port its
\* configuration names by now.
HealthEnds(t) ==
    /\ pc[t] = "health"
    /\ \/ /\ inst[t] \in open
          /\ Attach(at[t], inst[t]) /\ Acquired(t, at[t], inst[t])
          /\ UNCHANGED port
       \/ /\ UNCHANGED gateway
          /\ IF Blocked(at[t]) THEN Return(t) /\ UNCHANGED port
             ELSE /\ Goto(t, "connecting", at[t], inst[t])
                  /\ port' = IF inst[t] \in own THEN port
                             ELSE [port EXCEPT ![inst[t]] = config[at[t]]]
                  /\ UNCHANGED calls
    /\ UNCHANGED <<registry, owner, own, wiring, devices, suspended, locks, history>>

ConnectEnds(t, ok) ==
    /\ pc[t] = "connecting"
    /\ Connected(inst[t], ok)
    /\ IF ok THEN Attach(at[t], inst[t]) /\ Acquired(t, at[t], inst[t])
             ELSE UNCHANGED gateway /\ Return(t)
    /\ UNCHANGED <<registry, made, wiring, suspended, locks, history>>

\* plugin_readiness without reconnecting: the attached instance, or one that
\* the registry holds as connected.
EnterReady(t, p) ==
    LET i == IF gateway[p] # 0 THEN gateway[p]
             ELSE IF registry[p] \in marked THEN registry[p] ELSE 0 IN
    /\ op[t] = "ready"
    /\ IF i = 0 THEN Return(t) ELSE Goto(t, "probing", p, i) /\ UNCHANGED calls
    /\ UNCHANGED <<maps, made, loose>>

\* The probe is stored as the instance's status; the map follows it.
ProbeEnds(t) ==
    LET p == at[t]
        i == inst[t] IN
    /\ pc[t] = "probing"
    /\ \/ i \in open /\ marked' = marked \cup {i} /\ Attach(p, i)
       \/ /\ marked' = marked \ {i}
          /\ IF gateway[p] = i THEN Attach(p, 0) ELSE UNCHANGED gateway
       \/ UNCHANGED <<marked, gateway>>
    /\ Return(t)
    /\ UNCHANGED <<registry, made, wiring, open, suspended, locks, history>>

-----------------------------------------------------------------------------
(* The management endpoints.                                               *)

EnterManage(t, p) ==
    \/ /\ op[t] = "connect"
       /\ Create(t, {p}, "opening")
       /\ UNCHANGED gateway
    \/ /\ op[t] = "disconnect"
       /\ IF registry[p] = 0 THEN Return(t)
                             ELSE Goto(t, "closing", p, registry[p]) /\ UNCHANGED calls
       /\ UNCHANGED <<maps, made, loose>>

\* The gateway is given whatever instance is registered by now.
OpeningEnds(t, ok) ==
    LET p == at[t] IN
    /\ pc[t] = "opening"
    /\ Connected(inst[t], ok)
    /\ IF ok /\ registry[p] # 0 THEN Attach(p, registry[p]) ELSE UNCHANGED gateway
    /\ Return(t)
    /\ UNCHANGED <<registry, made, wiring, suspended, locks, history>>

\* disconnect_plugin: the registry's entry is deleted after the await, whichever
\* it is by then; an instance that cannot be closed stays.
Closed(t, ok) ==
    LET p == at[t] IN
    /\ open' = IF ok THEN open \ {inst[t]} ELSE open
    /\ marked' = IF ok THEN marked \ {inst[t]} ELSE marked
    /\ registry' = IF ok THEN [registry EXCEPT ![p] = 0] ELSE registry

ClosingEnds(t, ok) ==
    /\ pc[t] = "closing"
    /\ Closed(t, ok)
    /\ loose' = IF ok THEN loose ELSE loose \cup {at[t]}
    /\ IF ok /\ registry[at[t]] # 0 THEN Attach(at[t], 0) ELSE UNCHANGED gateway
    /\ Return(t)
    /\ UNCHANGED <<made, wiring, suspended, locks, fresh>>

-----------------------------------------------------------------------------
(* Suspend, resume, apply settings: under the reconfiguration lock.        *)

EnterReconfigure(t) ==
    /\ op[t] \in Reconfigures
    /\ Goto(t, "locking", None, 0)
    /\ UNCHANGED <<maps, made, calls, loose>>

\* Mutant: a plugin is active when the gateway has it.
ActiveIfAttached(p) == gateway[p] # 0

Active(p) == gateway[p] # 0 \/ registry[p] # 0

\* active_before
Affected(ps, was, now) == {p \in Group(ps, was, now) : Active(p)}

\* The loop that disconnects ps goes on, in whatever order: the gateway's
\* entries up to the next registered plugin are removed, its own too.
Drop(t, ps) ==
    \E gone \in SUBSET ps :
        LET known == {p \in gone : registry[p] # 0} IN
        /\ gateway' = [p \in Plugins |-> IF p \in gone THEN 0 ELSE gateway[p]]
        /\ todo' = [todo EXCEPT ![t] = ps \ gone]
        /\ \/ gone = ps /\ known = {} /\ Goto(t, "releasing", None, 0)
           \/ \E q \in gone : known = {q} /\ Goto(t, "dropping", q, registry[q])

\* Mutant: the lock is not looked at.
MayReconfigureAlways(t) == pc[t] = "locking"

MayReconfigure(t) == pc[t] = "locking" /\ reconf = None

\* The settings are read anew: they may have been written, and a port they name
\* may have gone or come back, since.  They are applied to every plugin, whether
\* it is reconnected or not.
Rewire(t, now) ==
    LET active == Affected(sel[t], config, now) IN
    /\ config' = now /\ old' = config
    /\ Drop(t, active)
    /\ again' = [again EXCEPT ![t] = sel[t] \cup active]
    /\ loose' = loose \cup
         {p \in Group(sel[t], config, now) : \E u \in Tasks \ {t} :
             p \in Touches(u) /\ Disturbs(op[t], u)}
    /\ UNCHANGED suspended

TakeReconf(t) ==
    /\ MayReconfigure(t)
    /\ reconf' = t /\ fresh' = {}
    /\ \/ /\ op[t] = "suspend"
          /\ suspended' = suspended \cup sel[t]
          /\ Drop(t, sel[t])
          /\ UNCHANGED <<again, loose, wiring>>
       \/ op[t] \in Rewires /\ \E now \in Profiles : Rewire(t, now)
    /\ UNCHANGED <<registry, made, devices, initDone, initLock, op, sel, begun>>

\* Mutant: the lock is kept.
UnlockForgotten(t) == UNCHANGED reconf

Unlock(t) == reconf' = None

\* The end of the operation, also by an exception: resume lifts the suspension
\* in any case.
Finish(t) ==
    /\ Unlock(t)
    /\ old' = config
    /\ suspended' = IF op[t] = "resume" THEN suspended \ sel[t] ELSE suspended
    /\ Return(t)

\* An entry somebody else has deleted meanwhile is a KeyError, and the rest of
\* the plugins stays as it was.
DropEnds(t, ok) ==
    /\ pc[t] = "dropping"
    /\ Closed(t, ok)
    /\ IF ok /\ registry[at[t]] = 0
       THEN /\ Finish(t)
            /\ loose' = loose \cup todo[t]
            /\ UNCHANGED gateway
       ELSE /\ Drop(t, todo[t])
            /\ loose' = IF ok THEN loose ELSE loose \cup {at[t]}
            /\ UNCHANGED <<reconf, old, suspended, op, sel, again, begun>>
    /\ UNCHANGED <<made, config, initDone, initLock, fresh>>

\* The shared bus is released; then the group is connected again.
ReleaseEnds(t) ==
    /\ pc[t] = "releasing"
    /\ IF again[t] = {}
       THEN Finish(t) /\ UNCHANGED <<registry, made, loose>>
       ELSE Create(t, again[t], "reopening") /\ UNCHANGED <<reconf, old, suspended>>
    /\ UNCHANGED <<gateway, config, devices, initDone, initLock, fresh>>

ReopenEnds(t, ok) ==
    LET p == at[t] IN
    /\ pc[t] = "reopening"
    /\ Connected(inst[t], ok)
    /\ fresh' = IF ok THEN fresh \cup {inst[t]} ELSE fresh
    /\ IF ok /\ registry[p] # 0 THEN Attach(p, registry[p]) ELSE UNCHANGED gateway
    /\ IF todo[t] = {}
       THEN Finish(t) /\ UNCHANGED <<registry, made, loose>>
       ELSE Create(t, todo[t], "reopening") /\ UNCHANGED <<reconf, old, suspended>>
    /\ UNCHANGED <<config, initDone, initLock>>

-----------------------------------------------------------------------------
Enter(t) ==
    /\ pc[t] = "begun" /\ (initDone \/ op[t] \in Manages)
    /\ \/ EnterAcquire(t, Target(t))
       \/ EnterReady(t, Target(t))
       \/ EnterManage(t, Target(t))
       \/ EnterReconfigure(t)
    /\ UNCHANGED <<wiring, devices, suspended, locks, fresh>>

Step(t) ==
    \/ InitTake(t) \/ Enter(t) \/ HealthEnds(t) \/ ProbeEnds(t)
    \/ TakeReconf(t) \/ ReleaseEnds(t)
    \/ \E ok \in BOOLEAN :
         \/ InitConnectEnds(t, ok) \/ ConnectEnds(t, ok)
         \/ OpeningEnds(t, ok) \/ ClosingEnds(t, ok)
         \/ DropEnds(t, ok) \/ ReopenEnds(t, ok)

\* Every request has been answered: anything else that stops is a deadlock.
Quiet == begun = MaxBegun /\ (\A t \in Tasks : pc[t] = "idle") /\ UNCHANGED vars

Next ==
    \/ \E t \in Tasks, o \in Ops, ps \in (SUBSET Plugins) \ {{}} : Begin(t, o, ps)
    \/ \E t \in Tasks : Step(t)
    \/ Quiet

Spec == Init /\ [][Next]_vars

-----------------------------------------------------------------------------
Of(p) == {i \in open : owner[i] = p}

TypeOK ==
    LET Ids == 0..Len(owner) IN
    /\ owner \in Seq(Plugins) /\ port \in Seq(Ports) /\ Len(port) = Len(owner)
    /\ own \subseteq Ids \ {0}
    /\ config \in Profiles /\ old \in Profiles
    /\ gateway \in [Plugins -> Ids] /\ registry \in [Plugins -> Ids]
    /\ marked \subseteq Ids \ {0} /\ open \subseteq Ids \ {0} /\ fresh \subseteq Ids \ {0}
    /\ suspended \subseteq Plugins /\ loose \subseteq Plugins
    /\ initDone \in BOOLEAN /\ initLock \in Tasks \cup {None}
    /\ reconf \in Tasks \cup {None}
    /\ pc \in [Tasks -> {"idle", "begun", "initconnect", "health", "connecting", "probing",
                         "opening", "closing", "locking", "dropping", "releasing", "reopening"}]
    /\ op \in [Tasks -> Ops \cup {"none"}]
    /\ {sel[t] : t \in Tasks} \cup {todo[t] : t \in Tasks} \cup {again[t] : t \in Tasks}
         \subseteq SUBSET Plugins
    /\ at \in [Tasks -> Plugins \cup {None}]
    /\ inst \in [Tasks -> Ids]
    /\ begun \in 0..MaxBegun
    /\ reconf # None => pc[reconf] \in {"dropping", "releasing", "reopening"}

\* The two maps agree on every plugin, and no instance but the registered one
\* holds a port, also in the middle of operations, unless operations that do
\* not exclude each other met on the plugin or an instance would not close:
\* each connect takes over or closes what was there before.
OneInstance ==
    \A p \in Plugins \ loose :
        gateway[p] \in {0, registry[p]} /\ Of(p) \subseteq {registry[p]}

\* With the same exceptions a suspended plugin keeps off its port until it is
\* resumed or somebody reconnects it by name: on-demand requests that arrive
\* later, probes and reconfigurations of its neighbours do not bring it back.
SuspendedStaysDetached ==
    \A p \in suspended \ loose :
        (\E t \in Tasks : reconf = t /\ p \in Touches(t)) \/ (gateway[p] = 0 /\ Of(p) = {})

\* The instances a reconfiguration by t has to take off the ports its selected
\* plugins leave and come to: all but the ones it opened itself.
Left(t) == {i \in open \ fresh : \E q \in sel[t] : port[i] \in {old[q], config[q]}}

Reopens(t) == op[t] \in Rewires /\ pc[t] \in {"releasing", "reopening"}

\* While a reconfiguration releases and reopens the ports its plugins leave and
\* come to, no other instance is open there whose plugin is configured for the
\* port, before or after the change, also one of a plugin that was not asked for.
PortIsFreeToOpen ==
    \A t \in Tasks : Reopens(t) =>
        \A i \in Left(t) :
            LET p == owner[i] IN p \in loose \/ port[i] \notin {old[p], config[p]}

\* Every active owner of the old and new ports is disconnected (the docstring of
\* _reconnect_rtu_plugins_locked), wherever its configuration points by then.
OwnersAreDisconnected ==
    \A t \in Tasks : Reopens(t) => \A i \in Left(t) : owner[i] \in loose

\* No on-demand request reaches a suspended plugin, whatever was in progress
\* when it was suspended (the docstring of suspend_plugins).
SuspendedIsUnreachable == \A p \in suspended : reconf # None \/ gateway[p] = 0
=============================================================================
