# Verification of OqlOS

TLA+ models of the parts of OqlOS where several requests, tasks, processes or
devices meet: what the models say, what TLC checks on small instances, and what
TLAPS proves for every instance. Paths are relative to the repository.

## 1. Inventory

OqlOS drives a test stand for respiratory protection: valves, a pump, an
artificial lung on a stepper motor, pressure sensors. One FastAPI process owns
the hardware; an operator panel (HUI), scenario executions and remote nodes
all command it, on one asyncio loop and a few worker threads.

| Component | State | Operations | Talks to | Hard because |
|---|---|---|---|---|
| HUI holds, `hui_hold.py` | operation lock, interrupt event, active hold and its start time | start, stop, shutdown | gateway, readiness | every await under the lock lets other requests set the event; commands fail half way |
| Valve keys, `hui_valve.py` | none | switch one valve | gateway | takes no lock |
| Gateway, `plugin_gateway.py` | map of connected plugins, suspended plugins, cooldowns | set valve, set pump, all off, exact replace, readiness, suspend, resume, reconfigure | plugins, control sources, power gate | failures that were applied, two modules for one valve, plugins that come and go |
| Control sources, `control_sources.py` | settings in two files, one command lock | read, save with revision, motor command | gateway, control hosts | crash between the files, stop behind a slow command |
| Power safety, `power_safety.py` | sample cache, last published state | sample, gate, publish | gateway, events | stale samples, publication outside the lock |
| Plugin life, `plugin_gateway.py`, `plugins/registry.py`, `api/plugins.py` | registry, plugin map, suspended plugins, one lock per plugin and one for reconfiguring | initialize, connect on demand, probe, manage, reconfigure, suspend, resume | device ports | instances that survive their entry, ports that are shared |
| M5 module, `plugins/m5_4in8out.py` | lease, renewal task | connect, renew, reacquire, commands | device over HTTP | abandoned threads, lease against command, retried POST |
| Artificial lung, `hui_artificial_lung.py`, `plugins/lung.py` | running flag, status cache | start, stop, rearm | gateway | no lock, cache against command |
| Orchestrator, `core/executor.py` | running, paused, current execution and index | start, step, pause, resume, stop | projection, gateway | all executions share the fields |
| Projection and state commands, `core/cqrs`, `api/state.py` | event streams, status of executions | append, project, start/pause/resume/stop | orchestrator, panel | notification outside the lock |
| MQTT bridge, `transport/mqtt_oql_bridge.py` | pending futures; ids seen, execution lock; retained status | execute, handle request, start, stop | broker | duplicates, timeouts, restarts, last will |
| Runtime caches, `api/hardware_runtime.py` | sensor samples | read, refresh | gateway | stale while revalidating, a sampler that outlives its readers |
| Events, `hardware_events.py`, `event_server.py` | queues, recent events | publish, subscribe, list | panel | full queues, late subscribers |
| Motor2 planning, `motor2_runtime.py` | none | speed and position arithmetic | interpreter | rounding at the limits |
| Interpreter and parser, `packages/oqlos-core` | readings, bounds, flags and statuses of a run | parse, lower, execute | gateway | sequential, but a verdict composed of flags many commands touch |
| Serial plugins, service tools, panel, HTTP, command line | ports | device protocols, formatting | gateway | I/O |

What makes them correct:

- **Holds**: a report of "safe" is true; the active hold is what the hardware
  does; a pump runs only for a hold; an emergency shutdown is not held up; every
  request is answered; no request inherits the interrupt of another.
- **Gateway and plugin life**: the outcome of a command says what is known of the
  device; one instance per plugin; a suspended plugin stays out; a port is free
  when a plugin opens it.
- **M5**: what is reported done was applied; a write that was given up should not
  undo a bulk-off; a lost lease de-energises.
- **Lung**: a stop reported safe closes the valve and starts nothing; the status a start looks at is newer
  than the start.
- **Control sources**: who drives a device is the host that was selected; a stop
  reaches whoever drives; a form replaces what it has shown.
- **Orchestrator**: stop stops, pause holds; what is shown is what is executed.
- **Bridge**: one answer per call and the right one; nothing runs twice in one
  life of the agent; the retained status tells whether the agent is there.
- **Sensor cache**: reads never overlap, an expired value is not served, values
  come back.
- **Interpreter**: no false PASS, and no command that is left out for no reason.

`PROJECT.json` lists the components with their sources, and under `hazards` every
place where this can go wrong, with the properties that would notice.

## 2. Modules

| Module | Models | Uses |
|---|---|---|
| `PluginGateway` | the gateway's commands and the device state behind them | |
| `HuiHold` | hold operations, valve keys, the environment of the gateway | `PluginGateway` |
| `GatewayLifecycle` | plugins that are created, connected, probed, suspended, reconfigured | |
| `M5Lease` | commands, lease and worker threads of the M5 plugin | |
| `ArtificialLung` | HUI start and stop of the lung, its plugin and status cache | |
| `ControlSources` | settings files, command lock, settings form | |
| `Orchestrator` | scenario executions and their control | |
| `RemoteCall` | what a remote call promises | |
| `MqttBridge` | controller, agent, broker | `RemoteCall` (refinement) |
| `UsbAdcCache` | sensor samples, readers, sampler | |
| `Scenario` | lowering and execution of an OQL document | |
| `HuiHoldProofs`, `GatewayLifecycleProofs`, `M5LeaseProofs`, `ArtificialLungProofs`, `ControlSourcesProofs`, `OrchestratorProofs`, `MqttBridgeProofs` | theorems about the module of that name | that module, TLAPS |
| `SensorProofs` | theorems about `Scenario` and `UsbAdcCache` | both modules, TLAPS |

Every component's module has an `MC` module beside it with the model values of its
instances. The modules are cut where a lock or an
outcome separates them: the control-source lock makes a gateway command one step in
`PluginGateway`, and `ControlSources` models that lock; the *fail* and *raise* outcomes
of a command in `PluginGateway` are what `M5Lease` and `GatewayLifecycle` explain.

### PluginGateway and HuiHold

`plugins` is `_plugins` restricted to valve modules; `coils` and `pump` are
what the devices physically do, which the code cannot see. A command ends as
*ok*, *fail* or *raise*. A failed command may have been applied or not: that is what
a timed-out write leaves. `SetValve` describes the walk over the modules in
preference order by the set of modules that rejected; `AllValvesOff` confirms some of
the connected modules and succeeds when one did; `ReplaceValvesExact` writes the M5
module only.

`HuiHold` has one request per client. `queue` and `op` are the waiters and the
holder of `_HUI_OPERATION_LOCK` (asyncio locks are first come first served),
`step` is the await where the holder stands. The steps follow the code:

    start:    ready -> [idlePump] -> replace -> [engagePump]            exact
              ready -> downPump .. downEach -> engage -> [engagePump]   legacy
    stop:     [minHold] -> downPump -> downReady -> downBulk -> [downEach]
    shutdown: downPump -> downReady -> downBulk -> [downEach]

A failed engagement runs the shutdown routine as cleanup; `after` says where that
routine returns. An exception leaves the operation without clearing the
interrupt event, as the code does. `Environment` drops and attaches modules and
damages the settings file between any two steps. Timing, progress payloads and
texts are left out; time is one event, `HoldAges`.

### GatewayLifecycle

A task stands at an await (`pc`); one action is the code up to the next one. Of every
plugin the model keeps the registry's instance, the instance in `_plugins`, the
instances that are open on the device, the suspension and the lock; the reconfiguration
has a lock of its own. `InitTake`/`InitConnectEnds` are `_initialize_plugins`,
`EnterAcquire` to `ConnectEnds` the on-demand connect, `EnterReady`/`ProbeEnds` the
readiness probe, `EnterManage` to `ClosingEnds` the management routes (which take no
lock), `EnterReconfigure` to `ReopenEnds` the reconfiguration and the suspension.
`config` is the port that the settings in memory give each plugin, `old` what they gave
before the reconfiguration under way, `port` where each instance was last connected, which
for one that a management connect configured itself (`own`) the settings do not change. An
*apply* or *resume* takes any assignment of `Profiles` once it has the lock; `Targets` and
`Group` are the union over old and new ports of `_reconnect_rtu_plugins_locked`, `Affected`
the plugins it takes down, in any order, before it opens the first. A third plugin that
sits on the new port of an affected neighbour, which nobody asked for, is not looked up by
the code, nor here. The route that only reloads the settings, a port path that resolves
elsewhere after a replug, the `enabled` flag, and the bus object that pymodbus shares
between two plugins are not modelled. Two history variables, which no guard
reads: `loose` are the plugins on which operations met that do not exclude one another (a
management request takes no lock and replaces what it finds, and a failed close leaves
an instance behind), so that a property can except them; `fresh` are the instances that
the holder of the reconfiguration lock has opened itself.

### M5Lease

Callers (client commands, renewal tasks, connect and disconnect) queue for the plugin's
lock, hand one request to a worker thread and wait; `TimeOut` abandons the thread, which
goes on and may still write. A disconnect cancels the renewal and releases the lease
through the client; when a health check has dropped the client (`HealthFails`, between any
two calls, whoever waits for the lock) it releases nothing. Every connect starts a renewal
task of its own and cancels none. `Outcome` is what a caller does with the result: reacquire,
repeat, give up. `LoseRequest` is the single retry of `_request`. The firmware is
external: it applies requests while it has the lease and de-energises when the lease
ages out. A plugin client (`module`) that is replaced lives on in the threads that hold
it.

### ArtificialLung

A HUI start opens the valve, checks the power, then commands the motor through the
plugin: fetch, POST, fetch again, compare the error text. A stop asks the motor, then
releases the coils, then closes the valve, and reports on all. What a late command of a
start does after a stop is kept apart (`LateMotion`): the stop cannot know of it. Health checks share one
fetch behind a lock and fill the status cache that commands invalidate. `Abort` is the
motor stopping itself, and leaves an error in its status; `LateMotion` a command served
after its answer was given up. Start takes no lock of its own; the motor legs hold the
control-source lock (`lock`).

### ControlSources

`rig` and `json` are the two files. `rig.oql` is absent, empty, holds a value that is
refused (`Refused`), is not text (`Garbled`), or holds a selection; the JSON file is absent,
broken, or holds one. `Snapshot` falls through as the code does: a `rig.oql` that cannot be
read or is refused is passed over for the JSON file, an empty one is a selection of
defaults, and only when neither file tells is the selection unreadable. A save writes
`rig.oql` (`SaveRig`), then the JSON file (`SaveJson`); `Crash` may fall between, `PutFails` is
a write that raised, and `DamageRig`, `DamageJson` happen to the files at any time. `Call`
queues a command for the lock, `Resolve` looks at the selection when the lock is got, and a
stop of a motor fans out to every host when the selection cannot be read. `Load`, `Put`,
`Compare`, `Owners`, `CheckIdle` are the settings form: a revision, the idle check of the
devices whose host changes, the save. Hosts are external and may serve a start late. Two
history variables: `strays` are hosts that drive a device unasked (a late start, or one
that the idle check skipped as disconnected), `moved` the devices which damage to `rig.oql`
handed to another host.

### Orchestrator

`pc[e]` is the await of execution `e`; one action is the code up to the next
await. `running`, `paused`, `current`, `currentIndex` and `stepCounter` are the
shared fields of `ScenarioOrchestrator`. `status` is the executions projection.
`sentAfterStop`, `sentWhilePaused`, `askedToStop` and `overlapped` are history
variables: no guard reads them. `MaxLive` says how many executions the clients have in
progress, `ById` whether they name one (`/execution/{id}/stop`) or use the current one
(the state commands and the routes without an id).

### RemoteCall and MqttBridge

`RemoteCall` is the promise: a call runs at most once in one life of the agent, is
answered at most once and only after it ran, or times out, and returns in any case. `MqttBridge`
implements it through `Remote`, an instance whose variables are functions of the bridge's.
`outcome[c]` is the life of one `execute` call: waiting, then resolved or
expired (its future is done, the coroutine has not resumed), then answered or
timed out (the `finally` clause has removed the id). `pending` is `_pending`.
On the agent `seen` is the ordered `_seen`, `queue` the FIFO of `_exec_lock`,
`ran` counts executions. Paho and the broker are external: copies in flight,
requests lost while the agent is away, answers lost while the controller is, a
publish sent again because its acknowledgement was lost, a session that died
and whose last will fires when the broker notices or when the same client comes
back. Every agent process has a client id of its own (the code draws a random
one), so the will of an old process may fire after the new one is online.

### UsbAdcCache

Readers poll, a sampler task refreshes while they do, the module may be unplugged.
Ages are ticks up to just past their limit. `ReadCached`, `ReadErrors`, `ReadRefused` and
`ReadWaits` are the four ways through a read, in the code's order. Time passes only when
no task is due: the event loop is quick compared with the intervals. The sampler's task
object, its end and its entry in the module's table are apart, as in the code.

### Scenario

One document runs from `Init` to `done`. `Lower` is the adapter's command table,
`goals` the runtime actions; an action of the model is one runtime action. A document
without a goal ends at once: the code then has no step that fails and reports ok, unless
a line was lost. `Advance`
combines its status with the step's and the loop's as `_execute_step` and
`exec_action_loop_block` do. Sensors are read as the firmware adapter reads them:
any level, or 0 for one that cannot be read. `broken` and `fooled` are history variables:
a bound, condition or line that was missed, and something that passed on a reading
nobody made. An ERROR is an action like any other: its result is FAILED and the goal goes
on, as in the code (section 3).

## 3. Checks

All runs explore their state space completely.

| Run | Instance | Distinct states | Shows |
|---|---|---|---|
| `hui_exact` | one M5 module, 2 valves, holds with and without a pump, 2 clients | 31 thousand | `TypeOK`, `SafeMeansDeenergised`, `HoldDrivesItsRecipe`, `InterruptHasCause`, `RequestsComplete` |
| `hui_stand` | two modules, 1 valve, undervoltage, damaged settings, a valve key, a module that comes and goes, 2 clients | 346 thousand | `PumpNeverRunsUnowned` |
| `orch` | 2 executions at a time, goals of 2 and 1 steps, commands may raise | 255 thousand | `TypeOK`, `AtMostOneCommandAfterStop`, `CurrentIndexIsLive`, `AtMostOneCommandWhilePaused`, `EndsUnlessPaused` |
| `mqtt` | two calls with ids of their own, a memory of two, two duplicates, a loss of the link, a crash or stop | 182 thousand | `TypeOK`, `WaitingIsRegistered`, `AnswersOwnRequest`, `NoStaleOnline`, `ImplementsRemoteCall` |
| `m5` | a command, a renewal task, two threads, two attempts to reacquire, two losses, a client that is dropped | 177 thousand | `TypeOK`, `OneRequestAtATime`, `SuccessWasApplied`, `CommandsReturn`, `DisconnectGoesOff`, `LostRenewalGoesOff` |
| `lifecycle` | two plugins on one port: startup, on-demand connect, probe, management, reconfiguration, suspension | 1.5 million | `TypeOK`, `OneInstance`, also in the middle of operations, `SuspendedStaysDetached` |
| `lifecycle_ports` | two plugins and two ports, which every apply and resume assigns anew | 4.8 million | `PortIsFreeToOpen` |
| `lung` | HUI starts and stops beside health checks, one abort, lost answers | 447 thousand | `TypeOK`, `SafeStopIsSafe`, `AbortIsReported`, `CallsAreAnswered` |
| `sources` | the pump and its three hosts, two forms, two files that are damaged or half written, crashes, a late start | 919 thousand | `TypeOK`, `DriversAreSelected`, `StopAsksTheDriver`, `ReplacesWhatWasSeen` |
| `adc` | two readers, an unplugged module | 24 thousand | `ReadsNeverOverlap`, `ExpiredFailsClosed`, `ValuesComeBack` |
| `scenario` | 13,249 documents: lists of two or three commands, then a second goal or after a CONFIG block | 900 thousand | `TypeOK`, `PassIsEarned`, `LaterGoalsRun` |
| `scenario_zero_reading` | the same documents | | `ReadingsAreReal` is violated, see below |

**Bounds.** Two clients give every pair of operations in every order, with one
holding the lock and one waiting. A client may come back any number of times. Two valves
tell "my valve" from "another's", two profiles tell the active hold from the one
being started, one pump level above zero tells on from off. `hui_stand` has one
valve because its property is about the pump, and everything else is at its
worst. Two goals, one with two steps, give a step within a goal, across goals
and at the end. The bridge bounds only faults (`MaxFaults`); its memory holds as many ids
as there are calls and is never full, so that what an evicted id allows is not seen; the
code's 256 ids are as good as that for any call still redelivered. In `M5Lease` two threads are
one that was abandoned and one that is waited for; `Attempts` (3 in the code) is 2, so that
the last attempt and a further one both occur; two losses (`MaxLost`) lose both posts of a
release, so that only the dead-man is left to de-energise. One client is built (`MaxBuilt`);
`M5Rebuilt.cfg` has one that health checks rebuild (339 thousand states, the same
properties), `M5TwoLoops.cfg` two renewal tasks and a rebuilt client (2.5 million, the safety
properties, which are proved besides). In `GatewayLifecycle` three operations of any kind,
two at a time (`MaxBegun`), give every overlap of two operations after any third;
`lifecycle_ports` has the on-demand connects and all that suspends or reconfigures, the rest is
in `lifecycle`. `ControlSources`
has one device in its run; `SourcesValves.cfg` adds valves, which may have two hosts at a time
and whose idle check skips one (2.4 million states, the same properties, no late start). It
bounds late commands (`MaxLate`) and saves (`MaxPuts`), `ArtificialLung` calls, lost answers
and aborts (`MaxCalls`, `MaxLost`, `Errors`). Sensor levels below, at and
above the bounds tell every comparison apart. Three commands are a bound, a reading and what
disturbs them; the second goal shows what survives the first.

**Fairness.** `HuiHold`: the lock is handed on, the holder's gateway calls return
(each transport has a timeout), time passes. Nothing forces a client to send
anything. `Orchestrator`: the event loop resumes a coroutine whose await is
over. `M5Lease`: tasks and timers wake up, sockets time out, the firmware's clock runs;
no request need be delivered. `ArtificialLung`: the loop and the HTTP timeouts, and the
lock is handed on. `UsbAdcCache`: readers keep polling, reads end, time passes; nothing
forces the module to be plugged in, and `ValuesComeBack` speaks of one that is.
`MqttBridge`: a due timer fires, an awaiting task resumes, paho keeps reconnecting, a
keepalive runs out. Nothing forces the agent to be started or a message to be delivered:
the timeout alone brings every call home.

**Refinement.** `ImplementsRemoteCall` is `Remote!Spec`, liveness included: every call
returns. The mapping forgets copies, queues, sessions and futures. A call's phase is its
`outcome`, where *waiting*, *resolved* and *expired* are all a call in progress, for the
coroutine has not resumed; `ran` counts the executions of the agent's present life. A lost
or doubled message is a stutter; a restart of the agent is `NewLife`, after which a call may
run once more. That is what the code gives: its memory of ids is in the process.

### Disagreements between the code and what it says

`scenario_zero_reading` is a run of its own: a sensor whose read failed is stored as 0
(`firmware_adapter.py:354`), and `SET; CHECK 'AI01' <= 1` passes without one successful
reading, while `_sensor_evaluator.py:68-70` says that "In execute mode a missing sensor
read must remain visible instead of silently becoming a mock value".

`LungTwoTexts` is a larger instance of `lung` without its liveness: two error texts, so
that the abort of a late command may replace the text of an earlier one (1.2 million
states). The proof of `AbortIsReported` asked for it, see section 4.

The following configurations are kept beside the runs. Each checks one property that a
comment, a docstring or a test of the repository states, and TLC finds a behaviour of
the code against it.

| Configuration, module | Property | Behaviour |
|---|---|---|
| `HuiShutdownDelayed`, `MCHuiHold` | `ShutdownCutsMinHoldShort` | start runs, stop and shutdown queue, start ends and clears the event (`hui_hold.py:680`): the stop waits out the minimum hold, the shutdown behind it; `tests/firmware/test_hui_actions.py:1040` expects it within a second |
| `HuiSafeReport`, `MCHuiHold` | `SafeMeansDeenergised` | two modules, one confirms (`plugin_gateway.py:1062`): "safe" with the other energised; `plugin_gateway.py:1010` says that neither may stay energised |
| `HuiStaleFallback`, `MCHuiHold` | `HoldDrivesItsRecipe` | a valve engaged through the fallback module survives an exact replace on the M5 module; `hui_hold.py:490` calls the replacement complete |
| `M5Rearm`, `MCM5Lease` | `RearmedWhenOff` | a renewal that only timed out takes the lease again with an output on; `m5_4in8out.py:543` says "The dead-man already forced every output off" |
| `M5TwoTasks`, `MCM5Lease` | `GivenUpGoesOff` | a second connect replaces the renewal task without cancelling it (`m5_4in8out.py:361`); the plugin's own task gives up, the other keeps the lease and the outputs alive, though every command is refused; line 575 logs "dead-man will force all-off" |
| `SuspendedReconnect`, `MCGatewayLifecycle` | `SuspendedIsUnreachable` | a connect that awaits its device while the plugin is suspended attaches it after the suspension has returned (`plugin_gateway.py:638`); the docstring at line 380 keeps it away |
| `GatewayStranded`, `MCGatewayLifecycle` | `OwnersAreDisconnected` | settings are applied to all plugins and reconnect some (`api/hardware_modbus_routes.py:99-105`), so one stays open on a port they no longer name; the next to be moved there finds it taken, though `plugin_gateway.py:294-296` says "Disconnect every active owner of the selected old/new ports" |
| `LungStaleError`, `MCArtificialLung` | `StaleErrorFailsNothing` | a motion error of an earlier run fails a good start when the first fetch was lost; `tests/firmware/test_lung_plugin_reciprocate.py:319` says it must not |
| `SourcesDamaged`, `MCControlSources` | `StopWhateverTheFiles` | `rig.oql` is emptied, removed or damaged and the JSON file is older or absent: the stop goes to a host that does not drive; `control_sources.py:279-280` says "A damaged settings file must never prevent a best-effort stop on either possible owner" |
| `ScenarioErrorAborts`, `MCScenario` | `ErrorAborts` | a SET after an ERROR of the same goal is sent; `docs/oql-spec.md:126` gives ERROR as "Przerwij z błędem", abort with an error |
| `MqttStatus`, `MCMqttBridge` | `StatusRecovers` | after one reconnect the retained status stays offline for ever, for only `start()` announces online (`mqtt_oql_bridge.py:328`) |

Two more configurations show what a property leaves out, against no firm statement of the
repository: `M5AbandonedWrite` (`ConfirmedOffIsFinal`), where a write given up by its timeout
energises outputs after a confirmed bulk-off, which `m5_4in8out.py:639` calls the "Safe
state"; and `LungLateMotion` (`SafeStopRests`), where a start's motor command whose answer was
lost is served after a stop has said safe, and the motor moves with the valve closed.

The models also contain these behaviours, which no line of the repository rules out
clearly enough to be called a disagreement, and which the properties above
therefore leave open by their instance or their wording:

- *Holds.* After a shutdown whose pump-off failed, the HUI is idle with the pump running,
  and the next start skips the pump-off as redundant (`PumpNeverRunsUnowned`
  excepts exactly that case). With unreadable control-source settings a shutdown raises
  after the pump command and before the valves. When the supply sags during a start, the
  exception of the replacement or of the pump command leaves the former hold active, with
  the pump off or the new hold's valves on (`hui_hold.py:587`, `:648`); `RecipeIsDriven`
  therefore assumes a steady supply.
- *Orchestrator.* Stop, pause and resume act on the one orchestrator whatever execution
  they name; a stop during a pause ends nothing until the resume; a second start
  revives an execution that was stopped (`History` starts the count anew with it). A
  request for a single step (`goals=[]`) runs the whole scenario.
- *Bridge.* Two overlapping calls with one correlation id share a future, and one of
  them gets the answer of the other (`AnswersOwnRequest` is checked for ids of
  one's own). A redelivered request runs again after a restart of the agent, and one that
  waited for the execution lock runs long after its caller was told that it timed out.
- *M5.* The renewal task that a second connect leaves behind could also keep the
  lease after a disconnect whose release was lost (`DisconnectGoesOff` is checked for
  one renewal task).
- *Plugin life.* `suspend_plugins` raises `KeyError` when a concurrent management
  disconnect deletes the registry's entry, and leaves the remaining plugins attached
  though suspended. A management connect leaks the instance it replaces; startup
  overwrites an instance that was connected earlier; a failed disconnect keeps the port.
- *Lung.* A start whose power check raises after the valve was opened leaves it open
  (`hui_artificial_lung.py:81`). A valve that was not confirmed open is not closed again.
  A lost answer to the motor command closes the valve while the motor may move. A fetch
  in progress stores a status from before an abort after the invalidation. An
  emergency shutdown never stops the lung.
- *Control sources.* When the JSON file cannot be written after `rig.oql` was, the save
  answers 503 though the switch is in force, and the JSON file is older from then on: it is
  what stands in for a `rig.oql` that is damaged later (`SourcesDamaged.cfg`). An emptied
  `rig.oql` silently means defaults, and has the revision of no file at all.
- *Sensor cache.* The cooldown counts from the start of the read, so that a read that
  used up its timeout leaves none; a sampler that already sleeps ignores a cooldown set
  meanwhile.
- *Interpreter.* A rejected SET followed by GOTO leaves the step "skipped" and the run ok.
  A bound declared after the reading is looked at only when something reads again, and
  `VAL`/`GET` return a cached first reading until a `CHECK` or `IF` refreshes it. A
  condition marks a bound as judged without comparing it. An analog input nobody read is
  saved, and judged, as 0.0; a range or OR condition takes 0 for a sensor nobody read.
  `FAIL ... GOTO` jumps whatever happened (`docs/oql-spec.md:385` has it jump on
  failure), `FAIL ... RETRY` makes every goal an error, for there is no such action.
  A nested REPEAT is flattened and its inner loop is empty; a WARNING inside a loop ends the
  loop, and the step passes.

## 4. Proofs

TLAPS checks the theorems below for every value of the constants that satisfies the named
assumption of the module (`GatewayAssumption`, `M5Assumption` and so on, which TLC
evaluates on every run). Every safety property that a passing run checks is the subject of a
theorem. Each proof has the usual three parts: an inductive
invariant holds initially, every action keeps it (one step per action, one below it for
each conjunct the action can disturb), and it implies the property. The inductive
invariant and why it is needed:

**HuiHold.** `TypeCorrect` has to carry along that the exact and engage steps belong to a
start with a key (`StepsOfStart`), since they index the profiles by the holder's key.

- `PumpOwned` (`PumpNeverRunsUnowned`): `PumpInv` says that an unowned pump runs only where
  its pump-off is the next thing sent. It holds for any modules and any failures.
- `SafeOnOneController` (`SafeMeansDeenergised`): with a single controller and no valve
  keys. `SafeInv` follows the shutdown routine: after a confirmed pump-off the pump stays
  off, and while the single valve-offs succeed only the valves still to do are on. With
  two controllers the property is false, as `HuiSafeReport.cfg` shows.
- `InterruptCaused` (`InterruptHasCause`): without undervoltage and damage of the settings,
  for an exception in a start skips the line that clears the event.
- `RecipeIsDriven` (`HoldDrivesItsRecipe`): with the M5 module alone, no valve keys, a steady
  supply and readable settings. The readiness probe of a start then leads to the exact
  replace or ends the start before the hardware is touched, and a start that touched the
  hardware completes or runs the cleanup, which forgets the hold first (`RecipeInv`).
  Without the assumptions on supply and modules it is false: see section 3 and
  `HuiStaleFallback.cfg`.

**GatewayLifecycle** (any number of tasks and plugins, any ports).

- `TypeCorrect` needs `WorkInv`: what each awaiting task works on, that both maps name
  instances of their plugin, and that each lock is held by the task that stands in what
  it protects.
- `NoSecondInstance` (`OneInstance`): `ExclInv` says that two operations which meet on a plugin
  that is not `loose` do not disturb one another; `MapInv` then says that maps, open
  instances and awaiting tasks all mean the same instance, and that one which is being
  closed is already off the fast path. `Effects` summarises what a step may do to maps and
  ports, so that these invariants are shown once per effect and not once per action.
- `SuspendedKeepsOff` (`SuspendedStaysDetached`): a suspended plugin is registered only while
  the holder of the lock has it still to drop, or is resuming it (`Pending`).
- `FreePortIsOpened` (`PortIsFreeToOpen`), for ports that every reconfiguration may change:
  while the plugins of `Group` are taken down, one that is open is still to come, and when
  the first is opened only the holder's own instances are open (`Free`). It speaks of the plugins
  whose settings name one of the ports before or after, which is whom the code looks up; the
  one it misses is `GatewayStranded.cfg`.

**M5Lease** (any callers, threads, losses and rebuilt clients).

- `TypeCorrect` and `OneRequest` (`OneRequestAtATime`): `CallInv` says who waits for the lock,
  that the call under way is the holder's, and that a thread somebody waits for does what
  its caller stands at; an abandoned thread belongs to nobody.
- `DoneWasApplied` (`SuccessWasApplied`): only the answer "ok" to the command's own request is
  reported as done, and the firmware gives it after applying.

**ArtificialLung** (any callers, health checks, error texts, losses).

- `TypeCorrect`: both lock queues hold exactly those whose read or motor command has begun
  and not ended (`RunInv`).
- `SafeStaysSafe` (`SafeStopIsSafe`): while stops that no start has overlapped go on, and after
  one reported safe, no start is about, and what else may move the motor is a command of an
  earlier start that was given up on (`StopInv`). Stops begun while such a command is pending
  are included: the valve is closed, and the motor moves only if that command is served.
- `AbortsAreReported` (`AbortIsReported`): from the abort until the second status is served the
  text of the abort is the last error, and then what that status shows (`AbortOf`). The
  proof did not go through for the property as it stood first: a command served late may
  abort as well and replace the text before the second fetch. The property now counts
  that start as one that cannot tell (`blind`), and `LungTwoTexts.cfg` has the case.

**ControlSources** (any callers, forms and devices).

- `TypeCorrect`: the lock's queue holds each of those that wait or act, once (`LockInv`).
- `SelectedAlone` (`DriversAreSelected`), `StopReachesTheDriver` (`StopAsksTheDriver`),
  `ChangesAreOfWhatWasSeen` (`ReplacesWhatWasSeen`, an action property): what the holder of the
  lock has read of the settings stays true until it leaves, or the settings are
  unreadable for good (`Follows`, `Compared`), and a stop that is under way has all that
  drive the device before it (`Asks`). Crashes between the two files and damage to either
  are steps of `Spec`; what they except is a device that damage to `rig.oql` has handed to
  another host (`moved`), from that moment on.

**Orchestrator** (any goals, any number of executions).

- `TypeCorrect` and `IndexIsLive` (`CurrentIndexIsLive`): the books of one execution (`Walks`),
  and, unless executions overlapped, that it is alone and the shared counter is its own
  (`Alone`). That the numbers of steps before a goal add up is an induction over the goals.
- `StopTakesEffect` (`AtMostOneCommandAfterStop`), `PauseTakesEffect`
  (`AtMostOneCommandWhilePaused`): an execution that has sent a command since the request stands
  behind the check of the flag (`StopInv`, `PauseInv`). They hold however many executions
  share the flags.

**MqttBridge.** `TypeCorrect` and `StatusIsNotStale` (`NoStaleOnline`) hold for any ids.

- `WaitersCanBeMatched` (`WaitingIsRegistered`) and `AnswersAreOwn` (`AnswersOwnRequest`) assume
  `OwnIds`: callers with correlation ids of their own, which `execute` draws when the caller
  names none. Two calls with one id do get one another's answers (section 3).
- `BridgeImplementsRemoteCall` is the safety part of `ImplementsRemoteCall`: initial states map
  to initial states, and every step to a step of `RemoteCall` or to a stutter. It also
  assumes `MemoryIsLarge`: the agent's memory holds every id there is, as otherwise a
  redelivered request runs twice in one life. `OnceInv` carries that what runs, waits or ran
  is in `seen`.
- `CallsRunAtMostOnce` says, under the same assumptions, what a caller has of the refinement.
  No life of the agent runs a call twice, nothing runs that nobody called, and an answered
  call has run. It follows from `RemoteCall`'s steps alone (`RemotePromises`).

**Scenario** (any documents, sensors and readings; in `SensorProofs`).

- `TypeCorrect` (`TypeOK`): `DataInv` has the types. That lowering yields instructions and
  nothing else (`LowerType`, `RuntimeType`, `OrderedType`) rests on `FlattenSeqType`: the
  flattening of sequences over a set is a sequence over that set, for which
  `FlattensExist` first shows that the library's recursive function is one. `PlaceInv`
  has the position: outside every loop, or in the body of the loop under way, which ends at
  the first `endloop`. Every action moves it the same few ways (`Moved`), so the cases are
  gone through once (`RunStepMoves`).
- `PassesAreEarned` (`PassIsEarned`): `PassInv` says that every miss is an error of the run,
  whatever a later GOTO does to the status of the step, and that at the end of a goal each
  bound was judged, is still to be, or failed the run.
- `GoalsAreRun` (`LaterGoalsRun`): `SentInv` says that every command the goal has passed
  (`Reached`) and that was due (outside loops, behind no GOTO and no ERROR) was sent, and
  that the skip flag stems from a GOTO that lies before the next action (`Behind`), or, in a loop, before the end of its body. The loop
  is why the place is part of the invariant: a GOTO in a body skips what stands before it
  on the next round, and all of that is in a loop.

The assumption is that a document is a sequence of blocks of commands and that `None` is
no number. It also says that 0 is a level, for that is what a failed read leaves.

**UsbAdcCache** (any readers, samplers and intervals; in `SensorProofs`). The type is a lemma there.

- `OneReadAtATime` (`ReadsNeverOverlap`): the task in the module's table is the only sampler
  alive, and whoever waits does so for a read in progress (`SamplerInv`, `WaitInv`).
- `NothingExpired` (`ExpiredFailsClosed`).

The library states induction for predicates, which none of the provers here can
instantiate. Where a proof needs it, over goals, the preference order of plugins or the
lines of a document,
`LeastElement` takes the minimal element of a set of naturals from the well-foundedness of
`<`, and `SetInduction` says that a set with 0 and all successors is `Nat`.

**Only model-checked.** All liveness (`RequestsComplete`, `EndsUnlessPaused`,
`CommandsReturn`, `DisconnectGoesOff`, `LostRenewalGoesOff`, `CallsAreAnswered`,
`ValuesComeBack`) and the fairness half of
`ImplementsRemoteCall`: temporal reasoning under fairness needs ENABLED, which is beyond the
prover. What lowering yields for a given document is checked only through what `Scenario`
does with it; proved is that it yields instructions.

**What the proofs changed in the models.** `TypeOK` of `Orchestrator` bounds the shared
counter only while executions have not overlapped, for with more of them it counts past
the steps of one scenario; `LifecycleAssumption` says that the connect order names each plugin once, as that
of a registry keyed by name does; `OneInstance` holds at every await and no longer only
between operations; `M5Lease` removes a cancelled waiter from the queue by its place. `Scenario`
says what a document is (`Command`, `Block`) and what it is lowered to (`Instruction`), takes the blocks
of one type by `FlattenSeq`, which can be reasoned about, and lets a document without a goal end at
once: before, `Init` had a position in a goal that is not there. The definitions of `UsbAdcCache`
carry its name (`CacheInit`, `CacheSpec`), so that one proof module can extend both.

## 5. Plan

Every safety property of a passing run is proved; what TLC alone shows is listed in section 4. The
seven hazards without a property in `PROJECT.json` say why. No module declares a RECURSIVE
operator. Next would be models of the components in section 6, the parser's block structure
first, for `Scenario` begins with its result.

## 6. Not modelled

- The parser: it turns text into commands and keeps no state; `Scenario` begins with its
  commands, a line it drops included. Dry runs, delta conditions, FUNC, ASSERT, API and
  shell steps, macros (counted as expanded).
- Serial and bus protocols appear as commands that succeed, fail, or fail after having
  been applied. Routing, panel, command line tools, file conversion and the texts of
  reports keep no interacting state.
- Power safety is the *raise* outcome of the gateway; its sample cache feeds displays. Event
  queues drop their oldest entry and command nothing. The event store runs on one thread
  of control.
- The service tools (Modbus wizard, diagnosis, management verbs) run on an idle stand.
  Motor2 planning is floating-point arithmetic.
- Of the lung: rearm, stroke sequences, moves and the start without a valve.
- In `HuiHold` a failed write takes effect at once or never; the one that arrives after
  the cleanup is in `M5Lease` (`M5AbandonedWrite.cfg`).

## 7. Running

    tlc -workers 2 -config HuiHoldExact.cfg MCHuiHold.tla
    tlapm HuiHoldProofs.tla

Each of the eight proof modules is checked by itself and takes a few minutes at most. The
configuration of a run is named in `PROJECT.json`; its module is the `MC` module of the
component. The longest runs take about two and a half minutes. `hui_stand`, `lifecycle`,
`lifecycle_ports` and `sources` use the symmetry of
clients, tasks, ports and editors, and check no liveness. `Scenario.cfg` and
`ScenarioZeroReading.cfg` do not check for deadlock, because a run of a scenario ends.
