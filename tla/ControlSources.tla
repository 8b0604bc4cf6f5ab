---------------------------- MODULE ControlSources ----------------------------
(***************************************************************************)
(* Which controller drives the pump, the stepper and the valves            *)
(* (hardware/control_sources.py, api/control_source_routes.py).            *)
(*                                                                         *)
(* The selection lives in two files: rig.oql, which wins when it can be    *)
(* read, and control-sources.json, which stands in for it when it cannot.  *)
(* A command looks it up under LOCK.  A form changes it under LOCK too,    *)
(* when nobody changed it meanwhile and the controller a device is taken   *)
(* from is idle, and writes one file after the other.  Valves on "auto"    *)
(* have two controllers, tried in turn.                                    *)
(*                                                                         *)
(* The controllers are external: a request is served, refused, or given up *)
(* on, and then served at once, later or never.  Each controller drives a  *)
(* device or does not.                                                     *)
(***************************************************************************)
EXTENDS Naturals, Sequences, FiniteSets

CONSTANTS
    Callers,    \* callers of commands
    Editors,    \* users of the settings form
    Allowed,    \* validate: the selections allowed for each device
    Defaults,   \* DEFAULTS
    MaxLate,    \* bound on the starts that may still be served
    MaxPuts,    \* bound on the forms sent
    Absent,     \* a file that is not there
    Emptied,    \* a rig.oql without a byte in it
    Refused,    \* a rig.oql with a value that validate refuses
    Garbled,    \* a rig.oql that is not text
    Broken,     \* a JSON file that cannot be read
    None

Devices == DOMAIN Allowed
Contents == {s \in [Devices -> UNION {Allowed[d] : d \in Devices}] :
                \A d \in Devices : s[d] \in Allowed[d]}
Hosts == {"boardnet", "stacknet", "displaynet"}

ASSUME SourcesAssumption ==
    /\ Defaults \in Contents
    /\ Devices \subseteq {"pump", "stepper", "valves"}
    /\ \A d \in Devices : Allowed[d] \subseteq Hosts \cup {"auto"}
    /\ \A d \in Devices : "auto" \in Allowed[d] => d = "valves"
    /\ {Absent, Emptied, Refused, Garbled, Broken} \cap Contents = {}
    /\ Absent \notin {Emptied, Refused, Garbled, Broken}
    /\ Emptied \notin {Refused, Garbled}
    /\ MaxLate \in Nat /\ MaxPuts \in Nat
    /\ Callers \cap Editors = {} /\ None \notin Callers \cup Editors

Users == Callers \cup Editors

\* The controllers of a selection, the preferred one first.
InTurn(selection) ==
    IF selection = "auto" THEN <<"stacknet", "boardnet">> ELSE <<selection>>
HostsOf(selection) == {InTurn(selection)[i] : i \in DOMAIN InTurn(selection)}

VARIABLES
    rig,        \* rig.oql: absent, damaged, or its selection
    json,       \* control-sources.json: absent, broken, or its selection
    driving,    \* the controllers that drive each device
    late,       \* starts given up on that a controller may still serve
    lock,       \* LOCK: FIFO, the holder first
    pc,         \* where each user is
    job,        \* the command, its device, the controllers it is for
    form,       \* the snapshot each user has on the screen
    wanted,     \* the selection a user sends with its revision
    todo,       \* devices whose controller is still to be found idle
    puts,       \* forms sent so far
    strays,     \* history: controllers that drive a device unasked: started
                \* late, or skipped as disconnected by the idle check
    moved       \* history: devices that damage to rig.oql gave to another
                \* controller

fileVars == <<rig, json>>
hostVars == <<driving, late>>
callVars == <<lock, pc, job>>
formVars == <<form, wanted, todo, puts>>
history == <<strays, moved>>
vars == <<fileVars, hostVars, callVars, formVars, history>>

NoJob == [command |-> "none", device |-> None, turn |-> <<>>]
NoForm == [file |-> "none", sources |-> None]

Init ==
    /\ rig \in {Absent, Defaults} /\ json = Absent
    /\ driving = [d \in Devices |-> {}] /\ late = {}
    /\ lock = <<>>
    /\ pc = [u \in Users |-> "idle"]
    /\ job = [u \in Callers |-> NoJob]
    /\ form = [u \in Editors |-> NoForm]
    /\ wanted = [u \in Editors |-> Defaults]
    /\ todo = [u \in Editors |-> {}]
    /\ puts = 0
    /\ strays = [d \in Devices |-> {}] /\ moved = {}

-----------------------------------------------------------------------------
(* snapshot and save.                                                      *)

\* snapshot: each key that rig.oql does not set has its default, so an empty
\* rig.oql is a selection of defaults, where an empty JSON file is an error.
\* A rig.oql that cannot be read, or holds a value that is refused, is passed
\* over.  The revision is told apart by the file and its content: an empty
\* rig.oql has that of no file at all.
RigHolds == rig \in Contents \cup {Emptied}
Readable == RigHolds \/ json # Broken
Snapshot ==
    CASE rig \in Contents -> [file |-> "rig", sources |-> rig]
      [] ~RigHolds /\ json \in Contents -> [file |-> "json", sources |-> json]
      [] rig = Emptied \/ (~RigHolds /\ json = Absent)
            -> [file |-> "nothing", sources |-> Defaults]

Selected(d) == Snapshot.sources[d]

-----------------------------------------------------------------------------
(* motor_command, and the routing of a valve command.                      *)

Holds(u) == lock # <<>> /\ Head(lock) = u

Queue(u) == lock' = Append(lock, u)

Call(u, c, d) ==
    /\ pc[u] = "idle"
    /\ pc' = [pc EXCEPT ![u] = "queued"]
    /\ job' = [job EXCEPT ![u] = [command |-> c, device |-> d, turn |-> <<>>]]
    /\ Queue(u)
    /\ UNCHANGED <<fileVars, hostVars, formVars, history>>

\* Mutant: a command that is over keeps its place.
ReleaseNothing(u) ==
    /\ pc' = [pc EXCEPT ![u] = "idle"]
    /\ UNCHANGED lock

Release(u) ==
    /\ pc' = [pc EXCEPT ![u] = "idle"]
    /\ lock' = Tail(lock)

CallEnds(u) ==
    /\ Release(u)
    /\ job' = [job EXCEPT ![u] = NoJob]

\* Mutant: settings that cannot be read stand for the defaults.
ResolveDefaults(u) ==
    /\ pc[u] = "queued" /\ Holds(u)
    /\ pc' = [pc EXCEPT ![u] = "calling"]
    /\ job' = [job EXCEPT ![u].turn =
          InTurn(IF Readable THEN Selected(job[u].device)
                             ELSE Defaults[job[u].device])]
    /\ UNCHANGED <<lock, fileVars, hostVars, formVars, history>>

\* A stop of a motor is sent everywhere when the settings cannot be read;
\* any other command fails.
Resolve(u) ==
    /\ pc[u] = "queued" /\ Holds(u)
    /\ IF Readable
       THEN /\ pc' = [pc EXCEPT ![u] = "calling"]
            /\ job' = [job EXCEPT ![u].turn = InTurn(Selected(job[u].device))]
            /\ UNCHANGED lock
       ELSE IF job[u].command = "stop" /\ job[u].device # "valves"
       THEN /\ pc' = [pc EXCEPT ![u] = "fanning"]
            /\ UNCHANGED <<job, lock>>
       ELSE CallEnds(u)
    /\ UNCHANGED <<fileVars, hostVars, formVars, history>>

\* Controller h does the command: from now on it drives the device, or not.
Served(c, d, h) ==
    /\ driving' = [driving EXCEPT ![d] = IF c = "start" THEN @ \cup {h}
                                                        ELSE @ \ {h}]
    /\ strays' = [strays EXCEPT ![d] = @ \ {h}]

\* The command is confirmed.
Confirmed(u) ==
    /\ pc[u] = "calling"
    /\ Served(job[u].command, job[u].device, Head(job[u].turn))
    /\ CallEnds(u)
    /\ UNCHANGED <<fileVars, late, formVars, moved>>

\* It is not: a valve command goes on with the next controller, if there is
\* one.  The controller may have served it all the same, or a start later.
Unconfirmed(u) ==
    /\ pc[u] = "calling"
    /\ LET c == job[u].command
           d == job[u].device
           h == Head(job[u].turn)
       IN  \/ Served(c, d, h) /\ UNCHANGED late
           \/ UNCHANGED <<driving, late, strays>>
           \/ /\ c = "start" /\ Cardinality(late) < MaxLate
              /\ late' = late \cup {<<d, h>>}
              /\ UNCHANGED <<driving, strays>>
    /\ IF Len(job[u].turn) > 1
       THEN job' = [job EXCEPT ![u].turn = Tail(@)] /\ UNCHANGED <<pc, lock>>
       ELSE CallEnds(u)
    /\ UNCHANGED <<fileVars, formVars, moved>>

\* The stops of the fan-out run together; some may not be served.
FannedOut(u) ==
    /\ pc[u] = "fanning"
    /\ \E stopped \in SUBSET Hosts :
          /\ driving' = [driving EXCEPT ![job[u].device] = @ \ stopped]
          /\ strays' = [strays EXCEPT ![job[u].device] = @ \ stopped]
    /\ CallEnds(u)
    /\ UNCHANGED <<fileVars, late, formVars, moved>>

LateStart(d, h) ==
    /\ <<d, h>> \in late
    /\ late' = late \ {<<d, h>>}
    /\ driving' = [driving EXCEPT ![d] = @ \cup {h}]
    /\ strays' = [strays EXCEPT ![d] = @ \cup {h}]
    /\ UNCHANGED <<fileVars, callVars, formVars, moved>>

-----------------------------------------------------------------------------
(* The settings form: GET, and PUT with the revision it was given.         *)

Load(u) ==
    /\ pc[u] = "idle" /\ lock = <<>> /\ Readable
    /\ form[u] # Snapshot
    /\ form' = [form EXCEPT ![u] = Snapshot]
    /\ UNCHANGED <<fileVars, hostVars, callVars, wanted, todo, puts, history>>

Put(u, selection) ==
    /\ pc[u] = "idle" /\ form[u] # NoForm /\ puts < MaxPuts
    /\ puts' = puts + 1
    /\ pc' = [pc EXCEPT ![u] = "putting"]
    /\ wanted' = [wanted EXCEPT ![u] = selection]
    /\ Queue(u)
    /\ UNCHANGED <<fileVars, hostVars, job, form, todo, history>>

\* The form is answered, and shows nothing until it is loaded again.
PutEnds(u) ==
    /\ Release(u)
    /\ UNCHANGED job
    /\ form' = [form EXCEPT ![u] = NoForm]
    /\ wanted' = [wanted EXCEPT ![u] = Defaults]
    /\ todo' = [todo EXCEPT ![u] = {}]

\* Mutant: the revision is not looked at.
CompareNothing(u) ==
    /\ pc[u] = "putting" /\ Holds(u)
    /\ IF Readable /\ wanted[u] # Snapshot.sources
       THEN /\ pc' = [pc EXCEPT ![u] = "checking"]
            /\ todo' = [todo EXCEPT ![u] =
                  {d \in Devices : wanted[u][d] # Selected(d)}]
            /\ UNCHANGED <<lock, job, form, wanted>>
       ELSE PutEnds(u)
    /\ UNCHANGED <<fileVars, hostVars, puts, history>>

\* Refused when the settings cannot be read or are others than the form's;
\* nothing to do when they are what is wanted.
Compare(u) ==
    /\ pc[u] = "putting" /\ Holds(u)
    /\ IF Readable /\ form[u] = Snapshot /\ wanted[u] # form[u].sources
       THEN /\ pc' = [pc EXCEPT ![u] = "checking"]
            /\ todo' = [todo EXCEPT ![u] =
                  {d \in Devices : wanted[u][d] # Selected(d)}]
            /\ UNCHANGED <<lock, job, form, wanted>>
       ELSE PutEnds(u)
    /\ UNCHANGED <<fileVars, hostVars, puts, history>>

\* Mutant: the controller a device goes to is checked.
OwnersOfWanted(u, d) == HostsOf(wanted[u][d])

\* ensure_idle looks at the controller a device is taken from.
Owners(u, d) == HostsOf(form[u].sources[d])

\* A motor's controller must answer that it is idle; of the valves'
\* controllers the disconnected ones are skipped, as long as one answers.
CheckIdle(u, d) ==
    /\ pc[u] = "checking" /\ d \in todo[u]
    /\ \E skipped \in SUBSET Owners(u, d) :
          /\ d # "valves" => skipped = {}
          /\ skipped # Owners(u, d)
          /\ driving[d] \cap (Owners(u, d) \ skipped) = {}
          /\ strays' = [strays EXCEPT ![d] = @ \cup (driving[d] \cap skipped)]
    /\ todo' = [todo EXCEPT ![u] = @ \ {d}]
    /\ UNCHANGED <<fileVars, hostVars, callVars, form, wanted, puts, moved>>

\* A device is in use, a controller does not answer, or a file is not written.
PutFails(u) ==
    /\ pc[u] \in {"checking", "saving"}
    /\ PutEnds(u)
    /\ UNCHANGED <<fileVars, hostVars, puts, history>>

\* save replaces rig.oql first, when there is one; it reads it for that, and
\* goes no further when it is not text.
SaveRig(u) ==
    /\ pc[u] = "checking" /\ todo[u] = {} /\ rig # Garbled
    /\ rig' = IF rig = Absent THEN Absent ELSE wanted[u]
    /\ pc' = [pc EXCEPT ![u] = "saving"]
    /\ UNCHANGED <<json, hostVars, lock, job, formVars, history>>

\* Then the JSON file.
SaveJson(u) ==
    /\ pc[u] = "saving"
    /\ json' = wanted[u]
    /\ PutEnds(u)
    /\ UNCHANGED <<rig, hostVars, puts, history>>

-----------------------------------------------------------------------------
(* The files and the process.                                              *)

\* rig.oql, which the program itself only ever replaces whole, is removed or
\* damaged by someone else.
DamageRig ==
    /\ RigHolds
    /\ rig' \in {Absent, Emptied, Refused, Garbled} \ {rig}
    /\ UNCHANGED <<json, hostVars, callVars, formVars, strays>>
    /\ moved' = moved \cup
          {d \in Devices : Readable' /\ Selected(d)' # Selected(d)}

DamageJson ==
    /\ json \in Contents
    /\ json' = Broken
    /\ UNCHANGED <<rig, hostVars, callVars, formVars, history>>

\* The process restarts: the controllers and the files stay as they are, and
\* so do the forms on the screens; a start on its way may still be served.
Crash ==
    /\ lock # <<>>
    /\ lock' = <<>>
    /\ pc' = [u \in Users |-> "idle"]
    /\ job' = [u \in Callers |-> NoJob]
    /\ wanted' = [u \in Editors |-> Defaults]
    /\ todo' = [u \in Editors |-> {}]
    /\ late' \in {late} \cup
          {late \cup {<<job[u].device, Head(job[u].turn)>>} :
              u \in {v \in Callers : /\ pc[v] = "calling"
                                    /\ job[v].command = "start"
                                    /\ Cardinality(late) < MaxLate}}
    /\ UNCHANGED <<fileVars, driving, form, puts, history>>

-----------------------------------------------------------------------------
Command(u) ==
    \/ \E c \in {"start", "stop"}, d \in Devices : Call(u, c, d)
    \/ Resolve(u) \/ Confirmed(u) \/ Unconfirmed(u) \/ FannedOut(u)

Update(u) ==
    \/ Load(u)
    \/ \E selection \in Contents : Put(u, selection)
    \/ Compare(u) \/ PutFails(u) \/ SaveRig(u) \/ SaveJson(u)
    \/ \E d \in Devices : CheckIdle(u, d)

Next ==
    \/ \E u \in Callers : Command(u)
    \/ \E u \in Editors : Update(u)
    \/ \E d \in Devices, h \in Hosts : LateStart(d, h)
    \/ DamageRig \/ DamageJson \/ Crash

Spec == Init /\ [][Next]_vars

-----------------------------------------------------------------------------
\* Every variable keeps its type, and LOCK is held or awaited exactly by the
\* users in a command or a change of the settings.
TypeOK ==
    /\ rig \in {Absent, Emptied, Refused, Garbled} \cup Contents
    /\ json \in {Absent, Broken} \cup Contents
    /\ driving \in [Devices -> SUBSET Hosts]
    /\ strays \in [Devices -> SUBSET Hosts] /\ moved \subseteq Devices
    /\ late \subseteq Devices \X Hosts /\ puts \in 0..MaxPuts
    /\ pc \in [Users -> {"idle", "queued", "calling", "fanning", "putting",
                        "checking", "saving"}]
    /\ wanted \in [Editors -> Contents] /\ todo \in [Editors -> SUBSET Devices]
    /\ \A u \in Users :
          Cardinality({i \in DOMAIN lock : lock[i] = u})
              = IF pc[u] = "idle" THEN 0 ELSE 1
    /\ \A u \in Users : pc[u] \in {"calling", "fanning", "checking", "saving"}
                            => Holds(u)

\* A controller that drives a device is one the settings select for it, across
\* changes of the settings, half written ones, restarts and damage to either
\* file, unless it was skipped as disconnected or served a start its caller had
\* given up on.  Left out are the devices that damage to rig.oql itself gave to
\* another controller, the JSON file being older or absent
\* (SourcesDamaged.cfg).
DriversAreSelected ==
    Readable => \A d \in Devices \ moved :
                    driving[d] \subseteq HostsOf(Selected(d)) \cup strays[d]

\* The controllers a stop of a motor is sent to are all that drive it.
Reaches(u) ==
    driving[job[u].device] \subseteq {job[u].turn[i] : i \in DOMAIN job[u].turn}
                                      \cup strays[job[u].device]

\* The stop of a motor is sent to the controller driving it, also when the
\* settings were changed since it was started, or damaged in a way that selects
\* what was selected.
StopAsksTheDriver ==
    \A u \in Callers :
        pc[u] = "calling" /\ job[u].command = "stop"
            /\ job[u].device \notin {"valves"} \cup moved => Reaches(u)

\* A change of the settings replaces what its form was showing, whatever was
\* saved, damaged or restarted since: of two forms that were loaded together
\* the second is refused.
ReplacesWhatWasSeen ==
    [][\A u \in Editors :
          pc[u] = "checking" /\ pc'[u] = "saving" /\ Readable
              => \A d \in Devices \ moved : Selected(d) = form[u].sources[d]]_vars

\* "A damaged settings file must never prevent a best-effort stop on either
\* possible owner" (motor_command): the same whatever damage there was.
StopWhateverTheFiles ==
    \A u \in Callers :
        pc[u] = "calling" /\ job[u].command = "stop" /\ job[u].device # "valves"
            => Reaches(u)
=============================================================================
