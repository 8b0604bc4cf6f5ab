---------------------------- MODULE ArtificialLung ----------------------------
(***************************************************************************)
(* The artificial lung (hardware/hui_artificial_lung.py over               *)
(* hardware/plugins/lung.py): a start opens the lung valve and makes the   *)
(* Tic249 reciprocate, a stop closes the valve while a task of its own     *)
(* stops the motor.  Neither takes a lock; every motor command runs under  *)
(* control_sources.LOCK.                                                   *)
(*                                                                         *)
(* A start reads the sidecar's status before and after its command: the    *)
(* sidecar accepts the command first and may abort it later, and only the  *)
(* text of its last error tells the two apart.  The plugin caches that     *)
(* status, shared with health checks that do not take LOCK.                *)
(*                                                                         *)
(* The sidecar and the valve are external.  A status is the text of the    *)
(* last motion error, or Bad: a failure or a state that blocks motion.     *)
(***************************************************************************)
EXTENDS Naturals, Sequences

CONSTANTS
    Users,          \* callers of start and stop
    Probers,        \* health checks
    Errors,         \* texts of motion errors
    Quiet,          \* no motion error
    Bad,            \* a status that blocks motion
    Unread,         \* a status that could not be read, or is not cached
    Nobody,         \* the owner of a motion whose caller gave up
    None,
    StopAtLimit,    \* the motor policy: stop at a limit switch
    Deenergize,     \* the motor policy: release the coils after a stop
    MaxCalls,       \* bound on the starts and stops
    MaxLost         \* bound on lost answers of the sidecar

Markers == {Quiet, Bad, Unread, Nobody, None}
ASSUME LungAssumption ==
    /\ StopAtLimit \in BOOLEAN /\ Deenergize \in BOOLEAN
    /\ MaxCalls \in Nat /\ MaxLost \in Nat
    /\ Bad # Unread /\ Quiet \notin {Bad, Unread} /\ Nobody # None
    /\ Users \cap Probers = {}
    /\ (Users \cup Probers \cup Errors) \cap Markers = {}

Readers == Users \cup Probers
Texts == Errors \cup {Quiet}

VARIABLES
    valve,      \* the lung valve is open
    motion,     \* sidecar: whose command moves the motor, or None
    error,      \* sidecar: last_motion_error
    late,       \* a motion command given up on that the sidecar may still do
    cache,      \* _runtime_status_cache, Unread when empty or expired
    statusLock, \* _runtime_status_lock: FIFO, the holder first
    read,       \* the status read of each reader
    seen,       \* what it returned
    pc,         \* where each call is
    motorLock,  \* control_sources.LOCK: FIFO, the holder first
    leg,        \* the motor part of each call
    previous,   \* previous_motion_error of each start
    motorOk,    \* what the motor part of each call came to
    valveOk,    \* a stop's valve: yes, skipped or no
    calls, lost,
    aborted,    \* history: the text with which a start's own motion aborted
                \* before its second status was served
    blind,      \* history: starts whose second status was lost, or was read
                \* while another read was under way, or shows a later abort
                \* than their own
    alone,      \* history: stops no start has overlapped
    safeSince   \* history: such a stop said safe and no start was begun since

deviceVars == <<valve, motion, error, late>>
readVars == <<cache, statusLock, read, seen>>
callVars == <<pc, motorLock, leg, previous, motorOk, valveOk>>
historyVars == <<aborted, blind, alone, safeSince>>
vars == <<deviceVars, readVars, callVars, calls, lost, historyVars>>

Init ==
    /\ valve = FALSE /\ motion = None /\ error \in Texts /\ late = FALSE
    /\ cache = Unread /\ statusLock = <<>>
    /\ read = [r \in Readers |-> "none"]
    /\ seen = [r \in Readers |-> Unread]
    /\ pc = [u \in Users |-> "idle"]
    /\ motorLock = <<>>
    /\ leg = [u \in Users |-> "none"]
    /\ previous = [u \in Users |-> Quiet]
    /\ motorOk = [u \in Users |-> "no"]
    /\ valveOk = [u \in Users |-> "no"]
    /\ calls = 0 /\ lost = 0
    /\ aborted = [u \in Users |-> None]
    /\ blind = {} /\ alone = {} /\ safeSince = FALSE

StartSteps == {"opening", "powered", "motor", "closing"}
Starting(u) == pc[u] \in StartSteps

-----------------------------------------------------------------------------
(* _runtime_status: the cache, then one fetch at a time.                   *)

\* Reader r enters with cache c: a fresh status is returned at once.
ReadWith(r, c) ==
    IF c # Unread
    THEN /\ read' = [read EXCEPT ![r] = "got"]
         /\ seen' = [seen EXCEPT ![r] = c]
         /\ UNCHANGED statusLock
    ELSE /\ read' = [read EXCEPT ![r] = IF statusLock = <<>> THEN "fetching"
                                                             ELSE "waiting"]
         /\ statusLock' = Append(statusLock, r)
         /\ UNCHANGED seen

\* The lock is free: the cache is looked at again before the fetch.
Wake(r) ==
    /\ read[r] = "waiting" /\ Head(statusLock) = r
    /\ IF cache # Unread
       THEN /\ read' = [read EXCEPT ![r] = "got"]
            /\ seen' = [seen EXCEPT ![r] = cache]
            /\ statusLock' = Tail(statusLock)
       ELSE /\ read' = [read EXCEPT ![r] = "fetching"]
            /\ UNCHANGED <<seen, statusLock>>
    /\ UNCHANGED <<deviceVars, cache, callVars, calls, lost, historyVars>>

\* The sidecar answers with what it knows now.
Serve(r) ==
    /\ read[r] = "fetching"
    /\ read' = [read EXCEPT ![r] = "served"]
    /\ seen' \in {[seen EXCEPT ![r] = s] : s \in {error, Bad}}
    /\ UNCHANGED <<deviceVars, cache, statusLock, callVars, calls, lost,
                   historyVars>>

\* The answer is stored, also when the cache was invalidated meanwhile.
Store(r) ==
    /\ read[r] = "served"
    /\ read' = [read EXCEPT ![r] = "got"]
    /\ cache' = seen[r]
    /\ statusLock' = Tail(statusLock)
    /\ UNCHANGED <<deviceVars, seen, callVars, calls, lost, historyVars>>

\* Mutant: a fetch that fails leaves the lock taken.
FetchLostLocked(r) ==
    /\ read[r] \in {"fetching", "served"} /\ lost < MaxLost
    /\ read' = [read EXCEPT ![r] = "got"]
    /\ seen' = [seen EXCEPT ![r] = Unread]
    /\ lost' = lost + 1
    /\ UNCHANGED <<deviceVars, cache, statusLock, callVars, calls, historyVars>>

\* The request raises: the reader gets no status, the cache keeps what it has.
FetchLost(r) ==
    /\ read[r] \in {"fetching", "served"} /\ lost < MaxLost
    /\ read' = [read EXCEPT ![r] = "got"]
    /\ seen' = [seen EXCEPT ![r] = Unread]
    /\ statusLock' = Tail(statusLock)
    /\ lost' = lost + 1
    /\ UNCHANGED <<deviceVars, cache, callVars, calls, historyVars>>

\* _RUNTIME_STATUS_CACHE_SECONDS have passed.
Expire ==
    /\ cache # Unread
    /\ cache' = Unread
    /\ UNCHANGED <<deviceVars, statusLock, read, seen, callVars, calls, lost,
                   historyVars>>

ReadEnds(r) ==
    /\ read[r] = "got"
    /\ read' = [read EXCEPT ![r] = "none"]
    /\ seen' = [seen EXCEPT ![r] = Unread]

Probe(p) ==
    /\ read[p] = "none"
    /\ ReadWith(p, cache)
    /\ UNCHANGED <<deviceVars, cache, callVars, calls, lost, historyVars>>

ProbeEnds(p) ==
    /\ ReadEnds(p)
    /\ UNCHANGED <<deviceVars, cache, statusLock, callVars, calls, lost,
                   historyVars>>

ReadStep(r) == Wake(r) \/ Serve(r) \/ Store(r) \/ FetchLost(r)

-----------------------------------------------------------------------------
(* start_hui_artificial_lung.                                              *)

\* The plugins are ready and the supply is not low: a start that
\* required_plugins_failure refuses has touched nothing.
Start(u) ==
    /\ pc[u] = "idle" /\ calls < MaxCalls
    /\ calls' = calls + 1
    /\ pc' = [pc EXCEPT ![u] = "opening"]
    /\ alone' = {} /\ safeSince' = FALSE
    /\ UNCHANGED <<deviceVars, readVars, motorLock, leg, previous, motorOk,
                   valveOk, lost, aborted, blind>>

Return(u) ==
    /\ pc' = [pc EXCEPT ![u] = "idle"]
    /\ leg' = [leg EXCEPT ![u] = "none"]
    /\ previous' = [previous EXCEPT ![u] = Quiet]
    /\ motorOk' = [motorOk EXCEPT ![u] = "no"]
    /\ valveOk' = [valveOk EXCEPT ![u] = "no"]
    /\ aborted' = [aborted EXCEPT ![u] = None]
    /\ blind' = blind \ {u}

Goes(u, step) ==
    /\ pc' = [pc EXCEPT ![u] = step]
    /\ UNCHANGED <<leg, previous, motorOk, valveOk, aborted, blind>>

\* The valve is required (HUI_AL_REQUIRE_VALVE, the default): one that is not
\* confirmed open ends the start and is not closed again.
Opened(u) ==
    /\ pc[u] = "opening"
    /\ \/ valve' = TRUE /\ Goes(u, "powered")
       \/ valve' \in {TRUE, valve} /\ Return(u)
    /\ UNCHANGED <<motion, error, late, readVars, motorLock, calls, lost, alone,
                   safeSince>>

\* ensure_power_safe raises out of the start, which leaves the valve open;
\* else the motor command queues for LOCK.
Powered(u) ==
    /\ pc[u] = "powered"
    /\ \/ Return(u) /\ UNCHANGED motorLock
       \/ /\ pc' = [pc EXCEPT ![u] = "motor"]
          /\ leg' = [leg EXCEPT ![u] = "granted"]
          /\ motorLock' = Append(motorLock, u)
          /\ UNCHANGED <<previous, motorOk, valveOk, aborted, blind>>
    /\ UNCHANGED <<deviceVars, readVars, calls, lost, alone, safeSince>>

\* The start succeeded, or goes on to close the valve.
StartEnds(u) ==
    /\ pc[u] = "motor" /\ leg[u] = "done"
    /\ IF motorOk[u] = "yes" THEN Return(u) ELSE Goes(u, "closing")
    /\ UNCHANGED <<deviceVars, readVars, motorLock, calls, lost, alone,
                   safeSince>>

\* The cleanup of a failed start, whatever it comes to.
CleanedUp(u) ==
    /\ pc[u] = "closing"
    /\ valve' \in {FALSE, valve}
    /\ Return(u)
    /\ UNCHANGED <<motion, error, late, readVars, motorLock, calls, lost, alone,
                   safeSince>>

-----------------------------------------------------------------------------
(* The motor command of a start: status, reciprocate, status.              *)

Granted(u) == motorLock # <<>> /\ Head(motorLock) = u

\* The command ends: LOCK goes to the next caller.
LegEnds(u, ok) ==
    /\ leg' = [leg EXCEPT ![u] = "done"]
    /\ motorOk' = [motorOk EXCEPT ![u] = ok]
    /\ motorLock' = Tail(motorLock)

Preflight(u) ==
    /\ pc[u] = "motor" /\ leg[u] = "granted" /\ Granted(u)
    /\ leg' = [leg EXCEPT ![u] = "reading"]
    /\ ReadWith(u, cache)
    /\ UNCHANGED <<deviceVars, cache, pc, motorLock, previous, motorOk,
                   valveOk, calls, lost, historyVars>>

\* A status that could not be read does not block and counts as no error.
ErrorIn(s) == IF s \in Texts THEN s ELSE Quiet

Send(u) ==
    /\ leg[u] = "reading"
    /\ ReadEnds(u)
    /\ IF seen[u] = Bad
       THEN LegEnds(u, "no") /\ UNCHANGED <<previous, cache>>
       ELSE /\ leg' = [leg EXCEPT ![u] = "posting"]
            /\ previous' = [previous EXCEPT ![u] = ErrorIn(seen[u])]
            /\ cache' = Unread
            /\ UNCHANGED <<motorLock, motorOk>>
    /\ UNCHANGED <<deviceVars, statusLock, pc, valveOk, calls,
                   lost, historyVars>>

\* The sidecar accepts the motion, is already active (a success for the
\* start, which then has no second status to read), or refuses.
PostServed(u) ==
    /\ leg[u] = "posting"
    /\ \/ /\ motion = None
          /\ motion' = u
          /\ leg' = [leg EXCEPT ![u] = "accepted"]
          /\ UNCHANGED <<motorOk, motorLock>>
       \/ motion # None /\ LegEnds(u, "yes") /\ UNCHANGED motion
       \/ LegEnds(u, "no") /\ UNCHANGED motion
    /\ UNCHANGED <<valve, error, late, readVars, pc, previous, valveOk,
                   calls, lost, historyVars>>

\* The request times out: not served, served already, or served later.
PostLost(u) ==
    /\ leg[u] \in {"posting", "accepted"} /\ lost < MaxLost
    /\ lost' = lost + 1
    /\ late' \in {late, leg[u] = "posting"}
    /\ LegEnds(u, "no")
    /\ UNCHANGED <<valve, motion, error, readVars, pc, previous, valveOk,
                   calls, historyVars>>

\* Mutant: the second status may come from the cache.
PostAnsweredFromCache(u) ==
    /\ leg[u] = "accepted"
    /\ leg' = [leg EXCEPT ![u] = "checking"]
    /\ ReadWith(u, cache)
    /\ blind' = IF statusLock = <<>> THEN blind ELSE blind \cup {u}
    /\ UNCHANGED <<deviceVars, cache, pc, motorLock, previous, motorOk, valveOk,
                   calls, lost, aborted, alone, safeSince>>

\* _reciprocate_abort_reason begins: only a new status will do.
PostAnswered(u) ==
    /\ leg[u] = "accepted"
    /\ leg' = [leg EXCEPT ![u] = "checking"]
    /\ cache' = Unread
    /\ ReadWith(u, Unread)
    /\ blind' = IF statusLock = <<>> THEN blind ELSE blind \cup {u}
    /\ UNCHANGED <<deviceVars, pc, motorLock, previous, motorOk, valveOk,
                   calls, lost, aborted, alone, safeSince>>

\* A motion error other than the one before the start fails the start.
Checked(u) ==
    /\ leg[u] = "checking"
    /\ ReadEnds(u)
    /\ LegEnds(u, IF ErrorIn(seen[u]) \in {Quiet, previous[u]} THEN "yes"
                                                               ELSE "aborted")
    /\ blind' = IF seen[u] \in {Bad, Unread} THEN blind \cup {u} ELSE blind
    /\ UNCHANGED <<deviceVars, cache, statusLock, pc, previous, valveOk,
                   calls, lost, aborted, alone, safeSince>>

-----------------------------------------------------------------------------
(* stop_hui_artificial_lung: the motor in a task, the valve meanwhile.     *)

StopSteps == {"stopping", "joining"}

Stop(u) ==
    /\ pc[u] = "idle" /\ calls < MaxCalls
    /\ calls' = calls + 1
    /\ pc' = [pc EXCEPT ![u] = "stopping"]
    /\ leg' = [leg EXCEPT ![u] = "spawned"]
    /\ alone' = IF \E v \in Users : Starting(v) THEN alone \ {u} ELSE alone \cup {u}
    /\ UNCHANGED <<deviceVars, readVars, motorLock, previous, motorOk,
                   valveOk, lost, aborted, blind, safeSince>>

\* Without a ready controller the valve is skipped; so it counts when its
\* failure looks like communication.
Shut(u) ==
    /\ pc[u] = "stopping"
    /\ pc' = [pc EXCEPT ![u] = "joining"]
    /\ \/ valve' = FALSE /\ valveOk' = [valveOk EXCEPT ![u] = "yes"]
       \/ /\ valve' \in {FALSE, valve}
          /\ valveOk' \in {[valveOk EXCEPT ![u] = w] : w \in {"skipped", "no"}}
    /\ UNCHANGED <<motion, error, late, readVars, motorLock, leg, previous,
                   motorOk, calls, lost, historyVars>>

\* gateway.stop_lung begins: without the plugin nothing is sent.
LegBegins(u) ==
    /\ leg[u] = "spawned"
    /\ \/ leg' = [leg EXCEPT ![u] = "done"] /\ UNCHANGED motorLock
       \/ /\ leg' = [leg EXCEPT ![u] = "granted"]
          /\ motorLock' = Append(motorLock, u)
    /\ UNCHANGED <<deviceVars, readVars, pc, previous, motorOk, valveOk,
                   calls, lost, historyVars>>

\* Mutant: LOCK is not given back between the stop and the release.
KeepsLockForRelease(u, ok) ==
    /\ motorOk' = [motorOk EXCEPT ![u] = ok]
    /\ IF Deenergize /\ ~StopAtLimit
       THEN /\ leg' = [leg EXCEPT ![u] = "releasing"]
            /\ motorLock' = Append(motorLock, u)
       ELSE leg' = [leg EXCEPT ![u] = "done"] /\ motorLock' = Tail(motorLock)

\* After the stop the coils are released by a command of its own, queued
\* behind whatever waits for LOCK.
AfterStop(u, ok) ==
    /\ motorOk' = [motorOk EXCEPT ![u] = ok]
    /\ IF Deenergize /\ ~StopAtLimit
       THEN /\ leg' = [leg EXCEPT ![u] = "releasing"]
            /\ motorLock' = Append(Tail(motorLock), u)
       ELSE leg' = [leg EXCEPT ![u] = "done"] /\ motorLock' = Tail(motorLock)

StopMotor(u) ==
    /\ pc[u] \in StopSteps /\ leg[u] = "granted" /\ Granted(u)
    /\ cache' = Unread
    /\ \/ motion' = None /\ AfterStop(u, "yes") /\ UNCHANGED lost
       \/ /\ lost < MaxLost /\ lost' = lost + 1
          /\ motion' \in {None, motion} /\ AfterStop(u, "no")
    /\ UNCHANGED <<valve, error, late, statusLock, read, seen, pc, previous,
                   valveOk, calls, historyVars>>

ReleaseCoils(u) ==
    /\ leg[u] = "releasing" /\ Granted(u)
    /\ cache' = Unread
    /\ \/ motion' = None /\ LegEnds(u, motorOk[u]) /\ UNCHANGED lost
       \/ /\ lost < MaxLost /\ lost' = lost + 1
          /\ motion' \in {None, motion} /\ LegEnds(u, "no")
    /\ UNCHANGED <<valve, error, late, statusLock, read, seen, pc, previous,
                   valveOk, calls, historyVars>>

\* Mutant: the answer does not look at the valve it could not close.
VerdictOnMotor(u) == IF motorOk[u] = "yes" THEN "safe" ELSE "stop failed"

Verdict(u) ==
    CASE motorOk[u] = "yes" /\ valveOk[u] = "yes" -> "safe"
      [] motorOk[u] = "yes" /\ valveOk[u] = "skipped" -> "partial"
      [] motorOk[u] = "no" \/ valveOk[u] = "no" -> "stop failed"

StopEnds(u) ==
    /\ pc[u] = "joining" /\ leg[u] = "done"
    /\ safeSince' = (safeSince \/ (Verdict(u) = "safe" /\ u \in alone))
    /\ alone' = alone \ {u}
    /\ Return(u)
    /\ UNCHANGED <<deviceVars, readVars, motorLock, calls, lost>>

-----------------------------------------------------------------------------
(* The sidecar on its own.                                                 *)

\* The start whose motion it is has its second status still to be served.
AwaitsStatus(u) ==
    leg[u] = "accepted" \/ (leg[u] = "checking" /\ read[u] \in {"waiting", "fetching"})

\* An abort goes to that start; there is one text, and a later abort, of a
\* motion whose caller gave up, replaces it.
Abort(e) ==
    /\ motion # None
    /\ motion' = None /\ error' = e
    /\ aborted' = [u \in Users |->
          IF motion = u /\ AwaitsStatus(u) THEN e ELSE aborted[u]]
    /\ blind' = blind \cup {u \in Users : AwaitsStatus(u) /\ aborted[u] # None}
    /\ UNCHANGED <<valve, late, readVars, callVars, calls, lost, alone, safeSince>>

MotionEnds ==
    /\ motion # None
    /\ motion' = None
    /\ UNCHANGED <<valve, error, late, readVars, callVars, calls, lost,
                   historyVars>>

LateMotion ==
    /\ late
    /\ late' = FALSE
    /\ motion' \in {motion, IF motion = None THEN Nobody ELSE motion}
    /\ UNCHANGED <<valve, error, readVars, callVars, calls, lost, historyVars>>

-----------------------------------------------------------------------------
MainStep(u) ==
    \/ Opened(u) \/ Powered(u) \/ StartEnds(u) \/ CleanedUp(u)
    \/ Shut(u) \/ StopEnds(u)

LegStep(u) ==
    \/ LegBegins(u) \/ Preflight(u) \/ Send(u) \/ PostServed(u) \/ PostLost(u)
    \/ PostAnswered(u) \/ Checked(u) \/ StopMotor(u) \/ ReleaseCoils(u)

Next ==
    \/ \E u \in Users : Start(u) \/ Stop(u) \/ MainStep(u) \/ LegStep(u)
    \/ \E r \in Readers : ReadStep(r)
    \/ \E p \in Probers : Probe(p) \/ ProbeEnds(p)
    \/ \E e \in Errors : Abort(e)
    \/ Expire \/ MotionEnds \/ LateMotion

Spec == Init /\ [][Next]_vars

\* Tasks run, and every request is answered or times out.
FairSpec ==
    /\ Spec
    /\ \A u \in Users : WF_vars(MainStep(u)) /\ WF_vars(LegStep(u))
    /\ \A r \in Readers : WF_vars(ReadStep(r))

-----------------------------------------------------------------------------
\* Every variable keeps its type, the status lock is held or awaited exactly
\* by the reads under way, and LOCK is held or awaited only by motor commands.
TypeOK ==
    /\ valve \in BOOLEAN /\ late \in BOOLEAN /\ safeSince \in BOOLEAN
    /\ motion \in Users \cup {Nobody, None}
    /\ error \in Texts
    /\ cache \in Texts \cup {Bad, Unread}
    /\ seen \in [Readers -> Texts \cup {Bad, Unread}]
    /\ read \in [Readers -> {"none", "waiting", "fetching", "served", "got"}]
    /\ \A r \in Readers : (read[r] \in {"waiting", "fetching", "served"})
                          <=> \E i \in DOMAIN statusLock : statusLock[i] = r
    /\ \A i \in 2..Len(statusLock) : read[statusLock[i]] = "waiting"
    /\ pc \in [Users -> {"idle"} \cup StartSteps \cup StopSteps]
    /\ \A u \in Users : (leg[u] \in {"none", "spawned", "done"})
                        <=> \A i \in DOMAIN motorLock : motorLock[i] # u
    /\ calls \in 0..MaxCalls /\ lost \in 0..MaxLost

\* A stop that said "safe" and that no start overlapped left the valve closed,
\* and it stays so until a start is begun; and no motion that a start was told
\* of goes on, or comes back.  What may still move the motor is a command a
\* start gave up on and the sidecar serves late (SafeStopRests).
SafeStopIsSafe == safeSince => ~valve /\ motion \in {None, Nobody}

\* The motor stays at rest after such a stop.  The code cannot give that:
\* LungLateMotion.cfg.
SafeStopRests == safeSince => motion = None

\* A start does not succeed when the sidecar aborted its motion before serving
\* its second status, unless the error reads like the one before, or that
\* status was lost, was read while another read was under way, or shows the
\* abort of a late motion instead.
AbortIsReported ==
    \A u \in Users :
        pc[u] = "motor" /\ leg[u] = "done" /\ motorOk[u] = "yes"
            /\ u \notin blind => aborted[u] \in {None, previous[u]}

\* "A motion error left over from an earlier run must not fail a good START":
\* a start failed for its motion's abort had its motion aborted.
StaleErrorFailsNothing ==
    \A u \in Users : motorOk[u] = "aborted" => aborted[u] # None

\* Every start and every stop is answered, whatever waits for the two locks:
\* with finitely many of them, the lung always comes back to rest.
CallsAreAnswered == []<>(\A u \in Users : pc[u] = "idle")
=============================================================================
