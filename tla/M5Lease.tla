------------------------------- MODULE M5Lease -------------------------------
(***************************************************************************)
(* The StackNet valve module behind the M5 plugin (hardware/plugins/       *)
(* m5_4in8out.py, _m5_core_http.py): one control lease, held by a renewal  *)
(* task, re-acquired by whoever is refused for want of it.                 *)
(*                                                                         *)
(* Every request runs in a worker thread while its caller waits under the  *)
(* plugin's asyncio lock.  A caller that times out or is cancelled leaves, *)
(* the thread does not: it still sends its request, up to two times.       *)
(*                                                                         *)
(* The firmware is external and modelled by what the plugin relies on: a   *)
(* lease not renewed in time expires and the dead-man switches every       *)
(* output off; a write, a renewal and a release need the lease, taking it  *)
(* and switching everything off do not.                                    *)
(* Time is abstract: a lease ages from fresh to stale to none.             *)
(***************************************************************************)
EXTENDS Naturals, Sequences, FiniteSets

CONSTANTS
    Clients,    \* callers of execute_command
    Loops,      \* renewal tasks connect may create, a bound on the connects
    Life,       \* the caller of connect and disconnect
    Threads,    \* number of worker threads
    Attempts,   \* LEASE_REACQUIRE_ATTEMPTS
    MaxLost,    \* bound on requests and answers the network loses
    MaxBuilt,   \* bound on the HTTP clients the plugin builds
    None

ASSUME M5Assumption ==
    /\ Attempts \in Nat \ {0}
    /\ MaxLost \in Nat /\ MaxBuilt \in Nat
    /\ Threads \in Nat
    /\ None \notin Clients \cup Loops \cup {Life}
    /\ Life \notin Clients \cup Loops
    /\ Clients \cap Loops = {}

Callers == Clients \cup Loops \cup {Life}
Workers == 1..Threads

VARIABLES
    module,     \* plugin._module: the number of the HTTP client, 0 for None
    built,      \* HTTP clients built so far
    armed,      \* clients whose lease_id is set
    leaseTask,  \* plugin._lease_task
    status,     \* plugin._status
    pc,         \* where each caller is
    stage,      \* of its command: first, reacquire, again
    tries,      \* acquisitions tried in this reacquire
    job,        \* the command of each caller
    lock,       \* plugin._lock: FIFO, the holder first
    thread,     \* what each worker thread is doing
    lease,      \* firmware: fresh, stale or none
    energised,  \* firmware: whether an output is on
    lost,       \* losses so far
    reported,   \* history: clients whose last command was reported as done
    applied,    \* history: clients whose last command the firmware applied
    calm        \* history: an all-off was confirmed while no other command
                \* was in progress, and none was begun since

pluginVars == <<module, built, leaseTask, status>>
callVars == <<pc, stage, tries, job, lock>>
firmwareVars == <<lease, energised>>
historyVars == <<reported, applied, calm>>
vars == <<pluginVars, armed, callVars, thread, firmwareVars, lost, historyVars>>

Idle == [by |-> None, op |-> "none", gen |-> 0, posts |-> 0]
Writes == {"on", "alloff"}
InProgress == {"backoff", "queued", "calling"}

Init ==
    /\ module = 0 /\ built = 0 /\ armed = {} /\ leaseTask = None
    /\ status = "configured"
    /\ pc = [c \in Callers |-> "idle"]
    /\ stage = [c \in Callers |-> "first"]
    /\ tries = [c \in Callers |-> 0]
    /\ job = [c \in Callers |-> CASE c \in Loops -> "renew"
                                  [] c = Life -> "acquire"
                                  [] c \in Clients -> "on"]
    /\ lock = <<>>
    /\ thread = [t \in Workers |-> Idle]
    /\ lease = "none" /\ energised = FALSE
    /\ lost = 0
    /\ reported = {} /\ applied = {}
    /\ calm = FALSE

-----------------------------------------------------------------------------
(* A call: queue for the lock, hand the request to a thread, wait.         *)

Renewing(l) == l \in Loops /\ pc[l] \notin {"idle", "ended"}
LeaseActive == leaseTask # None /\ Renewing(leaseTask)

\* Mutant: a client is enough.
BeginWithoutTask(c, op) ==
    /\ pc[c] = "idle"
    /\ job' = [job EXCEPT ![c] = op]
    /\ reported' = reported \ {c} /\ applied' = applied \ {c}
    /\ IF module = 0
       THEN UNCHANGED <<pc, lock, calm>>
       ELSE /\ pc' = [pc EXCEPT ![c] = "queued"]
            /\ lock' = Append(lock, c)
            /\ calm' = FALSE
    /\ UNCHANGED <<pluginVars, armed, stage, tries, thread, firmwareVars, lost>>

\* execute_command refuses at once without a client or without a live lease
\* task; otherwise the command queues for the lock.
Begin(c, op) ==
    /\ pc[c] = "idle"
    /\ job' = [job EXCEPT ![c] = op]
    /\ reported' = reported \ {c} /\ applied' = applied \ {c}
    /\ IF module = 0 \/ ~LeaseActive
       THEN UNCHANGED <<pc, lock, calm>>
       ELSE /\ pc' = [pc EXCEPT ![c] = "queued"]
            /\ lock' = Append(lock, c)
            /\ calm' = FALSE
    /\ UNCHANGED <<pluginVars, armed, stage, tries, thread, firmwareVars, lost>>

\* The end of a renewal interval or of a backoff: the caller queues again.
Enqueue(c) ==
    /\ pc[c] \in {"sleep", "backoff"}
    /\ pc' = [pc EXCEPT ![c] = "queued"]
    /\ lock' = Append(lock, c)
    /\ UNCHANGED <<pluginVars, armed, stage, tries, job, thread, firmwareVars,
                   lost, historyVars>>

Op(c) == IF stage[c] = "reacquire" THEN "acquire" ELSE job[c]

\* Mutant: after the lease is back the command counts as done.
OutcomeWithoutRepeat(c, r) ==
    CASE stage[c] = "first" /\ r = "ok" -> "done"
      [] stage[c] = "first" /\ r # "ok" ->
            IF c \in Loops \/ (c \in Clients /\ r = "conflict")
            THEN "reacquire" ELSE "fail"
      [] stage[c] = "reacquire" /\ r = "ok" -> "done"
      [] stage[c] = "reacquire" /\ r # "ok" ->
            IF tries[c] < Attempts THEN "reacquire" ELSE "fail"
      [] stage[c] = "again" -> IF r = "ok" THEN "done" ELSE "fail"

\* Mutant: the lease is reacquired until it works.
OutcomeWithoutLimit(c, r) ==
    CASE stage[c] = "first" /\ r = "ok" -> "done"
      [] stage[c] = "first" /\ r # "ok" ->
            IF c \in Loops \/ (c \in Clients /\ r = "conflict")
            THEN "reacquire" ELSE "fail"
      [] stage[c] = "reacquire" /\ r = "ok" -> IF c \in Loops THEN "done" ELSE "again"
      [] stage[c] = "reacquire" /\ r # "ok" -> "reacquire"
      [] stage[c] = "again" -> IF r = "ok" THEN "done" ELSE "fail"

\* What a caller does with the result of a call (ok, conflict, error or
\* timeout).  A renewal that fails in any way reacquires, a command only when
\* refused for want of a lease; the command is then repeated once.
Outcome(c, r) ==
    CASE stage[c] = "first" /\ r = "ok" -> "done"
      [] stage[c] = "first" /\ r # "ok" ->
            IF c \in Loops \/ (c \in Clients /\ r = "conflict")
            THEN "reacquire" ELSE "fail"
      [] stage[c] = "reacquire" /\ r = "ok" -> IF c \in Loops THEN "done" ELSE "again"
      [] stage[c] = "reacquire" /\ r # "ok" ->
            IF tries[c] < Attempts THEN "reacquire" ELSE "fail"
      [] stage[c] = "again" -> IF r = "ok" THEN "done" ELSE "fail"

NextTries(c) == IF stage[c] = "reacquire" THEN tries[c] + 1 ELSE 1

\* The call goes on with another acquisition, after a backoff unless it is the
\* first, or with the repeated command.
Retried(c, o) ==
    LET waits == o = "reacquire" /\ NextTries(c) > 1 IN
    /\ pc' = [pc EXCEPT ![c] = IF waits THEN "backoff" ELSE "queued"]
    /\ lock' = IF waits THEN Tail(lock) ELSE Append(Tail(lock), c)
    /\ stage' = [stage EXCEPT ![c] = o]
    /\ tries' = [tries EXCEPT ![c] = IF o = "reacquire" THEN NextTries(c) ELSE 0]
    /\ UNCHANGED <<pluginVars, job, reported, calm>>

OtherCommand(c) == \E d \in Clients \ {c} : pc[d] \in InProgress

\* execute_command returns.
CommandReturns(c, o) ==
    /\ pc' = [pc EXCEPT ![c] = "idle"]
    /\ stage' = [stage EXCEPT ![c] = "first"]
    /\ tries' = [tries EXCEPT ![c] = 0]
    /\ job' = [job EXCEPT ![c] = "on"]
    /\ reported' = IF o = "done" THEN reported \cup {c} ELSE reported
    /\ calm' = (calm \/ (job[c] = "alloff" /\ o = "done" /\ ~OtherCommand(c)))
    /\ UNCHANGED pluginVars

\* One pass of the renewal task: it sleeps again, or gives up.
RenewalEnds(l, o) ==
    /\ pc' = [pc EXCEPT ![l] = IF o = "done" THEN "sleep" ELSE "ended"]
    /\ stage' = [stage EXCEPT ![l] = "first"]
    /\ tries' = [tries EXCEPT ![l] = 0]
    /\ status' = IF o = "done" THEN status ELSE "error"
    /\ UNCHANGED <<module, built, leaseTask, reported, calm>>

\* connect: with the lease acquired, a renewal task of its own, whatever task
\* the plugin had; without, no client either.
ConnectEnds(o) ==
    /\ UNCHANGED <<stage, tries, built, reported, calm>>
    /\ IF o = "done"
       THEN \E l \in Loops :
              /\ pc[l] = "idle"
              /\ pc' = [pc EXCEPT ![l] = "sleep", ![Life] = "idle"]
              /\ leaseTask' = l /\ status' = "connected"
              /\ UNCHANGED module
       ELSE /\ pc' = [pc EXCEPT ![Life] = "idle"]
            /\ module' = 0 /\ status' = "error"
            /\ UNCHANGED leaseTask

\* The lock is released and the caller goes on.
Resume(c, r) ==
    LET o == Outcome(c, r) IN
    \/ o \in {"reacquire", "again"} /\ Retried(c, o)
    \/ /\ o \in {"done", "fail"}
       /\ lock' = Tail(lock)
       /\ \/ c \in Clients /\ CommandReturns(c, o)
          \/ c \in Loops /\ RenewalEnds(c, o) /\ UNCHANGED job
          \/ c = Life /\ ConnectEnds(o) /\ UNCHANGED job

IsNextFree(t) == thread[t] = Idle /\ \A u \in 1..t - 1 : thread[u] # Idle

\* Mutant: the call does not wait for the lock.
GrantedUnlocked(c) == pc[c] = "queued"

Granted(c) == pc[c] = "queued" /\ lock # <<>> /\ Head(lock) = c

\* The holder of the lock starts a thread; a client that is gone by now is an
\* AttributeError.
StartCall(c) ==
    /\ Granted(c)
    /\ UNCHANGED <<armed, firmwareVars, lost, applied>>
    /\ IF module = 0
       THEN Resume(c, "error") /\ UNCHANGED thread
       ELSE /\ \E t \in Workers :
                 /\ IsNextFree(t)
                 /\ thread' = [thread EXCEPT ![t] =
                       [by |-> c, op |-> Op(c), gen |-> module, posts |-> 2]]
            /\ pc' = [pc EXCEPT ![c] = "calling"]
            /\ UNCHANGED <<pluginVars, stage, tries, job, lock, reported, calm>>

Abandon(cs) ==
    [t \in Workers |-> IF thread[t].by \in cs THEN [thread[t] EXCEPT !.by = None]
                       ELSE thread[t]]

\* wait_for gives up on the thread, which goes on.
TimeOut(c) ==
    /\ pc[c] = "calling"
    /\ thread' = Abandon({c})
    /\ Resume(c, "timeout")
    /\ UNCHANGED <<armed, firmwareVars, lost, applied>>

-----------------------------------------------------------------------------
(* The firmware: what a request does and how it is answered.               *)
HasLease(t) == lease # "none" /\ thread[t].gen \in armed

Answer(t) ==
    IF thread[t].op \in {"on", "renew", "release"} /\ ~HasLease(t)
    THEN "conflict" ELSE "ok"

\* The command of the waiting client, if any, has been applied.
Applies(t) ==
    applied' = applied \cup
        {c \in Clients : thread[t].by = c /\ thread[t].op = job[c] /\ Answer(t) = "ok"}

Serve(t) ==
    /\ energised' = CASE thread[t].op = "on" -> (energised \/ HasLease(t))
                      [] thread[t].op = "alloff" -> FALSE
                      [] thread[t].op = "release" -> (energised /\ ~HasLease(t))
                      [] thread[t].op \in {"acquire", "renew"} -> energised
    /\ lease' = CASE thread[t].op = "acquire" -> "fresh"
                  [] thread[t].op = "renew" -> IF HasLease(t) THEN "fresh" ELSE lease
                  [] thread[t].op = "release" -> IF HasLease(t) THEN "none" ELSE lease
                  [] thread[t].op \in Writes -> lease
    /\ Applies(t)

Age ==
    /\ \/ lease = "fresh" /\ lease' = "stale" /\ UNCHANGED energised
       \/ lease = "stale" /\ lease' = "none" /\ energised' = FALSE
    /\ UNCHANGED <<pluginVars, armed, callVars, thread, lost, historyVars>>

-----------------------------------------------------------------------------
(* The worker threads.                                                     *)

\* disconnect returns when its release_lease has ended, however it ended.
DisconnectEnds ==
    /\ pc' = [pc EXCEPT ![Life] = "gone"]
    /\ status' = "configured"
    /\ UNCHANGED <<module, built, leaseTask, stage, tries, job, lock, reported,
                   calm>>

\* A client knows its lease id once an acquisition was answered, and forgets
\* it with the release, however that ends.
Arm(t, r) ==
    armed' = IF thread[t].op = "acquire" /\ r = "ok" THEN armed \cup {thread[t].gen}
             ELSE IF thread[t].op = "release" THEN armed \ {thread[t].gen} ELSE armed

\* The thread ends; whoever still waits for it goes on with the result.
Deliver(t, r) ==
    /\ thread' = [thread EXCEPT ![t] = Idle]
    /\ Arm(t, r)
    /\ \/ /\ thread[t].by = None
          /\ UNCHANGED <<pluginVars, callVars, reported, calm>>
       \/ thread[t].op = "release" /\ DisconnectEnds
       \/ /\ thread[t].by # None /\ thread[t].op # "release"
          /\ Resume(thread[t].by, r)

ServeRequest(t) ==
    /\ thread[t] # Idle
    /\ Serve(t)
    /\ Deliver(t, Answer(t))
    /\ UNCHANGED lost

\* The firmware, or the authorization service, denies the lease.
DenyLease(t) ==
    /\ thread[t].op = "acquire"
    /\ Deliver(t, "error")
    /\ UNCHANGED <<firmwareVars, lost, applied>>

\* The request or its answer is lost: _request sends it once more, then fails.
LoseRequest(t) ==
    /\ thread[t] # Idle /\ lost < MaxLost
    /\ lost' = lost + 1
    /\ \/ UNCHANGED <<firmwareVars, applied>>
       \/ Serve(t)
    /\ IF thread[t].posts > 1
       THEN /\ thread' = [thread EXCEPT ![t].posts = @ - 1]
            /\ UNCHANGED <<pluginVars, armed, callVars, reported, calm>>
       ELSE Deliver(t, "error")

-----------------------------------------------------------------------------
(* The lifecycle of the plugin.                                            *)

\* connect builds a client, reads the status and acquires the lease.  It may
\* stay diagnostic-only or raise after the status: a client without a lease.
\* Two callers that both found the instance unhealthy connect it one after the
\* other, and nothing cancels the first one's renewal task.
Connect ==
    /\ pc[Life] = "idle" /\ built < MaxBuilt
    /\ \E l \in Loops : pc[l] = "idle"
    /\ built' = built + 1 /\ module' = built + 1
    /\ \/ /\ pc' = [pc EXCEPT ![Life] = "queued"]
          /\ lock' = Append(lock, Life)
          /\ UNCHANGED status
       \/ /\ status' \in {status, "connected"}
          /\ UNCHANGED <<pc, lock>>
    /\ UNCHANGED <<leaseTask, armed, stage, tries, job, thread, firmwareVars,
                   lost, historyVars>>

\* Mutant: a task that is cancelled keeps its place in the lock's queue.
WithoutLeaving(c) == lock

Place(c) == CHOOSE i \in DOMAIN lock : lock[i] = c
Without(c) ==
    IF \A i \in DOMAIN lock : lock[i] # c THEN lock
    ELSE SubSeq(lock, 1, Place(c) - 1) \o SubSeq(lock, Place(c) + 1, Len(lock))

\* Mutant: disconnect releases the lease and does nothing else.
CancelNothing(life) ==
    /\ UNCHANGED <<lock, leaseTask, module>>
    /\ pc' = [pc EXCEPT ![Life] = life]

\* disconnect cancels the renewal task, whose thread goes on, and takes the
\* client away.
Cancel(life) ==
    /\ lock' = Without(leaseTask)
    /\ leaseTask' = None /\ module' = 0
    /\ pc' = [c \in Callers |-> IF c = Life THEN life
                                ELSE IF c = leaseTask THEN "ended" ELSE pc[c]]

Orphaned == Abandon({leaseTask} \ {None})

\* The lease is released through the client, outside the lock.  A plugin whose
\* client a health check has dropped releases nothing.
Disconnect ==
    /\ pc[Life] = "idle"
    /\ \/ /\ module = 0
          /\ Cancel("gone")
          /\ thread' = Orphaned /\ status' = "configured"
       \/ /\ module # 0
          /\ Cancel("releasing")
          /\ \E t \in Workers :
                /\ IsNextFree(t)
                /\ thread' = [Orphaned EXCEPT ![t] =
                      [by |-> Life, op |-> "release", gen |-> module, posts |-> 2]]
          /\ UNCHANGED status
    /\ UNCHANGED <<built, armed, stage, tries, job, firmwareVars, lost, historyVars>>

\* A health check that cannot reach StackNet drops the client, when it has
\* left the lock, for which others may be waiting; the next one builds another,
\* which knows no lease id.
HealthFails ==
    /\ module # 0 /\ \A c \in Callers : pc[c] # "calling"
    /\ module' = 0
    /\ UNCHANGED <<built, armed, leaseTask, status, callVars, thread, firmwareVars,
                   lost, historyVars>>

HealthRebuilds ==
    /\ module = 0 /\ built < MaxBuilt
    /\ built' = built + 1 /\ module' = built + 1
    /\ UNCHANGED <<armed, leaseTask, status, callVars, thread, firmwareVars,
                   lost, historyVars>>

-----------------------------------------------------------------------------
ThreadStep(t) == ServeRequest(t) \/ DenyLease(t) \/ LoseRequest(t)

Next ==
    \/ \E c \in Clients, op \in Writes : Begin(c, op)
    \/ \E c \in Callers : Enqueue(c) \/ StartCall(c) \/ TimeOut(c)
    \/ \E t \in Workers : ThreadStep(t)
    \/ Connect \/ Disconnect \/ HealthFails \/ HealthRebuilds
    \/ Age

Spec == Init /\ [][Next]_vars

(* The event loop wakes its tasks and timers, sockets have timeouts of     *)
(* their own, and the firmware's clock runs.                               *)
FairSpec ==
    /\ Spec
    /\ \A c \in Callers : WF_vars(Enqueue(c)) /\ WF_vars(StartCall(c)) /\ WF_vars(TimeOut(c))
    /\ \A t \in Workers : WF_vars(ThreadStep(t))
    /\ WF_vars(Age)

-----------------------------------------------------------------------------
TypeOK ==
    /\ module \in 0..MaxBuilt /\ built \in 0..MaxBuilt
    /\ armed \subseteq 1..MaxBuilt
    /\ leaseTask \in Loops \cup {None}
    /\ status \in {"configured", "connected", "error"}
    /\ pc \in [Callers -> {"idle", "sleep", "backoff", "queued", "calling",
                           "releasing", "ended", "gone"}]
    /\ stage \in [Callers -> {"first", "reacquire", "again"}]
    /\ tries \in [Callers -> 0..Attempts]
    /\ job \in [Callers -> Writes \cup {"renew", "acquire"}]
    /\ lock \in Seq(Callers)
    /\ thread \in [Workers -> [by : Callers \cup {None}, gen : 0..MaxBuilt, posts : 0..2,
                    op : Writes \cup {"none", "acquire", "renew", "release"}]]
    /\ lease \in {"fresh", "stale", "none"}
    /\ energised \in BOOLEAN
    /\ lost \in 0..MaxLost
    /\ reported \subseteq Clients /\ applied \subseteq Clients
    /\ calm \in BOOLEAN

\* A caller in the lock queue is there once, and the caller of a thread that
\* somebody waits for holds the lock: no two requests of the plugin are waited
\* for at a time (plugin._lock in _call).
OneRequestAtATime ==
    /\ \A i, j \in DOMAIN lock : lock[i] = lock[j] => i = j
    /\ \A t \in Workers :
         thread[t].by \in Callers \ {Life} => lock # <<>> /\ Head(lock) = thread[t].by

\* A command reported as done was applied by the firmware, also after its
\* lease was lost and taken again in the middle of it.
SuccessWasApplied == reported \subseteq applied

\* Once an all-off was confirmed and no other command was in progress, outputs
\* stay off until the next command.
ConfirmedOffIsFinal == calm => ~energised

\* "Re-arm a lost lease.  The dead-man already forced every output off."
\* (_reacquire_http_lease): whoever takes the lease again does so with every
\* output off.
RearmedWhenOff ==
    \A t \in Workers :
        thread[t].op = "acquire" /\ thread[t].by \in Clients \cup Loops => ~energised

\* Every command returns (the limited reacquire, the timeout of each call).
CommandsReturn ==
    \A c \in Clients : pc[c] \in InProgress ~> pc[c] = "idle"

\* After a disconnect the outputs go off and stay off: by the release, or,
\* when that was refused, lost or never sent, by the dead-man, because nothing
\* renews the lease any more.
DisconnectGoesOff == pc[Life] = "gone" ~> [](~energised)

\* "dead-man will force all-off" (_renew_http_lease): when the renewal task has
\* given up and there will be no other, the outputs go off and stay off.  No
\* command takes the lease again in its place.
LostRenewalGoesOff == (\A l \in Loops : pc[l] = "ended") ~> [](~energised)

\* The same message of the plugin's own renewal task, whatever other task an
\* earlier connect may have left behind.
GivenUpGoesOff == leaseTask # None /\ pc[leaseTask] = "ended" ~> ~energised
=============================================================================
