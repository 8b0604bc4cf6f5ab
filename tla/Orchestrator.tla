---------------------------- MODULE Orchestrator ----------------------------
(***************************************************************************)
(* Scenario executions on the one ScenarioOrchestrator of the firmware     *)
(* (oqlos/core/executor.py) and the pause, resume and stop handlers        *)
(* (oqlos/api/utils/execution_ctrl.py).                                    *)
(*                                                                         *)
(* execute_scenario is a coroutine of the request that started it; every   *)
(* execution walks its own goals and steps, but running, paused,           *)
(* current_execution_id, current_index and the step counter are fields of  *)
(* the orchestrator, shared by all of them.  pc[e] is the await at which    *)
(* execution e is suspended; an action is the code up to the next await.   *)
(***************************************************************************)
EXTENDS Integers, Sequences, FiniteSets

CONSTANTS
    Executions,     \* execution ids
    Goals,          \* number of steps of each goal of the scenario
    MaxLive,        \* executions the clients have in progress at a time
    ById,           \* whether clients address an execution by its id
    Raises,         \* whether a hardware command may raise (undervoltage)
    None            \* no current execution

ASSUME OrchestratorAssumption ==
    /\ Goals \in Seq(Nat)
    /\ Goals # <<>>
    /\ MaxLive \in Nat \ {0}
    /\ None \notin Executions
    /\ {ById, Raises} \subseteq BOOLEAN

VARIABLES
    running,        \* orchestrator.running
    paused,         \* orchestrator.paused
    current,        \* orchestrator.current_execution_id
    currentIndex,   \* orchestrator.current_index
    stepCounter,    \* orchestrator._step_counter
    status,         \* executions projection: status of each execution
    pc,             \* where each execution is suspended
    goal,           \* its current goal
    taken,          \* steps it has begun in that goal
    completed,      \* completed_steps: steps finished in all goals
    askedToStop,    \* history: executions a client asked to stop
    sentAfterStop,  \* history: hardware commands of an execution since then
    sentWhilePaused, \* history: commands of an execution since the pause
    overlapped      \* history: two executions were in progress together

shared == <<running, paused, current, currentIndex, stepCounter>>
own == <<pc, goal, taken, completed>>
history == <<askedToStop, sentAfterStop, sentWhilePaused, overlapped>>
vars == <<shared, own, status, history>>

Statuses == {"none", "running", "paused", "stopped", "completed"}
Waits == {"none", "goal", "paused", "step", "sent", "between", "goalEnd", "done", "failed"}

(* Steps of the scenario before goal g, and of the whole scenario.         *)
StepsBefore[g \in 1..Len(Goals) + 1] ==
    IF g = 1 THEN 0 ELSE StepsBefore[g - 1] + Goals[g - 1]

TotalSteps == StepsBefore[Len(Goals) + 1]

(* The state is well-formed.  The step counter, from which the step index  *)
(* of execution_update is taken, stays within the step plan of a scenario  *)
(* that runs alone.                                                        *)
TypeOK ==
    /\ running \in BOOLEAN
    /\ paused \in BOOLEAN
    /\ current \in Executions \cup {None}
    /\ currentIndex \in Nat \cup {-1}
    /\ stepCounter \in Nat
    /\ ~overlapped => currentIndex < TotalSteps /\ stepCounter <= TotalSteps
    /\ status \in [Executions -> Statuses]
    /\ pc \in [Executions -> Waits]
    /\ goal \in [Executions -> 1..Len(Goals) + 1]
    /\ taken \in [Executions -> Nat]
    /\ completed \in [Executions -> 0..TotalSteps]
    /\ askedToStop \subseteq Executions
    /\ sentAfterStop \in [Executions -> Nat]
    /\ sentWhilePaused \in [Executions -> Nat]
    /\ overlapped \in BOOLEAN

Init ==
    /\ running = FALSE
    /\ paused = FALSE
    /\ current = None
    /\ currentIndex = -1
    /\ stepCounter = 0
    /\ status = [e \in Executions |-> "none"]
    /\ pc = [e \in Executions |-> "none"]
    /\ goal = [e \in Executions |-> 1]
    /\ taken = [e \in Executions |-> 0]
    /\ completed = [e \in Executions |-> 0]
    /\ askedToStop = {}
    /\ sentAfterStop = [e \in Executions |-> 0]
    /\ sentWhilePaused = [e \in Executions |-> 0]
    /\ overlapped = FALSE

Live == {e \in Executions : pc[e] \notin {"none", "done", "failed"}}

-----------------------------------------------------------------------------
(* A start revives the executions that were asked to stop and are still    *)
(* in progress: it sets the flag their stop has cleared.                   *)
History(e) ==
    /\ askedToStop' = {}
    /\ sentAfterStop' = [d \in Executions |-> 0]
    /\ overlapped' = (overlapped \/ Live # {})
    /\ UNCHANGED sentWhilePaused

(* Mutant: a new execution does not rebuild the step plan.                 *)
LaunchKeepsCounter(e) ==
    /\ current' = e
    /\ running' = TRUE
    /\ currentIndex' = -1
    /\ UNCHANGED stepCounter
    /\ status' = [status EXCEPT ![e] = "running"]
    /\ pc' = [pc EXCEPT ![e] = "goal"]

(* execute_scenario up to the first await: the execution is registered,    *)
(* becomes the current one and begins its first goal.                      *)
Launch(e) ==
    /\ current' = e
    /\ running' = TRUE
    /\ currentIndex' = -1
    /\ stepCounter' = 0
    /\ status' = [status EXCEPT ![e] = "running"]
    /\ pc' = [pc EXCEPT ![e] = "goal"]

(* POST /execution/start and the StartExecution command.  POST             *)
(* /execution/step without a current execution is the same start: it calls *)
(* execute_scenario with goals=[], which is no selection, so that every    *)
(* goal of the scenario runs.                                              *)
Start(e) ==
    /\ pc[e] = "none"
    /\ Cardinality(Live) < MaxLive
    /\ Launch(e)
    /\ History(e)
    /\ UNCHANGED <<paused, goal, taken, completed>>

-----------------------------------------------------------------------------
(* The step loop of a goal.  The running flag is looked at before a step,  *)
(* the paused flag after it and, once paused, every 0.1 s until it clears. *)
BeginStep(e) ==
    /\ currentIndex' = stepCounter
    /\ stepCounter' = stepCounter + 1
    /\ taken' = [taken EXCEPT ![e] = @ + 1]
    /\ pc' = [pc EXCEPT ![e] = "step"]

LeaveGoal(e) ==
    /\ pc' = [pc EXCEPT ![e] = "goalEnd"]
    /\ UNCHANGED <<currentIndex, stepCounter, taken>>

AwaitResume(e) ==
    /\ pc' = [pc EXCEPT ![e] = "paused"]
    /\ UNCHANGED <<currentIndex, stepCounter, taken>>

(* Mutants: the step loop never looks at running; it never looks at paused. *)
LoopIgnoresStop(e) ==
    \/ taken[e] = Goals[goal[e]] /\ LeaveGoal(e)
    \/ taken[e] < Goals[goal[e]] /\ paused /\ AwaitResume(e)
    \/ taken[e] < Goals[goal[e]] /\ ~paused /\ BeginStep(e)
LoopIgnoresPause(e) ==
    \/ (taken[e] = Goals[goal[e]] \/ ~running) /\ LeaveGoal(e)
    \/ taken[e] < Goals[goal[e]] /\ running /\ BeginStep(e)

LoopHead(e) ==
    \/ (taken[e] = Goals[goal[e]] \/ ~running) /\ LeaveGoal(e)
    \/ taken[e] < Goals[goal[e]] /\ running /\ paused /\ AwaitResume(e)
    \/ taken[e] < Goals[goal[e]] /\ running /\ ~paused /\ BeginStep(e)

NextStep(e) ==
    /\ pc[e] \in {"goal", "between"}
    /\ LoopHead(e)
    /\ UNCHANGED <<running, paused, current, goal, completed, status, history>>

(* Mutant: the pause loop waits for the running flag as well.              *)
PollWaitsForRunning(e) == ~paused /\ running /\ BeginStep(e)

Poll(e) == ~paused /\ BeginStep(e)

ResumeStep(e) ==
    /\ pc[e] = "paused"
    /\ Poll(e)
    /\ UNCHANGED <<running, paused, current, goal, completed, status, history>>

(* execute_step: after the logging and the visible delay, one command to   *)
(* the hardware.                                                           *)
Send(e) ==
    /\ pc[e] = "step"
    /\ pc' = [pc EXCEPT ![e] = "sent"]
    /\ sentAfterStop' = IF e \in askedToStop
                        THEN [sentAfterStop EXCEPT ![e] = @ + 1] ELSE sentAfterStop
    /\ sentWhilePaused' = IF paused
                          THEN [sentWhilePaused EXCEPT ![e] = @ + 1] ELSE sentWhilePaused
    /\ UNCHANGED <<shared, goal, taken, completed, status, askedToStop, overlapped>>

(* The command returns; its result is not looked at.  An exception ends    *)
(* the coroutine and leaves running and the status as they are.            *)
Return(e) ==
    /\ pc[e] = "sent"
    /\ \/ /\ completed' = [completed EXCEPT ![e] = @ + 1]
          /\ pc' = [pc EXCEPT ![e] = "between"]
       \/ /\ Raises
          /\ pc' = [pc EXCEPT ![e] = "failed"]
          /\ UNCHANGED completed
    /\ UNCHANGED <<shared, goal, taken, status, history>>

(* After the validation of a goal: the next goal, or the end.  An          *)
(* execution that was stopped ends as "completed", too.                    *)
EndGoal(e) ==
    /\ pc[e] = "goalEnd"
    /\ goal' = [goal EXCEPT ![e] = @ + 1]
    /\ IF goal[e] < Len(Goals) /\ running
       THEN /\ taken' = [taken EXCEPT ![e] = 0]
            /\ pc' = [pc EXCEPT ![e] = "goal"]
            /\ UNCHANGED <<running, currentIndex, status>>
       ELSE /\ status' = [status EXCEPT ![e] = "completed"]
            /\ running' = FALSE
            /\ currentIndex' = TotalSteps - 1
            /\ pc' = [pc EXCEPT ![e] = "done"]
            /\ UNCHANGED taken
    /\ UNCHANGED <<paused, current, stepCounter, completed, history>>

-----------------------------------------------------------------------------
(* Pause, resume and stop set the shared flag whatever execution the       *)
(* request names, and the status of the named or else the current one.     *)
Target(e) ==
    IF ById THEN status[e] # "none" ELSE e = current

Pause(e) ==
    /\ Target(e)
    /\ paused' = TRUE
    /\ status' = [status EXCEPT ![e] = "paused"]
    /\ UNCHANGED <<running, current, currentIndex, stepCounter, own, history>>

Resume(e) ==
    /\ Target(e)
    /\ paused' = FALSE
    /\ status' = [status EXCEPT ![e] = "running"]
    /\ sentWhilePaused' = [d \in Executions |-> 0]
    /\ UNCHANGED <<running, current, currentIndex, stepCounter, own, askedToStop,
                   sentAfterStop, overlapped>>

Stop(e) ==
    /\ Target(e)
    /\ running' = FALSE
    /\ status' = [status EXCEPT ![e] = "stopped"]
    /\ askedToStop' = askedToStop \cup {e}
    /\ UNCHANGED <<paused, current, currentIndex, stepCounter, own, sentAfterStop,
                   sentWhilePaused, overlapped>>

Advance(e) == NextStep(e) \/ ResumeStep(e) \/ Send(e) \/ Return(e) \/ EndGoal(e)

Next ==
    \E e \in Executions :
        \/ Start(e)
        \/ NextStep(e) \/ ResumeStep(e) \/ Send(e) \/ Return(e) \/ EndGoal(e)
        \/ Pause(e) \/ Resume(e) \/ Stop(e)

Spec == Init /\ [][Next]_vars

(* The event loop runs every coroutine whose await is over; hardware       *)
(* commands return or raise.                                               *)
FairSpec == Spec /\ \A e \in Executions : WF_vars(Advance(e))
-----------------------------------------------------------------------------
(* Until the next start, a stop lets at most the step in flight of an      *)
(* execution, or the one already waiting in the pause loop, reach the      *)
(* hardware, also when a stop of another execution intervened.             *)
AtMostOneCommandAfterStop == \A e \in Executions : sentAfterStop[e] <= 1

(* The step index that execution_update events and the projection show is  *)
(* the index of the step being executed, also after earlier executions and *)
(* across goals, unless two executions were started on top of one another. *)
CurrentIndexIsLive ==
    \A e \in Executions :
        pc[e] \in {"step", "sent"} /\ ~overlapped => currentIndex = completed[e]

(* Until the resume, a pause lets at most the step in flight of each       *)
(* execution reach the hardware, whoever starts or stops meanwhile.        *)
AtMostOneCommandWhilePaused == \A e \in Executions : sentWhilePaused[e] <= 1

(* Every execution ends, or is held by a pause: none waits for another.    *)
EndsUnlessPaused ==
    \A e \in Executions : e \in Live ~> (e \notin Live \/ paused)
=============================================================================
