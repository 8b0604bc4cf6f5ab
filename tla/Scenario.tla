------------------------------ MODULE Scenario ------------------------------
(***************************************************************************)
(* The interpreter of OQL scenarios in execute mode (oqlos-core): a flat   *)
(* document is lowered to runtime actions (_oql_adapter.py), which         *)
(* interpreter.py and _interpreter_actions.py execute goal by goal; its    *)
(* verdict decides whether a device passes its test.                       *)
(*                                                                         *)
(* A goal is one step.  Peripherals and sensors are external: a command is *)
(* accepted or raises, a sensor reads anything or cannot be read.  Waits,  *)
(* messages, prompts and names are no-ops; macros count as expanded.       *)
(***************************************************************************)
EXTENDS Naturals, Sequences, SequencesExt

CONSTANTS
    Sensors,    \* names that are read and bounded
    Mapped,     \* those the firmware adapter reads (_SENSOR_MAP)
    Analog,     \* those that begin with AI
    Levels,     \* what a sensor can read
    Documents,  \* scenarios: sequences of blocks [type, cmds]
    None

MaybeLevel == Levels \cup {None}
Limits == Nat \cup {None}

\* What the parser makes of a line, and of a document.
Command ==
    [cmd : {"SET", "GOTO", "ERROR", "STOP", "WAIT", "DROPPED"}] \cup
    [cmd : {"GET", "VAL", "SAVE"}, sensor : Sensors] \cup
    [cmd : {"MIN", "MAX"}, sensor : Sensors, value : Nat] \cup
    [cmd : {"RANGE"}, sensor : Sensors, lo : Nat, hi : Nat] \cup
    [cmd : {"CHECK"}, sensor : Sensors, lo : Limits, hi : Limits] \cup
    [cmd : {"IF"}, sensor : Sensors, value : Nat, severity : {"ERROR", "WARNING"}] \cup
    [cmd : {"IF_OR"}, sensors : SUBSET Sensors, value : Nat,
     severity : {"ERROR", "WARNING"}] \cup
    [cmd : {"FAIL"}, tail : {"none", "goto", "retry"}] \cup
    [cmd : {"REPEAT"}, count : Nat]

Block == [type : STRING, cmds : Seq(Command)]

\* A runtime action, and a loop under way: its body, how often that is still
\* to be run, and the variables before it.
Instruction ==
    [kind : {"set", "else", "goto", "retry", "error", "endloop", "task"}] \cup
    [kind : {"val", "save"}, sensor : Sensors] \cup
    [kind : {"min", "max"}, sensor : Sensors, value : Nat] \cup
    [kind : {"condition"}, sensors : SUBSET Sensors, lo : Limits, hi : Limits,
     strict : BOOLEAN, severity : {"ERROR", "WARNING"}] \cup
    [kind : {"loop_block"}, count : Nat]

Loop == [start : Nat, end : Nat, left : Nat, saved : [Sensors -> MaybeLevel]]

ASSUME ScenarioAssumption ==
    /\ Mapped \subseteq Sensors /\ Analog \subseteq Sensors
    /\ Levels \subseteq Nat /\ 0 \in Levels
    /\ Documents \subseteq Seq(Block)
    /\ None \notin Nat /\ None \notin Loop

VARIABLES
    goals,      \* the runtime document: a sequence of actions for each goal
    goal, at,   \* the goal and the action that is next
    phase,      \* run, pending (bounds nobody has looked at) or done
    loop,       \* the loop that is executed, or None
    skipped,    \* _goal_skipped
    status,     \* status of the step so far
    results,    \* statuses of the finished steps
    errs,       \* whether self.errors holds anything
    bounds,     \* _oql_thresholds
    judged,     \* _oql_thresholds_evaluated
    pending,    \* bounds still to be judged at the end of the goal
    values,     \* sensor_values
    saved,      \* vars, restricted to the names of sensors
    mock,       \* history: sensors whose value stands for a failed read
    broken,     \* history: a bound, condition or line the scenario missed
    fooled,     \* history: something passed on a reading nobody made
    sent        \* history: commands of the goal sent to a peripheral

place == <<goal, at, phase, loop>>
verdict == <<status, results, errs>>
sensorVars == <<values, saved, mock>>
history == <<broken, fooled, sent>>
vars == <<goals, place, skipped, verdict, bounds, judged, pending, sensorVars,
          history>>

-----------------------------------------------------------------------------
(* The adapter: commands to runtime actions.                               *)
Do(kind) == [kind |-> kind]
Of(kind, s) == [kind |-> kind, sensor |-> s]
Bound(kind, s, v) == [kind |-> kind, sensor |-> s, value |-> v]

\* Some of the sensors within lo and hi; a strict condition fails for want of
\* a value, another one takes 0.
Condition(ss, lo, hi, strict, severity) ==
    [kind |-> "condition", sensors |-> ss, lo |-> lo, hi |-> hi,
     strict |-> strict, severity |-> severity]

\* CHECK: one range, or comparisons for the sides it has.
LowerCheck(c) ==
    IF c.lo # None /\ c.hi # None
    THEN <<Condition({c.sensor}, c.lo, c.hi, FALSE, "ERROR")>>
    ELSE (IF c.lo # None
          THEN <<Condition({c.sensor}, c.lo, None, TRUE, "ERROR")>> ELSE <<>>)
      \o (IF c.hi # None
          THEN <<Condition({c.sensor}, None, c.hi, TRUE, "ERROR")>> ELSE <<>>)

\* FAIL only declares a message, and its tail follows whatever happened.
LowerFail(c) ==
    <<Do("else")>> \o (IF c.tail = "none" THEN <<>> ELSE <<Do(c.tail)>>)

Lower(c) ==
    CASE c.cmd = "SET" -> <<Do("set")>>
      [] c.cmd \in {"GET", "VAL"} -> <<Of("val", c.sensor)>>
      [] c.cmd = "SAVE" -> <<Of("save", c.sensor)>>
      [] c.cmd = "MIN" -> <<Bound("min", c.sensor, c.value)>>
      [] c.cmd = "MAX" -> <<Bound("max", c.sensor, c.value)>>
      [] c.cmd = "RANGE" -> <<Bound("min", c.sensor, c.lo),
                              Bound("max", c.sensor, c.hi)>>
      [] c.cmd = "CHECK" -> LowerCheck(c)
      [] c.cmd = "IF" -> <<Condition({c.sensor}, None, c.value, TRUE, c.severity)>>
      [] c.cmd = "IF_OR" -> <<Condition(c.sensors, None, c.value, FALSE, c.severity)>>
      [] c.cmd = "FAIL" -> LowerFail(c)
      [] c.cmd = "GOTO" -> <<Do("goto")>>
      [] c.cmd = "ERROR" -> <<Do("error")>>
      [] c.cmd = "REPEAT" -> <<[kind |-> "loop_block", count |-> c.count]>>
      [] c.cmd = "STOP" -> <<Do("endloop")>>
      [] c.cmd = "WAIT" -> <<Do("task")>>
      [] c.cmd = "DROPPED" -> <<>>

Runtime(block) == FlattenSeq([i \in DOMAIN block.cmds |-> Lower(block.cmds[i])])

OfType(doc, type) ==
    FlattenSeq([b \in DOMAIN doc |->
                   IF doc[b].type = type THEN <<doc[b]>> ELSE <<>>])

\* CONFIG blocks come first, macros are not executed.
Ordered(doc) == OfType(doc, "CONFIG") \o OfType(doc, "GOAL")

\* A line the parser gives up is an error of the run.
HasDropped(doc) ==
    \E b \in DOMAIN doc : \E i \in DOMAIN doc[b].cmds : doc[b].cmds[i].cmd = "DROPPED"

Actions == goals[goal]
Action == Actions[at]

\* A loop takes everything up to the first endloop, also another loop's; that
\* one is left without a body.
LoopEnd(i) ==
    LET ends == {j \in i + 1..Len(Actions) : Actions[j].kind = "endloop"} IN
    IF ends = {} THEN Len(Actions) + 1
    ELSE CHOOSE j \in ends : \A k \in ends : j <= k

InBody(p) ==
    \E i \in 1..p - 1 : /\ Actions[i].kind = "loop_block"
                        /\ \A j \in i + 1..p : Actions[j].kind # "endloop"

-----------------------------------------------------------------------------
NoBounds == [s \in Sensors |-> [min |-> None, max |-> None]]

Init ==
    \E doc \in Documents :
       /\ goals = [g \in DOMAIN Ordered(doc) |-> Runtime(Ordered(doc)[g])]
       /\ phase = IF goals = <<>> THEN "done" ELSE "run"
       /\ goal = 1 /\ at = 1 /\ loop = None
       /\ skipped = FALSE
       /\ status = "passed" /\ results = <<>>
       /\ errs = HasDropped(doc)
       /\ bounds = NoBounds /\ judged = {} /\ pending = {}
       /\ values = [s \in Sensors |-> None]
       /\ saved = [s \in Sensors |-> None]
       /\ mock = {}
       /\ broken = HasDropped(doc) /\ fooled = FALSE /\ sent = {}

-----------------------------------------------------------------------------
(* Control: what a status does to the step, the loop and the position.     *)

\* _execute_step: a skipped action hides what failed before it.
Merge(st) == IF st \in {"failed", "error", "skipped"} THEN st ELSE status

\* Mutant: the loop's terminator is not counted.
PastLoopByTwo(end) == end + 2

PastLoop(end) == end + 1

LoopIsOver(st) ==
    /\ status' = Merge(st)
    /\ at' = PastLoop(loop.end)
    /\ loop' = None
    /\ saved' = loop.saved

\* A body goes on while its actions pass or are skipped; what it set is
\* forgotten with it.
InLoop(st, newSaved) ==
    IF st \notin {"passed", "skipped"} THEN LoopIsOver(st)
    ELSE IF at + 1 = loop.end /\ loop.left = 1 THEN LoopIsOver("passed")
    ELSE /\ IF at + 1 = loop.end
            THEN at' = loop.start /\ loop' = [loop EXCEPT !.left = @ - 1]
            ELSE at' = at + 1 /\ UNCHANGED loop
         /\ saved' = newSaved
         /\ UNCHANGED status

Advance(st, newSaved) ==
    /\ IF loop # None THEN InLoop(st, newSaved)
       ELSE /\ status' = Merge(st)
            /\ at' = at + 1
            /\ saved' = newSaved
            /\ UNCHANGED loop
    /\ UNCHANGED <<goals, goal, phase, results, pending>>

Next1(kind) ==
    /\ phase = "run" /\ at <= Len(Actions)
    /\ ~skipped /\ Action.kind = kind

\* After a GOTO every action is skipped, a loop with its body.
Skip ==
    /\ phase = "run" /\ at <= Len(Actions) /\ skipped
    /\ IF Action.kind = "loop_block" /\ loop = None
       THEN /\ status' = Merge("skipped") /\ at' = PastLoop(LoopEnd(at))
            /\ UNCHANGED <<goals, goal, phase, loop, saved, results, pending>>
       ELSE Advance("skipped", saved)
    /\ UNCHANGED <<skipped, errs, bounds, judged, values, mock, history>>

-----------------------------------------------------------------------------
(* Reading.                                                                *)

\* refresh_sensors_from_firmware: a sensor that cannot be read reads 0; the
\* refresh as a whole may fail and leave everything as it was.
Refreshed ==
    {[values |-> values, mock |-> mock]} \cup
    {[values |-> [s \in Sensors |-> IF s \notin Mapped THEN values[s]
                                    ELSE IF s \in bad THEN 0 ELSE read[s]],
      mock |-> (mock \ Mapped) \cup bad] :
        bad \in SUBSET Mapped, read \in [Mapped -> Levels]}

Known(s, vals) == IF vals[s] # None THEN vals[s] ELSE saved[s]

Within(v, lo, hi) == (lo # None => v >= lo) /\ (hi # None => v <= hi)

HasBounds(s) == bounds[s] # NoBounds[s]

InBounds(s, v) == Within(v, bounds[s].min, bounds[s].max)

\* Mutant: a bound that is missed fails the step, but is no error of the run.
JudgeQuietly(s, v) ==
    /\ judged' = IF HasBounds(s) THEN judged \cup {s} ELSE judged
    /\ broken' = (broken \/ ~InBounds(s, v))
    /\ UNCHANGED errs

\* _evaluate_val_thresholds.
Judge(s, v) ==
    /\ judged' = IF HasBounds(s) THEN judged \cup {s} ELSE judged
    /\ errs' = (errs \/ ~InBounds(s, v))
    /\ broken' = (broken \/ ~InBounds(s, v))

Verdict(s, v) == IF InBounds(s, v) THEN "passed" ELSE "failed"

\* _resolve_live_val: a value that is known is not read again.
Reads(s) == IF Known(s, values) # None THEN {[values |-> values, mock |-> mock]}
            ELSE Refreshed

\* exec_action_val: what a refresh r leaves of a reading of s ...
Measured(s, r) ==
    LET v == Known(s, r.values) IN
    /\ mock' = r.mock
    /\ IF v = None
       THEN /\ errs' = (errs \/ HasBounds(s))
            /\ broken' = (broken \/ HasBounds(s))
            /\ values' = r.values
            /\ UNCHANGED <<judged, fooled>>
       ELSE /\ Judge(s, v)
            /\ values' = [r.values EXCEPT ![s] = v]
            /\ fooled' = (fooled \/ /\ HasBounds(s) /\ InBounds(s, v)
                                    /\ s \in r.mock)

\* ... and the status it ends with: no value is a failure of a bound only.
MeasuredStatus(s, r) ==
    IF Known(s, r.values) # None THEN Verdict(s, Known(s, r.values))
    ELSE IF HasBounds(s) THEN "failed" ELSE "passed"

SavedFrom(s, r) ==
    IF Known(s, r.values) = None THEN saved
    ELSE [saved EXCEPT ![s] = Known(s, r.values)]

ReadValue ==
    /\ Next1("val")
    /\ \E r \in Reads(Action.sensor) :
          /\ Measured(Action.sensor, r)
          /\ Advance(MeasuredStatus(Action.sensor, r),
                     SavedFrom(Action.sensor, r))
    /\ UNCHANGED <<skipped, bounds, sent>>

\* exec_action_save: the variable before the sensor; an analog input nobody
\* read is 0, anything else "OK", which no bound judges.
Save ==
    LET s == Action.sensor
        v == CASE saved[s] # None -> saved[s]
               [] saved[s] = None /\ values[s] # None -> values[s]
               [] OTHER -> IF s \in Analog THEN 0 ELSE None IN
    /\ Next1("save")
    /\ IF v = None
       THEN Advance("passed", saved) /\ UNCHANGED <<judged, errs, broken>>
       ELSE /\ Judge(s, v)
            /\ Advance(Verdict(s, v), [saved EXCEPT ![s] = v])
    /\ UNCHANGED <<skipped, bounds, values, mock, fooled, sent>>

DeclareBound ==
    /\ Next1("min") \/ Next1("max")
    /\ bounds' = IF Action.kind = "min"
                 THEN [bounds EXCEPT ![Action.sensor].min = Action.value]
                 ELSE [bounds EXCEPT ![Action.sensor].max = Action.value]
    /\ Advance("passed", saved)
    /\ UNCHANGED <<skipped, errs, judged, values, mock, history>>

\* exec_action_condition: every sensor is read again.  A strict comparison
\* without a value fails; the others take 0, and count as a look at the bound.
Met(c, r) == {s \in c.sensors :
                 Within(IF Known(s, r.values) = None THEN 0
                        ELSE Known(s, r.values), c.lo, c.hi)}

Unread(r) == {s \in Sensors : s \in r.mock \/ Known(s, r.values) = None}

Blind(c, r) == c.strict /\ \E s \in c.sensors : Known(s, r.values) = None

ConditionStatus(c, r) ==
    CASE Blind(c, r) -> "failed"
      [] ~Blind(c, r) /\ Met(c, r) # {} -> "passed"
      [] OTHER -> IF c.severity = "ERROR" THEN "failed" ELSE "warning"

Compare ==
    /\ Next1("condition")
    /\ \E r \in Refreshed :
          LET st == ConditionStatus(Action, r) IN
          /\ values' = r.values /\ mock' = r.mock
          /\ judged' = IF Blind(Action, r) THEN judged
                       ELSE judged \cup Action.sensors
          /\ errs' = (errs \/ st = "failed")
          /\ broken' = (broken \/ st = "failed")
          /\ fooled' = (fooled \/ /\ st = "passed"
                                  /\ Met(Action, r) \subseteq Unread(r))
          /\ Advance(st, saved)
    /\ UNCHANGED <<skipped, bounds, sent>>

-----------------------------------------------------------------------------
(* The other actions.                                                      *)

\* A rejected command is an error of the step, and of nothing else.
Set ==
    /\ Next1("set")
    /\ sent' = sent \cup {at}
    /\ \E st \in {"passed", "error"} : Advance(st, saved)
    /\ UNCHANGED <<skipped, errs, bounds, judged, values, mock, broken, fooled>>

\* Messages and waits pass; so does a stray STOP, whose flag the next loop
\* resets.  There is no handler for RETRY.
Say ==
    /\ \/ Next1("else") \/ Next1("task") \/ Next1("endloop")
       \/ Next1("retry")
    /\ Advance(IF Action.kind = "retry" THEN "error" ELSE "passed", saved)
    /\ UNCHANGED <<skipped, errs, bounds, judged, values, mock, history>>

Goto ==
    /\ Next1("goto")
    /\ skipped' = TRUE
    /\ Advance("passed", saved)
    /\ UNCHANGED <<errs, bounds, judged, values, mock, history>>

Error ==
    /\ Next1("error")
    /\ errs' = TRUE /\ broken' = TRUE
    /\ Advance("failed", saved)
    /\ UNCHANGED <<skipped, bounds, judged, values, mock, fooled, sent>>

\* A loop in a loop has no body.
LoopBlock ==
    /\ Next1("loop_block")
    /\ IF loop # None THEN Advance("passed", saved)
       ELSE /\ IF Action.count = 0 \/ LoopEnd(at) = at + 1
               THEN at' = PastLoop(LoopEnd(at)) /\ UNCHANGED loop
               ELSE /\ at' = at + 1
                    /\ loop' = [start |-> at + 1, end |-> LoopEnd(at),
                                left |-> Action.count, saved |-> saved]
            /\ UNCHANGED <<goals, goal, phase, status, results, pending, saved>>
    /\ UNCHANGED <<skipped, errs, bounds, judged, values, mock, history>>

-----------------------------------------------------------------------------
(* Goals.                                                                  *)

GoalEnds ==
    /\ phase = "run" /\ at > Len(Actions)
    /\ results' = Append(results, status)
    /\ phase' = "pending"
    /\ pending' = {s \in Sensors : HasBounds(s)} \ judged
    /\ UNCHANGED <<goals, goal, at, loop, skipped, status, errs, bounds, judged,
                   sensorVars, history>>

\* _evaluate_pending_thresholds, in any order (the code's is alphabetical).
JudgePending(s) ==
    /\ phase = "pending" /\ s \in pending
    /\ pending' = pending \ {s}
    /\ \E r \in Reads(s) :
          /\ Measured(s, r)
          /\ saved' = SavedFrom(s, r)
          /\ results' =
               IF MeasuredStatus(s, r) = "failed" /\ Last(results) = "passed"
               THEN [results EXCEPT ![Len(results)] = "failed"] ELSE results
    /\ UNCHANGED <<goals, place, skipped, status, bounds, sent>>

\* Mutant: the flag of a GOTO survives its goal.
EnterGoalSkipping ==
    /\ goal' = goal + 1 /\ at' = 1 /\ phase' = "run"
    /\ status' = "passed"
    /\ bounds' = NoBounds /\ judged' = {} /\ sent' = {}
    /\ UNCHANGED skipped

\* Bounds hold for one goal; what was read or saved stays.
EnterGoal ==
    /\ goal' = goal + 1 /\ at' = 1 /\ phase' = "run"
    /\ status' = "passed"
    /\ bounds' = NoBounds /\ judged' = {} /\ sent' = {}
    /\ skipped' = FALSE

NextGoal ==
    /\ phase = "pending" /\ pending = {} /\ goal < Len(goals)
    /\ EnterGoal
    /\ UNCHANGED <<goals, loop, results, errs, pending, sensorVars, broken, fooled>>

Finish ==
    /\ phase = "pending" /\ pending = {} /\ goal = Len(goals)
    /\ phase' = "done"
    /\ UNCHANGED <<goals, goal, at, loop, skipped, verdict, bounds, judged,
                   pending, sensorVars, history>>

Next ==
    \/ ReadValue \/ Save \/ DeclareBound \/ Compare
    \/ Set \/ Say \/ Goto \/ Error \/ LoopBlock \/ Skip
    \/ GoalEnds \/ NextGoal \/ Finish
    \/ \E s \in Sensors : JudgePending(s)

Spec == Init /\ [][Next]_vars

\* _build_script_result: the verdict the caller sees.
Ok == ~errs /\ \A i \in DOMAIN results : results[i] \in {"passed", "skipped"}

-----------------------------------------------------------------------------
(* Properties.                                                             *)

Statuses == {"passed", "failed", "error", "skipped"}

\* Types: while a loop runs the position is one of its body, and at no other
\* time; a loop is left for the action after its STOP.
TypeOK ==
    /\ goals \in Seq(Seq(Instruction))
    /\ goals # <<>> => /\ goal \in 1..Len(goals) /\ at \in 1..Len(Actions) + 2
                       /\ loop = None /\ at <= Len(Actions) => ~InBody(at)
    /\ phase \in {"run", "pending", "done"}
    /\ loop # None => loop \in Loop /\ at \in loop.start..loop.end - 1
    /\ skipped \in BOOLEAN /\ errs \in BOOLEAN
    /\ status \in Statuses /\ results \in Seq(Statuses)
    /\ bounds \in [Sensors -> [min : Limits, max : Limits]]
    /\ judged \subseteq Sensors /\ pending \subseteq Sensors
    /\ values \in [Sensors -> MaybeLevel] /\ saved \in [Sensors -> MaybeLevel]
    /\ mock \subseteq Sensors /\ sent \subseteq Nat
    /\ broken \in BOOLEAN /\ fooled \in BOOLEAN

\* No false PASS (the guarantee the comments of exec_action_val name): a run
\* that reports ok missed no bound it judged, no condition, and lost no line,
\* although a GOTO later in the goal hides the failed step; and when a goal
\* is over, each of its bounds was judged or failed the run.
PassIsEarned ==
    /\ phase = "done" /\ Ok => ~broken
    /\ phase \in {"pending", "done"} /\ pending = {} =>
          \A s \in Sensors : HasBounds(s) => s \in judged \/ errs

Is(kind, p) == Actions[p].kind = kind

\* A GOTO ends its own goal, and all of it (_goal_skipped), and a missed bound
\* or condition, a rejected command or a RETRY nobody handles ends nothing:
\* when a goal ends, each of its commands outside loops that neither a GOTO nor
\* an ERROR precedes was sent, and none that follows a GOTO outside loops was.
\* What an ERROR ends is the question of ErrorAborts.
LaterGoalsRun ==
    phase = "pending" =>
       /\ \A p \in DOMAIN Actions :
            (/\ Is("set", p) /\ ~InBody(p)
             /\ \A i \in 1..p - 1 : ~Is("goto", i) /\ ~Is("error", i)) => p \in sent
       /\ \A i \in DOMAIN Actions :
            Is("goto", i) /\ ~InBody(i) => \A p \in sent : p < i

\* "Przerwij z błędem", abort with an error (docs/oql-spec.md:126): no command
\* of the goal that follows an ERROR is sent.
ErrorAborts ==
    phase = "pending" =>
       \A i \in DOMAIN Actions :
          (/\ Is("error", i) /\ ~InBody(i)
           /\ \A j \in 1..i - 1 : ~Is("goto", j)) => \A p \in sent : p < i

\* _sensor_evaluator.py: "In execute mode a missing sensor read must remain
\* visible instead of silently becoming a mock value": no run
\* is ok on the strength of a reading that failed or was never made.
ReadingsAreReal == phase = "done" /\ Ok => ~fooled
=============================================================================
