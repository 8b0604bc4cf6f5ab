---------------------------- MODULE MCScenario ----------------------------
(* Two goals, or a CONFIG block and a goal, of a few commands each.        *)
EXTENDS Scenario

CONSTANTS x, u   \* an analog input, and a sensor no adapter reads

On(cmd, s) == [cmd |-> cmd, sensor |-> s]
Limit(cmd, s, v) == [cmd |-> cmd, sensor |-> s, value |-> v]
Just(cmd) == [cmd |-> cmd]
Repeat(n) == [cmd |-> "REPEAT", count |-> n]

Commands ==
    { Just("SET"), Just("GOTO"), Just("STOP"), Repeat(2), On("VAL", x),
      On("SAVE", x), Limit("MIN", x, 1), Limit("MAX", x, 1), On("VAL", u),
      Limit("MAX", u, 1), On("SAVE", u), Just("ERROR"),
      [cmd |-> "RANGE", sensor |-> x, lo |-> 0, hi |-> 1],
      [cmd |-> "CHECK", sensor |-> x, lo |-> 1, hi |-> 2],
      [cmd |-> "IF", sensor |-> u, value |-> 1, severity |-> "WARNING"],
      [cmd |-> "FAIL", tail |-> "retry"] }

Rare ==
    { Just("WAIT"), Just("DROPPED"), Repeat(0),
      [cmd |-> "CHECK", sensor |-> x, lo |-> 1, hi |-> None],
      [cmd |-> "CHECK", sensor |-> x, lo |-> None, hi |-> 1],
      [cmd |-> "IF", sensor |-> x, value |-> 1, severity |-> "ERROR"],
      [cmd |-> "IF_OR", sensors |-> {x, u}, value |-> 1, severity |-> "ERROR"],
      [cmd |-> "FAIL", tail |-> "goto"] }

Lists ==
    {<<a, b, c>> : a, b, c \in Commands} \cup
    {<<a, b>> : a \in Rare, b \in Rare \cup Commands} \cup
    {<<a, b>> : a \in Commands, b \in Rare}

Seconds == { <<Just("SET")>>,
             <<Repeat(2), On("VAL", x), Limit("MAX", x, 0), Just("STOP"), Just("SET")>> }

Goal(cmds) == [type |-> "GOAL", cmds |-> cmds]
Config(cmds) == [type |-> "CONFIG", cmds |-> cmds]

TwoGoals == {<<Goal(l), Goal(m)>> : l \in Lists, m \in Seconds}
Configured == {<<Goal(l), Config(<<Just("GOTO")>>)>> : l \in Lists}

\* A macro is not a goal.
NoGoals == {<<[type |-> "MACRO", cmds |-> <<Just("SET")>>]>>}

AllDocuments == TwoGoals \cup Configured \cup NoGoals
=============================================================================
