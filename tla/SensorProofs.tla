---------------------------- MODULE SensorProofs ----------------------------
(***************************************************************************)
(* Theorems about what is made of sensor readings: about Scenario, for     *)
(* every set of sensors and every document, and about UsbAdcCache, for     *)
(* every set of readers and samplers and every interval, age limit and     *)
(* cooldown.  The two share no constant, variable or definition.           *)
(***************************************************************************)
EXTENDS Scenario, UsbAdcCache, SequenceTheorems, WellFoundedInduction, TLAPS

(* A set of naturals that contains 0 and each successor is Nat: the library *)
(* states induction for predicates, which no backend can instantiate, and   *)
(* minimal elements for sets.                                               *)
LEMMA LeastElement ==
    ASSUME NEW T \in SUBSET Nat, T # {}
    PROVE  \E n \in T : \A m \in T : n <= m
  <1> DEFINE R == OpToRel(<, Nat)
  <1>1. IsWellFoundedOn(R, Nat)
    BY NatLessThanWellFounded
  <1>2. R = {p \in Nat \X Nat : p[1] < p[2]}
    BY DEF OpToRel
  <1> HIDE DEF R
  <1>3. \E x \in T : \A y \in T : ~ (<<y, x>> \in R)
    BY <1>1, WFMin
  <1>4. ASSUME NEW a \in Nat, NEW b \in Nat, <<a, b>> \notin R PROVE b <= a
    <2>1. <<a, b>> \in Nat \X Nat
      OBVIOUS
    <2>2. ~ (<<a, b>>[1] < <<a, b>>[2])
      BY <1>2, <1>4, <2>1
    <2>3. QED
      BY <2>2
  <1>5. QED
    BY <1>3, <1>4

LEMMA SetInduction ==
    ASSUME NEW T \in SUBSET Nat, 0 \in T, \A n \in T : n + 1 \in T
    PROVE  T = Nat
  <1> SUFFICES ASSUME T # Nat PROVE FALSE
    OBVIOUS
  <1>1. PICK n \in Nat \ T : \A m \in Nat \ T : n <= m
    <2>1. Nat \ T # {} /\ Nat \ T \in SUBSET Nat
      OBVIOUS
    <2>2. QED
      BY <2>1, LeastElement
  <1>2. n # 0 /\ n - 1 \in T
    BY <1>1
  <1>3. QED
    BY <1>2

-----------------------------------------------------------------------------
(* The recursion that defines FlattenSeq has a solution, and its values are *)
(* sequences over the same set.                                            *)
Flattens(ss, f) ==
    f = [i \in 1..Len(ss) |-> IF i = 1 THEN ss[i] ELSE f[i - 1] \o ss[i]]

LEMMA FlattensExist ==
    ASSUME NEW S, NEW ss \in Seq(Seq(S))
    PROVE  \E f : Flattens(ss, f)
  <1> DEFINE n == Len(ss)
             Starts(h, k) == /\ h \in [1..k -> Seq(S)]
                             /\ \A i \in 1..k : h[i] = IF i = 1 THEN ss[i]
                                                       ELSE h[i - 1] \o ss[i]
             T == {k \in Nat : k <= n => \E h : Starts(h, k)}
  <1>1. 0 \in T
    <2>1. Starts([i \in 1..0 |-> <<>>], 0)
      OBVIOUS
    <2>2. QED
      BY <2>1
  <1>2. ASSUME NEW k \in T PROVE k + 1 \in T
    <2> SUFFICES ASSUME k \in Nat, k + 1 <= n PROVE \E h : Starts(h, k + 1)
      <3> HIDE DEF Starts
      <3>1. QED
        OBVIOUS
    <2>1. PICK h : Starts(h, k)
      <3> HIDE DEF Starts
      <3>1. QED
        OBVIOUS
    <2>2. ss[k + 1] \in Seq(S)
      OBVIOUS
    <2>3. PICK m \in Seq(S) : m = IF k = 0 THEN ss[k + 1] ELSE h[k] \o ss[k + 1]
      <3>1. CASE k = 0
        BY <2>2, <3>1
      <3>2. CASE k # 0
        <4>1. h[k] \in Seq(S)
          BY <2>1, <3>2
        <4>2. h[k] \o ss[k + 1] \in Seq(S)
          BY <2>2, <4>1
        <4>3. QED
          BY <3>2, <4>2
      <3>3. QED
        BY <3>1, <3>2
    <2> DEFINE longer == [i \in 1..k + 1 |-> IF i <= k THEN h[i] ELSE m]
    <2>4. longer \in [1..k + 1 -> Seq(S)]
      BY <2>1
    <2>5. \A i \in 1..k + 1 : longer[i] = IF i = 1 THEN ss[i]
                                          ELSE longer[i - 1] \o ss[i]
      <3> SUFFICES ASSUME NEW i \in 1..k + 1
                   PROVE  longer[i] = IF i = 1 THEN ss[i] ELSE longer[i - 1] \o ss[i]
        OBVIOUS
      <3>1. CASE i <= k
        <4>1. longer[i] = h[i] /\ (i # 1 => longer[i - 1] = h[i - 1])
          BY <3>1
        <4>2. i \in 1..k
          BY <3>1
        <4>3. h[i] = IF i = 1 THEN ss[i] ELSE h[i - 1] \o ss[i]
          BY ONLY <2>1, <4>2
        <4>4. QED
          BY <4>1, <4>3
      <3>2. CASE i = k + 1
        <4>1. longer[i] = m /\ (i # 1 => longer[i - 1] = h[k])
          BY <3>2
        <4>2. QED
          BY <2>3, <3>2, <4>1
      <3>3. QED
        BY <3>1, <3>2
    <2> HIDE DEF longer
    <2>6. Starts(longer, k + 1)
      BY <2>4, <2>5
    <2>7. QED
      BY <2>6
  <1>3. T = Nat
    <2> HIDE DEF T
    <2>1. T \in SUBSET Nat
      BY DEF T
    <2>2. QED
      BY <2>1, <1>1, <1>2, SetInduction
  <1>4. PICK h : Starts(h, n)
    <2>1. n \in T
      <3> HIDE DEF T
      <3>1. n \in Nat
        OBVIOUS
      <3>2. QED
        BY <1>3, <3>1
    <2> HIDE DEF Starts
    <2>2. QED
      BY <2>1
  <1>5. h = [i \in 1..n |-> h[i]]
    BY <1>4
  <1>6. Flattens(ss, h)
    BY <1>4, <1>5 DEF Flattens
  <1>7. QED
    BY <1>6

LEMMA FlattenSeqType ==
    ASSUME NEW S, NEW ss \in Seq(Seq(S))
    PROVE  FlattenSeq(ss) \in Seq(S)
  <1>1. CASE Len(ss) = 0
    BY <1>1 DEF FlattenSeq
  <1>2. CASE Len(ss) # 0
    <2> DEFINE f == CHOOSE f : Flattens(ss, f)
               T == {k \in Nat : k \in 1..Len(ss) => f[k] \in Seq(S)}
    <2>1. FlattenSeq(ss) = f[Len(ss)]
      BY <1>2 DEF FlattenSeq, Flattens
    <2>2. Flattens(ss, f)
      BY FlattensExist
    <2> HIDE DEF f
    <2>3. \A k \in 1..Len(ss) : f[k] = IF k = 1 THEN ss[k] ELSE f[k - 1] \o ss[k]
      BY <2>2 DEF Flattens
    <2>4. 0 \in T
      OBVIOUS
    <2>5. ASSUME NEW k \in T PROVE k + 1 \in T
      <3> SUFFICES ASSUME k + 1 \in 1..Len(ss) PROVE f[k + 1] \in Seq(S)
        OBVIOUS
      <3>1. ss[k + 1] \in Seq(S)
        OBVIOUS
      <3>2. CASE k = 0
        BY <2>3, <3>1, <3>2
      <3>3. CASE k # 0
        <4>1. f[k] \in Seq(S)
          BY <3>3
        <4>2. k + 1 # 1 /\ (k + 1) - 1 = k
          BY <3>3
        <4>3. f[k + 1] = f[k] \o ss[k + 1]
          BY <2>3, <4>2
        <4>4. QED
          BY <3>1, <4>1, <4>3
      <3>4. QED
        BY <3>2, <3>3
    <2>6. T = Nat
      <3> HIDE DEF T
      <3>1. T \in SUBSET Nat
        BY DEF T
      <3>2. QED
        BY <3>1, <2>4, <2>5, SetInduction
    <2>7. Len(ss) \in T
      BY <2>6
    <2>8. QED
      BY <1>2, <2>1, <2>7
  <1>3. QED
    BY <1>1, <1>2

-----------------------------------------------------------------------------
LEMMA ShortSeqType ==
    ASSUME NEW S, NEW a \in S, NEW b \in S
    PROVE  <<>> \in Seq(S) /\ <<a>> \in Seq(S) /\ <<a, b>> \in Seq(S)
  OBVIOUS

LEMMA MapType ==
    ASSUME NEW S, NEW n \in Nat, NEW f, f = [i \in 1..n |-> f[i]],
           \A i \in 1..n : f[i] \in S
    PROVE  f \in Seq(S)
  <1>1. f \in [1..n -> S]
    OBVIOUS
  <1>2. QED
    BY <1>1, SeqDef

(* The adapter makes instructions of commands.                             *)
LEMMA LowerCheckType ==
    ASSUME NEW c \in [cmd : {"CHECK"}, sensor : Sensors, lo : Limits, hi : Limits]
    PROVE  LowerCheck(c) \in Seq(Instruction)
  <1> DEFINE C(lo, hi, strict) == Condition({c.sensor}, lo, hi, strict, "ERROR")
  <1>1. ASSUME NEW lo \in Limits, NEW hi \in Limits, NEW strict \in BOOLEAN
        PROVE  C(lo, hi, strict) \in Instruction
    BY DEF Condition, Instruction
  <1>2. None \in Limits /\ c.lo \in Limits /\ c.hi \in Limits
    BY DEF Limits
  <1>3. LowerCheck(c) =
           IF c.lo # None /\ c.hi # None THEN <<C(c.lo, c.hi, FALSE)>>
           ELSE (IF c.lo # None THEN <<C(c.lo, None, TRUE)>> ELSE <<>>)
             \o (IF c.hi # None THEN <<C(None, c.hi, TRUE)>> ELSE <<>>)
    BY DEF LowerCheck
  <1> HIDE DEF C
  <1>4. CASE c.lo # None /\ c.hi # None
    BY <1>1, <1>2, <1>3, <1>4, ShortSeqType
  <1>5. CASE ~ (c.lo # None /\ c.hi # None)
    <2> DEFINE lower == IF c.lo # None THEN <<C(c.lo, None, TRUE)>> ELSE <<>>
               upper == IF c.hi # None THEN <<C(None, c.hi, TRUE)>> ELSE <<>>
    <2>1. lower \in Seq(Instruction) /\ upper \in Seq(Instruction)
      BY <1>1, <1>2, ShortSeqType
    <2>2. LowerCheck(c) = lower \o upper
      BY <1>3, <1>5
    <2> HIDE DEF lower, upper
    <2>3. QED
      BY <2>1, <2>2
  <1>6. QED
    BY <1>4, <1>5

LEMMA LowerFailType ==
    ASSUME NEW c \in [cmd : {"FAIL"}, tail : {"none", "goto", "retry"}]
    PROVE  LowerFail(c) \in Seq(Instruction)
  <1>1. Do("else") \in Instruction
    BY DEF Do, Instruction
  <1>2. c.tail # "none" => Do(c.tail) \in Instruction
    BY DEF Do, Instruction
  <1>3. QED
    BY <1>1, <1>2 DEF LowerFail

LEMMA LowerType == ASSUME NEW c \in Command PROVE Lower(c) \in Seq(Instruction)
  <1>1. CASE c \in [cmd : {"SET", "GOTO", "ERROR", "STOP", "WAIT", "DROPPED"}]
    <2>1. /\ Do("set") \in Instruction /\ Do("goto") \in Instruction
          /\ Do("error") \in Instruction /\ Do("endloop") \in Instruction
          /\ Do("task") \in Instruction
      BY DEF Do, Instruction
    <2>2. c.cmd \in {"SET", "GOTO", "ERROR", "STOP", "WAIT", "DROPPED"}
      BY <1>1
    <2>3. Lower(c) \in {<<Do("set")>>, <<Do("goto")>>, <<Do("error")>>,
                        <<Do("endloop")>>, <<Do("task")>>, <<>>}
      BY <2>2 DEF Lower
    <2>4. QED
      BY <2>1, <2>3, ShortSeqType
  <1>2. CASE c \in [cmd : {"GET", "VAL", "SAVE"}, sensor : Sensors]
    <2>1. Of("val", c.sensor) \in Instruction /\ Of("save", c.sensor) \in Instruction
      BY <1>2 DEF Of, Instruction
    <2>2. c.cmd \in {"GET", "VAL", "SAVE"}
      BY <1>2
    <2>3. Lower(c) \in {<<Of("val", c.sensor)>>, <<Of("save", c.sensor)>>}
      BY <2>2 DEF Lower
    <2>4. QED
      BY <2>1, <2>3, ShortSeqType
  <1>3. CASE c \in [cmd : {"MIN", "MAX"}, sensor : Sensors, value : Nat]
    <2>1. /\ Bound("min", c.sensor, c.value) \in Instruction
          /\ Bound("max", c.sensor, c.value) \in Instruction
      BY <1>3 DEF Bound, Instruction
    <2>2. c.cmd \in {"MIN", "MAX"}
      BY <1>3
    <2>3. Lower(c) \in {<<Bound("min", c.sensor, c.value)>>,
                        <<Bound("max", c.sensor, c.value)>>}
      BY <2>2 DEF Lower
    <2>4. QED
      BY <2>1, <2>3, ShortSeqType
  <1>4. CASE c \in [cmd : {"RANGE"}, sensor : Sensors, lo : Nat, hi : Nat]
    <2>1. /\ Bound("min", c.sensor, c.lo) \in Instruction
          /\ Bound("max", c.sensor, c.hi) \in Instruction
      BY <1>4 DEF Bound, Instruction
    <2>2. c.cmd = "RANGE"
      BY <1>4
    <2>3. Lower(c) = <<Bound("min", c.sensor, c.lo), Bound("max", c.sensor, c.hi)>>
      BY <2>2 DEF Lower
    <2>4. QED
      BY <2>1, <2>3, ShortSeqType
  <1>5. CASE c \in [cmd : {"CHECK"}, sensor : Sensors, lo : Limits, hi : Limits]
    <2>1. c.cmd = "CHECK"
      BY <1>5
    <2>2. Lower(c) = LowerCheck(c)
      BY <2>1 DEF Lower
    <2>3. QED
      BY <1>5, <2>2, LowerCheckType
  <1>6. CASE c \in [cmd : {"IF"}, sensor : Sensors, value : Nat,
                    severity : {"ERROR", "WARNING"}]
    <2>1. Condition({c.sensor}, None, c.value, TRUE, c.severity) \in Instruction
      BY <1>6 DEF Condition, Instruction, Limits
    <2>2. c.cmd = "IF"
      BY <1>6
    <2>3. Lower(c) = <<Condition({c.sensor}, None, c.value, TRUE, c.severity)>>
      BY <2>2 DEF Lower
    <2>4. QED
      BY <2>1, <2>3, ShortSeqType
  <1>7. CASE c \in [cmd : {"IF_OR"}, sensors : SUBSET Sensors, value : Nat,
                    severity : {"ERROR", "WARNING"}]
    <2>1. Condition(c.sensors, None, c.value, FALSE, c.severity) \in Instruction
      BY <1>7 DEF Condition, Instruction, Limits
    <2>2. c.cmd = "IF_OR"
      BY <1>7
    <2>3. Lower(c) = <<Condition(c.sensors, None, c.value, FALSE, c.severity)>>
      BY <2>2 DEF Lower
    <2>4. QED
      BY <2>1, <2>3, ShortSeqType
  <1>8. CASE c \in [cmd : {"FAIL"}, tail : {"none", "goto", "retry"}]
    <2>1. c.cmd = "FAIL"
      BY <1>8
    <2>2. Lower(c) = LowerFail(c)
      BY <2>1 DEF Lower
    <2>3. QED
      BY <1>8, <2>2, LowerFailType
  <1>9. CASE c \in [cmd : {"REPEAT"}, count : Nat]
    <2>1. [kind |-> "loop_block", count |-> c.count] \in Instruction
      BY <1>9 DEF Instruction
    <2>2. c.cmd = "REPEAT"
      BY <1>9
    <2>3. Lower(c) = <<[kind |-> "loop_block", count |-> c.count]>>
      BY <2>2 DEF Lower
    <2>4. QED
      BY <2>1, <2>3, ShortSeqType
  <1>10. QED
    BY <1>1, <1>2, <1>3, <1>4, <1>5, <1>6, <1>7, <1>8, <1>9 DEF Command

LEMMA RuntimeType ==
    ASSUME NEW block \in Block
    PROVE  Runtime(block) \in Seq(Instruction)
  <1>1. block.cmds \in Seq(Command)
    BY DEF Block
  <1>2. \A i \in DOMAIN block.cmds : block.cmds[i] \in Command
    BY <1>1
  <1> DEFINE lowered == [i \in DOMAIN block.cmds |-> Lower(block.cmds[i])]
  <1>3. \A i \in DOMAIN block.cmds : Lower(block.cmds[i]) \in Seq(Instruction)
    BY <1>2, LowerType
  <1>4. DOMAIN block.cmds = 1..Len(block.cmds) /\ Len(block.cmds) \in Nat
    BY <1>1
  <1>5. lowered \in Seq(Seq(Instruction))
    <2>1. lowered = [i \in 1..Len(block.cmds) |-> lowered[i]]
      BY <1>4
    <2>2. \A i \in 1..Len(block.cmds) : lowered[i] \in Seq(Instruction)
      BY <1>3, <1>4
    <2> HIDE DEF lowered
    <2>3. QED
      BY <1>4, <2>1, <2>2, MapType
  <1>6. Runtime(block) = FlattenSeq(lowered)
    BY DEF Runtime
  <1> HIDE DEF lowered
  <1>7. QED
    BY <1>5, <1>6, FlattenSeqType

LEMMA OrderedType ==
    ASSUME NEW doc \in Seq(Block)
    PROVE  Ordered(doc) \in Seq(Block)
  <1>1. ASSUME NEW type PROVE OfType(doc, type) \in Seq(Block)
    <2> DEFINE parts == [b \in DOMAIN doc |->
                            IF doc[b].type = type THEN <<doc[b]>> ELSE <<>>]
    <2>1. DOMAIN doc = 1..Len(doc) /\ Len(doc) \in Nat
      OBVIOUS
    <2>2. \A b \in 1..Len(doc) : parts[b] \in Seq(Block)
      BY <2>1, ShortSeqType
    <2>3. parts = [b \in 1..Len(doc) |-> parts[b]]
      BY <2>1
    <2>4. OfType(doc, type) = FlattenSeq(parts)
      BY DEF OfType
    <2> HIDE DEF parts
    <2>5. parts \in Seq(Seq(Block))
      BY <2>1, <2>2, <2>3, MapType
    <2>6. QED
      BY <2>4, <2>5, FlattenSeqType
  <1>2. QED
    BY <1>1 DEF Ordered

LEMMA GoalsType ==
    ASSUME NEW doc \in Documents
    PROVE  [g \in DOMAIN Ordered(doc) |-> Runtime(Ordered(doc)[g])]
              \in Seq(Seq(Instruction))
  <1>1. Ordered(doc) \in Seq(Block)
    BY ScenarioAssumption, OrderedType
  <1>2. \A g \in DOMAIN Ordered(doc) : Runtime(Ordered(doc)[g]) \in Seq(Instruction)
    BY <1>1, RuntimeType
  <1>3. QED
    BY <1>1, <1>2

-----------------------------------------------------------------------------
(* The interpreter.                                                        *)

\* Where a goal is: outside loops, or in the body of the one under way, which
\* ends before the first endloop.
LoopIsAt(i, end) ==
    /\ i \in 1..Len(Actions) /\ Actions[i].kind = "loop_block"
    /\ end \in i + 1..Len(Actions) + 1
    /\ \A j \in i + 1..end - 1 : Actions[j].kind # "endloop"
    /\ end <= Len(Actions) => Actions[end].kind = "endloop"

Outside ==
    /\ at \in 1..Len(Actions) + 2
    /\ at <= Len(Actions) => ~InBody(at)

Inside ==
    /\ loop \in Loop /\ phase = "run"
    /\ loop.start > 1 /\ loop.left > 0
    /\ LoopIsAt(loop.start - 1, loop.end)
    /\ at \in loop.start..loop.end - 1

PlaceInv ==
    /\ goals = <<>> => phase = "done" /\ loop = None
    /\ goals # <<>> => /\ goal \in 1..Len(goals)
                       /\ IF loop = None THEN Outside ELSE Inside
                       /\ phase = "pending" => at > Len(Actions)

DataInv ==
    /\ goals \in Seq(Seq(Instruction))
    /\ phase \in {"run", "pending", "done"}
    /\ skipped \in BOOLEAN /\ errs \in BOOLEAN
    /\ status \in Statuses /\ results \in Seq(Statuses)
    /\ phase = "pending" => results # <<>>
    /\ bounds \in [Sensors -> [min : Limits, max : Limits]]
    /\ judged \subseteq Sensors /\ pending \subseteq Sensors
    /\ values \in [Sensors -> MaybeLevel] /\ saved \in [Sensors -> MaybeLevel]
    /\ mock \subseteq Sensors
    /\ broken \in BOOLEAN /\ fooled \in BOOLEAN

\* A miss is an error of the run; at the end of a goal a bound was judged, is
\* still to be, or failed the run.
PassInv ==
    /\ broken => errs
    /\ phase \in {"pending", "done"} =>
          \A s \in Sensors : HasBounds(s) => s \in judged \cup pending \/ errs

\* How far the goal has got outside loops, and what is before the next action.
Reached == IF loop = None THEN at ELSE loop.start
Behind == IF loop = None THEN at - 1 ELSE loop.end - 1

\* The actions a goal executes in its own right, in their order: the loops
\* with all they hold are what it passes over.
Outer(p) == ~InBody(p) /\ Actions[p].kind \notin {"loop_block", "endloop"}

Due(p) ==
    /\ Actions[p].kind = "set" /\ ~InBody(p)
    /\ \A i \in 1..p - 1 : Actions[i].kind # "goto"

Turn(p) == Actions[p].kind = "goto" /\ ~InBody(p)

SentInv ==
    /\ sent \subseteq Nat
    /\ phase \in {"run", "pending"} =>
          /\ \A p \in DOMAIN Actions : p < Reached /\ Due(p) => p \in sent
          /\ skipped => \E i \in DOMAIN Actions : i <= Behind /\ Actions[i].kind = "goto"
          /\ \A q \in sent : q <= Behind
          /\ \A i \in DOMAIN Actions : i < Reached /\ Turn(i) =>
                skipped /\ \A q \in sent : q < i

-----------------------------------------------------------------------------
LEMMA InstructionFields ==
    ASSUME NEW a \in Instruction
    PROVE  /\ a.kind \in {"val", "save", "min", "max"} => a.sensor \in Sensors
           /\ a.kind \in {"min", "max"} => a.value \in Nat
           /\ a.kind = "condition" => a.sensors \subseteq Sensors
           /\ a.kind = "loop_block" => a.count \in Nat
  <1>1. CASE a \in [kind : {"set", "else", "goto", "retry", "error", "endloop", "task"}]
    BY <1>1
  <1>2. CASE a \in [kind : {"val", "save"}, sensor : Sensors]
    BY <1>2
  <1>3. CASE a \in [kind : {"min", "max"}, sensor : Sensors, value : Nat]
    BY <1>3
  <1>4. CASE a \in [kind : {"condition"}, sensors : SUBSET Sensors, lo : Limits,
                    hi : Limits, strict : BOOLEAN, severity : {"ERROR", "WARNING"}]
    BY <1>4
  <1>5. CASE a \in [kind : {"loop_block"}, count : Nat]
    BY <1>5
  <1>6. QED
    BY <1>1, <1>2, <1>3, <1>4, <1>5 DEF Instruction

LEMMA ActionsType ==
    ASSUME DataInv, goal \in 1..Len(goals)
    PROVE  Actions \in Seq(Instruction)
  BY DEF DataInv, Actions

LEMMA ActionType ==
    ASSUME DataInv, PlaceInv, phase = "run", at <= Len(Actions)
    PROVE  /\ goals # <<>> /\ goal \in 1..Len(goals)
           /\ Actions \in Seq(Instruction)
           /\ at \in 1..Len(Actions) /\ Action \in Instruction
  <1>1. goals # <<>> /\ goal \in 1..Len(goals)
    BY DEF PlaceInv
  <1>2. Actions \in Seq(Instruction)
    BY <1>1, ActionsType
  <1>3. at \in Nat \ {0}
    <2>1. CASE loop = None
      BY <1>1, <1>2, <2>1 DEF PlaceInv, Outside
    <2>2. CASE loop # None
      BY <1>1, <1>2, <2>2 DEF PlaceInv, Inside, Loop
    <2>3. QED
      BY <2>1, <2>2
  <1>4. at \in 1..Len(Actions)
    BY <1>2, <1>3
  <1>5. QED
    BY <1>1, <1>2, <1>4 DEF Action

(* The body of a loop ends before the first endloop.                       *)
LEMMA LoopEndIs ==
    ASSUME Actions \in Seq(Instruction), NEW i \in 1..Len(Actions),
           Actions[i].kind = "loop_block"
    PROVE  LoopIsAt(i, LoopEnd(i))
  <1> DEFINE ends == {j \in i + 1..Len(Actions) : Actions[j].kind = "endloop"}
  <1>1. CASE ends = {}
    <2>1. LoopEnd(i) = Len(Actions) + 1
      BY <1>1 DEF LoopEnd
    <2>2. QED
      BY <1>1, <2>1 DEF LoopIsAt
  <1>2. CASE ends # {}
    <2>1. ends \in SUBSET Nat
      OBVIOUS
    <2>2. \E j \in ends : \A k \in ends : j <= k
      <3> HIDE DEF ends
      <3>1. QED
        BY <1>2, <2>1, LeastElement
    <2>3. LoopEnd(i) = CHOOSE j \in ends : \A k \in ends : j <= k
      BY <1>2 DEF LoopEnd
    <2>4. LoopEnd(i) \in ends /\ \A k \in ends : LoopEnd(i) <= k
      BY <2>2, <2>3
    <2>5. QED
      BY <2>4 DEF LoopIsAt
  <1>3. QED
    BY <1>1, <1>2

(* After its STOP a goal is outside the loop, and nothing between was its    *)
(* own.                                                                    *)
LEMMA PastLoopIs ==
    ASSUME Actions \in Seq(Instruction), NEW i, NEW end, LoopIsAt(i, end)
    PROVE  /\ end + 1 \in 1..Len(Actions) + 2
           /\ end + 1 <= Len(Actions) => ~InBody(end + 1)
           /\ \A p \in i..end : p \in DOMAIN Actions => ~Outer(p)
           /\ \A p \in i + 1..end - 1 : InBody(p)
  <1>1. /\ i \in 1..Len(Actions) /\ end \in i + 1..Len(Actions) + 1
        /\ Actions[i].kind = "loop_block"
        /\ \A j \in i + 1..end - 1 : Actions[j].kind # "endloop"
        /\ end <= Len(Actions) => Actions[end].kind = "endloop"
    BY DEF LoopIsAt
  <1>2. end + 1 \in 1..Len(Actions) + 2
    BY <1>1
  <1>3. ASSUME end + 1 <= Len(Actions), InBody(end + 1) PROVE FALSE
    <2>1. Actions[end].kind = "endloop"
      BY <1>1, <1>3
    <2>2. PICK k \in 1..end : /\ Actions[k].kind = "loop_block"
                              /\ \A j \in k + 1..end + 1 : Actions[j].kind # "endloop"
      BY <1>1, <1>3 DEF InBody
    <2>3. k # end
      BY <2>1, <2>2
    <2>4. QED
      BY <1>1, <2>1, <2>2, <2>3
  <1>4. ASSUME NEW p \in i + 1..end - 1 PROVE InBody(p)
    <2>1. i \in 1..p - 1 /\ \A j \in i + 1..p : j \in i + 1..end - 1
      BY <1>1
    <2>2. QED
      BY <1>1, <2>1 DEF InBody
  <1>5. ASSUME NEW p \in i..end, p \in DOMAIN Actions PROVE ~Outer(p)
    <2>1. p = i \/ p \in i + 1..end - 1 \/ p = end
      BY <1>1
    <2>2. p = i \/ p = end => Actions[p].kind \in {"loop_block", "endloop"}
      BY <1>1, <1>5
    <2>3. QED
      BY <1>4, <2>1, <2>2 DEF Outer
  <1>6. QED
    BY <1>2, <1>3, <1>4, <1>5

\* What a step of a goal leaves behind it: nothing of the goal's own, but the
\* action it is at.
Moved ==
    /\ UNCHANGED <<goals, goal>>
    /\ at <= Behind' /\ Behind <= Behind'
    /\ \A p \in DOMAIN Actions : p < Reached' /\ Outer(p) => p < Reached \/ p = at

StepStatuses == Statuses \cup {"warning"}

LEMMA MergeType ==
    ASSUME DataInv, NEW st \in StepStatuses
    PROVE  Merge(st) \in Statuses
  BY DEF Merge, StepStatuses, Statuses, DataInv

LEMMA AdvanceData ==
    ASSUME DataInv, PlaceInv, phase = "run", at <= Len(Actions),
           NEW st \in StepStatuses, NEW new \in [Sensors -> MaybeLevel],
           Advance(st, new)
    PROVE  /\ status' \in Statuses /\ saved' \in [Sensors -> MaybeLevel]
           /\ UNCHANGED <<goals, goal, phase, results, pending>>
  <1>1. UNCHANGED <<goals, goal, phase, results, pending>>
    BY DEF Advance
  <1>2. "passed" \in StepStatuses
    BY DEF StepStatuses, Statuses
  <1>3. CASE loop = None
    BY <1>1, <1>3, MergeType DEF Advance
  <1>4. CASE loop # None
    <2>1. InLoop(st, new)
      BY <1>4 DEF Advance
    <2>2. loop.saved \in [Sensors -> MaybeLevel]
      BY <1>4, ActionType DEF PlaceInv, Inside, Loop
    <2>3. ASSUME NEW s \in StepStatuses, LoopIsOver(s)
          PROVE  status' \in Statuses /\ saved' \in [Sensors -> MaybeLevel]
      BY <2>2, <2>3, MergeType DEF LoopIsOver
    <2>4. QED
      BY <1>1, <1>2, <2>1, <2>3 DEF InLoop, DataInv
  <1>5. QED
    BY <1>3, <1>4

LEMMA LoopIsOverPlace ==
    ASSUME DataInv, PlaceInv, phase = "run", at <= Len(Actions), loop # None,
           NEW st, LoopIsOver(st), UNCHANGED <<goals, goal, phase>>
    PROVE  PlaceInv' /\ Moved
  <1>1. /\ Actions \in Seq(Instruction) /\ at \in 1..Len(Actions)
        /\ goals # <<>> /\ goal \in 1..Len(goals)
    BY ActionType
  <1>2. Inside
    BY <1>1 DEF PlaceInv
  <1>3. at' = loop.end + 1 /\ loop' = None
    BY DEF LoopIsOver, PastLoop
  <1>4. /\ loop.end + 1 \in 1..Len(Actions) + 2
        /\ loop.end + 1 <= Len(Actions) => ~InBody(loop.end + 1)
        /\ \A p \in loop.start - 1..loop.end : p \in DOMAIN Actions => ~Outer(p)
    BY <1>1, <1>2, PastLoopIs DEF Inside
  <1>5. Actions' = Actions
    BY DEF Actions
  <1>6. Outside'
    BY <1>3, <1>4, <1>5 DEF Outside, InBody
  <1>7. PlaceInv'
    BY <1>1, <1>3, <1>6 DEF PlaceInv
  <1>8. loop.start \in Nat /\ loop.end \in Nat /\ at \in loop.start..loop.end - 1
    BY <1>2 DEF Inside, Loop
  <1>9. Reached = loop.start /\ Reached' = loop.end + 1
    BY <1>3 DEF Reached
  <1>10. Behind = loop.end - 1 /\ Behind' = loop.end
    BY <1>3, <1>8 DEF Behind
  <1>11. ASSUME NEW p \in DOMAIN Actions, p < Reached', Outer(p) PROVE p < Reached
    <2>1. p \in Nat
      BY <1>1
    <2>2. p < loop.start \/ p \in loop.start - 1..loop.end
      BY <1>8, <1>9, <1>11, <2>1
    <2>3. p \notin loop.start - 1..loop.end
      BY <1>4, <1>11
    <2>4. QED
      BY <1>9, <2>2, <2>3
  <1>12. QED
    BY <1>7, <1>8, <1>10, <1>11 DEF Moved

LEMMA PastLoopPlace ==
    ASSUME DataInv, PlaceInv, phase = "run", at <= Len(Actions), loop = None,
           NEW end, LoopIsAt(at, end), at' = end + 1, UNCHANGED <<goals, goal, phase, loop>>
    PROVE  PlaceInv' /\ Moved
  <1>1. /\ Actions \in Seq(Instruction) /\ at \in 1..Len(Actions)
        /\ goals # <<>> /\ goal \in 1..Len(goals)
    BY ActionType
  <1>2. /\ end + 1 \in 1..Len(Actions) + 2
        /\ end + 1 <= Len(Actions) => ~InBody(end + 1)
        /\ \A p \in at..end : p \in DOMAIN Actions => ~Outer(p)
    BY <1>1, PastLoopIs
  <1>3. Actions' = Actions
    BY DEF Actions
  <1>4. Outside'
    BY <1>2, <1>3 DEF Outside, InBody
  <1>5. PlaceInv'
    BY <1>1, <1>4 DEF PlaceInv
  <1>6. end \in Nat /\ at < end
    BY <1>1 DEF LoopIsAt
  <1>7. Reached = at /\ Reached' = end + 1 /\ Behind = at - 1 /\ Behind' = end
    BY <1>6 DEF Reached, Behind
  <1>8. ASSUME NEW p \in DOMAIN Actions, p < Reached', Outer(p) PROVE p < Reached
    <2>1. p \in Nat
      BY <1>1
    <2>2. QED
      BY <1>1, <1>2, <1>6, <1>7, <1>8, <2>1
  <1>9. QED
    BY <1>1, <1>5, <1>6, <1>7, <1>8 DEF Moved

LEMMA StayInLoop ==
    ASSUME DataInv, PlaceInv, phase = "run", at <= Len(Actions), loop # None,
           loop' \in Loop, loop'.start = loop.start, loop'.end = loop.end,
           loop'.left > 0, at' \in loop.start..loop.end - 1,
           UNCHANGED <<goals, goal, phase>>
    PROVE  PlaceInv' /\ Moved
  <1>1. /\ Actions \in Seq(Instruction) /\ at \in 1..Len(Actions)
        /\ goals # <<>> /\ goal \in 1..Len(goals)
    BY ActionType
  <1>2. Inside
    BY <1>1 DEF PlaceInv
  <1>3. loop' # None
    BY ScenarioAssumption
  <1>4. Actions' = Actions
    BY DEF Actions
  <1>5. LoopIsAt(loop.start - 1, loop.end)'
    BY <1>2, <1>4 DEF Inside, LoopIsAt
  <1>6. Inside'
    BY <1>2, <1>5 DEF Inside
  <1>7. PlaceInv'
    BY <1>1, <1>3, <1>6 DEF PlaceInv
  <1>8. loop.start \in Nat /\ loop.end \in Nat /\ at \in loop.start..loop.end - 1
    BY <1>2 DEF Inside, Loop
  <1>9. Reached' = Reached /\ Behind' = Behind /\ Behind = loop.end - 1
    BY <1>3 DEF Reached, Behind
  <1>10. QED
    BY <1>7, <1>8, <1>9 DEF Moved

LEMMA AdvancePlace ==
    ASSUME DataInv, PlaceInv, phase = "run", at <= Len(Actions), NEW st, NEW new,
           loop = None => Action.kind # "loop_block", Advance(st, new)
    PROVE  PlaceInv' /\ Moved
  <1>1. /\ Actions \in Seq(Instruction) /\ at \in 1..Len(Actions)
        /\ goals # <<>> /\ goal \in 1..Len(goals)
    BY ActionType
  <1>2. UNCHANGED <<goals, goal, phase>>
    BY DEF Advance
  <1>3. CASE loop = None
    <2>1. at' = at + 1 /\ UNCHANGED loop
      BY <1>3 DEF Advance
    <2>2. Outside
      BY <1>1, <1>3 DEF PlaceInv
    <2>3. ASSUME at + 1 <= Len(Actions), InBody(at + 1) PROVE FALSE
      <3>1. PICK i \in 1..at : /\ Actions[i].kind = "loop_block"
                               /\ \A j \in i + 1..at + 1 : Actions[j].kind # "endloop"
        BY <1>1, <2>3 DEF InBody
      <3>2. i # at
        BY <1>3, <3>1 DEF Action
      <3>3. InBody(at)
        BY <1>1, <3>1, <3>2 DEF InBody
      <3>4. QED
        BY <1>1, <2>2, <3>3 DEF Outside
    <2>4. Actions' = Actions
      BY <1>2 DEF Actions
    <2>5. Outside'
      BY <1>1, <2>1, <2>3, <2>4 DEF Outside, InBody
    <2>6. PlaceInv'
      BY <1>1, <1>2, <1>3, <2>1, <2>5 DEF PlaceInv
    <2>7. Reached = at /\ Reached' = at + 1 /\ Behind = at - 1 /\ Behind' = at
      BY <1>1, <1>3, <2>1 DEF Reached, Behind
    <2>8. QED
      BY <1>1, <1>2, <2>6, <2>7 DEF Moved
  <1>4. CASE loop # None
    <2>1. InLoop(st, new)
      BY <1>4 DEF Advance
    <2>2. Inside
      BY <1>1, <1>4 DEF PlaceInv
    <2>3. /\ loop \in Loop /\ loop.start \in Nat /\ loop.end \in Nat
          /\ loop.left \in Nat \ {0} /\ at \in loop.start..loop.end - 1
      BY <2>2 DEF Inside, Loop
    <2>4. CASE \E s : LoopIsOver(s)
      BY <1>2, <1>4, <2>4, LoopIsOverPlace
    <2>5. CASE at + 1 = loop.end /\ loop.left # 1 /\ at' = loop.start
               /\ loop' = [loop EXCEPT !.left = @ - 1]
      <3>1. /\ loop' \in Loop /\ loop'.start = loop.start /\ loop'.end = loop.end
            /\ loop'.left > 0
        BY <2>3, <2>5 DEF Loop
      <3>2. at' \in loop.start..loop.end - 1
        BY <2>3, <2>5
      <3>3. QED
        BY <1>2, <1>4, <3>1, <3>2, StayInLoop
    <2>6. CASE at + 1 # loop.end /\ at' = at + 1 /\ loop' = loop
      <3>1. at' \in loop.start..loop.end - 1
        BY <2>3, <2>6
      <3>2. QED
        BY <1>2, <1>4, <2>3, <2>6, <3>1, StayInLoop
    <2>7. QED
      BY <2>1, <2>4, <2>5, <2>6 DEF InLoop
  <1>5. QED
    BY <1>3, <1>4

RunStep ==
    \/ ReadValue \/ Save \/ DeclareBound \/ Compare
    \/ Set \/ Say \/ Goto \/ Error \/ LoopBlock \/ Skip

LEMMA LoopBlockMoves ==
    ASSUME DataInv, PlaceInv, phase = "run", at <= Len(Actions), loop = None,
           Action.kind = "loop_block", LoopBlock
    PROVE  PlaceInv' /\ Moved
  <1>1. /\ Actions \in Seq(Instruction) /\ at \in 1..Len(Actions)
        /\ goals # <<>> /\ goal \in 1..Len(goals) /\ Action \in Instruction
    BY ActionType
  <1>2. LoopIsAt(at, LoopEnd(at))
    BY <1>1, LoopEndIs DEF Action
  <1>3. UNCHANGED <<goals, goal, phase>>
    BY DEF LoopBlock
  <1>4. CASE Action.count = 0 \/ LoopEnd(at) = at + 1
    BY <1>2, <1>3, <1>4, PastLoopPlace DEF LoopBlock, PastLoop
  <1>5. CASE ~ (Action.count = 0 \/ LoopEnd(at) = at + 1)
    <2>1. at' = at + 1 /\ loop' = [start |-> at + 1, end |-> LoopEnd(at),
                                   left |-> Action.count, saved |-> saved]
      BY <1>5 DEF LoopBlock
    <2>2. Action.count \in Nat \ {0} /\ LoopEnd(at) \in Nat /\ at + 1 < LoopEnd(at)
      BY <1>1, <1>2, <1>5, InstructionFields DEF LoopIsAt
    <2>3. loop' \in Loop /\ loop' # None
      BY <1>1, <2>1, <2>2, ScenarioAssumption DEF Loop, DataInv
    <2>4. Actions' = Actions
      BY <1>3 DEF Actions
    <2>5. /\ loop'.start = at + 1 /\ loop'.end = LoopEnd(at) /\ loop'.left = Action.count
      BY <2>1
    <2>6. Inside'
      <3>1. LoopIsAt(at, LoopEnd(at)) = (LoopIsAt(loop.start - 1, loop.end))'
        <4>1. loop'.start - 1 = at
          BY <1>1, <2>5
        <4>2. QED
          BY <2>4, <2>5, <4>1 DEF LoopIsAt
      <3>2. LoopIsAt(loop.start - 1, loop.end)'
        BY <1>2, <3>1
      <3>3. QED
        BY <1>1, <1>3, <2>1, <2>2, <2>3, <2>5, <3>2 DEF Inside
    <2>7. PlaceInv'
      BY <1>1, <1>3, <2>3, <2>6 DEF PlaceInv
    <2>8. /\ Reached = at /\ Behind = at - 1
          /\ Reached' = at + 1 /\ Behind' = LoopEnd(at) - 1
      BY <2>3, <2>5 DEF Reached, Behind
    <2>9. QED
      BY <1>1, <1>3, <2>2, <2>7, <2>8 DEF Moved
  <1>6. QED
    BY <1>4, <1>5

LEMMA RunStepMoves ==
    ASSUME DataInv, PlaceInv, RunStep
    PROVE  phase = "run" /\ at <= Len(Actions) /\ PlaceInv' /\ Moved
  <1>1. phase = "run" /\ at <= Len(Actions)
    BY DEF RunStep, ReadValue, Save, DeclareBound, Compare, Set, Say, Goto,
           Error, LoopBlock, Skip, Next1
  <1>2. ASSUME NEW st, NEW new, Advance(st, new),
               loop = None => Action.kind # "loop_block"
        PROVE  PlaceInv' /\ Moved
    BY <1>1, <1>2, AdvancePlace
  <1>3. CASE ReadValue
    BY <1>2, <1>3 DEF ReadValue, Next1
  <1>4. CASE Save
    BY <1>2, <1>4 DEF Save, Next1
  <1>5. CASE DeclareBound
    BY <1>2, <1>5 DEF DeclareBound, Next1
  <1>6. CASE Compare
    BY <1>2, <1>6 DEF Compare, Next1
  <1>7. CASE Set
    BY <1>2, <1>7 DEF Set, Next1
  <1>8. CASE Say
    BY <1>2, <1>8 DEF Say, Next1
  <1>9. CASE Goto
    BY <1>2, <1>9 DEF Goto, Next1
  <1>10. CASE Error
    BY <1>2, <1>10 DEF Error, Next1
  <1>11. CASE LoopBlock
    <2>1. Action.kind = "loop_block"
      BY <1>11 DEF LoopBlock, Next1
    <2>2. CASE loop = None
      BY <1>1, <1>11, <2>1, <2>2, LoopBlockMoves
    <2>3. CASE loop # None
      <3>1. Advance("passed", saved)
        BY <1>11, <2>3 DEF LoopBlock
      <3>2. QED
        BY <1>1, <2>3, <3>1, AdvancePlace
    <2>4. QED
      BY <2>2, <2>3
  <1>12. CASE Skip
    <2>1. CASE Action.kind = "loop_block" /\ loop = None
      <3>1. LoopIsAt(at, LoopEnd(at))
        BY <1>1, <2>1, ActionType, LoopEndIs DEF Action
      <3>2. at' = LoopEnd(at) + 1 /\ UNCHANGED <<goals, goal, phase, loop>>
        BY <1>12, <2>1 DEF Skip, PastLoop
      <3>3. QED
        BY <1>1, <2>1, <3>1, <3>2, PastLoopPlace
    <2>2. CASE ~ (Action.kind = "loop_block" /\ loop = None)
      <3>1. Advance("skipped", saved)
        BY <1>12, <2>2 DEF Skip
      <3>2. QED
        BY <1>1, <2>2, <3>1, AdvancePlace
    <2>3. QED
      BY <2>1, <2>2
  <1>13. QED
    BY <1>1, <1>3, <1>4, <1>5, <1>6, <1>7, <1>8, <1>9, <1>10, <1>11, <1>12 DEF RunStep

LEMMA PlaceInvNext == DataInv /\ PlaceInv /\ [Next]_vars => PlaceInv'
  <1> SUFFICES ASSUME DataInv, PlaceInv, [Next]_vars PROVE PlaceInv'
    OBVIOUS
  <1>1. ASSUME UNCHANGED <<goals, goal, at, phase, loop>> PROVE PlaceInv'
    BY <1>1 DEF PlaceInv, Outside, Inside, LoopIsAt, Actions, InBody
  <1>2. CASE RunStep
    BY <1>2, RunStepMoves
  <1>3. CASE GoalEnds
    <2>1. goals # <<>> /\ goal \in 1..Len(goals) /\ Actions \in Seq(Instruction)
      BY <1>3, ActionsType DEF GoalEnds, PlaceInv
    <2>2. loop = None
      <3> SUFFICES ASSUME loop # None PROVE FALSE
        OBVIOUS
      <3>1. Inside
        BY <2>1 DEF PlaceInv
      <3>2. at \in loop.start..loop.end - 1 /\ loop.end \in 1..Len(Actions) + 1
        BY <2>1, <3>1 DEF Inside, LoopIsAt
      <3>3. at <= Len(Actions)
        BY <2>1, <3>2
      <3>4. QED
        BY <1>3, <2>1, <3>2, <3>3 DEF GoalEnds
    <2>3. Outside'
      BY <1>3, <2>1, <2>2 DEF GoalEnds, PlaceInv, Outside, Actions, InBody
    <2>4. UNCHANGED <<goals, goal, at, loop>> /\ at > Len(Actions)
      BY <1>3 DEF GoalEnds
    <2>5. QED
      BY <2>1, <2>2, <2>3, <2>4 DEF PlaceInv, Actions
  <1>4. CASE NextGoal
    <2>1. /\ goals # <<>> /\ goal \in 1..Len(goals) /\ loop = None
          /\ goal' = goal + 1 /\ goal' \in 1..Len(goals)
      BY <1>4 DEF NextGoal, EnterGoal, PlaceInv, Inside, DataInv
    <2>2. at' = 1 /\ UNCHANGED <<goals, loop>> /\ phase' = "run"
      BY <1>4 DEF NextGoal, EnterGoal
    <2>3. Len(Actions') \in Nat
      BY <2>1, <2>2 DEF Actions, DataInv
    <2>4. Outside'
      BY <2>2, <2>3 DEF Outside, InBody
    <2>5. QED
      BY <2>1, <2>2, <2>4 DEF PlaceInv
  <1>5. CASE Finish
    <2>1. loop = None
      BY <1>5 DEF Finish, PlaceInv, Inside
    <2>2. QED
      BY <1>5, <2>1 DEF Finish, PlaceInv, Outside, Actions, InBody
  <1>6. ASSUME NEW s \in Sensors, JudgePending(s) PROVE PlaceInv'
    BY <1>1, <1>6 DEF JudgePending, place
  <1>7. CASE UNCHANGED vars
    BY <1>1, <1>7 DEF vars, place
  <1>8. QED
    BY <1>2, <1>3, <1>4, <1>5, <1>6, <1>7 DEF Next, RunStep

-----------------------------------------------------------------------------
(* Reading and judging.                                                    *)
LEMMA RefreshedType ==
    ASSUME DataInv, NEW r \in Refreshed
    PROVE  r.values \in [Sensors -> MaybeLevel] /\ r.mock \subseteq Sensors
  <1>1. CASE r = [values |-> values, mock |-> mock]
    BY <1>1 DEF DataInv
  <1>2. CASE r # [values |-> values, mock |-> mock]
    <2>1. PICK bad \in SUBSET Mapped, read \in [Mapped -> Levels] :
             r = [values |-> [s \in Sensors |-> IF s \notin Mapped THEN values[s]
                                    ELSE IF s \in bad THEN 0 ELSE read[s]],
                  mock |-> (mock \ Mapped) \cup bad]
      BY <1>2 DEF Refreshed
    <2>2. r.values = [s \in Sensors |-> IF s \notin Mapped THEN values[s]
                                        ELSE IF s \in bad THEN 0 ELSE read[s]]
      BY <2>1
    <2>3. r.values \in [Sensors -> MaybeLevel]
      BY <2>2, ScenarioAssumption DEF DataInv, MaybeLevel
    <2>4. r.mock \subseteq Sensors
      BY <2>1, ScenarioAssumption DEF DataInv
    <2>5. QED
      BY <2>3, <2>4
  <1>3. QED
    BY <1>1, <1>2

LEMMA ReadsType ==
    ASSUME DataInv, NEW s, NEW r \in Reads(s)
    PROVE  r.values \in [Sensors -> MaybeLevel] /\ r.mock \subseteq Sensors
  <1>1. CASE r = [values |-> values, mock |-> mock]
    BY <1>1 DEF DataInv
  <1>2. CASE r \in Refreshed
    BY <1>2, RefreshedType
  <1>3. QED
    BY <1>1, <1>2 DEF Reads

LEMMA KnownType ==
    ASSUME DataInv, NEW vals \in [Sensors -> MaybeLevel], NEW s \in Sensors
    PROVE  Known(s, vals) \in MaybeLevel
  BY DEF Known, DataInv

LEMMA SavedFromType ==
    ASSUME DataInv, NEW s \in Sensors, NEW r, r.values \in [Sensors -> MaybeLevel]
    PROVE  SavedFrom(s, r) \in [Sensors -> MaybeLevel]
  BY KnownType DEF SavedFrom, DataInv

LEMMA MeasuredStatusType ==
    ASSUME NEW s, NEW r
    PROVE  MeasuredStatus(s, r) \in {"passed", "failed"}
  BY DEF MeasuredStatus, Verdict

\* What a look at a bound may do.
Judged ==
    /\ judged' \in SUBSET Sensors /\ judged \subseteq judged'
    /\ errs' \in BOOLEAN /\ broken' \in BOOLEAN
    /\ errs => errs'
    /\ (broken => errs) => (broken' => errs')

LEMMA JudgeIs ==
    ASSUME DataInv, NEW s \in Sensors, NEW v, Judge(s, v)
    PROVE  Judged /\ (HasBounds(s) => s \in judged')
  <1>1. /\ judged' \in SUBSET Sensors /\ judged \subseteq judged'
        /\ HasBounds(s) => s \in judged'
    BY DEF DataInv, Judge
  <1>2. /\ errs' \in BOOLEAN /\ broken' \in BOOLEAN /\ (errs => errs')
        /\ (broken => errs) => (broken' => errs')
    BY DEF DataInv, Judge
  <1>3. QED
    BY <1>1, <1>2 DEF Judged

LEMMA MeasuredIs ==
    ASSUME DataInv, NEW s \in Sensors, NEW r, r.values \in [Sensors -> MaybeLevel],
           r.mock \subseteq Sensors, Measured(s, r)
    PROVE  /\ Judged
           /\ HasBounds(s) => s \in judged' \/ errs'
           /\ values' \in [Sensors -> MaybeLevel] /\ mock' \subseteq Sensors
           /\ fooled' \in BOOLEAN
  <1> DEFINE v == Known(s, r.values)
  <1>1. v \in MaybeLevel /\ mock' \subseteq Sensors
    BY KnownType DEF Measured
  <1>2. CASE v = None
    <2>1. /\ errs' = (errs \/ HasBounds(s)) /\ broken' = (broken \/ HasBounds(s))
          /\ values' = r.values /\ UNCHANGED <<judged, fooled>>
      BY <1>2 DEF Measured
    <2>2. /\ errs' \in BOOLEAN /\ broken' \in BOOLEAN /\ (errs => errs')
          /\ (broken => errs) => (broken' => errs')
          /\ HasBounds(s) => errs'
      BY <2>1 DEF DataInv
    <2>3. QED
      BY <1>1, <2>1, <2>2 DEF Judged, DataInv
  <1>3. CASE v # None
    <2>1. /\ Judge(s, v) /\ values' = [r.values EXCEPT ![s] = v]
          /\ fooled' = (fooled \/ (HasBounds(s) /\ InBounds(s, v) /\ s \in r.mock))
      BY <1>3 DEF Measured
    <2>2. fooled' \in BOOLEAN
      BY <2>1 DEF DataInv
    <2>3. values' \in [Sensors -> MaybeLevel]
      BY <1>1, <2>1
    <2>4. QED
      BY <1>1, <2>1, <2>2, <2>3, JudgeIs
  <1>4. QED
    BY <1>2, <1>3

-----------------------------------------------------------------------------
(* The data of a step.                                                     *)
LEMMA AdvanceIs ==
    ASSUME DataInv, PlaceInv, NEW kind, Next1(kind),
           NEW st \in StepStatuses, NEW new \in [Sensors -> MaybeLevel], Advance(st, new)
    PROVE  /\ status' \in Statuses /\ saved' \in [Sensors -> MaybeLevel]
           /\ UNCHANGED <<goals, goal, phase, results, pending>>
  BY AdvanceData DEF Next1

LEMMA InstructionAt ==
    ASSUME DataInv, PlaceInv, NEW kind, Next1(kind)
    PROVE  phase = "run" /\ Action.kind = kind /\ Action \in Instruction
  BY ActionType DEF Next1

LEMMA ReadValueIs ==
    ASSUME DataInv, PlaceInv, ReadValue
    PROVE  DataInv' /\ Judged /\ phase' = "run"
  <1>1. phase = "run" /\ Action.sensor \in Sensors
    BY InstructionAt, InstructionFields DEF ReadValue
  <1>2. PICK r \in Reads(Action.sensor) :
          /\ Measured(Action.sensor, r)
          /\ Advance(MeasuredStatus(Action.sensor, r), SavedFrom(Action.sensor, r))
    BY DEF ReadValue
  <1>3. r.values \in [Sensors -> MaybeLevel] /\ r.mock \subseteq Sensors
    BY ReadsType
  <1>4. /\ Judged
        /\ values' \in [Sensors -> MaybeLevel] /\ mock' \subseteq Sensors
        /\ fooled' \in BOOLEAN
    BY <1>1, <1>2, <1>3, MeasuredIs
  <1>5. /\ MeasuredStatus(Action.sensor, r) \in StepStatuses
        /\ SavedFrom(Action.sensor, r) \in [Sensors -> MaybeLevel]
    BY <1>1, <1>3, SavedFromType, MeasuredStatusType DEF StepStatuses, Statuses
  <1>6. /\ status' \in Statuses /\ saved' \in [Sensors -> MaybeLevel]
        /\ UNCHANGED <<goals, goal, phase, results, pending>>
    BY <1>2, <1>5, AdvanceIs DEF ReadValue
  <1>7. UNCHANGED <<skipped, bounds>>
    BY DEF ReadValue
  <1>8. QED
    BY <1>1, <1>4, <1>6, <1>7 DEF DataInv, Judged

LEMMA SaveIs ==
    ASSUME DataInv, PlaceInv, Save
    PROVE  DataInv' /\ Judged /\ phase' = "run"
  <1>1. phase = "run" /\ Action.sensor \in Sensors
    BY InstructionAt, InstructionFields DEF Save
  <1> DEFINE s == Action.sensor
             v == CASE saved[s] # None -> saved[s]
                    [] saved[s] = None /\ values[s] # None -> values[s]
                    [] OTHER -> IF s \in Analog THEN 0 ELSE None
  <1>2. v \in {saved[s], values[s], 0, None}
    OBVIOUS
  <1>3. v \in MaybeLevel
    BY <1>1, <1>2, ScenarioAssumption DEF DataInv, MaybeLevel
  <1>4. IF v = None
        THEN Advance("passed", saved) /\ UNCHANGED <<judged, errs, broken>>
        ELSE Judge(s, v) /\ Advance(Verdict(s, v), [saved EXCEPT ![s] = v])
    BY DEF Save
  <1>5. UNCHANGED <<skipped, bounds, values, mock, fooled>>
    BY DEF Save
  <1> HIDE DEF v
  <1>6. Judged
    <2>1. CASE v = None
      BY <1>4, <2>1 DEF Judged, DataInv
    <2>2. CASE v # None
      BY <1>1, <1>4, <2>2, JudgeIs
    <2>3. QED
      BY <2>1, <2>2
  <1>7. PICK st \in StepStatuses, new \in [Sensors -> MaybeLevel] : Advance(st, new)
    <2>1. CASE v = None
      BY <1>4, <2>1 DEF StepStatuses, Statuses, DataInv
    <2>2. CASE v # None
      <3>1. Verdict(s, v) \in StepStatuses
        BY DEF Verdict, StepStatuses, Statuses
      <3>2. [saved EXCEPT ![s] = v] \in [Sensors -> MaybeLevel]
        BY <1>3 DEF DataInv
      <3>3. QED
        BY <1>4, <2>2, <3>1, <3>2
    <2>3. QED
      BY <2>1, <2>2
  <1>8. /\ status' \in Statuses /\ saved' \in [Sensors -> MaybeLevel]
        /\ UNCHANGED <<goals, goal, phase, results, pending>>
    BY <1>7, AdvanceIs DEF Save
  <1>9. QED
    BY <1>1, <1>5, <1>6, <1>8 DEF DataInv, Judged

LEMMA DeclareBoundIs ==
    ASSUME DataInv, PlaceInv, DeclareBound
    PROVE  DataInv' /\ Judged /\ phase' = "run"
  <1>1. PICK kind \in {"min", "max"} : Next1(kind)
    BY DEF DeclareBound
  <1>2. phase = "run" /\ Action.sensor \in Sensors /\ Action.value \in Nat
    BY <1>1, InstructionAt, InstructionFields
  <1>3. bounds' \in [Sensors -> [min : Limits, max : Limits]]
    <2>1. bounds[Action.sensor] \in [min : Limits, max : Limits]
      BY <1>2 DEF DataInv
    <2>2. Action.value \in Limits
      BY <1>2 DEF Limits
    <2>3. /\ [bounds[Action.sensor] EXCEPT !.min = Action.value] \in [min : Limits, max : Limits]
          /\ [bounds[Action.sensor] EXCEPT !.max = Action.value] \in [min : Limits, max : Limits]
      BY <2>1, <2>2
    <2>4. PICK b \in [min : Limits, max : Limits] :
             bounds' = [bounds EXCEPT ![Action.sensor] = b]
      BY <2>3 DEF DeclareBound
    <2>5. QED
      BY <2>4 DEF DataInv
  <1>4. Advance("passed", saved) /\ UNCHANGED <<skipped, errs, judged, values, mock, history>>
    BY DEF DeclareBound
  <1>5. /\ status' \in Statuses /\ saved' \in [Sensors -> MaybeLevel]
        /\ UNCHANGED <<goals, goal, phase, results, pending>>
    BY <1>1, <1>4, AdvanceIs DEF StepStatuses, Statuses, DataInv
  <1>6. QED
    BY <1>2, <1>3, <1>4, <1>5 DEF DataInv, Judged, history

LEMMA CompareIs ==
    ASSUME DataInv, PlaceInv, Compare
    PROVE  DataInv' /\ Judged /\ phase' = "run"
  <1>1. phase = "run" /\ Action.sensors \subseteq Sensors
    BY InstructionAt, InstructionFields DEF Compare
  <1>2. PICK r \in Refreshed :
          /\ values' = r.values /\ mock' = r.mock
          /\ judged' = IF Blind(Action, r) THEN judged ELSE judged \cup Action.sensors
          /\ errs' = (errs \/ ConditionStatus(Action, r) = "failed")
          /\ broken' = (broken \/ ConditionStatus(Action, r) = "failed")
          /\ fooled' = (fooled \/ (/\ ConditionStatus(Action, r) = "passed"
                                   /\ Met(Action, r) \subseteq Unread(r)))
          /\ Advance(ConditionStatus(Action, r), saved)
    BY DEF Compare
  <1>3. values' \in [Sensors -> MaybeLevel] /\ mock' \subseteq Sensors
    BY <1>2, RefreshedType
  <1>4. judged' \in SUBSET Sensors /\ judged \subseteq judged'
    BY <1>1, <1>2 DEF DataInv
  <1>5. /\ errs' \in BOOLEAN /\ broken' \in BOOLEAN /\ (errs => errs')
        /\ (broken => errs) => (broken' => errs')
        /\ fooled' \in BOOLEAN
    BY <1>2 DEF DataInv
  <1>6. ConditionStatus(Action, r) \in StepStatuses
    <2>1. ConditionStatus(Action, r) \in {"failed", "passed", "warning"}
      BY DEF ConditionStatus
    <2>2. QED
      BY <2>1 DEF StepStatuses, Statuses
  <1>7. /\ status' \in Statuses /\ saved' \in [Sensors -> MaybeLevel]
        /\ UNCHANGED <<goals, goal, phase, results, pending>>
    BY <1>2, <1>6, AdvanceIs DEF Compare, DataInv
  <1>8. UNCHANGED <<skipped, bounds>>
    BY DEF Compare
  <1>9. QED
    BY <1>1, <1>3, <1>4, <1>5, <1>7, <1>8 DEF DataInv, Judged

LEMMA OtherStepIs ==
    ASSUME DataInv, PlaceInv, Set \/ Say \/ Goto \/ Error \/ LoopBlock \/ Skip
    PROVE  DataInv' /\ Judged /\ phase' = "run"
  <1>1. phase = "run" /\ at <= Len(Actions)
    BY DEF Set, Say, Goto, Error, LoopBlock, Skip, Next1
  <1>2. Judged /\ fooled' \in BOOLEAN
    <2>1. /\ (errs' = TRUE /\ broken' = TRUE) \/ UNCHANGED <<errs, broken>>
          /\ UNCHANGED <<judged, fooled>>
      BY DEF Set, Say, Goto, Error, LoopBlock, Skip, history
    <2>2. CASE errs' = TRUE /\ broken' = TRUE
      BY <2>1, <2>2 DEF Judged, DataInv
    <2>3. CASE UNCHANGED <<errs, broken>>
      BY <2>1, <2>3 DEF Judged, DataInv
    <2>4. QED
      BY <2>1, <2>2, <2>3
  <1>3. skipped' \in BOOLEAN /\ UNCHANGED <<bounds, values, mock>>
    BY DEF Set, Say, Goto, Error, LoopBlock, Skip, DataInv, history
  <1>4. ASSUME NEW st \in StepStatuses, Advance(st, saved)
        PROVE  /\ status' \in Statuses /\ saved' \in [Sensors -> MaybeLevel]
               /\ UNCHANGED <<goals, goal, phase, results, pending>>
    <2>1. saved \in [Sensors -> MaybeLevel]
      BY DEF DataInv
    <2>2. QED
      BY <1>1, <1>4, <2>1, AdvanceData
  <1>5. ASSUME NEW st \in StepStatuses, status' = Merge(st),
               UNCHANGED <<goals, goal, phase, saved, results, pending>>
        PROVE  /\ status' \in Statuses /\ saved' \in [Sensors -> MaybeLevel]
               /\ UNCHANGED <<goals, goal, phase, results, pending>>
    BY <1>5, MergeType DEF DataInv
  <1> USE DEF StepStatuses, Statuses
  <1>6. /\ status' \in Statuses /\ saved' \in [Sensors -> MaybeLevel]
        /\ UNCHANGED <<goals, goal, phase, results, pending>>
    <2>1. CASE Set
      BY <1>4, <2>1 DEF Set
    <2>2. CASE Say
      BY <1>4, <2>2 DEF Say
    <2>3. CASE Goto
      BY <1>4, <2>3 DEF Goto
    <2>4. CASE Error
      BY <1>4, <2>4 DEF Error
    <2>5. CASE LoopBlock
      <3>1. CASE loop # None
        <4>1. Advance("passed", saved)
          BY <2>5, <3>1 DEF LoopBlock
        <4>2. QED
          BY <1>4, <4>1
      <3>2. CASE loop = None
        BY <2>5, <3>2 DEF LoopBlock, DataInv
      <3>3. QED
        BY <3>1, <3>2
    <2>6. CASE Skip
      <3>1. CASE Action.kind = "loop_block" /\ loop = None
        BY <1>5, <2>6, <3>1 DEF Skip
      <3>2. CASE ~ (Action.kind = "loop_block" /\ loop = None)
        <4>1. Advance("skipped", saved)
          BY <2>6, <3>2 DEF Skip
        <4>2. QED
          BY <1>4, <4>1
      <3>3. QED
        BY <3>1, <3>2
    <2>7. QED
      BY <2>1, <2>2, <2>3, <2>4, <2>5, <2>6
  <1>7. QED
    BY <1>1, <1>2, <1>3, <1>6 DEF DataInv, Judged

LEMMA RunStepIs ==
    ASSUME DataInv, PlaceInv, RunStep
    PROVE  DataInv' /\ Judged /\ phase' = "run"
  BY ReadValueIs, SaveIs, DeclareBoundIs, CompareIs, OtherStepIs DEF RunStep

LEMMA GoalEndsIs ==
    ASSUME DataInv, PlaceInv, GoalEnds
    PROVE  DataInv'
  <1>1. results' = Append(results, status) /\ results' # <<>> /\ results' \in Seq(Statuses)
    BY DEF GoalEnds, DataInv
  <1>2. QED
    BY <1>1 DEF GoalEnds, DataInv, sensorVars, history

LEMMA NextGoalIs ==
    ASSUME DataInv, NextGoal
    PROVE  DataInv'
  <1>1. NoBounds \in [Sensors -> [min : Limits, max : Limits]]
    BY DEF NoBounds, Limits
  <1>2. /\ phase' = "run" /\ status' \in Statuses /\ skipped' \in BOOLEAN
        /\ bounds' = NoBounds /\ judged' = {}
        /\ UNCHANGED <<goals, results, errs, pending, values, saved, mock, broken, fooled>>
    BY DEF NextGoal, EnterGoal, Statuses, sensorVars
  <1>3. QED
    BY <1>1, <1>2 DEF DataInv

LEMMA JudgePendingIs ==
    ASSUME DataInv, NEW s \in Sensors, JudgePending(s)
    PROVE  /\ DataInv' /\ Judged
           /\ HasBounds(s) => s \in judged' \/ errs'
           /\ pending' = pending \ {s}
           /\ UNCHANGED <<goals, place, skipped, bounds, sent>>
  <1>1. PICK r \in Reads(s) :
          /\ Measured(s, r)
          /\ saved' = SavedFrom(s, r)
          /\ results' =
               IF MeasuredStatus(s, r) = "failed" /\ Last(results) = "passed"
               THEN [results EXCEPT ![Len(results)] = "failed"] ELSE results
    BY DEF JudgePending
  <1>2. r.values \in [Sensors -> MaybeLevel] /\ r.mock \subseteq Sensors
    BY ReadsType
  <1>3. /\ Judged
        /\ HasBounds(s) => s \in judged' \/ errs'
        /\ values' \in [Sensors -> MaybeLevel] /\ mock' \subseteq Sensors
        /\ fooled' \in BOOLEAN
    BY <1>1, <1>2, MeasuredIs
  <1>4. saved' \in [Sensors -> MaybeLevel]
    BY <1>1, <1>2, SavedFromType
  <1>5. results' \in Seq(Statuses) /\ results' # <<>>
    <2>1. results \in Seq(Statuses) /\ results # <<>>
      BY DEF DataInv, JudgePending
    <2>2. Len(results) \in 1..Len(results) /\ "failed" \in Statuses
      BY <2>1 DEF Statuses
    <2>3. /\ [results EXCEPT ![Len(results)] = "failed"] \in Seq(Statuses)
          /\ Len([results EXCEPT ![Len(results)] = "failed"]) = Len(results)
      BY <2>1, <2>2, ExceptSeq
    <2>4. [results EXCEPT ![Len(results)] = "failed"] # <<>>
      BY <2>1, <2>2, <2>3
    <2>5. QED
      BY <1>1, <2>1, <2>3, <2>4
  <1>6. /\ pending' = pending \ {s}
        /\ UNCHANGED <<goals, place, skipped, status, bounds, sent>>
    BY DEF JudgePending
  <1>7. QED
    BY <1>3, <1>4, <1>5, <1>6 DEF DataInv, Judged, place

LEMMA DataInvNext == DataInv /\ PlaceInv /\ [Next]_vars => DataInv'
  <1> SUFFICES ASSUME DataInv, PlaceInv, [Next]_vars PROVE DataInv'
    OBVIOUS
  <1>1. CASE RunStep
    BY <1>1, RunStepIs
  <1>2. CASE GoalEnds
    BY <1>2, GoalEndsIs
  <1>3. CASE NextGoal
    BY <1>3, NextGoalIs
  <1>4. CASE Finish
    BY <1>4 DEF Finish, DataInv, verdict, sensorVars, history
  <1>5. ASSUME NEW s \in Sensors, JudgePending(s) PROVE DataInv'
    BY <1>5, JudgePendingIs
  <1>6. CASE UNCHANGED vars
    BY <1>6 DEF vars, DataInv, place, verdict, sensorVars, history
  <1>7. QED
    BY <1>1, <1>2, <1>3, <1>4, <1>5, <1>6 DEF Next, RunStep

LEMMA InvInit == Init => DataInv /\ PlaceInv /\ PassInv /\ SentInv
  <1> SUFFICES ASSUME Init PROVE DataInv /\ PlaceInv /\ PassInv /\ SentInv
    OBVIOUS
  <1>1. PICK doc \in Documents :
          /\ goals = [g \in DOMAIN Ordered(doc) |-> Runtime(Ordered(doc)[g])]
          /\ errs = HasDropped(doc) /\ broken = HasDropped(doc)
    BY DEF Init
  <1>2. goals \in Seq(Seq(Instruction))
    BY <1>1, GoalsType
  <1>3. errs \in BOOLEAN /\ broken \in BOOLEAN /\ (broken => errs)
    BY <1>1 DEF HasDropped
  <1>4. /\ phase = IF goals = <<>> THEN "done" ELSE "run"
        /\ goal = 1 /\ at = 1 /\ loop = None
        /\ skipped = FALSE
        /\ status = "passed" /\ results = <<>>
        /\ bounds = NoBounds /\ judged = {} /\ pending = {}
        /\ values = [s \in Sensors |-> None]
        /\ saved = [s \in Sensors |-> None]
        /\ mock = {}
        /\ fooled = FALSE /\ sent = {}
    BY DEF Init
  <1>5. NoBounds \in [Sensors -> [min : Limits, max : Limits]]
    BY DEF NoBounds, Limits
  <1>6. DataInv
    <2>1. [s \in Sensors |-> None] \in [Sensors -> MaybeLevel]
      BY DEF MaybeLevel
    <2>2. results \in Seq(Statuses) /\ status \in Statuses
      BY <1>4 DEF Statuses
    <2>3. phase \in {"run", "done"} /\ phase # "pending"
      BY <1>4
    <2>4. QED
      BY <1>2, <1>3, <1>4, <1>5, <2>1, <2>2, <2>3 DEF DataInv
  <1>7. PlaceInv
    <2>1. goals # <<>> => goal \in 1..Len(goals) /\ Len(Actions) \in Nat
      BY <1>2, <1>4 DEF Actions
    <2>2. QED
      BY <1>4, <2>1 DEF PlaceInv, Outside, InBody
  <1>8. PassInv
    BY <1>3, <1>4 DEF PassInv, HasBounds
  <1>9. SentInv
    <2>1. goals # <<>> => Actions \in Seq(Instruction)
      BY <1>2, <1>4 DEF Actions
    <2>2. QED
      BY <1>4, <2>1 DEF SentInv, Reached
  <1>10. QED
    BY <1>6, <1>7, <1>8, <1>9

LEMMA PassInvNext == DataInv /\ PlaceInv /\ PassInv /\ [Next]_vars => PassInv'
  <1> SUFFICES ASSUME DataInv, PlaceInv, PassInv, [Next]_vars PROVE PassInv'
    OBVIOUS
  <1>1. CASE RunStep
    BY <1>1, RunStepIs DEF PassInv, Judged
  <1>2. CASE GoalEnds
    BY <1>2 DEF GoalEnds, PassInv, HasBounds, history, NoBounds
  <1>3. CASE NextGoal
    BY <1>3 DEF NextGoal, EnterGoal, PassInv
  <1>4. CASE Finish
    BY <1>4 DEF Finish, PassInv, HasBounds, verdict, history
  <1>5. ASSUME NEW s \in Sensors, JudgePending(s) PROVE PassInv'
    <2>1. /\ Judged /\ (HasBounds(s) => s \in judged' \/ errs')
          /\ pending' = pending \ {s} /\ UNCHANGED <<place, bounds>>
      BY <1>5, JudgePendingIs
    <2>2. phase = "pending"
      BY <1>5 DEF JudgePending
    <2>3. ASSUME NEW t \in Sensors, HasBounds(t) PROVE t \in judged' \cup pending' \/ errs'
      BY <2>1, <2>2, <2>3 DEF PassInv, Judged
    <2>4. \A t \in Sensors : HasBounds(t)' = HasBounds(t)
      BY <2>1 DEF HasBounds
    <2>5. QED
      BY <2>1, <2>3, <2>4 DEF PassInv, Judged
  <1>6. CASE UNCHANGED vars
    BY <1>6 DEF vars, PassInv, HasBounds, place, verdict, history
  <1>7. QED
    BY <1>1, <1>2, <1>3, <1>4, <1>5, <1>6 DEF Next, RunStep

-----------------------------------------------------------------------------
(* The commands that were sent.                                            *)
\* While a loop runs the position is in its body.
LEMMA LoopHasBody ==
    ASSUME DataInv, PlaceInv, phase = "run", at <= Len(Actions), loop # None
    PROVE  InBody(at)
  <1>1. /\ Actions \in Seq(Instruction) /\ at \in 1..Len(Actions) /\ goals # <<>>
    BY ActionType
  <1>2. Inside
    BY <1>1 DEF PlaceInv
  <1>3. loop.start - 1 \in Nat /\ at \in (loop.start - 1) + 1..loop.end - 1
    BY <1>2 DEF Inside, Loop
  <1>4. QED
    BY <1>1, <1>2, <1>3, PastLoopIs DEF Inside

LEMMA SentStep ==
    ASSUME DataInv, PlaceInv, SentInv, RunStep, sent' \subseteq Nat,
           sent \subseteq sent', sent' \subseteq sent \cup {at},
           Due(at) => at \in sent',
           skipped' => skipped \/ Action.kind = "goto",
           skipped \/ Action.kind = "goto" => skipped' /\ sent' = sent
    PROVE  SentInv'
  <1>1. /\ phase = "run" /\ at <= Len(Actions) /\ Moved
    BY RunStepMoves
  <1>2. /\ Actions \in Seq(Instruction) /\ at \in 1..Len(Actions)
        /\ goals # <<>> /\ goal \in 1..Len(goals)
    BY <1>1, ActionType
  <1>3. Actions' = Actions
    BY <1>1 DEF Moved, Actions
  <1>4. ASSUME NEW p \in DOMAIN Actions, p < Reached', Due(p) PROVE p \in sent'
    <2>1. p < Reached \/ p = at
      BY <1>1, <1>4 DEF Moved, Due, Outer
    <2>2. QED
      BY <1>1, <1>4, <2>1 DEF SentInv
  <1>5. \A p \in DOMAIN Actions : Due(p)' = Due(p)
    BY <1>3 DEF Due, InBody
  <1>6. ASSUME skipped'
        PROVE  \E i \in DOMAIN Actions : i <= Behind' /\ Actions[i].kind = "goto"
    <2>1. at <= Behind' /\ Behind <= Behind'
      BY <1>1 DEF Moved
    <2>2. CASE Action.kind = "goto"
      BY <1>2, <2>1, <2>2 DEF Action
    <2>3. CASE skipped
      <3>1. PICK i \in DOMAIN Actions : i <= Behind /\ Actions[i].kind = "goto"
        BY <1>1, <2>3 DEF SentInv
      <3>2. Behind \in Int /\ Behind' \in Int
        <4>1. Behind \in Int
          BY <1>2 DEF Behind, PlaceInv, Inside, Loop
        <4>2. Behind' \in Int
          <5>1. PlaceInv' /\ goals' # <<>>
            BY <1>1, <1>2, RunStepMoves DEF Moved
          <5>2. QED
            BY <5>1 DEF Behind, PlaceInv, Outside, Inside, Loop
        <4>3. QED
          BY <4>1, <4>2
      <3>3. QED
        BY <1>2, <2>1, <3>1, <3>2
    <2>4. QED
      BY <1>6, <2>2, <2>3
  <1>7. Behind \in Int /\ Behind' \in Int /\ Behind <= Behind' /\ at <= Behind'
    <2>1. Behind \in Int
      BY <1>2 DEF Behind, PlaceInv, Inside, Loop
    <2>2. PlaceInv' /\ goals' # <<>>
      BY <1>1, <1>2, RunStepMoves DEF Moved
    <2>3. Behind' \in Int
      BY <2>2 DEF Behind, PlaceInv, Outside, Inside, Loop
    <2>4. QED
      BY <1>1, <2>1, <2>3 DEF Moved
  <1>8. \A q \in sent' : q <= Behind'
    <2>1. \A q \in sent : q \in Nat /\ q <= Behind
      BY <1>1 DEF SentInv
    <2>2. QED
      BY <1>2, <1>7, <2>1
  <1>9. ASSUME NEW i \in DOMAIN Actions, i < Reached', Turn(i)
        PROVE  skipped' /\ \A q \in sent' : q < i
    <2>1. i < Reached \/ i = at
      BY <1>1, <1>9 DEF Moved, Turn, Outer
    <2>2. CASE i < Reached
      BY <1>1, <1>9, <2>2 DEF SentInv
    <2>3. CASE i = at
      <3>1. Action.kind = "goto" /\ ~InBody(at)
        BY <1>9, <2>3 DEF Turn, Action
      <3>2. loop = None
        BY <1>1, <3>1, LoopHasBody
      <3>3. \A q \in sent : q \in Nat /\ q <= at - 1
        BY <1>1, <3>2 DEF SentInv, Behind
      <3>4. QED
        BY <1>2, <2>3, <3>1, <3>3
    <2>4. QED
      BY <2>1, <2>2, <2>3
  <1>10. \A i \in DOMAIN Actions : Turn(i)' = Turn(i)
    BY <1>3 DEF Turn, InBody
  <1>11. QED
    BY <1>3, <1>4, <1>5, <1>6, <1>8, <1>9, <1>10 DEF SentInv

\* A command in a loop, or after a GOTO, is not due.
LEMMA SkippedNotDue ==
    ASSUME DataInv, PlaceInv, SentInv, phase = "run", at <= Len(Actions), skipped
    PROVE  ~Due(at)
  <1>1. /\ Actions \in Seq(Instruction) /\ at \in 1..Len(Actions) /\ goals # <<>>
    BY ActionType
  <1>2. CASE loop = None
    <2>1. PICK i \in DOMAIN Actions : i <= at - 1 /\ Actions[i].kind = "goto"
      BY <1>2 DEF SentInv, Behind
    <2>2. i \in 1..at - 1
      BY <1>1, <2>1
    <2>3. QED
      BY <2>1, <2>2 DEF Due
  <1>3. CASE loop # None
    BY <1>3, LoopHasBody DEF Due
  <1>4. QED
    BY <1>2, <1>3

LEMMA SentInvNext ==
    DataInv /\ PlaceInv /\ SentInv /\ [Next]_vars => SentInv'
  <1> SUFFICES ASSUME DataInv, PlaceInv, SentInv, [Next]_vars PROVE SentInv'
    OBVIOUS
  <1>1. CASE RunStep
    <2>1. /\ phase = "run" /\ at <= Len(Actions)
          /\ Actions \in Seq(Instruction) /\ at \in 1..Len(Actions)
      BY <1>1, RunStepMoves, ActionType
    <2>2. sent \subseteq Nat
      BY DEF SentInv
    <2>3. ASSUME Action.kind # "set", UNCHANGED sent,
                 skipped' <=> skipped \/ Action.kind = "goto"
          PROVE  SentInv'
      BY <1>1, <2>2, <2>3, SentStep DEF Due, Action
    <2>4. CASE Set
      <3>1. sent' = sent \cup {at} /\ UNCHANGED skipped /\ ~skipped /\ Action.kind = "set"
        BY <2>4 DEF Set, Next1
      <3>2. QED
        BY <1>1, <2>1, <2>2, <3>1, SentStep
    <2>5. CASE Skip
      <3>1. skipped /\ UNCHANGED <<skipped, sent>>
        BY <2>5 DEF Skip, history
      <3>2. ~Due(at)
        BY <2>1, <3>1, SkippedNotDue
      <3>3. QED
        BY <1>1, <2>2, <3>1, <3>2, SentStep
    <2>6. CASE ReadValue \/ Save \/ DeclareBound \/ Compare
      <3>1. /\ Action.kind \notin {"set", "goto"} /\ UNCHANGED <<sent, skipped>>
        BY <2>6 DEF ReadValue, Save, DeclareBound, Compare, Next1, history
      <3>2. QED
        BY <2>3, <3>1
    <2>7. CASE Say \/ Error \/ LoopBlock \/ Goto
      <3>1. Action.kind # "set" /\ UNCHANGED sent
        BY <2>7 DEF Say, Error, LoopBlock, Goto, Next1, history
      <3>2. CASE Goto
        BY <2>3, <3>1, <3>2 DEF Goto, Next1
      <3>3. CASE Say \/ Error \/ LoopBlock
        <4>1. Action.kind # "goto" /\ UNCHANGED skipped
          BY <3>3 DEF Say, Error, LoopBlock, Next1
        <4>2. QED
          BY <2>3, <3>1, <4>1
      <3>4. QED
        BY <2>7, <3>2, <3>3
    <2>8. QED
      BY <1>1, <2>4, <2>5, <2>6, <2>7 DEF RunStep
  <1>2. ASSUME UNCHANGED <<goals, goal, at, loop, skipped, sent>>, phase' # "run",
               phase' = "pending" => phase \in {"run", "pending"}
        PROVE  SentInv'
    <2>1. Actions' = Actions /\ Reached' = Reached /\ Behind' = Behind
      BY <1>2 DEF Actions, Reached, Behind
    <2>2. \A p \in DOMAIN Actions : Due(p)' = Due(p) /\ Turn(p)' = Turn(p)
      BY <1>2, <2>1 DEF Due, Turn, InBody
    <2>3. QED
      BY <1>2, <2>1, <2>2 DEF SentInv
  <1>3. CASE GoalEnds
    BY <1>2, <1>3 DEF GoalEnds, history
  <1>4. CASE NextGoal
    <2>1. /\ goal' \in 1..Len(goals) /\ at' = 1 /\ sent' = {} /\ skipped' = FALSE
          /\ loop' = None /\ UNCHANGED goals
      <3>1. loop = None /\ goal \in 1..Len(goals)
        BY <1>4 DEF NextGoal, PlaceInv, Inside, DataInv
      <3>2. QED
        BY <1>4, <3>1 DEF NextGoal, EnterGoal, DataInv
    <2>2. Actions' \in Seq(Instruction)
      BY <2>1 DEF Actions, DataInv
    <2>3. QED
      BY <2>1, <2>2 DEF SentInv, Reached
  <1>5. CASE Finish
    BY <1>2, <1>5 DEF Finish, history
  <1>6. ASSUME NEW s \in Sensors, JudgePending(s) PROVE SentInv'
    BY <1>2, <1>6 DEF JudgePending, place
  <1>7. CASE UNCHANGED vars
    <2>1. UNCHANGED <<goals, goal, at, loop, phase, skipped, sent>>
      BY <1>7 DEF vars, place, history
    <2>2. QED
      BY <2>1 DEF SentInv, Reached, Behind, Due, Turn, InBody, Actions
  <1>8. QED
    BY <1>1, <1>3, <1>4, <1>5, <1>6, <1>7 DEF Next, RunStep

-----------------------------------------------------------------------------
(* The state of a run has its types, and the position of a goal is in the  *)
(* body of the loop under way or in no body (_execute_step,                *)
(* exec_action_loop_block): for every document.                            *)
THEOREM TypeCorrect == Spec => []TypeOK
  <1>1. DataInv /\ PlaceInv /\ SentInv => TypeOK
    <2> SUFFICES ASSUME DataInv, PlaceInv, SentInv PROVE TypeOK
      OBVIOUS
    <2>1. goals # <<>> => /\ goal \in 1..Len(goals) /\ at \in 1..Len(Actions) + 2
                          /\ loop = None /\ at <= Len(Actions) => ~InBody(at)
      <3> SUFFICES ASSUME goals # <<>>
                   PROVE  /\ goal \in 1..Len(goals) /\ at \in 1..Len(Actions) + 2
                          /\ loop = None /\ at <= Len(Actions) => ~InBody(at)
        OBVIOUS
      <3>1. goal \in 1..Len(goals) /\ Actions \in Seq(Instruction)
        BY ActionsType DEF PlaceInv
      <3>2. CASE loop = None
        BY <3>1, <3>2 DEF PlaceInv, Outside
      <3>3. CASE loop # None
        <4>1. Inside
          BY <3>3 DEF PlaceInv
        <4>2. /\ at \in loop.start..loop.end - 1 /\ loop.start \in Nat
              /\ loop.start > 1 /\ loop.end \in 1..Len(Actions) + 1
          BY <3>1, <4>1 DEF Inside, LoopIsAt, Loop
        <4>3. QED
          BY <3>1, <3>3, <4>2
      <3>4. QED
        BY <3>2, <3>3
    <2>2. loop # None => loop \in Loop /\ at \in loop.start..loop.end - 1
      BY DEF PlaceInv, Inside
    <2>3. QED
      BY <2>1, <2>2 DEF TypeOK, DataInv, SentInv
  <1>2. QED
    BY InvInit, DataInvNext, PlaceInvNext, SentInvNext, <1>1, PTL DEF Spec

(* No false PASS (exec_action_val, _evaluate_pending_thresholds): a run that *)
(* reports ok missed no bound it judged and no condition, lost no line, and *)
(* at the end of a goal none of its bounds is left that neither was judged  *)
(* nor failed the run.                                                     *)
THEOREM PassesAreEarned == Spec => []PassIsEarned
  <1>1. DataInv /\ PassInv => PassIsEarned
    BY DEF PassInv, PassIsEarned, Ok, DataInv
  <1>2. QED
    BY InvInit, DataInvNext, PlaceInvNext, PassInvNext, <1>1, PTL DEF Spec

(* A GOTO ends its own goal and all of it, and no failure but an ERROR is    *)
(* even asked to end one (_execute_all_goals, _execute_action): at the end  *)
(* of a goal each of its commands outside loops that neither a GOTO nor an  *)
(* ERROR precedes was sent, and none behind a GOTO outside loops.           *)
THEOREM GoalsAreRun == Spec => []LaterGoalsRun
  <1>1. DataInv /\ PlaceInv /\ SentInv => LaterGoalsRun
    <2> SUFFICES ASSUME DataInv, PlaceInv, SentInv, phase = "pending", NEW p \in DOMAIN Actions
                 PROVE  /\ Due(p) => p \in sent
                        /\ Turn(p) => \A q \in sent : q < p
      BY DEF LaterGoalsRun, Due, Turn, Is
    <2>1. /\ goals # <<>> /\ goal \in 1..Len(goals) /\ at > Len(Actions)
          /\ loop = None
      BY DEF PlaceInv, Inside
    <2>2. Actions \in Seq(Instruction) /\ at \in Nat
      BY <2>1, ActionsType DEF PlaceInv, Outside
    <2>3. p < Reached
      BY <2>1, <2>2 DEF Reached
    <2>4. QED
      BY <2>3 DEF SentInv
  <1>2. QED
    BY InvInit, DataInvNext, PlaceInvNext, SentInvNext, <1>1, PTL DEF Spec

-----------------------------------------------------------------------------
(* The cache of the USB analog inputs.                                     *)
Samples == {"nothing", "values", "errors"}
ReaderStates == {"idle", "waiting", "ready"}
SamplerStates == {"ended", "created", "asleep", "waiting", "ready"}

CacheTypeInv ==
    /\ plugged \in BOOLEAN
    /\ channels \in Samples
    /\ age \in 0..MaxStale + 1
    /\ available \in {"unknown", "yes", "no"}
    /\ retryIn \in 0..Cooldown
    /\ inFlight \in {0, 1}
    /\ elapsed \in 0..Cooldown
    /\ activeFor \in 0..MaxStale
    /\ samplerTask \in Samplers \cup {NoSampler}
    /\ sampler \in [Samplers -> SamplerStates]
    /\ delay \in [Samplers -> Nat]
    /\ since \in [Samplers -> 0..Interval]
    /\ pc \in [Readers -> ReaderStates]
    /\ answer \in [Readers -> Samples \cup {"expired"}]

LEMMA CacheTypeInit == CacheInit => CacheTypeInv
  BY CacheAssumption DEF CacheInit, CacheTypeInv, Samples, ReaderStates, SamplerStates

USE DEF Samples, ReaderStates, SamplerStates

(* The parts that several actions are made of keep their type.             *)
LEMMA StartRefreshType ==
    ASSUME CacheTypeInv, StartRefresh
    PROVE  inFlight' = 1 /\ elapsed' \in 0..Cooldown
  BY CacheAssumption DEF CacheTypeInv, StartRefresh, readVars

LEMMA WakeAllType ==
    ASSUME CacheTypeInv, WakeAll
    PROVE  /\ pc' \in [Readers -> ReaderStates]
           /\ sampler' \in [Samplers -> SamplerStates]
  BY DEF CacheTypeInv, WakeAll

LEMMA EnsureSamplerType ==
    ASSUME CacheTypeInv, EnsureSampler
    PROVE  /\ activeFor' = MaxStale
           /\ samplerTask' \in Samplers
           /\ sampler' \in [Samplers -> SamplerStates]
           /\ UNCHANGED <<delay, since>>
  <1>1. activeFor' = MaxStale
    BY CacheAssumption DEF CacheTypeInv, EnsureSampler, Larger
  <1>2. /\ samplerTask' \in Samplers
        /\ sampler' \in [Samplers -> SamplerStates]
    BY CacheAssumption DEF CacheTypeInv, EnsureSampler, Alive
  <1>3. QED
    BY <1>1, <1>2 DEF EnsureSampler

LEMMA SampleType == CacheTypeInv => Sample \in Samples \cup {"expired"}
  BY CacheAssumption DEF CacheTypeInv, Sample

LEMMA LoopWithType ==
    ASSUME CacheTypeInv, NEW s \in Samplers, NEW due \in Nat, LoopWith(s, due)
    PROVE  /\ since' \in [Samplers -> 0..Interval]
           /\ delay' \in [Samplers -> Nat]
           /\ samplerTask' \in Samplers \cup {NoSampler}
           /\ sampler' \in [Samplers -> SamplerStates]
  BY CacheAssumption DEF CacheTypeInv, LoopWith, Larger

LEMMA CacheTypeNext == CacheTypeInv /\ [CacheNext]_cacheVars => CacheTypeInv'
  <1> SUFFICES ASSUME CacheTypeInv, [CacheNext]_cacheVars PROVE CacheTypeInv'
    OBVIOUS
  <1> USE CacheAssumption
  <1>1. ASSUME NEW r \in Readers, ReadCached(r) PROVE CacheTypeInv'
    BY <1>1, EnsureSamplerType, SampleType
    DEF ReadCached, Give, CacheTypeInv, sampleVars, readVars
  <1>2. ASSUME NEW r \in Readers, ReadErrors(r) PROVE CacheTypeInv'
    <2>1. inFlight' \in {0, 1} /\ elapsed' \in 0..Cooldown
      BY <1>2, StartRefreshType DEF ReadErrors, CacheTypeInv, readVars
    <2>2. QED
      BY <1>2, <2>1, EnsureSamplerType, SampleType
      DEF ReadErrors, Give, CacheTypeInv, sampleVars
  <1>3. ASSUME NEW r \in Readers, ReadRefused(r) PROVE CacheTypeInv'
    BY <1>3 DEF ReadRefused, Give, CacheTypeInv, sampleVars, readVars, samplerVars
  <1>4. ASSUME NEW r \in Readers, ReadWaits(r) PROVE CacheTypeInv'
    BY <1>4, StartRefreshType DEF ReadWaits, CacheTypeInv, sampleVars, samplerVars
  <1>5. ASSUME NEW r \in Readers, ReadGoesOn(r) PROVE CacheTypeInv'
    <2>1. AfterWait \in Samples \cup {"expired"}
      BY SampleType DEF AfterWait
    <2>2. QED
      BY <1>5, <2>1, EnsureSamplerType
      DEF ReadGoesOn, Give, CacheTypeInv, sampleVars, readVars
  <1>6. ASSUME NEW s \in Samplers, SamplerBegins(s) PROVE CacheTypeInv'
    <2>1. (IF age < Interval THEN Interval - age ELSE 0) \in Nat
      BY DEF CacheTypeInv
    <2>2. QED
      BY <1>6, <2>1, LoopWithType DEF SamplerBegins, CacheTypeInv, sampleVars, readVars
  <1>7. ASSUME NEW s \in Samplers, SamplerWakes(s) PROVE CacheTypeInv'
    <2>1. inFlight' \in {0, 1} /\ elapsed' \in 0..Cooldown
      BY <1>7, StartRefreshType DEF SamplerWakes, CacheTypeInv, readVars
    <2>2. QED
      BY <1>7, <2>1 DEF SamplerWakes, CacheTypeInv, sampleVars
  <1>8. ASSUME NEW s \in Samplers, SamplerGoesOn(s) PROVE CacheTypeInv'
    <2>1. Interval - since[s] \in Nat
      BY DEF CacheTypeInv
    <2>2. QED
      BY <1>8, <2>1, LoopWithType DEF SamplerGoesOn, CacheTypeInv, sampleVars, readVars
  <1>9. CASE ReadFails
    BY <1>9, WakeAllType DEF ReadFails, CacheTypeInv
  <1>10. ASSUME NEW sample \in {"values", "errors"}, ReadEnds(sample) PROVE CacheTypeInv'
    BY <1>10, WakeAllType DEF ReadEnds, CacheTypeInv
  <1>11. CASE Tick
    <2>1. /\ age' \in 0..MaxStale + 1
          /\ retryIn' \in 0..Cooldown
          /\ elapsed' \in 0..Cooldown
          /\ activeFor' \in 0..MaxStale
      BY <1>11 DEF Tick, CacheTypeInv, LessTo, Rest
    <2>2. delay' \in [Samplers -> Nat]
      BY <1>11 DEF Tick, CacheTypeInv, Rest
    <2>3. since' \in [Samplers -> 0..Interval]
      BY <1>11 DEF Tick, CacheTypeInv, LessTo
    <2>4. QED
      BY <1>11, <2>1, <2>2, <2>3 DEF Tick, CacheTypeInv
  <1>12. CASE Plug
    BY <1>12 DEF Plug, CacheTypeInv, sampleVars, readVars, samplerVars
  <1>13. CASE UNCHANGED cacheVars
    BY <1>13 DEF cacheVars, CacheTypeInv, sampleVars, readVars, samplerVars
  <1>14. QED
    BY <1>1, <1>2, <1>3, <1>4, <1>5, <1>6, <1>7, <1>8, <1>9, <1>10, <1>11, <1>12, <1>13
    DEF CacheNext, Poll, SamplerStep, ReadStep
-----------------------------------------------------------------------------
(* What EnsureSampler and the loop of a sampler do to the samplers alive.  *)
SamplerInv ==
    /\ \A s \in Samplers : Alive(s) => samplerTask = s
    /\ activeFor > 0 => \E s \in Samplers : Alive(s)

WaitInv ==
    (\E r \in Readers : pc[r] = "waiting")
       \/ (\E s \in Samplers : sampler[s] = "waiting") => inFlight = 1

LEMMA EnsureSamplerInv ==
    ASSUME CacheTypeInv, SamplerInv, EnsureSampler
    PROVE  /\ SamplerInv'
           /\ \A s \in Samplers : sampler'[s] = "waiting" => sampler[s] = "waiting"
  <1>1. CASE samplerTask # NoSampler /\ Alive(samplerTask)
    BY <1>1 DEF CacheTypeInv, SamplerInv, EnsureSampler, Alive
  <1>2. CASE ~(samplerTask # NoSampler /\ Alive(samplerTask))
    <2>1. \A s \in Samplers : ~Alive(s)
      BY <1>2, CacheAssumption DEF SamplerInv
    <2>2. PICK s \in Samplers : /\ samplerTask' = s
                                /\ sampler' = [sampler EXCEPT ![s] = "created"]
      BY <1>2 DEF EnsureSampler
    <2>3. QED
      BY <2>1, <2>2 DEF CacheTypeInv, SamplerInv, Alive
  <1>3. QED
    BY <1>1, <1>2

LEMMA LoopWithInv ==
    ASSUME CacheTypeInv, SamplerInv, NEW s \in Samplers, NEW due, LoopWith(s, due),
           Alive(s), UNCHANGED activeFor
    PROVE  /\ SamplerInv'
           /\ \A t \in Samplers : sampler'[t] = "waiting" => sampler[t] = "waiting"
  <1>1. CASE activeFor = 0
    BY <1>1 DEF CacheTypeInv, SamplerInv, LoopWith, Alive
  <1>2. CASE activeFor # 0
    BY <1>2 DEF CacheTypeInv, SamplerInv, LoopWith, Alive
  <1>3. QED
    BY <1>1, <1>2

LEMMA WakeAllInv ==
    ASSUME CacheTypeInv, SamplerInv, WakeAll, UNCHANGED <<samplerTask, activeFor>>
    PROVE  SamplerInv' /\ WaitInv'
  BY DEF CacheTypeInv, SamplerInv, WaitInv, WakeAll, Alive

LEMMA SamplerInvNext ==
    CacheTypeInv /\ SamplerInv /\ WaitInv /\ [CacheNext]_cacheVars =>
       SamplerInv' /\ WaitInv'
  <1> SUFFICES ASSUME CacheTypeInv, SamplerInv, WaitInv, [CacheNext]_cacheVars
               PROVE  SamplerInv' /\ WaitInv'
    OBVIOUS
  <1> USE CacheAssumption
  <1>1. ASSUME UNCHANGED <<samplerTask, sampler, activeFor>> PROVE SamplerInv'
    BY <1>1 DEF SamplerInv, Alive
  <1>2. ASSUME UNCHANGED <<pc, sampler, inFlight>> PROVE WaitInv'
    BY <1>2 DEF WaitInv
  <1>3. ASSUME NEW r \in Readers, ReadCached(r) PROVE SamplerInv' /\ WaitInv'
    BY <1>3, EnsureSamplerInv DEF ReadCached, WaitInv, readVars
  <1>4. ASSUME NEW r \in Readers, ReadErrors(r) PROVE SamplerInv' /\ WaitInv'
    <2>1. inFlight = 1 => inFlight' = 1
      BY <1>4, StartRefreshType DEF ReadErrors, readVars
    <2>2. QED
      BY <1>4, <2>1, EnsureSamplerInv DEF ReadErrors, WaitInv
  <1>5. ASSUME NEW r \in Readers, ReadRefused(r) PROVE SamplerInv' /\ WaitInv'
    BY <1>5, <1>1, <1>2 DEF ReadRefused, readVars, samplerVars
  <1>6. ASSUME NEW r \in Readers, ReadWaits(r) PROVE SamplerInv' /\ WaitInv'
    BY <1>6, <1>1, StartRefreshType DEF ReadWaits, samplerVars, WaitInv
  <1>7. ASSUME NEW r \in Readers, ReadGoesOn(r) PROVE SamplerInv' /\ WaitInv'
    <2>1. \A q \in Readers : pc'[q] = "waiting" => pc[q] = "waiting"
      BY <1>7 DEF ReadGoesOn, CacheTypeInv
    <2>2. QED
      BY <1>7, <2>1, EnsureSamplerInv DEF ReadGoesOn, WaitInv, readVars
  <1>8. ASSUME NEW s \in Samplers, SamplerBegins(s) PROVE SamplerInv' /\ WaitInv'
    BY <1>8, LoopWithInv DEF SamplerBegins, Alive, WaitInv, readVars
  <1>9. ASSUME NEW s \in Samplers, SamplerWakes(s) PROVE SamplerInv' /\ WaitInv'
    <2>1. CASE activeFor = 0
      BY <1>9, <2>1 DEF SamplerWakes, CacheTypeInv, SamplerInv, Alive, WaitInv, readVars
    <2>2. CASE activeFor # 0
      BY <1>9, <2>2, StartRefreshType DEF SamplerWakes, CacheTypeInv, SamplerInv, Alive, WaitInv
    <2>3. QED
      BY <2>1, <2>2
  <1>10. ASSUME NEW s \in Samplers, SamplerGoesOn(s) PROVE SamplerInv' /\ WaitInv'
    BY <1>10, LoopWithInv DEF SamplerGoesOn, Alive, WaitInv, readVars
  <1>11. CASE ReadStep
    BY <1>11, WakeAllInv DEF ReadStep, ReadFails, ReadEnds
  <1>12. CASE Tick
    BY <1>12, <1>2 DEF Tick, CacheTypeInv, SamplerInv, Alive, Rest
  <1>13. CASE Plug
    BY <1>13, <1>1, <1>2 DEF Plug, readVars, samplerVars
  <1>14. CASE UNCHANGED cacheVars
    BY <1>14, <1>1, <1>2 DEF cacheVars, readVars, samplerVars
  <1>15. QED
    BY <1>3, <1>4, <1>5, <1>6, <1>7, <1>8, <1>9, <1>10, <1>11, <1>12, <1>13, <1>14
    DEF CacheNext, Poll, SamplerStep

(* The sidecar is read once at a time and by the known sampler only        *)
(* (_start_usb_adc_refresh, _ensure_usb_adc_sampler), however many readers *)
(* poll and whatever the reads return.                                     *)
THEOREM OneReadAtATime == CacheSpec => []ReadsNeverOverlap
  <1>1. CacheInit => SamplerInv /\ WaitInv
    BY DEF CacheInit, SamplerInv, WaitInv, Alive
  <1>2. CacheTypeInv /\ SamplerInv /\ WaitInv => ReadsNeverOverlap
    BY DEF CacheTypeInv, SamplerInv, WaitInv, ReadsNeverOverlap
  <1>3. QED
    BY CacheTypeInit, CacheTypeNext, SamplerInvNext, <1>1, <1>2, PTL DEF CacheSpec
-----------------------------------------------------------------------------
LEMMA FreshNext == CacheTypeInv /\ ExpiredFailsClosed /\ [CacheNext]_cacheVars => ExpiredFailsClosed'
  <1> SUFFICES ASSUME CacheTypeInv, ExpiredFailsClosed, [CacheNext]_cacheVars
               PROVE  ExpiredFailsClosed'
    OBVIOUS
  <1> USE CacheAssumption
  <1>1. ASSUME NEW r \in Readers, NEW what, what # "expired", Give(r, what)
        PROVE  ExpiredFailsClosed'
    BY <1>1 DEF CacheTypeInv, ExpiredFailsClosed, Give
  <1>2. age <= MaxStale \/ channels = "errors" => Sample # "expired"
    BY DEF CacheTypeInv, Sample
  <1>3. ASSUME NEW r \in Readers, Poll(r) \/ ReadGoesOn(r) PROVE ExpiredFailsClosed'
    <2>1. PICK what : (what # "expired" /\ Give(r, what)) \/ UNCHANGED answer
      BY <1>2, <1>3
      DEF Poll, ReadCached, ReadErrors, ReadRefused, ReadWaits, ReadGoesOn, AfterWait, CacheTypeInv
    <2>2. QED
      BY <2>1, <1>1 DEF ExpiredFailsClosed
  <1>4. ASSUME UNCHANGED answer PROVE ExpiredFailsClosed'
    BY <1>4 DEF ExpiredFailsClosed
  <1>5. ASSUME NEW s \in Samplers, SamplerStep(s) PROVE UNCHANGED answer
    BY <1>5 DEF SamplerStep, SamplerBegins, SamplerWakes, SamplerGoesOn
  <1>6. ReadStep \/ Tick \/ Plug \/ UNCHANGED cacheVars => UNCHANGED answer
    BY DEF ReadStep, ReadFails, ReadEnds, Tick, Plug, cacheVars
  <1>7. QED
    BY <1>3, <1>4, <1>5, <1>6 DEF CacheNext

(* No reader is given values older than the limit of                       *)
(* read_usb_adc_sensor_values.                                             *)
THEOREM NothingExpired == CacheSpec => []ExpiredFailsClosed
  <1>1. CacheInit => ExpiredFailsClosed
    BY DEF CacheInit, ExpiredFailsClosed
  <1>2. QED
    BY CacheTypeInit, CacheTypeNext, FreshNext, <1>1, PTL DEF CacheSpec
=============================================================================
