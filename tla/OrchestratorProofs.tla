------------------------- MODULE OrchestratorProofs -------------------------
(***************************************************************************)
(* Theorems about Orchestrator, for every set of executions and every      *)
(* scenario.                                                               *)
(***************************************************************************)
EXTENDS Orchestrator, WellFoundedInduction, TLAPS

(* A set of naturals that contains 0 and each successor is Nat: the library *)
(* states induction for predicates, which no backend can instantiate, and   *)
(* minimal elements for sets.                                               *)
LEMMA LeastElement ==
    ASSUME NEW T \in SUBSET Nat, T # {}
    PROVE  \E n \in T : \A m \in T : n <= m
  <1> DEFINE R == OpToRel(<, Nat)
  <1>1. IsWellFoundedOn(R, Nat)
    BY NatLessThanWellFounded
  <1>2. R = {p \in Nat \X Nat : p[1] < p[2]}
    BY DEF OpToRel
  <1> HIDE DEF R
  <1>3. \E x \in T : \A y \in T : ~ (<<y, x>> \in R)
    BY <1>1, WFMin
  <1>4. ASSUME NEW a \in Nat, NEW b \in Nat, <<a, b>> \notin R PROVE b <= a
    <2>1. <<a, b>> \in Nat \X Nat
      OBVIOUS
    <2>2. ~ (<<a, b>>[1] < <<a, b>>[2])
      BY <1>2, <1>4, <2>1
    <2>3. QED
      BY <2>2
  <1>5. QED
    BY <1>3, <1>4

LEMMA SetInduction ==
    ASSUME NEW T \in SUBSET Nat, 0 \in T, \A n \in T : n + 1 \in T
    PROVE  T = Nat
  <1> SUFFICES ASSUME T # Nat PROVE FALSE
    OBVIOUS
  <1>1. PICK n \in Nat \ T : \A m \in Nat \ T : n <= m
    <2>1. Nat \ T # {} /\ Nat \ T \in SUBSET Nat
      OBVIOUS
    <2>2. QED
      BY <2>1, LeastElement
  <1>2. n # 0 /\ n - 1 \in T
    BY <1>1
  <1>3. QED
    BY <1>2

-----------------------------------------------------------------------------
(* Sums of the first elements of s: the recursion that defines StepsBefore, *)
(* which has a solution whatever s.                                        *)
Sums(n, s, f) ==
    f = [g \in 1..n + 1 |-> IF g = 1 THEN 0 ELSE f[g - 1] + s[g - 1]]

LEMMA SumsExist ==
    ASSUME NEW n \in Nat, NEW s \in [1..n -> Nat]
    PROVE  \E f : Sums(n, s, f)
  <1> DEFINE Counts(h, k) == /\ h \in [1..k + 1 -> Nat]
                             /\ h[1] = 0
                             /\ \A g \in 1..k : g <= n => h[g + 1] = h[g] + s[g]
             T == {k \in Nat : \E h : Counts(h, k)}
  <1>1. 0 \in T
    <2>1. Counts([g \in 1..1 |-> 0], 0)
      OBVIOUS
    <2>2. QED
      BY <2>1
  <1>2. ASSUME NEW k \in T PROVE k + 1 \in T
    <2>1. PICK h : Counts(h, k)
      OBVIOUS
    <2>2. PICK m \in Nat : k + 1 <= n => m = s[k + 1]
      OBVIOUS
    <2> DEFINE longer == [g \in 1..(k + 1) + 1 |-> IF g <= k + 1 THEN h[g] ELSE h[k + 1] + m]
    <2>3. longer \in [1..(k + 1) + 1 -> Nat]
      BY <2>1, <2>2
    <2>4. longer[1] = 0
      BY <2>1, <2>2
    <2>5. \A g \in 1..k + 1 : g <= n => longer[g + 1] = longer[g] + s[g]
      <3> SUFFICES ASSUME NEW g \in 1..k + 1, g <= n
                   PROVE  longer[g + 1] = longer[g] + s[g]
        OBVIOUS
      <3>1. CASE g <= k
        BY <2>1, <2>2, <3>1
      <3>2. CASE g = k + 1
        BY <2>1, <2>2, <3>2
      <3>3. QED
        BY <2>2, <3>1, <3>2
    <2> HIDE DEF longer
    <2>6. Counts(longer, k + 1)
      BY <2>3, <2>4, <2>5
    <2> HIDE DEF Counts
    <2>7. QED
      BY <2>6
  <1>3. T = Nat
    <2> HIDE DEF T
    <2>1. T \in SUBSET Nat
      BY DEF T
    <2>2. QED
      BY <2>1, <1>1, <1>2, SetInduction
  <1>4. PICK h : Counts(h, n)
    BY <1>3
  <1>5. \A g \in 1..n + 1 : h[g] = IF g = 1 THEN 0 ELSE h[g - 1] + s[g - 1]
    <2> SUFFICES ASSUME NEW g \in 1..n + 1, g # 1 PROVE h[g] = h[g - 1] + s[g - 1]
      BY <1>4
    <2>1. g - 1 \in 1..n /\ (g - 1) + 1 = g
      OBVIOUS
    <2>2. QED
      BY <1>4, <2>1
  <1>6. h = [g \in 1..n + 1 |-> h[g]]
    BY <1>4
  <1>7. Sums(n, s, h)
    BY <1>5, <1>6 DEF Sums
  <1>8. QED
    BY <1>7

(* The sums are naturals, and none is larger than the last.                *)
LEMMA SumsBounded ==
    ASSUME NEW n \in Nat, NEW s \in [1..n -> Nat], NEW f, Sums(n, s, f)
    PROVE  /\ f \in [1..n + 1 -> Nat]
           /\ f[1] = 0
           /\ \A g \in 1..n : f[g + 1] = f[g] + s[g]
           /\ \A g \in 1..n + 1 : f[g] <= f[n + 1]
  <1>1. f[1] = 0
    BY DEF Sums
  <1>2. \A g \in 1..n : f[g + 1] = f[g] + s[g]
    <2> SUFFICES ASSUME NEW g \in 1..n PROVE f[g + 1] = f[g] + s[g]
      OBVIOUS
    <2>1. g + 1 \in 1..n + 1 /\ g + 1 # 1 /\ (g + 1) - 1 = g
      OBVIOUS
    <2>2. QED
      BY <2>1 DEF Sums
  <1> DEFINE T == {k \in Nat : k <= n => f[k + 1] \in Nat}
             U == {k \in Nat : k <= n => f[(n + 1) - k] <= f[n + 1]}
  <1>3. T = Nat
    <2>1. 0 \in T
      BY <1>1
    <2>2. ASSUME NEW k \in T PROVE k + 1 \in T
      <3>1. k + 1 <= n => f[(k + 1) + 1] = f[k + 1] + s[k + 1]
        BY <1>2
      <3>2. k + 1 <= n => f[(k + 1) + 1] \in Nat
        BY <3>1
      <3>3. QED
        BY <3>2
    <2> HIDE DEF T
    <2>3. T \in SUBSET Nat
      BY DEF T
    <2>4. QED
      BY <2>1, <2>2, <2>3, SetInduction
  <1>4. \A g \in 1..n + 1 : f[g] \in Nat
    <2> SUFFICES ASSUME NEW g \in 1..n + 1 PROVE f[g] \in Nat
      OBVIOUS
    <2>1. \A k \in Nat : k <= n => f[k + 1] \in Nat
      BY <1>3
    <2>2. PICK k \in Nat : k <= n /\ k + 1 = g
      OBVIOUS
    <2>3. QED
      BY <2>1, <2>2
  <1>5. U = Nat
    <2>1. 0 \in U
      BY <1>4
    <2>2. ASSUME NEW k \in U PROVE k + 1 \in U
      <3> SUFFICES ASSUME k + 1 <= n PROVE f[(n + 1) - (k + 1)] <= f[n + 1]
        OBVIOUS
      <3>1. PICK g \in 1..n : g = n - k
        OBVIOUS
      <3>2. (n + 1) - k = g + 1 /\ (n + 1) - (k + 1) = g
        BY <3>1
      <3>3. f[g + 1] <= f[n + 1]
        BY <3>2
      <3>4. f[g] <= f[g + 1]
        BY <1>2, <1>4
      <3>5. f[g] \in Nat /\ f[g + 1] \in Nat /\ f[n + 1] \in Nat
        BY <1>4
      <3>6. f[g] <= f[n + 1]
        BY <3>3, <3>4, <3>5
      <3>7. QED
        BY <3>2, <3>6
    <2> HIDE DEF U
    <2>3. U \in SUBSET Nat
      BY DEF U
    <2>4. QED
      BY <2>1, <2>2, <2>3, SetInduction
  <1>6. \A g \in 1..n + 1 : f[g] <= f[n + 1]
    <2> SUFFICES ASSUME NEW g \in 1..n + 1 PROVE f[g] <= f[n + 1]
      OBVIOUS
    <2>1. PICK k \in Nat : k = (n + 1) - g
      OBVIOUS
    <2>2. k <= n /\ (n + 1) - k = g
      BY <2>1
    <2>3. QED
      BY <1>5, <2>2
  <1>7. f \in [1..n + 1 -> Nat]
    BY <1>4 DEF Sums
  <1>8. QED
    BY <1>1, <1>2, <1>6, <1>7

(* The step plan: StepsBefore counts the steps goal by goal.               *)
LEMMA StepPlan ==
    /\ Len(Goals) \in Nat \ {0}
    /\ Goals \in [1..Len(Goals) -> Nat]
    /\ TotalSteps \in Nat
    /\ StepsBefore \in [1..Len(Goals) + 1 -> Nat]
    /\ StepsBefore[1] = 0
    /\ \A g \in 1..Len(Goals) : StepsBefore[g + 1] = StepsBefore[g] + Goals[g]
    /\ \A g \in 1..Len(Goals) + 1 : StepsBefore[g] <= TotalSteps
  <1>1. Len(Goals) \in Nat \ {0} /\ Goals \in [1..Len(Goals) -> Nat]
    BY OrchestratorAssumption
  <1>2. \E f : Sums(Len(Goals), Goals, f)
    BY <1>1, SumsExist
  <1>3. StepsBefore = CHOOSE f : Sums(Len(Goals), Goals, f)
    BY DEF StepsBefore, Sums
  <1>4. Sums(Len(Goals), Goals, StepsBefore)
    BY <1>2, <1>3
  <1> DEFINE n == Len(Goals)
  <1> HIDE DEF n
  <1>5. /\ StepsBefore \in [1..n + 1 -> Nat]
        /\ StepsBefore[1] = 0
        /\ \A g \in 1..n : StepsBefore[g + 1] = StepsBefore[g] + Goals[g]
        /\ \A g \in 1..n + 1 : StepsBefore[g] <= StepsBefore[n + 1]
    <2>1. n \in Nat /\ Goals \in [1..n -> Nat] /\ Sums(n, Goals, StepsBefore)
      BY <1>1, <1>4 DEF n
    <2>2. QED
      BY <2>1, SumsBounded
  <1>6. StepsBefore[n + 1] \in Nat
    <2>1. n + 1 \in 1..n + 1
      BY <1>1 DEF n
    <2>2. QED
      BY <1>5, <2>1
  <1>7. QED
    BY <1>1, <1>5, <1>6 DEF TotalSteps, n

-----------------------------------------------------------------------------
(* The bookkeeping of one execution: the goal it is in, the steps it took  *)
(* there, and no more finished steps than the goals so far have.           *)
Busy(e) == IF pc[e] \in {"step", "sent"} THEN 1 ELSE 0

Walks(e) ==
    /\ pc[e] = "none" => goal[e] = 1 /\ taken[e] = 0 /\ completed[e] = 0
    /\ pc[e] # "done" =>
          /\ goal[e] <= Len(Goals)
          /\ taken[e] <= Goals[goal[e]]
          /\ pc[e] = "paused" => taken[e] < Goals[goal[e]]
          /\ completed[e] + Busy(e) <= StepsBefore[goal[e]] + taken[e]

(* An execution that was never started on top of another is the only one   *)
(* in progress, and the shared counter is its own.                         *)
Alone ==
    ~overlapped =>
      /\ \A d, e \in Live : d = e
      /\ \A e \in Live : stepCounter = completed[e] + Busy(e)
      /\ CurrentIndexIsLive

TypeInv == TypeOK /\ \A e \in Executions : Walks(e)

USE DEF Statuses, Waits

LEMMA WalksBound ==
    ASSUME TypeInv, NEW e \in Executions, pc[e] # "done"
    PROVE  /\ goal[e] \in 1..Len(Goals)
           /\ Goals[goal[e]] \in Nat
           /\ StepsBefore[goal[e]] \in Nat
           /\ taken[e] \in Nat /\ completed[e] \in Nat /\ TotalSteps \in Nat
           /\ StepsBefore[goal[e] + 1] = StepsBefore[goal[e]] + Goals[goal[e]]
           /\ StepsBefore[goal[e] + 1] <= TotalSteps
           /\ taken[e] < Goals[goal[e]] => completed[e] + Busy(e) < TotalSteps
           /\ completed[e] + Busy(e) <= TotalSteps
  <1>1. goal[e] \in 1..Len(Goals) /\ goal[e] + 1 \in 1..Len(Goals) + 1
    <2>1. goal[e] \in 1..Len(Goals) + 1
      BY DEF TypeInv, TypeOK
    <2>2. goal[e] <= Len(Goals)
      BY DEF TypeInv, Walks
    <2>3. Len(Goals) \in Nat
      BY StepPlan
    <2> HIDE DEF Statuses, Waits
    <2>4. QED
      BY <2>1, <2>2, <2>3
  <1>2. Goals[goal[e]] \in Nat /\ StepsBefore[goal[e]] \in Nat
    BY <1>1, StepPlan
  <1>3. taken[e] \in Nat /\ completed[e] \in Nat /\ TotalSteps \in Nat
    BY StepPlan DEF TypeInv, TypeOK
  <1>4. /\ StepsBefore[goal[e] + 1] = StepsBefore[goal[e]] + Goals[goal[e]]
        /\ StepsBefore[goal[e] + 1] <= TotalSteps
    BY <1>1, StepPlan
  <1>5. /\ taken[e] <= Goals[goal[e]]
        /\ completed[e] + Busy(e) <= StepsBefore[goal[e]] + taken[e]
    BY DEF TypeInv, Walks
  <1>6. QED
    BY <1>1, <1>2, <1>3, <1>4, <1>5 DEF Busy

LEMMA InitInv == Init => TypeInv /\ Alone
  <1> SUFFICES ASSUME Init PROVE TypeInv /\ Alone
    OBVIOUS
  <1>1. TypeOK
    <2>1. 1 \in 1..Len(Goals) + 1 /\ 0 \in 0..TotalSteps /\ -1 < TotalSteps
      BY StepPlan
    <2>2. -1 \in Nat \cup {-1} /\ 0 <= TotalSteps
      BY <2>1
    <2>3. /\ completed \in [Executions -> 0..TotalSteps]
          /\ goal \in [Executions -> 1..Len(Goals) + 1]
      BY <2>1 DEF Init
    <2>4. /\ running \in BOOLEAN /\ paused \in BOOLEAN /\ overlapped \in BOOLEAN
          /\ current \in Executions \cup {None}
          /\ currentIndex \in Nat \cup {-1} /\ stepCounter \in Nat
          /\ currentIndex < TotalSteps /\ stepCounter <= TotalSteps
      BY <2>1, <2>2 DEF Init
    <2>5. QED
      BY <2>3, <2>4 DEF Init, TypeOK
  <1>2. ASSUME NEW e \in Executions PROVE Walks(e)
    <2>1. 1 \in 1..Len(Goals) /\ 0 <= Goals[1]
      BY StepPlan
    <2>2. QED
      BY <2>1, StepPlan DEF Init, Walks, Busy
  <1>3. Alone
    BY DEF Init, Alone, Live, CurrentIndexIsLive
  <1>4. QED
    BY <1>1, <1>2, <1>3 DEF TypeInv

(* What a step of execution e leaves to the others.                        *)
Others(e) ==
    \A d \in Executions \ {e} :
        /\ pc'[d] = pc[d] /\ goal'[d] = goal[d] /\ taken'[d] = taken[d]
        /\ completed'[d] = completed[d]

LEMMA OthersWalk ==
    ASSUME TypeInv, NEW e \in Executions, Others(e), TypeOK', Walks(e)'
    PROVE  TypeInv'
  BY DEF TypeInv, Others, Walks, Busy

LEMMA BeginStepInv ==
    ASSUME TypeInv, Alone, NEW e \in Executions, BeginStep(e), e \in Live,
           Busy(e) = 0, taken[e] < Goals[goal[e]],
           UNCHANGED <<running, paused, current, goal, completed, status, history>>
    PROVE  TypeInv' /\ Alone'
  <1> USE WalksBound
  <1>1. pc[e] # "done" /\ completed[e] < TotalSteps
    BY DEF Live
  <1>2. ~overlapped => stepCounter < TotalSteps
    BY <1>1 DEF Alone
  <1>3. taken'[e] = taken[e] + 1 /\ pc'[e] = "step" /\ taken[e] \in Nat
    BY <1>1 DEF BeginStep, TypeInv, TypeOK
  <1>4. TypeOK'
    <2>1. /\ currentIndex' = stepCounter /\ stepCounter' = stepCounter + 1
          /\ taken' = [taken EXCEPT ![e] = @ + 1]
          /\ pc' = [pc EXCEPT ![e] = "step"]
          /\ UNCHANGED <<askedToStop, sentAfterStop, sentWhilePaused, overlapped>>
      BY DEF BeginStep, history
    <2>2. /\ currentIndex' \in Nat \cup {-1}
          /\ stepCounter' \in Nat
          /\ ~overlapped' => currentIndex' < TotalSteps /\ stepCounter' <= TotalSteps
      BY <1>2, <2>1, StepPlan DEF TypeInv, TypeOK
    <2>3. taken' \in [Executions -> Nat] /\ pc' \in [Executions -> Waits]
      BY <2>1 DEF TypeInv, TypeOK
    <2>4. QED
      BY <2>1, <2>2, <2>3 DEF TypeInv, TypeOK
  <1>5. Walks(e)'
    <2>1. /\ goal'[e] = goal[e] /\ completed'[e] = completed[e]
          /\ Busy(e) = 0 /\ Busy(e)' = 1 /\ pc[e] # "done"
      BY <1>1, <1>3 DEF Busy
    <2>2. /\ goal[e] <= Len(Goals)
          /\ completed[e] + 0 <= StepsBefore[goal[e]] + taken[e]
      BY <2>1 DEF TypeInv, Walks
    <2>3. /\ completed[e] \in Nat /\ StepsBefore[goal[e]] \in Nat /\ taken[e] \in Nat
          /\ Goals[goal[e]] \in Nat
      BY <1>1
    <2>4. QED
      BY <1>3, <2>1, <2>2, <2>3 DEF Walks, Busy
  <1>6. Others(e)
    BY DEF BeginStep, Others, TypeInv, TypeOK
  <1>7. ~overlapped => stepCounter = completed[e] /\ \A d \in Live : d = e
    <2>1. completed[e] + 0 = completed[e]
      BY <1>1
    <2>2. QED
      BY <2>1 DEF Alone
  <1>8. Live' = Live
    BY <1>3, <1>6 DEF Live, Others
  <1>9. Alone'
    <2> SUFFICES ASSUME ~overlapped'
                 PROVE  /\ \A c, d \in Live' : c = d
                        /\ \A d \in Live' : stepCounter' = completed'[d] + Busy(d)'
                        /\ CurrentIndexIsLive'
      BY DEF Alone
    <2>1. /\ ~overlapped /\ completed' = completed
          /\ currentIndex' = stepCounter /\ stepCounter' = stepCounter + 1
      BY DEF history, BeginStep
    <2>2. Live' = {e} /\ currentIndex' = completed'[e] /\ Busy(e)' = 1
      BY <1>3, <1>7, <1>8, <2>1 DEF Busy
    <2>3. CurrentIndexIsLive'
      BY <2>2 DEF CurrentIndexIsLive, Live
    <2>4. QED
      BY <1>7, <2>1, <2>2, <2>3
  <1>10. QED
    BY <1>4, <1>5, <1>6, <1>9, OthersWalk

LEMMA MoveInv ==
    ASSUME TypeInv, Alone, NEW e \in Executions, e \in Live, Busy(e) = 0,
           NEW to \in {"goalEnd", "paused"},
           to = "paused" => taken[e] < Goals[goal[e]],
           pc' = [pc EXCEPT ![e] = to],
           UNCHANGED <<shared, status, goal, taken, completed, history>>
    PROVE  TypeInv' /\ Alone'
  <1>1. pc'[e] = to /\ pc[e] # "done" /\ Busy(e)' = 0
    BY DEF TypeInv, TypeOK, Live, Busy
  <1>2. TypeOK'
    BY DEF TypeInv, TypeOK, history, shared
  <1>3. Others(e)
    BY DEF Others, TypeInv, TypeOK
  <1>4. Walks(e)'
    BY <1>1 DEF TypeInv, Walks
  <1>5. Live' = Live
    BY <1>1, <1>3 DEF Live, Others
  <1>6. Alone'
    BY <1>1, <1>3, <1>5
    DEF Alone, Busy, CurrentIndexIsLive, Live, Others, history, shared
  <1>7. QED
    BY <1>2, <1>3, <1>4, <1>6, OthersWalk

LEMMA StepInv == TypeInv /\ Alone /\ [Next]_vars => TypeInv' /\ Alone'
  <1> SUFFICES ASSUME TypeInv, Alone, [Next]_vars PROVE TypeInv' /\ Alone'
    OBVIOUS
  <1>1. ASSUME NEW e \in Executions, Start(e) PROVE TypeInv' /\ Alone'
    <2>1. pc[e] = "none" /\ pc'[e] = "goal" /\ Others(e)
      BY <1>1 DEF Start, Launch, Others, TypeInv, TypeOK
    <2>2. TypeOK'
      BY <1>1, StepPlan DEF Start, Launch, History, TypeInv, TypeOK
    <2>3. Walks(e)'
      BY <1>1, <2>1 DEF Start, TypeInv, Walks, Busy
    <2>4. Live' = Live \cup {e}
      BY <2>1 DEF Live, Others
    <2>5. ~overlapped' => Live' = {e}
      BY <1>1, <2>4 DEF Start, History
    <2>6. stepCounter' = 0 /\ completed'[e] = 0 /\ Busy(e)' = 0
      BY <1>1, <2>1 DEF Start, Launch, TypeInv, Walks, Busy
    <2>7. ~overlapped' => CurrentIndexIsLive'
      BY <2>1, <2>5 DEF CurrentIndexIsLive, Live
    <2>8. Alone'
      BY <2>5, <2>6, <2>7 DEF Alone
    <2>9. QED
      BY <2>1, <2>2, <2>3, <2>8, OthersWalk
  <1>2. ASSUME NEW e \in Executions, NextStep(e) PROVE TypeInv' /\ Alone'
    <2>1. e \in Live /\ Busy(e) = 0
      BY <1>2 DEF NextStep, Live, Busy
    <2>2. \/ LeaveGoal(e)
          \/ taken[e] < Goals[goal[e]] /\ AwaitResume(e)
          \/ taken[e] < Goals[goal[e]] /\ BeginStep(e)
      BY <1>2 DEF NextStep, LoopHead
    <2>3. CASE LeaveGoal(e)
      BY <1>2, <2>1, <2>3, MoveInv DEF NextStep, LeaveGoal, shared
    <2>4. CASE taken[e] < Goals[goal[e]] /\ AwaitResume(e)
      BY <1>2, <2>1, <2>4, MoveInv DEF NextStep, AwaitResume, shared
    <2>5. CASE taken[e] < Goals[goal[e]] /\ BeginStep(e)
      BY <1>2, <2>1, <2>5, BeginStepInv DEF NextStep
    <2>6. QED
      BY <2>2, <2>3, <2>4, <2>5
  <1>3. ASSUME NEW e \in Executions, ResumeStep(e) PROVE TypeInv' /\ Alone'
    <2>1. e \in Live /\ Busy(e) = 0 /\ taken[e] < Goals[goal[e]]
      BY <1>3 DEF ResumeStep, Live, Busy, TypeInv, Walks
    <2>2. QED
      BY <1>3, <2>1, BeginStepInv DEF ResumeStep, Poll
  <1>4. ASSUME NEW e \in Executions, Send(e) PROVE TypeInv' /\ Alone'
    <2>1. pc[e] = "step" /\ pc'[e] = "sent" /\ Others(e) /\ Busy(e)' = Busy(e)
      BY <1>4 DEF Send, Others, TypeInv, TypeOK, Busy
    <2>2. /\ sentAfterStop' \in [Executions -> Nat]
          /\ sentWhilePaused' \in [Executions -> Nat]
      BY <1>4 DEF Send, TypeInv, TypeOK
    <2>3. TypeOK'
      BY <1>4, <2>2 DEF Send, TypeInv, TypeOK, shared
    <2>4. Walks(e)'
      BY <1>4, <2>1 DEF Send, TypeInv, Walks
    <2>5. Live' = Live
      BY <2>1 DEF Live, Others
    <2>6. Alone'
      BY <1>4, <2>1, <2>5
      DEF Send, Alone, Busy, CurrentIndexIsLive, Live, Others, shared
    <2>7. QED
      BY <2>1, <2>3, <2>4, <2>6, OthersWalk
  <1>5. ASSUME NEW e \in Executions, Return(e) PROVE TypeInv' /\ Alone'
    <2>1. /\ pc[e] = "sent" /\ pc'[e] \in {"between", "failed"} /\ Others(e)
          /\ UNCHANGED <<shared, goal, taken, status, history>>
      BY <1>5 DEF Return, Others, TypeInv, TypeOK
    <2>2. /\ completed'[e] \in {completed[e], completed[e] + 1}
          /\ pc'[e] # "failed" => completed'[e] = completed[e] + 1
          /\ Busy(e) = 1 /\ Busy(e)' = 0
      BY <1>5 DEF Return, TypeInv, TypeOK, Busy
    <2>3. completed[e] + 1 <= TotalSteps /\ completed[e] \in Nat
      BY <2>1, <2>2, WalksBound
    <2>4. completed' \in [Executions -> 0..TotalSteps]
      <3>1. completed'[e] \in 0..TotalSteps
        BY <2>2, <2>3, StepPlan DEF TypeInv, TypeOK
      <3>2. \E n : completed' = [completed EXCEPT ![e] = n]
        BY <1>5 DEF Return, TypeInv, TypeOK
      <3>3. QED
        BY <3>1, <3>2 DEF TypeInv, TypeOK
    <2>5. TypeOK'
      <3>1. pc' \in [Executions -> Waits]
        BY <1>5 DEF Return, TypeInv, TypeOK
      <3>2. QED
        BY <2>1, <2>4, <3>1 DEF TypeInv, TypeOK, shared, history
    <2>6. Walks(e)'
      BY <2>1, <2>2, <2>3, WalksBound DEF TypeInv, Walks
    <2>7. Live' = IF pc'[e] = "failed" THEN Live \ {e} ELSE Live
      BY <2>1 DEF Live, Others
    <2>8. Alone'
      BY <2>1, <2>2, <2>3, <2>7
      DEF Alone, Busy, CurrentIndexIsLive, Live, Others, shared, history
    <2>9. QED
      BY <2>1, <2>5, <2>6, <2>8, OthersWalk
  <1>6. ASSUME NEW e \in Executions, EndGoal(e) PROVE TypeInv' /\ Alone'
    <2>1. /\ pc[e] = "goalEnd" /\ pc'[e] \in {"goal", "done"} /\ Others(e)
          /\ UNCHANGED <<paused, current, stepCounter, completed, history>>
          /\ Busy(e) = 0 /\ Busy(e)' = 0
      BY <1>6 DEF EndGoal, Others, TypeInv, TypeOK, Busy
    <2>2. goal'[e] = goal[e] + 1 /\ goal[e] \in 1..Len(Goals)
      BY <1>6, <2>1, WalksBound DEF EndGoal, TypeInv, TypeOK
    <2>3. TypeOK'
      <3>1. goal' \in [Executions -> 1..Len(Goals) + 1]
        <4>1. goal' = [goal EXCEPT ![e] = goal[e] + 1]
          BY <1>6 DEF EndGoal
        <4>2. goal[e] + 1 \in 1..Len(Goals) + 1
          BY <2>2, StepPlan
        <4>3. QED
          BY <4>1, <4>2 DEF TypeInv, TypeOK
      <3>2. /\ taken' \in [Executions -> Nat]
            /\ status' \in [Executions -> Statuses]
            /\ pc' \in [Executions -> Waits]
            /\ running' \in BOOLEAN
            /\ currentIndex' \in {currentIndex, TotalSteps - 1}
        <4>1. CASE goal[e] < Len(Goals) /\ running
          <5>1. /\ taken' = [taken EXCEPT ![e] = 0]
                /\ pc' = [pc EXCEPT ![e] = "goal"]
                /\ UNCHANGED <<running, currentIndex, status>>
            BY <1>6, <4>1 DEF EndGoal
          <5>2. QED
            BY <5>1 DEF TypeInv, TypeOK
        <4>2. CASE ~(goal[e] < Len(Goals) /\ running)
          BY <1>6, <4>2 DEF EndGoal, TypeInv, TypeOK
        <4>3. QED
          BY <4>1, <4>2
      <3>3. /\ currentIndex' \in Nat \cup {-1}
            /\ ~overlapped => currentIndex' < TotalSteps
        BY <3>2, StepPlan DEF TypeInv, TypeOK
      <3>4. QED
        BY <2>1, <3>1, <3>2, <3>3 DEF TypeInv, TypeOK, history
    <2>4. Walks(e)'
      <3>1. CASE pc'[e] = "goal"
        <4>1. taken'[e] = 0 /\ goal[e] < Len(Goals)
          BY <1>6, <2>1, <3>1 DEF EndGoal, TypeInv, TypeOK
        <4>2. goal'[e] \in 1..Len(Goals) /\ Goals[goal'[e]] \in Nat
          BY <2>2, <4>1, StepPlan
        <4>3. completed[e] <= StepsBefore[goal[e] + 1]
          BY <2>1, WalksBound DEF TypeInv, Walks
        <4>4. StepsBefore[goal'[e]] \in Nat /\ completed[e] \in Nat
          BY <4>2, <2>1, WalksBound, StepPlan
        <4>5. QED
          BY <2>1, <2>2, <3>1, <4>1, <4>2, <4>3, <4>4 DEF Walks
      <3>2. CASE pc'[e] = "done"
        BY <3>2 DEF Walks
      <3>3. QED
        BY <2>1, <3>1, <3>2
    <2>5. Live' = IF pc'[e] = "done" THEN Live \ {e} ELSE Live
      BY <2>1 DEF Live, Others
    <2>6. Alone'
      <3>1. e \in Live
        BY <2>1 DEF Live
      <3>2. \A d \in Live' : Busy(d)' = Busy(d)
        BY <2>1, <2>5 DEF Busy, Others, Live
      <3>3. ~overlapped => CurrentIndexIsLive'
        BY <2>1, <3>1 DEF Alone, CurrentIndexIsLive, Live, Others, history
      <3>4. QED
        BY <2>1, <2>5, <3>2, <3>3 DEF Alone, history
    <2>7. QED
      BY <2>1, <2>3, <2>4, <2>6, OthersWalk
  <1>7. ASSUME NEW e \in Executions, Pause(e) \/ Resume(e) \/ Stop(e)
        PROVE  TypeInv' /\ Alone'
    <2>1. UNCHANGED <<currentIndex, stepCounter, own, overlapped>>
      BY <1>7 DEF Pause, Resume, Stop, history
    <2>2. TypeOK'
      <3>1. /\ running' \in BOOLEAN /\ paused' \in BOOLEAN
            /\ \E new \in Statuses : status' = [status EXCEPT ![e] = new]
            /\ askedToStop' \subseteq Executions
            /\ sentWhilePaused' \in [Executions -> Nat]
            /\ UNCHANGED <<current, sentAfterStop>>
        <4>1. CASE Pause(e)
          BY <4>1 DEF Pause, TypeInv, TypeOK, history
        <4>2. CASE Resume(e)
          BY <4>2 DEF Resume, TypeInv, TypeOK
        <4>3. CASE Stop(e)
          BY <4>3 DEF Stop, TypeInv, TypeOK
        <4>4. QED
          BY <1>7, <4>1, <4>2, <4>3
      <3>2. QED
        BY <2>1, <3>1 DEF TypeInv, TypeOK, own
    <2>3. QED
      BY <2>1, <2>2
      DEF TypeInv, Walks, Busy, Alone, Live, CurrentIndexIsLive, own
  <1>8. CASE UNCHANGED vars
    BY <1>8
    DEF vars, shared, own, history, TypeInv, TypeOK, Walks, Busy, Alone, Live,
        CurrentIndexIsLive
  <1>9. QED
    BY <1>1, <1>2, <1>3, <1>4, <1>5, <1>6, <1>7, <1>8 DEF Next

(* The reachable states are well typed; the step counter of a scenario     *)
(* that runs alone stays within its step plan (_build_step_plan).          *)
THEOREM TypeCorrect == Spec => []TypeOK
  <1>1. TypeInv => TypeOK
    BY DEF TypeInv
  <1>2. QED
    BY InitInv, StepInv, <1>1, PTL DEF Spec

(* The index of execution_update is that of the step being executed, for   *)
(* any number of executions one after the other.                           *)
THEOREM IndexIsLive == Spec => []CurrentIndexIsLive
  <1>1. Alone => CurrentIndexIsLive
    BY DEF Alone, CurrentIndexIsLive
  <1>2. QED
    BY InitInv, StepInv, <1>1, PTL DEF Spec
-----------------------------------------------------------------------------
(* After a stop the flag is down until the next start; an execution that   *)
(* has sent its command since then can only leave its goal.                *)
StopInv ==
    \A e \in Executions :
        /\ sentAfterStop[e] <= 1
        /\ e \in askedToStop => ~running
        /\ sentAfterStop[e] > 0 => e \in askedToStop /\ pc[e] \notin {"step", "paused"}

PauseInv ==
    \A e \in Executions :
        /\ sentWhilePaused[e] <= 1
        /\ sentWhilePaused[e] > 0 => paused /\ pc[e] # "step"

LEMMA StopPauseNext ==
    TypeOK /\ StopInv /\ PauseInv /\ [Next]_vars => StopInv' /\ PauseInv'
  <1> SUFFICES ASSUME TypeOK, StopInv, PauseInv, [Next]_vars
               PROVE  StopInv' /\ PauseInv'
    OBVIOUS
  <1> USE DEF TypeOK, StopInv, PauseInv
  <1>1. ASSUME NEW e \in Executions, Start(e) PROVE StopInv' /\ PauseInv'
    BY <1>1 DEF Start, Launch, History
  <1>2. ASSUME NEW e \in Executions, NextStep(e) PROVE StopInv' /\ PauseInv'
    BY <1>2 DEF NextStep, LoopHead, LeaveGoal, AwaitResume, BeginStep, history
  <1>3. ASSUME NEW e \in Executions, ResumeStep(e) PROVE StopInv' /\ PauseInv'
    BY <1>3 DEF ResumeStep, Poll, BeginStep, history
  <1>4. ASSUME NEW e \in Executions, Send(e) PROVE StopInv' /\ PauseInv'
    <2>1. StopInv'
      BY <1>4 DEF Send, shared
    <2>2. PauseInv'
      BY <1>4 DEF Send, shared
    <2>3. QED
      BY <2>1, <2>2
  <1>5. ASSUME NEW e \in Executions, Return(e) PROVE StopInv' /\ PauseInv'
    BY <1>5 DEF Return, shared, history
  <1>6. ASSUME NEW e \in Executions, EndGoal(e) PROVE StopInv' /\ PauseInv'
    BY <1>6 DEF EndGoal, history
  <1>7. ASSUME NEW e \in Executions, Pause(e) \/ Resume(e) \/ Stop(e)
        PROVE  StopInv' /\ PauseInv'
    <2>1. CASE Pause(e)
      BY <2>1 DEF Pause, own, history
    <2>2. CASE Resume(e)
      BY <2>2 DEF Resume, own
    <2>3. CASE Stop(e)
      BY <2>3 DEF Stop, own
    <2>4. QED
      BY <1>7, <2>1, <2>2, <2>3
  <1>8. CASE UNCHANGED vars
    BY <1>8 DEF vars, shared, own, history
  <1>9. QED
    BY <1>1, <1>2, <1>3, <1>4, <1>5, <1>6, <1>7, <1>8 DEF Next

LEMMA StopPauseInit == Init => StopInv /\ PauseInv
  BY DEF Init, StopInv, PauseInv

(* A stop (execution_ctrl.py) lets at most one more command of an          *)
(* execution reach the hardware before the next start.                     *)
THEOREM StopTakesEffect == Spec => []AtMostOneCommandAfterStop
  <1>1. TypeInv => TypeOK
    BY DEF TypeInv
  <1>2. StopInv => AtMostOneCommandAfterStop
    BY DEF StopInv, AtMostOneCommandAfterStop
  <1>3. QED
    BY InitInv, StepInv, StopPauseInit, StopPauseNext, <1>1, <1>2, PTL DEF Spec

(* A pause lets at most one more command of each execution reach the       *)
(* hardware before the resume.                                             *)
THEOREM PauseTakesEffect == Spec => []AtMostOneCommandWhilePaused
  <1>1. TypeInv => TypeOK
    BY DEF TypeInv
  <1>2. PauseInv => AtMostOneCommandWhilePaused
    BY DEF PauseInv, AtMostOneCommandWhilePaused
  <1>3. QED
    BY InitInv, StepInv, StopPauseInit, StopPauseNext, <1>1, <1>2, PTL DEF Spec
=============================================================================
