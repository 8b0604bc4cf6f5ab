---------------------------- MODULE M5LeaseProofs ----------------------------
(***************************************************************************)
(* Theorems about M5Lease, for every number of callers, renewal tasks,     *)
(* worker threads, losses and clients.  The argument is about who owns     *)
(* what: a thread somebody waits for works for the holder of the lock and  *)
(* carries the command its holder stands at; abandoned threads belong to   *)
(* nobody and report to nobody.                                            *)
(***************************************************************************)
EXTENDS M5Lease, SequenceTheorems, TLAPS

InQueue(q, x) == \E i \in 1..Len(q) : q[i] = x
Distinct(q) == \A i, j \in 1..Len(q) : q[i] = q[j] => i = j

(* Joining a queue of distinct callers.                                    *)
LEMMA QueueJoin ==
  ASSUME NEW S, NEW q \in Seq(S), NEW e \in S, Distinct(q), ~InQueue(q, e),
         NEW a, a = Append(q, e)
  PROVE  /\ a \in Seq(S) /\ a # <<>> /\ Distinct(a)
         /\ \A x \in S : InQueue(a, x) <=> InQueue(q, x) \/ x = e
         /\ q # <<>> => Head(a) = Head(q)
  <1>1. /\ a \in Seq(S) /\ a # <<>> /\ Len(a) = Len(q) + 1 /\ Len(q) \in Nat
        /\ a[Len(q) + 1] = e /\ \A k \in 1..Len(q) : a[k] = q[k]
    BY AppendProperties, LenProperties
  <1>2. Head(a) = IF q = <<>> THEN e ELSE Head(q)
    BY HeadTailAppend
  <1>3. \A k \in 1..Len(a) : k \in 1..Len(q) \/ k = Len(q) + 1
    BY <1>1
  <1>4. Distinct(a)
    BY <1>1, <1>3 DEF Distinct, InQueue
  <1>5. \A x \in S : InQueue(a, x) <=> InQueue(q, x) \/ x = e
    BY <1>1, <1>3 DEF InQueue
  <1>6. QED
    BY <1>1, <1>2, <1>4, <1>5

(* Leaving it at its head.                                                 *)
LEMMA QueueLeave ==
  ASSUME NEW S, NEW q \in Seq(S), q # <<>>, Distinct(q)
  PROVE  /\ Tail(q) \in Seq(S) /\ Distinct(Tail(q))
         /\ InQueue(q, Head(q)) /\ Head(q) \in S
         /\ \A x \in S : InQueue(Tail(q), x) <=> InQueue(q, x) /\ x # Head(q)
  <1> DEFINE t == Tail(q)
  <1>1. /\ t \in Seq(S) /\ Len(t) = Len(q) - 1 /\ Len(q) \in Nat \ {0}
        /\ \A k \in 1..Len(t) : t[k] = q[k + 1]
    BY HeadTailProperties, EmptySeq
  <1>2. Head(q) = q[1] /\ Head(q) \in S
    BY HeadTailProperties
  <1> HIDE DEF t
  <1>3. \A k \in 1..Len(t) : k + 1 \in 1..Len(q) /\ k + 1 # 1
    BY <1>1
  <1>4. Distinct(t)
    BY <1>1, <1>3 DEF Distinct
  <1>5. 1 \in 1..Len(q) /\ InQueue(q, Head(q))
    BY <1>1, <1>2 DEF InQueue
  <1>6. ASSUME NEW x \in S PROVE InQueue(t, x) <=> InQueue(q, x) /\ x # Head(q)
    <2>1. InQueue(t, x) => InQueue(q, x) /\ x # Head(q)
      BY <1>1, <1>2, <1>3, <1>5 DEF InQueue, Distinct
    <2>2. ASSUME NEW k \in 1..Len(q), q[k] = x, x # Head(q) PROVE InQueue(t, x)
      <3>1. k # 1 /\ k - 1 \in 1..Len(t) /\ t[k - 1] = q[k]
        BY <1>1, <1>2, <2>2
      <3>2. QED
        BY <3>1, <2>2 DEF InQueue
    <2>3. QED
      BY <2>1, <2>2 DEF InQueue
  <1>7. QED
    BY <1>1, <1>2, <1>4, <1>5, <1>6 DEF t

(* The same of the lock, whose queue was q once its holder left.           *)
LEMMA LockBecomes ==
  ASSUME NEW q \in Seq(Callers), Distinct(q), NEW c \in Callers, ~InQueue(q, c),
         lock' = Append(q, c)
  PROVE  /\ lock' \in Seq(Callers) /\ Distinct(lock')
         /\ \A x \in Callers : InQueue(lock', x) <=> InQueue(q, x) \/ x = c
         /\ lock' # <<>> /\ (q # <<>> => Head(lock') = Head(q))
  <1>1. PICK a : a = Append(q, c)
    OBVIOUS
  <1>2. /\ a \in Seq(Callers) /\ a # <<>> /\ Distinct(a)
        /\ \A x \in Callers : InQueue(a, x) <=> InQueue(q, x) \/ x = c
        /\ q # <<>> => Head(a) = Head(q)
    BY <1>1, QueueJoin
  <1>3. lock' = a
    BY <1>1
  <1>4. QED
    BY <1>2, <1>3 DEF Distinct, InQueue

(* Leaving it anywhere.                                                    *)
LEMMA QueueWithout ==
  ASSUME NEW S, lock \in Seq(S), Distinct(lock), NEW c
  PROVE  /\ Without(c) \in Seq(S) /\ Distinct(Without(c))
         /\ \A x \in S : InQueue(Without(c), x) <=> InQueue(lock, x) /\ x # c
         /\ lock # <<>> /\ Head(lock) # c
              => Without(c) # <<>> /\ Head(Without(c)) = Head(lock)
  <1>1. DOMAIN lock = 1..Len(lock) /\ Len(lock) \in Nat
        /\ \A k \in 1..Len(lock) : lock[k] \in S
    BY LenProperties, ElementOfSeq
  <1>2. CASE \A i \in DOMAIN lock : lock[i] # c
    <2>1. Without(c) = lock
      BY <1>2 DEF Without
    <2>2. ~InQueue(lock, c)
      BY <1>1, <1>2 DEF InQueue
    <2>3. QED
      BY <2>1, <2>2
  <1>3. CASE \E i \in DOMAIN lock : lock[i] = c
    <2> DEFINE i == Place(c)
               l == SubSeq(lock, 1, i - 1)
               r == SubSeq(lock, i + 1, Len(lock))
               w == l \o r
    <2>1. i \in 1..Len(lock) /\ lock[i] = c
      BY <1>1, <1>3 DEF Place
    <2>2. w = Without(c)
      BY <1>3 DEF Without
    <2> HIDE DEF i, l, r
    <2>3. /\ l \in Seq(S) /\ Len(l) = i - 1 /\ \A k \in 1..i - 1 : l[k] = lock[k]
      <3>1. 1 \in Int /\ i - 1 \in Int /\ \A k \in 1..i - 1 : lock[k] \in S
        BY <1>1, <2>1
      <3>2. l \in Seq(S)
        BY <3>1, SubSeqProperties DEF l
      <3>3. Len(l) = IF 1 <= i - 1 THEN (i - 1) - 1 + 1 ELSE 0
        BY <3>1, SubSeqProperties DEF l
      <3>4. \A k \in 1..(i - 1) - 1 + 1 : l[k] = lock[1 + k - 1]
        BY <3>1, SubSeqProperties DEF l
      <3>5. i - 1 \in Nat /\ (i - 1) - 1 + 1 = i - 1 /\ \A k \in 1..i - 1 : 1 + k - 1 = k
        BY <1>1, <2>1
      <3>6. Len(l) = i - 1 /\ \A k \in 1..i - 1 : l[k] = lock[k]
        BY <3>3, <3>4, <3>5
      <3>7. QED
        BY <3>2, <3>6
    <2>4. /\ r \in Seq(S) /\ Len(r) = Len(lock) - i
          /\ \A k \in 1..Len(lock) - i : r[k] = lock[i + k]
      <3>1. i + 1 \in Int /\ Len(lock) \in Int /\ \A k \in i + 1..Len(lock) : lock[k] \in S
        BY <1>1, <2>1
      <3>2. r \in Seq(S)
        BY <3>1, SubSeqProperties DEF r
      <3>3. Len(r) = IF i + 1 <= Len(lock) THEN Len(lock) - (i + 1) + 1 ELSE 0
        BY <3>1, SubSeqProperties DEF r
      <3>4. \A k \in 1..Len(lock) - (i + 1) + 1 : r[k] = lock[(i + 1) + k - 1]
        BY <3>1, SubSeqProperties DEF r
      <3>5. /\ Len(lock) - (i + 1) + 1 = Len(lock) - i /\ Len(lock) - i \in Nat
            /\ \A k \in 1..Len(lock) - i : (i + 1) + k - 1 = i + k
        BY <1>1, <2>1
      <3>6. Len(r) = Len(lock) - i
        <4> DEFINE n == Len(lock)
        <4>1. n \in Nat /\ i \in 1..n /\ Len(r) = IF i + 1 <= n THEN n - (i + 1) + 1 ELSE 0
          BY <1>1, <2>1, <3>3
        <4> HIDE DEF n
        <4>2. CASE i + 1 <= n
          BY <4>1, <4>2 DEF n
        <4>3. CASE ~(i + 1 <= n)
          <5>1. n = i
            BY <4>1, <4>3
          <5>2. QED
            BY <4>1, <4>3, <5>1 DEF n
        <4>4. QED
          BY <4>2, <4>3
      <3>7. \A k \in 1..Len(lock) - i : r[k] = lock[i + k]
        BY <3>4, <3>5
      <3>8. QED
        BY <3>2, <3>6, <3>7
    <2>5. /\ w \in Seq(S) /\ Len(w) = Len(lock) - 1
          /\ \A k \in 1..Len(lock) - 1 : w[k] = IF k < i THEN lock[k] ELSE lock[k + 1]
      <3>1. /\ w \in Seq(S) /\ Len(w) = Len(l) + Len(r)
            /\ \A k \in 1..Len(l) + Len(r) :
                 w[k] = IF k <= Len(l) THEN l[k] ELSE r[k - Len(l)]
        BY <2>3, <2>4, ConcatProperties
      <3>2. Len(l) + Len(r) = Len(lock) - 1
        BY <1>1, <2>1, <2>3, <2>4
      <3>3. ASSUME NEW k \in 1..Len(lock) - 1
            PROVE  w[k] = IF k < i THEN lock[k] ELSE lock[k + 1]
        <4>1. CASE k < i
          BY <1>1, <2>1, <2>3, <3>1, <3>2, <4>1
        <4>2. CASE ~(k < i)
          <5>1. k - (i - 1) \in 1..Len(lock) - i /\ i + (k - (i - 1)) = k + 1
            BY <1>1, <2>1, <4>2
          <5>2. w[k] = r[k - (i - 1)]
            BY <1>1, <2>1, <2>3, <3>1, <3>2, <4>2
          <5>3. QED
            BY <2>4, <4>2, <5>1, <5>2
        <4>3. QED
          BY <4>1, <4>2
      <3>4. QED
        BY <3>1, <3>2, <3>3
    <2> HIDE DEF w
    <2>6. Distinct(w)
      BY <1>1, <2>1, <2>5 DEF Distinct
    <2>7. ASSUME NEW x \in S PROVE InQueue(w, x) <=> InQueue(lock, x) /\ x # c
      <3>1. InQueue(w, x) => InQueue(lock, x) /\ x # c
        BY <1>1, <2>1, <2>5 DEF InQueue, Distinct
      <3>2. ASSUME NEW k \in 1..Len(lock), lock[k] = x, x # c PROVE InQueue(w, x)
        <4>1. CASE k < i
          <5>1. k \in 1..Len(w) /\ w[k] = x
            BY <1>1, <2>1, <2>5, <3>2, <4>1
          <5>2. QED
            BY <5>1 DEF InQueue
        <4>2. CASE k > i
          <5>1. k - 1 \in 1..Len(w) /\ w[k - 1] = x
            BY <1>1, <2>1, <2>5, <3>2, <4>2
          <5>2. QED
            BY <5>1 DEF InQueue
        <4>3. QED
          BY <2>1, <3>2, <4>1, <4>2
      <3>3. QED
        BY <3>1, <3>2 DEF InQueue
    <2>8. lock # <<>> /\ Head(lock) # c => w # <<>> /\ Head(w) = Head(lock)
      <3> SUFFICES ASSUME lock # <<>>, Head(lock) # c PROVE w # <<>> /\ Head(w) = Head(lock)
        OBVIOUS
      <3>1. Head(lock) = lock[1] /\ i # 1
        BY <2>1
      <3>2. 1 \in 1..Len(lock) - 1 /\ 1 < i
        BY <1>1, <2>1, <3>1
      <3>3. w[1] = lock[1] /\ Len(w) # 0
        BY <1>1, <2>5, <3>2
      <3>4. w # <<>>
        BY <3>3, EmptySeq
      <3>5. QED
        BY <2>5, <3>1, <3>3, <3>4
    <2>9. QED
      BY <2>2, <2>5, <2>6, <2>7, <2>8
  <1>4. QED
    BY <1>2, <1>3
----------------------------------------------------------------------------
(* The types, and what they do not say about the callers' jobs.            *)
Steps == {"idle", "sleep", "backoff", "queued", "calling", "releasing", "ended", "gone"}
InLock == {"queued", "calling"}
Requests == Writes \cup {"acquire", "renew", "release"}

PluginTypes ==
  /\ module \in 0..MaxBuilt /\ built \in 0..MaxBuilt
  /\ leaseTask \in Loops \cup {None}
  /\ status \in {"configured", "connected", "error"}

CallTypes ==
  /\ pc \in [Callers -> Steps]
  /\ stage \in [Callers -> {"first", "reacquire", "again"}]
  /\ tries \in [Callers -> 0..Attempts]
  /\ job \in [Callers -> Writes \cup {"renew", "acquire"}]
  /\ \A c \in Callers : job[c] \in Writes => c \in Clients
  /\ reported \subseteq Clients
  /\ calm \in BOOLEAN

FirmwareTypes ==
  /\ armed \subseteq 1..MaxBuilt
  /\ lease \in {"fresh", "stale", "none"} /\ energised \in BOOLEAN
  /\ lost \in 0..MaxLost
  /\ applied \subseteq Clients

ThreadType == [by : Callers \cup {None}, gen : 0..MaxBuilt, posts : 0..2,
               op : Requests \cup {"none"}]

\* A thread that does something has a client and was started for a request.
ThreadTypes ==
  /\ thread \in [Workers -> ThreadType]
  /\ \A t \in Workers : thread[t] # Idle => thread[t].gen # 0 /\ thread[t].op # "none"

Holds(c) == lock # <<>> /\ Head(lock) = c

\* The lock is awaited and held by those in a call, each once, and the call
\* under way is the holder's.
LockInv ==
  /\ lock \in Seq(Callers) /\ Distinct(lock)
  /\ \A c \in Callers : pc[c] \in InLock <=> InQueue(lock, c)
  /\ \A c \in Callers : pc[c] = "calling" => Holds(c)

\* A thread somebody waits for does what its caller stands at; nobody waits
\* for two.
WaitInv ==
  /\ \A t \in Workers : thread[t].by # None =>
       \/ thread[t].op = "release" /\ thread[t].by = Life /\ pc[Life] = "releasing"
       \/ thread[t].op = Op(thread[t].by) /\ pc[thread[t].by] = "calling"
  /\ \A t, u \in Workers : thread[t].by = thread[u].by => t = u \/ thread[t].by = None
  /\ \A t \in Workers : thread[t].op = "release" => thread[t].by = Life

CallInv == PluginTypes /\ CallTypes /\ ThreadTypes /\ LockInv /\ WaitInv

LEMMA CallersOfKind ==
  /\ Clients \subseteq Callers /\ Loops \subseteq Callers /\ Life \in Callers
  /\ None \notin Callers /\ Life \notin Loops /\ Life \notin Clients
  /\ \A c \in Callers : c \in Clients \/ c \in Loops \/ c = Life
  /\ \A c \in Clients : c \notin Loops
  BY M5Assumption DEF Callers

LEMMA IdleType == Idle \in ThreadType /\ Idle.by = None /\ Idle.op = "none" /\ Idle.gen = 0
  BY M5Assumption DEF Idle, ThreadType

LEMMA OpOfCaller ==
  ASSUME CallTypes, NEW c \in Callers
  PROVE  Op(c) \in Writes \cup {"renew", "acquire"} /\ (Op(c) \in Writes => c \in Clients)
  BY DEF Op, CallTypes, Writes

(* What is the use of a result.                                            *)
LEMMA OutcomeType ==
  ASSUME CallTypes, NEW c \in Callers, NEW r \in {"ok", "conflict", "error", "timeout"}
  PROVE  /\ Outcome(c, r) \in {"done", "fail", "reacquire", "again"}
         /\ Outcome(c, r) = "reacquire" => NextTries(c) \in 1..Attempts
         /\ Outcome(c, r) = "done" => r = "ok"
         /\ Outcome(c, r) = "done" /\ c \in Clients => stage[c] \in {"first", "again"}
  <1>1. stage[c] \in {"first", "reacquire", "again"} /\ tries[c] \in 0..Attempts
        /\ Attempts \in Nat \ {0}
    BY M5Assumption DEF CallTypes
  <1>2. CASE stage[c] = "first"
    BY <1>1, <1>2 DEF Outcome, NextTries
  <1>3. CASE stage[c] = "reacquire"
    BY <1>1, <1>3, CallersOfKind DEF Outcome, NextTries
  <1>4. CASE stage[c] = "again"
    BY <1>1, <1>4 DEF Outcome, NextTries
  <1>5. QED
    BY <1>1, <1>2, <1>3, <1>4

(* The types of what Resume changes.                                       *)
LEMMA ResumeTypes ==
  ASSUME PluginTypes, CallTypes, NEW c \in Callers,
         NEW r \in {"ok", "conflict", "error", "timeout"}, Resume(c, r)
  PROVE  PluginTypes' /\ CallTypes'
  <1> USE DEF pluginVars
  <1>1. DEFINE o == Outcome(c, r)
  <1>2. o \in {"done", "fail", "reacquire", "again"}
        /\ (o = "reacquire" => NextTries(c) \in 1..Attempts)
    BY OutcomeType
  <1> HIDE DEF o
  <1>3. CASE o \in {"reacquire", "again"} /\ Retried(c, o)
    <2>1. pc' \in [Callers -> Steps]
      BY <1>3 DEF Retried, CallTypes, Steps
    <2>2. stage' \in [Callers -> {"first", "reacquire", "again"}]
      BY <1>3 DEF Retried, CallTypes
    <2>3. tries' \in [Callers -> 0..Attempts]
      BY <1>2, <1>3, M5Assumption DEF Retried, CallTypes
    <2>4. QED
      BY <1>3, <2>1, <2>2, <2>3 DEF Retried, CallTypes, PluginTypes
  <1>4. CASE c \in Clients /\ CommandReturns(c, o)
    <2>1. pc' \in [Callers -> Steps]
      BY <1>4 DEF CommandReturns, CallTypes, Steps
    <2>2. stage' \in [Callers -> {"first", "reacquire", "again"}]
      BY <1>4 DEF CommandReturns, CallTypes
    <2>3. tries' \in [Callers -> 0..Attempts]
      BY <1>4, M5Assumption DEF CommandReturns, CallTypes
    <2>4. job' \in [Callers -> Writes \cup {"renew", "acquire"}]
          /\ \A d \in Callers : job'[d] \in Writes => d \in Clients
      BY <1>4 DEF CommandReturns, CallTypes, Writes
    <2>5. reported' \subseteq Clients /\ calm' \in BOOLEAN
      BY <1>4 DEF CommandReturns, CallTypes
    <2>6. QED
      BY <1>4, <2>1, <2>2, <2>3, <2>4, <2>5 DEF CommandReturns, CallTypes, PluginTypes
  <1>5. CASE c \in Loops /\ RenewalEnds(c, o) /\ UNCHANGED job
    <2>1. pc' \in [Callers -> Steps]
      BY <1>5 DEF RenewalEnds, CallTypes, Steps
    <2>2. stage' \in [Callers -> {"first", "reacquire", "again"}]
      BY <1>5 DEF RenewalEnds, CallTypes
    <2>3. tries' \in [Callers -> 0..Attempts]
      BY <1>5, M5Assumption DEF RenewalEnds, CallTypes
    <2>4. QED
      BY <1>5, <2>1, <2>2, <2>3 DEF RenewalEnds, CallTypes, PluginTypes
  <1>6. CASE c = Life /\ ConnectEnds(o) /\ UNCHANGED job
    <2>1. pc' \in [Callers -> Steps]
      BY <1>6 DEF ConnectEnds, CallTypes, Steps
    <2>2. PluginTypes'
      BY <1>6, M5Assumption DEF ConnectEnds, PluginTypes
    <2>3. QED
      BY <1>6, <2>1, <2>2 DEF ConnectEnds, CallTypes
  <1>7. QED
    BY <1>3, <1>4, <1>5, <1>6 DEF Resume, o

(* The lock is passed on, and who waits for a thread still does: Resume by *)
(* the holder, for whom no thread works any more.                          *)
LEMMA ResumeOwns ==
  ASSUME CallInv, NEW c \in Callers, pc[c] \in InLock, Holds(c),
         NEW r \in {"ok", "conflict", "error", "timeout"}, Resume(c, r),
         \A t \in Workers : thread'[t].by # None =>
           thread'[t].by = thread[t].by /\ thread'[t].op = thread[t].op /\ thread[t].by # c,
         \A t \in Workers : thread'[t].op = "release" => thread'[t].by = Life
  PROVE  LockInv' /\ WaitInv'
  <1> DEFINE o == Outcome(c, r)
  <1>1. o \in {"done", "fail", "reacquire", "again"}
    BY OutcomeType DEF CallInv
  <1> HIDE DEF o
  <1>2. /\ lock \in Seq(Callers) /\ Distinct(lock)
        /\ \A d \in Callers : d # c => pc[d] # "calling"
    BY DEF CallInv, LockInv, Holds
  <1>3. /\ Tail(lock) \in Seq(Callers) /\ Distinct(Tail(lock))
        /\ \A x \in Callers : InQueue(Tail(lock), x) <=> InQueue(lock, x) /\ x # c
    BY <1>2, QueueLeave DEF Holds
  <1>4. \/ /\ lock' = Append(Tail(lock), c) /\ pc' = [pc EXCEPT ![c] = "queued"]
        \/ /\ lock' = Tail(lock) /\ \E x \in {"backoff", "idle", "sleep", "ended"} :
                                      pc' = [pc EXCEPT ![c] = x]
        \/ /\ lock' = Tail(lock) /\ c = Life
           /\ \E l \in Loops : pc[l] = "idle" /\ pc' = [pc EXCEPT ![l] = "sleep", ![Life] = "idle"]
    <2>1. CASE o \in {"reacquire", "again"} /\ Retried(c, o)
      BY <2>1 DEF Retried
    <2>2. CASE lock' = Tail(lock) /\ c \in Clients /\ CommandReturns(c, o)
      BY <2>2 DEF CommandReturns
    <2>3. CASE lock' = Tail(lock) /\ c \in Loops /\ RenewalEnds(c, o)
      BY <2>3 DEF RenewalEnds
    <2>4. CASE lock' = Tail(lock) /\ c = Life /\ ConnectEnds(o)
      BY <2>4 DEF ConnectEnds
    <2>5. QED
      BY <2>1, <2>2, <2>3, <2>4 DEF Resume, o
  <1>5. /\ \A d \in Callers : d # c => pc'[d] = pc[d]
                                       \/ (pc[d] = "idle" /\ pc'[d] = "sleep")
        /\ pc'[c] \in {"queued", "backoff", "idle", "sleep", "ended"}
        /\ lock' = IF pc'[c] = "queued" THEN Append(Tail(lock), c) ELSE Tail(lock)
    <2>1. pc \in [Callers -> Steps]
      BY DEF CallInv, CallTypes
    <2>2. CASE \E l \in Loops : /\ lock' = Tail(lock) /\ c = Life /\ pc[l] = "idle"
                                /\ pc' = [pc EXCEPT ![l] = "sleep", ![Life] = "idle"]
      <3>1. PICK l \in Loops : /\ lock' = Tail(lock) /\ c = Life /\ pc[l] = "idle"
                               /\ pc' = [pc EXCEPT ![l] = "sleep", ![Life] = "idle"]
        BY <2>2
      <3>2. pc'[c] = "idle"
        BY <2>1, <3>1
      <3>3. \A d \in Callers : d # c => pc'[d] = IF d = l THEN "sleep" ELSE pc[d]
        BY <2>1, <3>1
      <3>4. QED
        BY <3>1, <3>2, <3>3
    <2>3. CASE lock' = Append(Tail(lock), c) /\ pc' = [pc EXCEPT ![c] = "queued"]
      <3>1. \A d \in Callers : pc'[d] = IF d = c THEN "queued" ELSE pc[d]
        BY <2>1, <2>3
      <3>2. QED
        BY <2>3, <3>1
    <2>4. CASE lock' = Tail(lock) /\ \E x \in {"backoff", "idle", "sleep", "ended"} :
                                       pc' = [pc EXCEPT ![c] = x]
      <3>1. PICK x \in {"backoff", "idle", "sleep", "ended"} : pc' = [pc EXCEPT ![c] = x]
        BY <2>4
      <3>2. \A d \in Callers : pc'[d] = IF d = c THEN x ELSE pc[d]
        BY <2>1, <3>1
      <3>3. QED
        BY <2>4, <3>2
    <2>5. QED
      BY <1>4, <2>2, <2>3, <2>4
  <1>6. ~InQueue(Tail(lock), c)
    BY <1>3
  <1>7. /\ lock' \in Seq(Callers) /\ Distinct(lock')
        /\ \A x \in Callers : InQueue(lock', x)
                <=> InQueue(Tail(lock), x) \/ (x = c /\ pc'[c] = "queued")
    <2>1. CASE pc'[c] = "queued"
      <3>1. lock' = Append(Tail(lock), c)
        BY <1>5, <2>1
      <3>2. lock' \in Seq(Callers) /\ Distinct(lock')
            /\ \A x \in Callers : InQueue(lock', x) <=> InQueue(Tail(lock), x) \/ x = c
        <4>1. PICK q : q = Tail(lock)
          OBVIOUS
        <4>2. q \in Seq(Callers) /\ Distinct(q) /\ ~InQueue(q, c) /\ lock' = Append(q, c)
          BY <1>3, <1>6, <3>1, <4>1 DEF Distinct, InQueue
        <4>3. /\ lock' \in Seq(Callers) /\ Distinct(lock')
              /\ \A x \in Callers : InQueue(lock', x) <=> InQueue(q, x) \/ x = c
          BY <4>2, LockBecomes
        <4>4. QED
          BY <4>1, <4>3 DEF InQueue
      <3>3. QED
        BY <2>1, <3>2
    <2>2. CASE pc'[c] # "queued"
      <3>1. lock' = Tail(lock)
        BY <1>5, <2>2
      <3>2. QED
        BY <1>3, <2>2, <3>1
    <2>3. QED
      BY <2>1, <2>2
  <1>8. \A d \in Callers : pc'[d] \in InLock <=> InQueue(lock', d)
    BY <1>3, <1>5, <1>7 DEF CallInv, LockInv, InLock
  <1>9. \A d \in Callers : pc'[d] # "calling"
    BY <1>2, <1>5
  <1>10. LockInv'
    BY <1>7, <1>8, <1>9 DEF LockInv
  <1>11. \A t \in Workers : thread'[t].by # None =>
           /\ thread[t].by \in Callers /\ thread[t].by # c
           /\ thread[t].op = "release" /\ thread[t].by = Life /\ pc[Life] = "releasing"
    BY <1>2 DEF CallInv, WaitInv, ThreadTypes, ThreadType
  <1>12. \A t \in Workers : thread'[t].by # None =>
           thread'[t].op = "release" /\ thread'[t].by = Life /\ pc'[Life] = "releasing"
    BY <1>5, <1>11
  <1>13. \A t, u \in Workers : thread'[t].by = thread'[u].by => t = u \/ thread'[t].by = None
    BY DEF CallInv, WaitInv
  <1>14. WaitInv'
    BY <1>12, <1>13 DEF WaitInv
  <1>15. QED
    BY <1>10, <1>14

(* Someone outside the lock joins its queue.                               *)
LEMMA LockJoined ==
  ASSUME CallInv, NEW c \in Callers, pc[c] \notin InLock, lock' = Append(lock, c),
         \A d \in Callers : pc'[d] = IF d = c THEN "queued" ELSE pc[d]
  PROVE  LockInv'
  <1>1. /\ lock \in Seq(Callers) /\ Distinct(lock) /\ ~InQueue(lock, c)
        /\ \A d \in Callers : pc[d] \in InLock <=> InQueue(lock, d)
        /\ \A d \in Callers : pc[d] = "calling" => Holds(d)
    BY DEF CallInv, LockInv
  <1>2. PICK q : q = lock
    OBVIOUS
  <1>3. q \in Seq(Callers) /\ Distinct(q) /\ ~InQueue(q, c) /\ lock' = Append(q, c)
    BY <1>1, <1>2
  <1>4. /\ lock' \in Seq(Callers) /\ Distinct(lock')
        /\ \A x \in Callers : InQueue(lock', x) <=> InQueue(q, x) \/ x = c
        /\ lock' # <<>> /\ (q # <<>> => Head(lock') = Head(q))
    BY <1>3, LockBecomes
  <1>5. \A x \in Callers : InQueue(lock', x) <=> InQueue(lock, x) \/ x = c
    BY <1>2, <1>4 DEF InQueue
  <1>6. \A d \in Callers : pc'[d] \in InLock <=> InQueue(lock', d)
    BY <1>1, <1>5 DEF InLock
  <1>7. \A d \in Callers : pc'[d] = "calling" => lock' # <<>> /\ Head(lock') = d
    BY <1>1, <1>2, <1>4 DEF Holds
  <1>8. QED
    BY <1>4, <1>6, <1>7 DEF LockInv, Holds

(* Nothing changes for those in a call.                                    *)
LEMMA LockFrame ==
  ASSUME LockInv, UNCHANGED lock,
         \A d \in Callers : pc'[d] = pc[d] \/ {pc[d], pc'[d]} \cap InLock = {}
  PROVE  LockInv'
  <1>1. \A d \in Callers : pc'[d] \in InLock <=> pc[d] \in InLock
    OBVIOUS
  <1>2. \A d \in Callers : pc'[d] = "calling" => pc[d] = "calling"
    BY DEF InLock
  <1>3. QED
    BY <1>1, <1>2 DEF LockInv, Holds, Distinct, InQueue

LEMMA WaitFrame ==
  ASSUME CallInv,
         \A d \in Callers : pc[d] \in {"calling", "releasing"} =>
           pc'[d] = pc[d] /\ stage'[d] = stage[d] /\ job'[d] = job[d],
         \A t \in Workers : thread'[t].by \in {thread[t].by, None},
         \A t \in Workers : thread'[t].by # None => thread'[t].op = thread[t].op,
         \A t \in Workers : thread'[t].op = "release" => thread'[t].by = Life
  PROVE  WaitInv'
  <1>1. ASSUME NEW t \in Workers, thread'[t].by # None
        PROVE  \/ thread'[t].op = "release" /\ thread'[t].by = Life /\ pc'[Life] = "releasing"
               \/ thread'[t].op = Op(thread[t].by)' /\ pc'[thread'[t].by] = "calling"
    <2>1. thread'[t].by = thread[t].by /\ thread'[t].op = thread[t].op
          /\ thread[t].by \in Callers
      BY <1>1 DEF CallInv, ThreadTypes, ThreadType
    <2>2. CASE thread[t].op = "release" /\ thread[t].by = Life /\ pc[Life] = "releasing"
      BY <2>1, <2>2
    <2>3. CASE thread[t].op = Op(thread[t].by) /\ pc[thread[t].by] = "calling"
      <3>1. pc'[thread[t].by] = "calling" /\ stage'[thread[t].by] = stage[thread[t].by]
            /\ job'[thread[t].by] = job[thread[t].by]
        BY <2>1, <2>3
      <3>2. QED
        BY <2>1, <2>3, <3>1 DEF Op
    <2>4. QED
      BY <1>1, <2>1, <2>2, <2>3 DEF CallInv, WaitInv
  <1>2. \A t, u \in Workers : thread'[t].by = thread'[u].by => t = u \/ thread'[t].by = None
    BY DEF CallInv, WaitInv
  <1>3. QED
    BY <1>1, <1>2 DEF WaitInv
-----------------------------------------------------------------------------
(* The steps of Next.                                                      *)
LEMMA BeginCalls ==
  ASSUME CallInv, NEW c \in Clients, NEW op \in Writes, Begin(c, op)
  PROVE  CallInv'
  <1>1. c \in Callers /\ pc[c] = "idle" /\ pc[c] \notin InLock
    BY CallersOfKind DEF Begin, InLock
  <1>2. job' \in [Callers -> Writes \cup {"renew", "acquire"}]
        /\ \A d \in Callers : job'[d] = IF d = c THEN op ELSE job[d]
    BY <1>1 DEF Begin, CallInv, CallTypes
  <1>3. \A d \in Callers : pc[d] \in {"calling", "releasing"} =>
          pc'[d] = pc[d] /\ stage'[d] = stage[d] /\ job'[d] = job[d]
    BY <1>1, <1>2 DEF Begin, CallInv, CallTypes
  <1>4. PluginTypes' /\ ThreadTypes'
    BY DEF Begin, CallInv, PluginTypes, ThreadTypes, pluginVars
  <1>5. CallTypes'
    <2>1. pc' \in [Callers -> Steps]
      BY DEF Begin, CallInv, CallTypes, Steps
    <2>2. reported' \subseteq Clients /\ calm' \in BOOLEAN
      BY DEF Begin, CallInv, CallTypes
    <2>3. \A d \in Callers : job'[d] \in Writes => d \in Clients
      BY <1>2 DEF CallInv, CallTypes
    <2>4. QED
      BY <1>2, <2>1, <2>2, <2>3 DEF Begin, CallInv, CallTypes
  <1>6. WaitInv'
    <2>1. \A t \in Workers : thread'[t] = thread[t]
      BY DEF Begin
    <2>2. QED
      BY <1>3, <2>1, WaitFrame DEF CallInv, WaitInv
  <1>7. LockInv'
    <2>1. CASE UNCHANGED <<pc, lock>>
      BY <2>1, LockFrame DEF CallInv
    <2>2. CASE pc' = [pc EXCEPT ![c] = "queued"] /\ lock' = Append(lock, c)
      <3>1. \A d \in Callers : pc'[d] = IF d = c THEN "queued" ELSE pc[d]
        BY <2>2 DEF CallInv, CallTypes
      <3>2. QED
        BY <1>1, <2>2, <3>1, LockJoined
    <2>3. QED
      BY <2>1, <2>2 DEF Begin
  <1>8. QED
    BY <1>4, <1>5, <1>6, <1>7 DEF CallInv

LEMMA EnqueueCalls ==
  ASSUME CallInv, NEW c \in Callers, Enqueue(c)
  PROVE  CallInv'
  <1>1. pc[c] \notin InLock /\ pc[c] \notin {"calling", "releasing"}
    BY DEF Enqueue, InLock
  <1>2. \A d \in Callers : pc'[d] = IF d = c THEN "queued" ELSE pc[d]
    BY DEF Enqueue, CallInv, CallTypes
  <1>3. LockInv'
    BY <1>1, <1>2, LockJoined DEF Enqueue
  <1>4. WaitInv'
    <2>1. \A d \in Callers : pc[d] \in {"calling", "releasing"} =>
            pc'[d] = pc[d] /\ stage'[d] = stage[d] /\ job'[d] = job[d]
      BY <1>1, <1>2 DEF Enqueue
    <2>2. \A t \in Workers : thread'[t] = thread[t]
      BY DEF Enqueue
    <2>3. QED
      BY <2>1, <2>2, WaitFrame DEF CallInv, WaitInv
  <1>5. PluginTypes' /\ ThreadTypes'
    BY DEF Enqueue, CallInv, PluginTypes, ThreadTypes, pluginVars
  <1>6. CallTypes'
    <2>1. pc' \in [Callers -> Steps]
      BY DEF Enqueue, CallInv, CallTypes, Steps
    <2>2. QED
      BY <2>1 DEF Enqueue, CallInv, CallTypes, historyVars
  <1>7. QED
    BY <1>3, <1>4, <1>5, <1>6 DEF CallInv

(* The plugin, the firmware and the clock change nothing of the calls.     *)
LEMMA OutsideCalls ==
  ASSUME CallInv, PluginTypes', UNCHANGED <<callVars, thread, historyVars>>
  PROVE  CallInv'
  <1>1. LockInv'
    BY LockFrame DEF CallInv, callVars
  <1>2. WaitInv'
    <2>1. \A d \in Callers : pc[d] \in {"calling", "releasing"} =>
            pc'[d] = pc[d] /\ stage'[d] = stage[d] /\ job'[d] = job[d]
      BY DEF callVars
    <2>2. QED
      BY <2>1, WaitFrame DEF CallInv, WaitInv
  <1>3. ThreadTypes' /\ CallTypes'
    BY DEF CallInv, ThreadTypes, CallTypes, callVars, historyVars
  <1>4. QED
    BY <1>1, <1>2, <1>3 DEF CallInv
LEMMA StartTypes ==
  ASSUME CallInv, NEW c \in Callers, module # 0
  PROVE  LET th == [by |-> c, op |-> Op(c), gen |-> module, posts |-> 2]
         IN  th \in ThreadType /\ th.gen # 0 /\ th.op # "none" /\ th.op # "release"
             /\ th.by = c /\ th.op = Op(c)
  <1>1. Op(c) \in Writes \cup {"renew", "acquire"}
    BY OpOfCaller DEF CallInv
  <1>2. module \in 0..MaxBuilt
    BY DEF CallInv, PluginTypes
  <1>3. QED
    BY <1>1, <1>2 DEF ThreadType, Requests, Writes

LEMMA StartCalls ==
  ASSUME CallInv, NEW c \in Callers, StartCall(c)
  PROVE  CallInv'
  <1>1. pc[c] = "queued" /\ pc[c] \in InLock /\ Holds(c)
    BY DEF StartCall, Granted, Holds, InLock
  <1>2. \A t \in Workers : thread[t].by # c
    BY <1>1, CallersOfKind DEF CallInv, WaitInv
  <1>3. CASE Resume(c, "error") /\ UNCHANGED thread
    <2>1. PluginTypes' /\ CallTypes'
      BY <1>3, ResumeTypes DEF CallInv
    <2>2. LockInv' /\ WaitInv'
      <3>1. \A t \in Workers : thread'[t] = thread[t]
        BY <1>3
      <3>2. \A t \in Workers : thread[t].op = "release" => thread[t].by = Life
        BY DEF CallInv, WaitInv
      <3>3. QED
        BY <1>1, <1>2, <1>3, <3>1, <3>2, ResumeOwns
    <2>3. ThreadTypes'
      BY <1>3 DEF CallInv, ThreadTypes
    <2>4. QED
      BY <2>1, <2>2, <2>3 DEF CallInv
  <1>4. ASSUME NEW t \in Workers, module # 0, IsNextFree(t),
               thread' = [thread EXCEPT ![t] =
                            [by |-> c, op |-> Op(c), gen |-> module, posts |-> 2]],
               pc' = [pc EXCEPT ![c] = "calling"],
               UNCHANGED <<pluginVars, stage, tries, job, lock, reported, calm>>
        PROVE  CallInv'
    <2> DEFINE th == [by |-> c, op |-> Op(c), gen |-> module, posts |-> 2]
    <2>1. th \in ThreadType /\ th.gen # 0 /\ th.op # "none" /\ th.op # "release"
          /\ th.by = c /\ th.op = Op(c)
      BY <1>4, StartTypes
    <2>2. thread' = [thread EXCEPT ![t] = th]
      BY <1>4
    <2> HIDE DEF th
    <2>3. \A u \in Workers : thread'[u] = IF u = t THEN th ELSE thread[u]
      BY <2>2 DEF CallInv, ThreadTypes
    <2>4. \A d \in Callers : pc'[d] = IF d = c THEN "calling" ELSE pc[d]
      BY <1>4 DEF CallInv, CallTypes
    <2>5. ThreadTypes'
      BY <2>1, <2>2, <2>3 DEF CallInv, ThreadTypes
    <2>6. PluginTypes'
      BY <1>4 DEF CallInv, PluginTypes, pluginVars
    <2>7. CallTypes'
      <3>1. pc' \in [Callers -> Steps]
        BY <1>4 DEF CallInv, CallTypes, Steps
      <3>2. QED
        BY <1>4, <3>1 DEF CallInv, CallTypes
    <2>8. LockInv'
      <3>1. \A d \in Callers : pc'[d] \in InLock <=> pc[d] \in InLock
        BY <1>1, <2>4 DEF InLock
      <3>2. \A d \in Callers : pc'[d] = "calling" => pc[d] = "calling" \/ d = c
        BY <2>4
      <3>3. QED
        BY <1>1, <1>4, <3>1, <3>2 DEF CallInv, LockInv, Holds, Distinct, InQueue
    <2>9. WaitInv'
      <3>1. ASSUME NEW u \in Workers, thread'[u].by # None
            PROVE  \/ thread'[u].op = "release" /\ thread'[u].by = Life /\ pc'[Life] = "releasing"
                   \/ thread'[u].op = Op(thread[u].by)' /\ pc'[thread'[u].by] = "calling"
        <4>1. CASE u = t
          <5>1. thread'[u].by = c /\ thread'[u].op = Op(c)
            BY <2>1, <2>3, <4>1
          <5>2. Op(thread[u].by)' = Op(c)
            BY <1>4, <5>1 DEF Op
          <5>3. QED
            BY <2>4, <5>1, <5>2
        <4>2. CASE u # t
          <5>1. thread'[u] = thread[u] /\ thread[u].by # c /\ thread[u].by \in Callers
            BY <1>2, <2>3, <3>1, <4>2 DEF CallInv, ThreadTypes, ThreadType
          <5>2. pc'[thread[u].by] = pc[thread[u].by]
            BY <2>4, <5>1
          <5>3. Op(thread[u].by)' = Op(thread[u].by)
            BY <1>4, <5>1 DEF Op
          <5>4. CASE thread[u].op = "release" /\ thread[u].by = Life /\ pc[Life] = "releasing"
            BY <5>1, <5>2, <5>4
          <5>5. CASE thread[u].op = Op(thread[u].by) /\ pc[thread[u].by] = "calling"
            BY <5>1, <5>2, <5>3, <5>5
          <5>6. QED
            BY <3>1, <5>1, <5>4, <5>5 DEF CallInv, WaitInv
        <4>3. QED
          BY <4>1, <4>2
      <3>2. \A u, v \in Workers : thread'[u].by = thread'[v].by => u = v \/ thread'[u].by = None
        BY <1>2, <2>1, <2>3 DEF CallInv, WaitInv
      <3>3. \A u \in Workers : thread'[u].op = "release" => thread'[u].by = Life
        BY <2>1, <2>3 DEF CallInv, WaitInv
      <3>4. QED
        BY <3>1, <3>2, <3>3 DEF WaitInv
    <2>10. QED
      BY <2>5, <2>6, <2>7, <2>8, <2>9 DEF CallInv
  <1>5. QED
    BY <1>3, <1>4 DEF StartCall

(* Nobody waits for an abandoned thread.                                   *)
LEMMA AbandonedThreads ==
  ASSUME ThreadTypes, NEW cs, NEW t \in Workers
  PROVE  /\ Abandon(cs)[t] \in ThreadType
         /\ Abandon(cs)[t].op = thread[t].op /\ Abandon(cs)[t].gen = thread[t].gen
         /\ Abandon(cs)[t].by = IF thread[t].by \in cs THEN None ELSE thread[t].by
  BY DEF Abandon, ThreadTypes, ThreadType

LEMMA TimeOutCalls ==
  ASSUME CallInv, NEW c \in Callers, TimeOut(c)
  PROVE  CallInv'
  <1>1. pc[c] = "calling" /\ pc[c] \in InLock /\ Holds(c)
        /\ thread' = Abandon({c}) /\ Resume(c, "timeout")
    BY DEF TimeOut, InLock, CallInv, LockInv
  <1>2. \A t \in Workers : /\ thread'[t] \in ThreadType
                           /\ thread'[t].op = thread[t].op /\ thread'[t].gen = thread[t].gen
                           /\ thread'[t].by = IF thread[t].by = c THEN None ELSE thread[t].by
    BY <1>1, AbandonedThreads DEF CallInv
  <1>3. \A t \in Workers : thread[t].op = "release" => thread[t].by = Life /\ thread[t].by # c
    <2>1. Op(c) # "release"
      BY OpOfCaller DEF CallInv, Writes
    <2>2. QED
      BY <1>1, <2>1, CallersOfKind DEF CallInv, WaitInv
  <1>4. PluginTypes' /\ CallTypes'
    BY <1>1, ResumeTypes DEF CallInv
  <1>5. LockInv' /\ WaitInv'
    BY <1>1, <1>2, <1>3, ResumeOwns
  <1>6. ThreadTypes'
    <2>1. thread' \in [Workers -> ThreadType]
      BY <1>1, <1>2 DEF Abandon
    <2>2. \A t \in Workers : thread'[t] # Idle => thread'[t].gen # 0 /\ thread'[t].op # "none"
      <3>1. \A t \in Workers : thread[t] = Idle => thread'[t] = thread[t]
        BY <1>1, IdleType, CallersOfKind DEF Abandon
      <3>2. QED
        BY <1>2, <3>1 DEF CallInv, ThreadTypes
    <2>3. QED
      BY <2>1, <2>2 DEF ThreadTypes
  <1>7. QED
    BY <1>4, <1>5, <1>6 DEF CallInv
(* A thread that ends leaves the others alone.                             *)
LEMMA DeliverCalls ==
  ASSUME CallInv, NEW t \in Workers, NEW r \in {"ok", "conflict", "error", "timeout"},
         thread[t] # Idle, Deliver(t, r)
  PROVE  CallInv'
  <1>1. \A u \in Workers : thread'[u] = IF u = t THEN Idle ELSE thread[u]
    BY DEF Deliver, CallInv, ThreadTypes
  <1>2. ThreadTypes'
    BY <1>1, IdleType DEF Deliver, CallInv, ThreadTypes
  <1>3. \A u \in Workers : thread'[u].op = "release" => thread'[u].by = Life
    BY <1>1, IdleType DEF CallInv, WaitInv
  <1>4. CASE thread[t].by = None
             /\ UNCHANGED <<pluginVars, callVars, reported, calm>>
    <2>1. PluginTypes' /\ CallTypes'
      BY <1>4 DEF CallInv, PluginTypes, CallTypes, pluginVars, callVars
    <2>2. LockInv'
      BY <1>4, LockFrame DEF CallInv, callVars
    <2>3. WaitInv'
      <3>1. \A d \in Callers : pc[d] \in {"calling", "releasing"} =>
              pc'[d] = pc[d] /\ stage'[d] = stage[d] /\ job'[d] = job[d]
        BY <1>4 DEF callVars
      <3>2. QED
        BY <1>1, <1>3, <3>1, IdleType, WaitFrame
    <2>4. QED
      BY <1>2, <2>1, <2>2, <2>3 DEF CallInv
  <1>5. CASE thread[t].op = "release" /\ DisconnectEnds
    <2>1. thread[t].by = Life /\ pc[Life] = "releasing"
      <3>1. thread[t].by = Life /\ Op(Life) # "release"
        BY <1>5, CallersOfKind, OpOfCaller DEF CallInv, WaitInv, Writes
      <3>2. QED
        BY <1>5, <3>1, CallersOfKind DEF CallInv, WaitInv
    <2>2. \A d \in Callers : pc'[d] = IF d = Life THEN "gone" ELSE pc[d]
      BY <1>5 DEF DisconnectEnds, CallInv, CallTypes
    <2>3. \A u \in Workers : u # t => thread[u].by # Life
      BY <2>1, CallersOfKind DEF CallInv, WaitInv
    <2>4. PluginTypes'
      BY <1>5 DEF DisconnectEnds, CallInv, PluginTypes
    <2>5. CallTypes'
      <3>1. pc' \in [Callers -> Steps]
        BY <1>5 DEF DisconnectEnds, CallInv, CallTypes, Steps
      <3>2. QED
        BY <1>5, <3>1 DEF DisconnectEnds, CallInv, CallTypes
    <2>6. LockInv'
      <3>1. \A d \in Callers : pc'[d] = pc[d] \/ {pc[d], pc'[d]} \cap InLock = {}
        BY <2>1, <2>2 DEF InLock
      <3>2. QED
        BY <1>5, <3>1, LockFrame DEF CallInv, DisconnectEnds
    <2>7. WaitInv'
      <3>1. ASSUME NEW u \in Workers, thread'[u].by # None
            PROVE  \/ thread'[u].op = "release" /\ thread'[u].by = Life /\ pc'[Life] = "releasing"
                   \/ thread'[u].op = Op(thread[u].by)' /\ pc'[thread'[u].by] = "calling"
        <4>1. u # t /\ thread'[u] = thread[u] /\ thread[u].by \in Callers /\ thread[u].by # Life
          BY <1>1, <2>3, <3>1, IdleType DEF CallInv, ThreadTypes, ThreadType
        <4>2. thread[u].op = Op(thread[u].by) /\ pc[thread[u].by] = "calling"
          BY <3>1, <4>1 DEF CallInv, WaitInv
        <4>3. Op(thread[u].by)' = Op(thread[u].by)
          BY <1>5, <4>1 DEF Op, DisconnectEnds
        <4>4. QED
          BY <2>2, <4>1, <4>2, <4>3
      <3>2. \A u, v \in Workers : thread'[u].by = thread'[v].by => u = v \/ thread'[u].by = None
        BY <1>1, IdleType DEF CallInv, WaitInv
      <3>3. QED
        BY <1>3, <3>1, <3>2 DEF WaitInv
    <2>8. QED
      BY <1>2, <2>4, <2>5, <2>6, <2>7 DEF CallInv
  <1>6. ASSUME NEW c, c = thread[t].by, c # None, thread[t].op # "release", Resume(c, r)
        PROVE  CallInv'
    <2>1. c \in Callers /\ pc[c] = "calling"
      BY <1>6 DEF CallInv, WaitInv, ThreadTypes, ThreadType
    <2>2. pc[c] \in InLock /\ Holds(c)
      BY <2>1 DEF CallInv, LockInv, InLock
    <2>3. PluginTypes' /\ CallTypes'
      BY <1>6, <2>1, ResumeTypes DEF CallInv
    <2>4. \A u \in Workers : thread'[u].by # None =>
            /\ thread'[u].by = thread[u].by /\ thread'[u].op = thread[u].op
            /\ thread[u].by # c
      BY <1>1, <1>6, IdleType DEF CallInv, WaitInv
    <2>5. LockInv' /\ WaitInv'
      BY <1>3, <1>6, <2>1, <2>2, <2>4, ResumeOwns
    <2>6. QED
      BY <1>2, <2>3, <2>5 DEF CallInv
  <1>7. QED
    BY <1>4, <1>5, <1>6 DEF Deliver

(* A request that is sent once more.                                       *)
LEMMA ResendCalls ==
  ASSUME CallInv, NEW t \in Workers, thread[t] # Idle, thread[t].posts > 1,
         thread' = [thread EXCEPT ![t].posts = @ - 1],
         UNCHANGED <<pluginVars, callVars, reported, calm>>
  PROVE  CallInv'
  <1>1. thread[t] \in ThreadType
    BY DEF CallInv, ThreadTypes
  <1>2. PICK th : th = [thread[t] EXCEPT !.posts = @ - 1]
    OBVIOUS
  <1>3. th \in ThreadType /\ th.by = thread[t].by /\ th.op = thread[t].op /\ th.gen = thread[t].gen
    BY <1>1, <1>2 DEF ThreadType
  <1>4. \A u \in Workers : thread'[u] = IF u = t THEN th ELSE thread[u]
    BY <1>2 DEF CallInv, ThreadTypes
  <1>5. ThreadTypes'
    BY <1>3, <1>4 DEF CallInv, ThreadTypes
  <1>6. PluginTypes' /\ CallTypes'
    BY DEF CallInv, PluginTypes, CallTypes, pluginVars, callVars
  <1>7. LockInv'
    BY LockFrame DEF CallInv, callVars
  <1>8. WaitInv'
    <2>1. \A d \in Callers : pc[d] \in {"calling", "releasing"} =>
            pc'[d] = pc[d] /\ stage'[d] = stage[d] /\ job'[d] = job[d]
      BY DEF callVars
    <2>2. \A u \in Workers : thread'[u].by = thread[u].by /\ thread'[u].op = thread[u].op
      BY <1>3, <1>4
    <2>3. QED
      BY <2>1, <2>2, WaitFrame DEF CallInv, WaitInv
  <1>9. QED
    BY <1>5, <1>6, <1>7, <1>8 DEF CallInv

LEMMA AnswerType == \A t \in Workers : Answer(t) \in {"ok", "conflict"}
  BY DEF Answer

LEMMA ThreadCalls ==
  ASSUME CallInv, NEW t \in Workers, ThreadStep(t)
  PROVE  CallInv'
  <1>1. CASE ServeRequest(t)
    BY <1>1, AnswerType, DeliverCalls DEF ServeRequest
  <1>2. CASE DenyLease(t)
    BY <1>2, IdleType, DeliverCalls DEF DenyLease
  <1>3. CASE LoseRequest(t)
    BY <1>3, ResendCalls, DeliverCalls DEF LoseRequest
  <1>4. QED
    BY <1>1, <1>2, <1>3 DEF ThreadStep
LEMMA ConnectCalls ==
  ASSUME CallInv, Connect
  PROVE  CallInv'
  <1>1. pc[Life] = "idle" /\ pc[Life] \notin InLock /\ Life \in Callers
    BY CallersOfKind DEF Connect, InLock
  <1>2. PluginTypes'
    BY M5Assumption DEF Connect, CallInv, PluginTypes
  <1>3. ThreadTypes'
    BY DEF Connect, CallInv, ThreadTypes
  <1>4. \A t \in Workers : thread'[t] = thread[t]
    BY DEF Connect
  <1>5. CASE pc' = [pc EXCEPT ![Life] = "queued"] /\ lock' = Append(lock, Life)
    <2>1. \A d \in Callers : pc'[d] = IF d = Life THEN "queued" ELSE pc[d]
      BY <1>5 DEF CallInv, CallTypes
    <2>2. LockInv'
      BY <1>1, <1>5, <2>1, LockJoined
    <2>3. WaitInv'
      <3>1. \A d \in Callers : pc[d] \in {"calling", "releasing"} =>
              pc'[d] = pc[d] /\ stage'[d] = stage[d] /\ job'[d] = job[d]
        BY <1>1, <2>1 DEF Connect
      <3>2. QED
        BY <1>4, <3>1, WaitFrame DEF CallInv, WaitInv
    <2>4. CallTypes'
      <3>1. pc' \in [Callers -> Steps]
        BY <1>5 DEF CallInv, CallTypes, Steps
      <3>2. QED
        BY <3>1 DEF Connect, CallInv, CallTypes, historyVars
    <2>5. QED
      BY <1>2, <1>3, <2>2, <2>3, <2>4 DEF CallInv
  <1>6. CASE UNCHANGED <<pc, lock>>
    <2>1. UNCHANGED <<callVars, thread, historyVars>>
      BY <1>6 DEF Connect, callVars
    <2>2. QED
      BY <1>2, <2>1, OutsideCalls
  <1>7. QED
    BY <1>5, <1>6 DEF Connect

(* The renewal task is taken out of the queue wherever it stands.          *)
LEMMA CancelCalls ==
  ASSUME CallInv, NEW life \in {"gone", "releasing"}, Cancel(life), pc[Life] = "idle",
         status' \in {status, "configured"},
         UNCHANGED <<built, stage, tries, job, historyVars>>
  PROVE  /\ PluginTypes' /\ CallTypes' /\ LockInv'
         /\ \A d \in Callers : pc'[d] = IF d = Life THEN life
                                        ELSE IF d = leaseTask THEN "ended" ELSE pc[d]
  <1>1. \A d \in Callers : pc'[d] = IF d = Life THEN life
                                    ELSE IF d = leaseTask THEN "ended" ELSE pc[d]
    BY DEF Cancel
  <1>2. leaseTask \in Loops \cup {None} /\ leaseTask # Life
        /\ life \notin InLock /\ life # "calling"
    BY CallersOfKind DEF CallInv, PluginTypes, InLock
  <1>4. PluginTypes'
    BY M5Assumption DEF Cancel, CallInv, PluginTypes
  <1>5. CallTypes'
    <2>1. pc' \in [Callers -> Steps]
      BY DEF Cancel, CallInv, CallTypes, Steps
    <2>2. QED
      BY <2>1 DEF CallInv, CallTypes, historyVars
  <1>6. LockInv'
    <2>1. /\ lock \in Seq(Callers) /\ Distinct(lock)
          /\ \A d \in Callers : pc[d] \in InLock <=> InQueue(lock, d)
          /\ \A d \in Callers : pc[d] = "calling" => lock # <<>> /\ Head(lock) = d
      BY DEF CallInv, LockInv, Holds
    <2>2. PICK w : w = Without(leaseTask)
      OBVIOUS
    <2>3. /\ w \in Seq(Callers) /\ Distinct(w)
          /\ \A x \in Callers : InQueue(w, x) <=> InQueue(lock, x) /\ x # leaseTask
          /\ lock # <<>> /\ Head(lock) # leaseTask => w # <<>> /\ Head(w) = Head(lock)
      BY <2>1, <2>2, QueueWithout
    <2>4. lock' = w
      BY <2>2 DEF Cancel
    <2>5. \A d \in Callers : pc'[d] \in InLock <=> pc[d] \in InLock /\ d # leaseTask
      BY <1>1, <1>2 DEF InLock
    <2>6. \A d \in Callers : pc'[d] = "calling" => pc[d] = "calling" /\ d # leaseTask
      BY <1>1
    <2>7. lock' \in Seq(Callers) /\ Distinct(lock')
      BY <2>3, <2>4 DEF Distinct
    <2>8. \A d \in Callers : pc'[d] \in InLock <=> InQueue(lock', d)
      BY <2>1, <2>3, <2>4, <2>5 DEF InQueue
    <2>9. \A d \in Callers : pc'[d] = "calling" => lock' # <<>> /\ Head(lock') = d
      BY <2>1, <2>3, <2>4, <2>6
    <2>10. QED
      BY <2>7, <2>8, <2>9 DEF LockInv, Holds
  <1>7. QED
    BY <1>1, <1>4, <1>5, <1>6

(* Its thread belongs to nobody; every other thread goes on as it did.     *)
LEMMA OrphanedThreads ==
  ASSUME CallInv, NEW u \in Workers
  PROVE  /\ Orphaned[u] \in ThreadType
         /\ Orphaned[u].op = thread[u].op /\ Orphaned[u].gen = thread[u].gen
         /\ Orphaned[u].by = IF thread[u].by = leaseTask THEN None ELSE thread[u].by
         /\ thread[u] = Idle => Orphaned[u] = Idle
  <1>1. thread[u].by \in {leaseTask} \ {None} <=> thread[u].by = leaseTask /\ leaseTask # None
    OBVIOUS
  <1>2. Orphaned[u] = IF thread[u].by \in {leaseTask} \ {None}
                      THEN [thread[u] EXCEPT !.by = None] ELSE thread[u]
    BY DEF Orphaned, Abandon
  <1>3. thread[u] \in ThreadType
    BY DEF CallInv, ThreadTypes
  <1>4. thread[u] = Idle => Orphaned[u] = Idle
    BY <1>1, <1>2, IdleType
  <1>5. QED
    BY <1>1, <1>2, <1>3, <1>4 DEF ThreadType

(* What a thread and its caller owed each other they owe each other still. *)
LEMMA OrphanedWaits ==
  ASSUME CallInv, NEW u \in Workers, NEW c, c = Orphaned[u].by, c # None,
         pc[Life] = "idle", UNCHANGED <<stage, tries, job>>,
         \A d \in Callers : d # Life /\ d # leaseTask => pc'[d] = pc[d]
  PROVE  c \in Callers /\ Orphaned[u].op = Op(c)' /\ pc'[c] = "calling"
  <1>1. c = thread[u].by /\ c \in Callers /\ c # leaseTask /\ Orphaned[u].op = thread[u].op
    BY OrphanedThreads DEF CallInv, ThreadTypes, ThreadType
  <1>2. thread[u].op = Op(c) /\ pc[c] = "calling"
    BY <1>1 DEF CallInv, WaitInv
  <1>3. Op(c)' = Op(c)
    BY DEF Op
  <1>4. QED
    BY <1>1, <1>2, <1>3

(* A plugin without a client disconnects at once.                          *)
LEMMA DisconnectAlone ==
  ASSUME CallInv, Cancel("gone"), thread' = Orphaned, pc[Life] = "idle",
         status' = "configured", UNCHANGED <<built, stage, tries, job, historyVars>>
  PROVE  CallInv'
  <1>1. /\ PluginTypes' /\ CallTypes' /\ LockInv'
        /\ \A d \in Callers : pc'[d] = IF d = Life THEN "gone"
                                       ELSE IF d = leaseTask THEN "ended" ELSE pc[d]
    BY CancelCalls
  <1>2. ThreadTypes'
    <2>1. thread' \in [Workers -> ThreadType]
      <3>1. \A u \in Workers : thread'[u] \in ThreadType
        BY OrphanedThreads
      <3>2. QED
        BY <3>1 DEF Orphaned, Abandon
    <2>2. \A u \in Workers : thread'[u] # Idle => thread'[u].gen # 0 /\ thread'[u].op # "none"
      BY OrphanedThreads DEF CallInv, ThreadTypes
    <2>3. QED
      BY <2>1, <2>2 DEF ThreadTypes
  <1>3. WaitInv'
    <2>1. ASSUME NEW u \in Workers, thread'[u].by # None
          PROVE  thread'[u].op = Op(thread[u].by)' /\ pc'[thread'[u].by] = "calling"
      <3>1. PICK c : c = Orphaned[u].by
        OBVIOUS
      <3>2. c \in Callers /\ Orphaned[u].op = Op(c)' /\ pc'[c] = "calling"
        BY <1>1, <2>1, <3>1, OrphanedWaits
      <3>3. thread'[u] = Orphaned[u] /\ thread'[u].by = c
        BY <3>1
      <3>4. QED
        BY <3>2, <3>3
    <2>2. \A u, v \in Workers : thread'[u].by = thread'[v].by => u = v \/ thread'[u].by = None
      BY OrphanedThreads DEF CallInv, WaitInv
    <2>3. \A u \in Workers : thread'[u].op = "release" => thread'[u].by = Life
      <3>1. leaseTask # Life
        BY CallersOfKind DEF CallInv, PluginTypes
      <3>2. QED
        BY <3>1, OrphanedThreads DEF CallInv, WaitInv
    <2>4. QED
      BY <2>1, <2>2, <2>3 DEF WaitInv
  <1>4. QED
    BY <1>1, <1>2, <1>3 DEF CallInv

(* With a client, Life, which waited for nothing, waits for the release.   *)
LEMMA DisconnectReleasing ==
  ASSUME CallInv, NEW t \in Workers, IsNextFree(t), Cancel("releasing"),
         thread' = [Orphaned EXCEPT ![t] =
                      [by |-> Life, op |-> "release", gen |-> module, posts |-> 2]],
         pc[Life] = "idle", module # 0,
         UNCHANGED <<built, status, stage, tries, job, historyVars>>
  PROVE  CallInv'
  <1>1. PICK th : th = [by |-> Life, op |-> "release", gen |-> module, posts |-> 2]
    OBVIOUS
  <1>2. th \in ThreadType /\ th.by = Life /\ th.op = "release" /\ th.gen # 0
    BY <1>1, CallersOfKind DEF ThreadType, Requests, CallInv, PluginTypes
  <1>3. \A u \in Workers : thread'[u] = IF u = t THEN th ELSE Orphaned[u]
    BY <1>1 DEF Orphaned, Abandon
  <1>4. /\ PluginTypes' /\ CallTypes' /\ LockInv'
        /\ \A d \in Callers : pc'[d] = IF d = Life THEN "releasing"
                                       ELSE IF d = leaseTask THEN "ended" ELSE pc[d]
    BY CancelCalls
  <1>5. \A u \in Workers : thread[u].by # Life
    <2>1. Life \in Callers /\ Life # None
      BY CallersOfKind
    <2>2. QED
      BY <2>1 DEF CallInv, WaitInv
  <1>6. ThreadTypes'
    <2>1. thread' \in [Workers -> ThreadType]
      <3>1. \A u \in Workers : thread'[u] \in ThreadType
        BY <1>2, <1>3, OrphanedThreads
      <3>2. QED
        BY <3>1 DEF Orphaned, Abandon
    <2>2. \A u \in Workers : thread'[u] # Idle => thread'[u].gen # 0 /\ thread'[u].op # "none"
      BY <1>2, <1>3, OrphanedThreads DEF CallInv, ThreadTypes
    <2>3. QED
      BY <2>1, <2>2 DEF ThreadTypes
  <1>7. WaitInv'
    <2>1. ASSUME NEW u \in Workers, thread'[u].by # None
          PROVE  \/ thread'[u].op = "release" /\ thread'[u].by = Life /\ pc'[Life] = "releasing"
                 \/ thread'[u].op = Op(thread[u].by)' /\ pc'[thread'[u].by] = "calling"
      <3>1. CASE u = t
        <4>1. Life \in Callers
          BY CallersOfKind
        <4>2. QED
          BY <1>2, <1>3, <1>4, <3>1, <4>1
      <3>2. CASE u # t
        <4>1. thread'[u] = Orphaned[u]
          BY <1>3, <3>2
        <4>2. PICK c : c = Orphaned[u].by
          OBVIOUS
        <4>3. c \in Callers /\ Orphaned[u].op = Op(c)' /\ pc'[c] = "calling"
          BY <1>4, <2>1, <4>1, <4>2, OrphanedWaits
        <4>4. thread'[u].by = c
          BY <4>1, <4>2
        <4>5. QED
          BY <4>1, <4>3, <4>4
      <3>3. QED
        BY <3>1, <3>2
    <2>2. \A u, v \in Workers : thread'[u].by = thread'[v].by => u = v \/ thread'[u].by = None
      BY <1>2, <1>3, <1>5, OrphanedThreads DEF CallInv, WaitInv
    <2>3. \A u \in Workers : thread'[u].op = "release" => thread'[u].by = Life
      <3>1. leaseTask # Life
        BY CallersOfKind DEF CallInv, PluginTypes
      <3>2. QED
        BY <1>2, <1>3, <3>1, OrphanedThreads DEF CallInv, WaitInv
    <2>4. QED
      BY <2>1, <2>2, <2>3 DEF WaitInv
  <1>8. QED
    BY <1>4, <1>6, <1>7 DEF CallInv

LEMMA DisconnectCalls ==
  ASSUME CallInv, Disconnect
  PROVE  CallInv'
  BY DisconnectAlone, DisconnectReleasing DEF Disconnect

LEMMA CallInvInit == Init => CallInv
  <1> SUFFICES ASSUME Init PROVE CallInv
    OBVIOUS
  <1>1. PluginTypes
    BY M5Assumption DEF Init, PluginTypes
  <1>2. CallTypes
    <2>1. job \in [Callers -> Writes \cup {"renew", "acquire"}]
      BY CallersOfKind DEF Init, Writes
    <2>2. \A c \in Callers : job[c] \in Writes => c \in Clients
      BY CallersOfKind DEF Init, Writes
    <2>3. QED
      <3>1. tries \in [Callers -> 0..Attempts]
        BY M5Assumption DEF Init
      <3>2. pc \in [Callers -> Steps] /\ stage \in [Callers -> {"first", "reacquire", "again"}]
        BY DEF Init, Steps
      <3>3. reported = {} /\ calm = FALSE
        BY DEF Init
      <3>4. QED
        BY <2>1, <2>2, <3>1, <3>2, <3>3 DEF CallTypes
  <1>3. ThreadTypes
    BY IdleType DEF Init, ThreadTypes
  <1>4. LockInv
    <2>1. lock = <<>> /\ Len(lock) = 0
      BY DEF Init
    <2>2. lock \in Seq(Callers)
      BY <2>1
    <2>3. Distinct(lock) /\ \A c \in Callers : ~InQueue(lock, c)
      BY <2>1 DEF Distinct, InQueue
    <2>4. \A c \in Callers : pc[c] = "idle"
      BY DEF Init
    <2>5. QED
      BY <2>2, <2>3, <2>4 DEF LockInv, InLock
  <1>5. WaitInv
    BY IdleType DEF Init, WaitInv
  <1>6. QED
    BY <1>1, <1>2, <1>3, <1>4, <1>5 DEF CallInv

LEMMA CallInvNext == CallInv /\ [Next]_vars => CallInv'
  <1> SUFFICES ASSUME CallInv, [Next]_vars PROVE CallInv'
    OBVIOUS
  <1>1. ASSUME NEW c \in Clients, NEW op \in Writes, Begin(c, op) PROVE CallInv'
    BY <1>1, BeginCalls
  <1>2. ASSUME NEW c \in Callers, Enqueue(c) \/ StartCall(c) \/ TimeOut(c) PROVE CallInv'
    BY <1>2, EnqueueCalls, StartCalls, TimeOutCalls
  <1>3. ASSUME NEW t \in Workers, ThreadStep(t) PROVE CallInv'
    BY <1>3, ThreadCalls
  <1>4. CASE Connect
    BY <1>4, ConnectCalls
  <1>5. CASE Disconnect
    BY <1>5, DisconnectCalls
  <1>6. CASE HealthFails
    <2>1. PluginTypes'
      BY <1>6, M5Assumption DEF HealthFails, CallInv, PluginTypes
    <2>2. QED
      BY <1>6, <2>1, OutsideCalls DEF HealthFails
  <1>7. CASE HealthRebuilds
    <2>1. PluginTypes'
      BY <1>7, M5Assumption DEF HealthRebuilds, CallInv, PluginTypes
    <2>2. QED
      BY <1>7, <2>1, OutsideCalls DEF HealthRebuilds
  <1>8. CASE Age \/ UNCHANGED vars
    <2>1. PluginTypes' /\ UNCHANGED <<callVars, thread, historyVars>>
      BY <1>8 DEF Age, vars, CallInv, PluginTypes, pluginVars
    <2>2. QED
      BY <2>1, OutsideCalls
  <1>9. QED
    BY <1>1, <1>2, <1>3, <1>4, <1>5, <1>6, <1>7, <1>8 DEF Next

LEMMA CallsAreOwned == Spec => []CallInv
  BY CallInvInit, CallInvNext, PTL DEF Spec

(* The types of the firmware's side.                                       *)
LEMMA ArmTypes ==
  ASSUME CallInv, FirmwareTypes, NEW t \in Workers, thread[t] # Idle, NEW r, Arm(t, r)
  PROVE  armed' \subseteq 1..MaxBuilt
  <1>1. thread[t].gen \in 1..MaxBuilt
    BY M5Assumption DEF CallInv, ThreadTypes, ThreadType
  <1>2. QED
    BY <1>1 DEF Arm, FirmwareTypes

LEMMA ServeTypes ==
  ASSUME CallInv, FirmwareTypes, NEW t \in Workers, thread[t] # Idle, Serve(t)
  PROVE  /\ lease' \in {"fresh", "stale", "none"} /\ energised' \in BOOLEAN
         /\ applied' \subseteq Clients
  <1>1. thread[t].op \in {"on", "alloff", "acquire", "renew", "release"}
    BY DEF CallInv, ThreadTypes, ThreadType, Requests, Writes
  <1>2. lease \in {"fresh", "stale", "none"} /\ energised \in BOOLEAN /\ applied \subseteq Clients
    BY DEF FirmwareTypes
  <1>3. lease' \in {"fresh", "stale", "none"}
    BY <1>1, <1>2 DEF Serve, Writes
  <1>4. energised' \in BOOLEAN
    BY <1>1, <1>2 DEF Serve, HasLease
  <1>5. applied' \subseteq Clients
    BY <1>2 DEF Serve, Applies
  <1>6. QED
    BY <1>3, <1>4, <1>5

LEMMA FirmwareTypesNext ==
  CallInv /\ FirmwareTypes /\ [Next]_vars => FirmwareTypes'
  <1> SUFFICES ASSUME CallInv, FirmwareTypes, [Next]_vars PROVE FirmwareTypes'
    OBVIOUS
  <1> USE DEF firmwareVars
  <1>1. ASSUME NEW c \in Clients, NEW op \in Writes, Begin(c, op) PROVE FirmwareTypes'
    BY <1>1 DEF Begin, FirmwareTypes
  <1>2. ASSUME NEW c \in Callers, Enqueue(c) \/ StartCall(c) \/ TimeOut(c)
        PROVE  FirmwareTypes'
    BY <1>2 DEF Enqueue, StartCall, TimeOut, FirmwareTypes, historyVars
  <1>3. ASSUME NEW t \in Workers, ThreadStep(t) PROVE FirmwareTypes'
    <2>1. CASE ServeRequest(t)
      <3>1. thread[t] # Idle /\ Serve(t) /\ Arm(t, Answer(t)) /\ UNCHANGED lost
        BY <2>1 DEF ServeRequest, Deliver
      <3>2. QED
        BY <3>1, ArmTypes, ServeTypes DEF FirmwareTypes
    <2>2. CASE DenyLease(t)
      <3>1. thread[t] # Idle /\ Arm(t, "error") /\ UNCHANGED <<firmwareVars, lost, applied>>
        BY <2>2, IdleType DEF DenyLease, Deliver
      <3>2. QED
        BY <3>1, ArmTypes DEF FirmwareTypes
    <2>3. CASE LoseRequest(t)
      <3>1. thread[t] # Idle /\ lost' \in 0..MaxLost
        BY <2>3, M5Assumption DEF LoseRequest, FirmwareTypes
      <3>2. UNCHANGED <<firmwareVars, applied>> \/ Serve(t)
        BY <2>3 DEF LoseRequest
      <3>3. UNCHANGED armed \/ Arm(t, "error")
        BY <2>3 DEF LoseRequest, Deliver
      <3>4. armed' \subseteq 1..MaxBuilt
        BY <3>1, <3>3, ArmTypes DEF FirmwareTypes
      <3>5. QED
        BY <3>1, <3>2, <3>4, ServeTypes DEF FirmwareTypes
    <2>4. QED
      BY <1>3, <2>1, <2>2, <2>3 DEF ThreadStep
  <1>4. CASE Connect \/ Disconnect \/ HealthFails \/ HealthRebuilds
    BY <1>4 DEF Connect, Disconnect, HealthFails, HealthRebuilds, FirmwareTypes, historyVars
  <1>5. CASE Age \/ UNCHANGED vars
    BY <1>5 DEF Age, vars, FirmwareTypes, historyVars
  <1>6. QED
    BY <1>1, <1>2, <1>3, <1>4, <1>5 DEF Next

LEMMA FirmwareIsTyped == Spec => []FirmwareTypes
  <1>1. ASSUME Init PROVE FirmwareTypes
    <2>1. lost \in 0..MaxLost
      BY <1>1, M5Assumption DEF Init
    <2>2. armed = {} /\ applied = {} /\ lease = "none" /\ energised = FALSE
      BY <1>1 DEF Init
    <2>3. QED
      BY <2>1, <2>2 DEF FirmwareTypes
  <1>2. QED
    BY <1>1, FirmwareTypesNext, CallsAreOwned, PTL DEF Spec

(* TypeOK holds of every reachable state.                                  *)
THEOREM TypeCorrect == Spec => []TypeOK
  <1>1. CallInv /\ FirmwareTypes => TypeOK
    BY DEF TypeOK, CallInv, PluginTypes, CallTypes, FirmwareTypes, ThreadTypes, ThreadType,
           LockInv, Steps, Requests, Writes
  <1>2. QED
    BY <1>1, CallsAreOwned, FirmwareIsTyped, PTL

(* However callers time out, are cancelled by disconnect or reacquire the  *)
(* lease: nobody is in the lock's queue twice, and a thread somebody waits *)
(* for, but the release, works for the holder of the lock.                 *)
THEOREM OneRequest == Spec => []OneRequestAtATime
  <1>1. ASSUME CallInv PROVE OneRequestAtATime
    <2>1. DOMAIN lock = 1..Len(lock)
      BY <1>1 DEF CallInv, LockInv
    <2>2. ASSUME NEW t \in Workers, thread[t].by \in Callers \ {Life}
          PROVE  lock # <<>> /\ Head(lock) = thread[t].by
      BY <1>1, <2>2, CallersOfKind DEF CallInv, WaitInv, LockInv, Holds
    <2>3. QED
      BY <1>1, <2>1, <2>2 DEF OneRequestAtATime, CallInv, LockInv, Distinct
  <1>2. QED
    BY <1>1, CallsAreOwned, PTL
-----------------------------------------------------------------------------
(* What a client is told.                                                  *)

(* What Resume reports, and on which result.                               *)
LEMMA ResumeEffect ==
  ASSUME CallInv, NEW c \in Callers, NEW r \in {"ok", "conflict", "error", "timeout"},
         Resume(c, r)
  PROVE  \/ reported' = reported
         \/ /\ reported' = reported \cup {c} /\ c \in Clients
            /\ r = "ok" /\ stage[c] \in {"first", "again"}
  <1> DEFINE o == Outcome(c, r)
  <1>1. /\ o = "done" => r = "ok"
        /\ o = "done" /\ c \in Clients => stage[c] \in {"first", "again"}
    BY OutcomeType DEF CallInv
  <1> HIDE DEF o
  <1>2. CASE Retried(c, o)
    BY <1>2 DEF Retried
  <1>3. CASE c \in Clients /\ CommandReturns(c, o)
    BY <1>1, <1>3 DEF CommandReturns
  <1>4. CASE c \in Loops /\ RenewalEnds(c, o)
    BY <1>4 DEF RenewalEnds
  <1>5. CASE c = Life /\ ConnectEnds(o)
    BY <1>5 DEF ConnectEnds
  <1>6. QED
    BY <1>2, <1>3, <1>4, <1>5 DEF Resume, o

(* The firmware has applied the command whose thread succeeds.             *)
LEMMA SuccessApplies ==
  ASSUME CallInv, NEW t \in Workers, Serve(t), Answer(t) = "ok", thread[t].op # "release",
         NEW c \in Clients, c = thread[t].by, stage[c] \in {"first", "again"}
  PROVE  c \in applied' /\ thread[t].op = job[c]
  <1>1. c \in Callers /\ c # None
    BY CallersOfKind
  <1>2. thread[t].op = Op(c)
    BY <1>1 DEF CallInv, WaitInv
  <1>3. thread[t].op = job[c]
    BY <1>2 DEF Op
  <1>4. QED
    BY <1>3 DEF Serve, Applies

LEMMA SuccessNext ==
  CallInv /\ SuccessWasApplied /\ [Next]_vars => SuccessWasApplied'
  <1> SUFFICES ASSUME CallInv, SuccessWasApplied, [Next]_vars PROVE SuccessWasApplied'
    OBVIOUS
  <1>1. ASSUME UNCHANGED <<reported, applied>> PROVE SuccessWasApplied'
    BY <1>1 DEF SuccessWasApplied
  <1>2. ASSUME NEW c \in Clients, NEW op \in Writes, Begin(c, op) PROVE SuccessWasApplied'
    BY <1>2 DEF Begin, SuccessWasApplied
  <1>3. ASSUME NEW c \in Callers, Enqueue(c) \/ StartCall(c) \/ TimeOut(c)
        PROVE  UNCHANGED <<reported, applied>>
    <2>1. Resume(c, "error") \/ Resume(c, "timeout") => UNCHANGED reported
      BY ResumeEffect
    <2>2. QED
      BY <1>3, <2>1 DEF Enqueue, StartCall, TimeOut, historyVars
  <1>4. ASSUME NEW t \in Workers, NEW r \in {"ok", "conflict", "error", "timeout"},
               Deliver(t, r)
        PROVE  \/ reported' = reported
               \/ /\ reported' = reported \cup {thread[t].by} /\ thread[t].by \in Clients
                  /\ thread[t].op # "release"
                  /\ r = "ok" /\ stage[thread[t].by] \in {"first", "again"}
    <2>1. CASE UNCHANGED reported
      BY <2>1
    <2>2. CASE thread[t].op # "release" /\ thread[t].by # None /\ Resume(thread[t].by, r)
      <3>1. thread[t].by \in Callers
        BY <2>2 DEF CallInv, ThreadTypes, ThreadType
      <3>2. QED
        BY <2>2, <3>1, ResumeEffect
    <2>3. QED
      BY <1>4, <2>1, <2>2 DEF Deliver, DisconnectEnds
  <1>5. ASSUME NEW t \in Workers, ThreadStep(t) PROVE SuccessWasApplied'
    <2>1. Serve(t) => applied \subseteq applied'
      BY DEF Serve, Applies
    <2>2. CASE ServeRequest(t)
      <3>1. Serve(t) /\ Deliver(t, Answer(t)) /\ Answer(t) \in {"ok", "conflict"}
        BY <2>2, AnswerType DEF ServeRequest
      <3>2. CASE reported' = reported
        BY <2>1, <3>1, <3>2 DEF SuccessWasApplied
      <3>3. CASE /\ reported' = reported \cup {thread[t].by} /\ thread[t].by \in Clients
                 /\ thread[t].op # "release"
                 /\ Answer(t) = "ok" /\ stage[thread[t].by] \in {"first", "again"}
        <4>1. thread[t].by \in applied'
          BY <3>1, <3>3, SuccessApplies
        <4>2. QED
          BY <2>1, <3>1, <3>3, <4>1 DEF SuccessWasApplied
      <3>4. QED
        BY <1>4, <3>1, <3>2, <3>3
    <2>3. CASE DenyLease(t)
      <3>1. reported' = reported
        BY <1>4, <2>3 DEF DenyLease
      <3>2. QED
        BY <1>1, <2>3, <3>1 DEF DenyLease
    <2>4. CASE LoseRequest(t)
      <3>1. reported' = reported
        BY <1>4, <2>4 DEF LoseRequest
      <3>2. QED
        BY <2>1, <2>4, <3>1 DEF LoseRequest, SuccessWasApplied
    <2>5. QED
      BY <1>5, <2>2, <2>3, <2>4 DEF ThreadStep
  <1>6. Connect \/ Disconnect \/ HealthFails \/ HealthRebuilds \/ Age \/ UNCHANGED vars
          => UNCHANGED <<reported, applied>>
    BY DEF Connect, Disconnect, HealthFails, HealthRebuilds, Age, vars, historyVars
  <1>7. QED
    BY <1>1, <1>2, <1>3, <1>5, <1>6 DEF Next

(* A command is reported as done only if the firmware applied it in its    *)
(* last request, whatever was lost, timed out, refused or abandoned before.*)
THEOREM DoneWasApplied == Spec => []SuccessWasApplied
  <1>1. Init => SuccessWasApplied
    BY DEF Init, SuccessWasApplied
  <1>2. QED
    BY <1>1, SuccessNext, CallsAreOwned, PTL DEF Spec
=============================================================================
