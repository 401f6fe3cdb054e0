--------------------------- MODULE ProbingProofs ---------------------------
(***************************************************************************)
(* Proofs about Probing.  InductiveInv, near the end, is the inductive     *)
(* invariant; the sections before it take its parts one by one, each with  *)
(* the lemma that a step keeps it and the one that it implies the property *)
(* it is there for.                                                        *)
(***************************************************************************)
EXTENDS Probing, FiniteSetTheorems, SequenceTheorems, TLAPS

USE ProbingAssumption, ProbeHealthAssumption

Tasks == [pc     : TaskStates,
          node   : Nodes \cup {NoNode},
          lock   : {0} \cup LockIds,
          weight : 0..Slots,
          cfg    : Configs \cup {"off", "gone"},
          rev    : 0..MaxSettings,
          gen    : 0..MaxGen,
          result : Results,
          mark   : BOOLEAN,
          alive  : BOOLEAN,
          served : BOOLEAN,
          owed   : BOOLEAN]

Entries == [gen : 0..MaxGen, rev : 0..MaxSettings, health : Healths]

CachedResults == [gen : 0..MaxGen, rev : 0..MaxSettings,
                  cfg : Configs \cup {"off", "gone"}]

-----------------------------------------------------------------------------
(* Numbers. *)

\* 64u32.div_ceil: the least weight of which c make up all slots.
LEMMA WeightCovers ==
    ASSUME NEW c \in 1..Slots
    PROVE  Weight(c) \in 1..Slots /\ Weight(c) * c >= Slots
<1>1. PICK q \in Int, r \in Int : /\ q = (Slots + c - 1) \div c
                                 /\ r = (Slots + c - 1) % c
  OBVIOUS
<1>2. Slots + c - 1 = c * q + r /\ 0 <= r /\ r < c
  BY <1>1
<1>3. q >= 1
  BY <1>2, SMTT(30)
<1>4. q * c >= Slots
  BY <1>2, SMTT(30)
<1>5. q <= Slots
  BY <1>2, SMTT(30)
<1> QED
  BY <1>1, <1>3, <1>4, <1>5 DEF Weight

LEMMA MinInSet ==
    ASSUME NEW S \in SUBSET Nat, NEW m \in S, \A x \in S : m <= x
    PROVE  Min(S) \in S
BY DEF Min

LEMMA UpToTypes ==
    ASSUME NEW d \in Nat \ {0}, NEW a \in 0..d, NEW b \in 0..d
    PROVE  /\ UpTo(d, a) \in 0..d
           /\ a <= b => UpTo(d, a) <= UpTo(d, b)
           /\ UpTo(d, a) <= a + 1
BY DEF UpTo

-----------------------------------------------------------------------------
(* What a step does to the probes. *)

\* A probe that is under way is of a node, a batch's probe of the node it is
\* called after, and holds a reference to the lock the map has for the node.
Shape ==
    \A t \in Probers : task[t].pc # "idle" =>
        /\ task[t].node \in Nodes
        /\ t \in Nodes => task[t].node = t
        /\ task[t].lock \in LockIds
        /\ task[t].lock = lockOf[task[t].node]

\* A command that still has its reset to do is for a node.
EditShape == edit = NoEdit \/ edit.node \in Nodes

\* All that other probes do to a probe is to leave it a result.
Kept(u) ==
    /\ task'[u].pc = task[u].pc
    /\ task'[u].node = task[u].node
    /\ task'[u].lock = task[u].lock
    /\ task'[u].weight = task[u].weight
    /\ task'[u].cfg = task[u].cfg
    /\ task'[u].rev = task[u].rev
    /\ task'[u].gen = task[u].gen
    /\ task'[u].result = task[u].result
    /\ task'[u].mark = task[u].mark
    /\ task'[u].alive = task[u].alive

\* The way of a probe.
After(pc) ==
    CASE pc = "queued"     -> "locked"
      [] pc = "locked"     -> "ready"
      [] pc = "ready"      -> "reading"
      [] pc = "reading"    -> "testing"
      [] pc = "testing"    -> "judging"
      [] pc = "judging"    -> "counting"
      [] pc = "counting"   -> "checking"
      [] pc = "checking"   -> "publishing"
      [] pc = "publishing" -> "persisting"
      [] pc = "persisting" -> "caching"
      [] OTHER             -> "idle"

\* The probe goes on.
Advances(t) ==
    /\ task'[t].pc = After(task[t].pc)
    /\ task'[t].node = task[t].node
    /\ task'[t].lock = task[t].lock
    /\ task'[t].weight =
          IF task[t].pc = "queued" THEN Weight(concurrency) ELSE task[t].weight
    /\ task'[t].cfg =
          IF task[t].pc = "ready" THEN cfg[task[t].node] ELSE task[t].cfg
    /\ task'[t].rev = IF task[t].pc = "ready" THEN settings ELSE task[t].rev
    /\ task'[t].gen =
          IF task[t].pc = "reading" THEN nodeGen[task[t].node] ELSE task[t].gen
    /\ task'[t].owed = task[t].owed
    /\ task'[t].served = task[t].served
    /\ task[t].pc # "testing" => task'[t].result = task[t].result
    /\ task[t].pc \notin {"counting", "checking"} =>
          task'[t].mark = task[t].mark
    /\ task[t].pc = "checking" => (task'[t].mark => task[t].mark)

\* Writing fields keeps the record's type.
LEMMA TaskFields ==
    /\ \A r \in Tasks, s \in TaskStates : [r EXCEPT !.pc = s] \in Tasks
    /\ \A r \in Tasks, w \in 0..Slots :
          [r EXCEPT !.pc = "locked", !.weight = w] \in Tasks
    /\ \A r \in Tasks, c \in Configs \cup {"off", "gone"}, v \in 0..MaxSettings :
          [r EXCEPT !.pc = "reading", !.cfg = c, !.rev = v] \in Tasks
    /\ \A r \in Tasks, g \in 0..MaxGen :
          [r EXCEPT !.pc = "testing", !.gen = g] \in Tasks
    /\ \A r \in Tasks, x \in Results :
          [r EXCEPT !.pc = "judging", !.result = x] \in Tasks
    /\ \A r \in Tasks, m \in BOOLEAN :
          /\ [r EXCEPT !.pc = "checking", !.mark = m] \in Tasks
          /\ [r EXCEPT !.owed = m] \in Tasks
          /\ [r EXCEPT !.served = m] \in Tasks
    /\ \A r \in Tasks, a \in BOOLEAN, m \in BOOLEAN :
          [r EXCEPT !.pc = "publishing", !.alive = a, !.mark = m] \in Tasks
<1> USE DEF Tasks, TaskStates
<1>1. \A r \in Tasks, s \in TaskStates : [r EXCEPT !.pc = s] \in Tasks
  OBVIOUS
<1>2. \A r \in Tasks, w \in 0..Slots :
        [r EXCEPT !.pc = "locked", !.weight = w] \in Tasks
  OBVIOUS
<1>3. ASSUME NEW r \in Tasks, NEW c \in Configs \cup {"off", "gone"},
             NEW v \in 0..MaxSettings
      PROVE  [r EXCEPT !.pc = "reading", !.cfg = c, !.rev = v] \in Tasks
  OBVIOUS
<1>4. \A r \in Tasks, g \in 0..MaxGen :
        [r EXCEPT !.pc = "testing", !.gen = g] \in Tasks
  OBVIOUS
<1>5. \A r \in Tasks, x \in Results :
        [r EXCEPT !.pc = "judging", !.result = x] \in Tasks
  OBVIOUS
<1>6. ASSUME NEW r \in Tasks, NEW m \in BOOLEAN
      PROVE  /\ [r EXCEPT !.pc = "checking", !.mark = m] \in Tasks
             /\ [r EXCEPT !.owed = m] \in Tasks
             /\ [r EXCEPT !.served = m] \in Tasks
  <2>1. [r EXCEPT !.pc = "checking", !.mark = m] \in Tasks
    OBVIOUS
  <2>2. [r EXCEPT !.owed = m] \in Tasks
    OBVIOUS
  <2>3. [r EXCEPT !.served = m] \in Tasks
    OBVIOUS
  <2> QED
    BY <2>1, <2>2, <2>3
<1>7. \A r \in Tasks, a \in BOOLEAN, m \in BOOLEAN :
        [r EXCEPT !.pc = "publishing", !.alive = a, !.mark = m] \in Tasks
  OBVIOUS
<1> HIDE DEF Tasks, TaskStates
<1> QED
  BY <1>1, <1>2, <1>3, <1>4, <1>5, <1>6, <1>7

LEMMA NoTaskType == NoTask \in Tasks
BY DEF NoTask, Tasks, TaskStates, Results

\* A step that writes one task.
LEMMA TaskWritten ==
    ASSUME task \in [Probers -> Tasks], NEW t \in Probers, NEW r \in Tasks,
           task' = [task EXCEPT ![t] = r]
    PROVE  /\ task' \in [Probers -> Tasks]
           /\ task'[t] = r
           /\ \A u \in Probers \ {t} : task'[u] = task[u]
OBVIOUS

LEMMA TasksType == TypeOK => task \in [Probers -> Tasks]
BY DEF TypeOK, Tasks

LEMMA TaskTypes ==
    ASSUME TypeOK, NEW t \in Probers
    PROVE  /\ task \in [Probers -> Tasks]
           /\ task[t] \in Tasks
           /\ task[t].pc \in TaskStates
           /\ task[t].node \in Nodes \cup {NoNode}
           /\ task[t].lock \in {0} \cup LockIds
           /\ task[t].weight \in 0..Slots
           /\ task[t].cfg \in Configs \cup {"off", "gone"}
           /\ task[t].rev \in 0..MaxSettings
           /\ task[t].gen \in 0..MaxGen
           /\ task[t].result \in Results
           /\ task[t].mark \in BOOLEAN
           /\ task[t].alive \in BOOLEAN
           /\ task[t].owed \in BOOLEAN
<1>1. task \in [Probers -> Tasks] /\ task[t] \in Tasks
  BY DEF TypeOK, Tasks
<1> QED
  BY <1>1 DEF Tasks

LEMMA Ended ==
    ASSUME TypeOK, NEW t \in Probers, End(t)
    PROVE  /\ task' \in [Probers -> Tasks] /\ task'[t] = NoTask
           /\ \A u \in Probers \ {t} : task'[u] = task[u]
BY TaskTypes, NoTaskType, TaskWritten DEF End

\* What the own steps of a probe do to the probes.
LEMMA ProberFrame ==
    ASSUME TypeOK, Shape, NEW t \in Probers, ProbeStep(t) \/ Recheck(t)
    PROVE  /\ task' \in [Probers -> Tasks]
           /\ task[t].pc # "idle" /\ task[t].node \in Nodes
           /\ \A u \in Probers \ {t} : Kept(u)
           /\ task'[t] = NoTask \/ Advances(t)
<1> DEFINE n == task[t].node
           Goal == /\ task' \in [Probers -> Tasks]
                   /\ \A u \in Probers \ {t} : Kept(u)
                   /\ task'[t] = NoTask \/ Advances(t)
<1>a. task[t].pc # "idle"
  BY DEF ProbeStep, LockNode, TakeSlots, QueueTimeout, ReadRow, ReuseResult,
     StartTest, Misconfigured, FinishTest, Count, CheckObservation,
     PublishObservation, PersistObservation, CacheResult, Recheck
<1>b. n \in Nodes
  BY <1>a DEF Shape
<1>c. ASSUME End(t) PROVE Goal
  BY <1>c, Ended DEF Kept
<1>d. ASSUME NEW r \in Tasks, task' = [task EXCEPT ![t] = r]
      PROVE  /\ task' \in [Probers -> Tasks] /\ task'[t] = r
             /\ \A u \in Probers \ {t} : Kept(u)
  BY <1>d, TaskTypes, TaskWritten DEF Kept
<1>1. ASSUME LockNode(t) PROVE Goal
  <2> DEFINE r == [task[t] EXCEPT !.pc = "locked",
                                  !.weight = Weight(concurrency)]
  <2>1. Weight(concurrency) \in 0..Slots
    BY WeightCovers DEF TypeOK
  <2>2. r \in Tasks
    BY <2>1, TaskTypes, TaskFields DEF TaskStates
  <2>3. task' = [task EXCEPT ![t] = r] /\ task[t].pc = "queued"
    BY <1>1 DEF LockNode
  <2>4. /\ r.pc = "locked" /\ r.weight = Weight(concurrency)
        /\ r.node = n /\ r.lock = task[t].lock /\ r.cfg = task[t].cfg
        /\ r.rev = task[t].rev /\ r.gen = task[t].gen
        /\ r.owed = task[t].owed /\ r.served = task[t].served
        /\ r.result = task[t].result /\ r.mark = task[t].mark
    BY TaskTypes DEF Tasks
  <2> HIDE DEF r
  <2> QED
    BY <1>d, <2>2, <2>3, <2>4 DEF Advances, After
<1>2. ASSUME TakeSlots(t) PROVE Goal
  <2> DEFINE r == [task[t] EXCEPT !.pc = "ready"]
  <2>1. r \in Tasks
    BY TaskTypes, TaskFields DEF TaskStates
  <2>2. task' = [task EXCEPT ![t] = r] /\ task[t].pc = "locked"
    BY <1>2 DEF TakeSlots
  <2>3. /\ r.pc = "ready" /\ r.weight = task[t].weight
        /\ r.node = n /\ r.lock = task[t].lock /\ r.cfg = task[t].cfg
        /\ r.rev = task[t].rev /\ r.gen = task[t].gen
        /\ r.owed = task[t].owed /\ r.served = task[t].served
        /\ r.result = task[t].result /\ r.mark = task[t].mark
    BY TaskTypes DEF Tasks
  <2> HIDE DEF r
  <2> QED
    BY <1>d, <2>1, <2>2, <2>3 DEF Advances, After
<1>3. ASSUME QueueTimeout(t) \/ ReuseResult(t) \/ Misconfigured(t) PROVE Goal
  BY <1>3, <1>c DEF QueueTimeout, ReuseResult, Misconfigured
<1>4. ASSUME ReadRow(t) PROVE Goal
  <2> DEFINE r == [task[t] EXCEPT !.pc = "reading", !.cfg = cfg[n],
                                  !.rev = settings]
  <2>1. cfg[n] \in Configs \cup {"off", "gone"} /\ settings \in 0..MaxSettings
    BY <1>b DEF TypeOK
  <2>2. r \in Tasks
    BY <2>1, TaskTypes, TaskFields DEF TaskStates
  <2>3. /\ End(t) \/ task' = [task EXCEPT ![t] = r]
        /\ task[t].pc = "ready"
    BY <1>4 DEF ReadRow
  <2>4. /\ r.pc = "reading" /\ r.weight = task[t].weight
        /\ r.node = n /\ r.lock = task[t].lock /\ r.cfg = cfg[n]
        /\ r.rev = settings /\ r.gen = task[t].gen
        /\ r.owed = task[t].owed /\ r.served = task[t].served
        /\ r.result = task[t].result /\ r.mark = task[t].mark
    BY TaskTypes DEF Tasks
  <2> HIDE DEF r
  <2> QED
    BY <1>c, <1>d, <2>2, <2>3, <2>4 DEF Advances, After
<1>5. ASSUME StartTest(t) PROVE Goal
  <2> DEFINE r == [task[t] EXCEPT !.pc = "testing", !.gen = nodeGen[n]]
  <2>1. nodeGen[n] \in 0..MaxGen
    BY <1>b DEF TypeOK
  <2>2. r \in Tasks
    BY <2>1, TaskTypes, TaskFields DEF TaskStates
  <2>3. task' = [task EXCEPT ![t] = r] /\ task[t].pc = "reading"
    BY <1>5 DEF StartTest
  <2>4. /\ r.pc = "testing" /\ r.weight = task[t].weight
        /\ r.node = n /\ r.lock = task[t].lock /\ r.cfg = task[t].cfg
        /\ r.rev = task[t].rev /\ r.gen = nodeGen[n]
        /\ r.owed = task[t].owed /\ r.served = task[t].served
        /\ r.result = task[t].result /\ r.mark = task[t].mark
    BY TaskTypes DEF Tasks
  <2> HIDE DEF r
  <2> QED
    BY <1>d, <2>2, <2>3, <2>4 DEF Advances, After
<1>6. ASSUME NEW result \in Results, FinishTest(t, result) PROVE Goal
  <2> DEFINE r == [task[t] EXCEPT !.pc = "judging", !.result = result]
  <2>1. r \in Tasks
    BY TaskTypes, TaskFields DEF TaskStates
  <2>2. task' = [task EXCEPT ![t] = r] /\ task[t].pc = "testing"
    BY <1>6 DEF FinishTest
  <2>3. /\ r.pc = "judging" /\ r.weight = task[t].weight
        /\ r.node = n /\ r.lock = task[t].lock /\ r.cfg = task[t].cfg
        /\ r.rev = task[t].rev /\ r.gen = task[t].gen
        /\ r.owed = task[t].owed /\ r.served = task[t].served
        /\ r.mark = task[t].mark
    BY TaskTypes DEF Tasks
  <2> HIDE DEF r
  <2> QED
    BY <1>d, <2>1, <2>2, <2>3 DEF Advances, After
<1>7. ASSUME Recheck(t) PROVE Goal
  <2> DEFINE r == [task[t] EXCEPT !.pc = "counting"]
  <2>1. r \in Tasks
    BY TaskTypes, TaskFields DEF TaskStates
  <2>2. /\ End(t) \/ task' = [task EXCEPT ![t] = r]
        /\ task[t].pc = "judging"
    BY <1>7 DEF Recheck
  <2>3. /\ r.pc = "counting" /\ r.weight = task[t].weight
        /\ r.node = n /\ r.lock = task[t].lock /\ r.cfg = task[t].cfg
        /\ r.rev = task[t].rev /\ r.gen = task[t].gen
        /\ r.owed = task[t].owed /\ r.served = task[t].served
        /\ r.result = task[t].result /\ r.mark = task[t].mark
    BY TaskTypes DEF Tasks
  <2> HIDE DEF r
  <2> QED
    BY <1>c, <1>d, <2>1, <2>2, <2>3 DEF Advances, After
<1>8. ASSUME NEW alive \in BOOLEAN, Count(t, alive) PROVE Goal
  <2>1. PICK m \in BOOLEAN :
          task' = [task EXCEPT ![t] = [task[t] EXCEPT !.pc = "checking",
                                                      !.mark = m]]
    <3> DEFINE m == /\ task[t].result = "proxyFail" /\ ~alive
                    /\ Marks(t, UpTo(DownThreshold, failures[n]))
    <3>1. m \in BOOLEAN
      OBVIOUS
    <3> QED
      BY <1>8, <3>1 DEF Count
  <2> DEFINE r == [task[t] EXCEPT !.pc = "checking", !.mark = m]
  <2>2. r \in Tasks
    BY TaskTypes, TaskFields DEF TaskStates
  <2>3. task[t].pc = "counting"
    BY <1>8 DEF Count
  <2>4. /\ r.pc = "checking" /\ r.weight = task[t].weight
        /\ r.node = n /\ r.lock = task[t].lock /\ r.cfg = task[t].cfg
        /\ r.rev = task[t].rev /\ r.gen = task[t].gen
        /\ r.owed = task[t].owed /\ r.served = task[t].served
        /\ r.result = task[t].result
    BY TaskTypes DEF Tasks
  <2> HIDE DEF r
  <2> QED
    BY <1>d, <2>1, <2>2, <2>3, <2>4 DEF r, Advances, After
<1>9. ASSUME NEW alive \in BOOLEAN, CheckObservation(t, alive) PROVE Goal
  <2> DEFINE m == task[t].mark /\ (alive => n \in Required)
             r == [task[t] EXCEPT !.pc = "publishing", !.alive = alive,
                                  !.mark = m]
  <2>1. m \in BOOLEAN /\ (m => task[t].mark)
    OBVIOUS
  <2>2. r \in Tasks
    BY <2>1, TaskTypes, TaskFields DEF TaskStates
  <2>3. /\ End(t) \/ task' = [task EXCEPT ![t] = r]
        /\ task[t].pc = "checking"
    BY <1>9 DEF CheckObservation, Abandon
  <2>4. /\ r.pc = "publishing" /\ r.weight = task[t].weight
        /\ r.node = n /\ r.lock = task[t].lock /\ r.cfg = task[t].cfg
        /\ r.rev = task[t].rev /\ r.gen = task[t].gen
        /\ r.owed = task[t].owed /\ r.served = task[t].served
        /\ r.result = task[t].result /\ r.mark = m
    BY TaskTypes DEF Tasks
  <2> HIDE DEF r
  <2> QED
    BY <1>c, <1>d, <2>1, <2>2, <2>3, <2>4 DEF Advances, After
<1>10. ASSUME PublishObservation(t) PROVE Goal
  <2> DEFINE r == [task[t] EXCEPT !.pc = "persisting"]
  <2>1. r \in Tasks
    BY TaskTypes, TaskFields DEF TaskStates
  <2>2. task' = [task EXCEPT ![t] = r] /\ task[t].pc = "publishing"
    BY <1>10 DEF PublishObservation
  <2>3. /\ r.pc = "persisting" /\ r.weight = task[t].weight
        /\ r.node = n /\ r.lock = task[t].lock /\ r.cfg = task[t].cfg
        /\ r.rev = task[t].rev /\ r.gen = task[t].gen
        /\ r.owed = task[t].owed /\ r.served = task[t].served
        /\ r.result = task[t].result /\ r.mark = task[t].mark
    BY TaskTypes DEF Tasks
  <2> HIDE DEF r
  <2> QED
    BY <1>d, <2>1, <2>2, <2>3 DEF Advances, After
<1>11. ASSUME NEW ok \in BOOLEAN, PersistObservation(t, ok) PROVE Goal
  <2>1. CASE End(t)
    BY <2>1, <1>c
  <2>2. CASE task' = [u \in Probers |->
                        IF u = t THEN [task[u] EXCEPT !.pc = "caching"]
                        ELSE IF u \in On(n) /\ task[u].pc = "queued"
                             THEN [task[u] EXCEPT !.owed = TRUE]
                             ELSE task[u]]
    <3>1. ASSUME NEW u \in Probers
          PROVE  /\ [task[u] EXCEPT !.pc = "caching"] \in Tasks
                 /\ [task[u] EXCEPT !.owed = TRUE] \in Tasks
                 /\ task[u] \in Tasks
      BY TaskTypes, TaskFields DEF TaskStates
    <3>2. task' \in [Probers -> Tasks]
      BY <2>2, <3>1
    <3>3. ASSUME NEW u \in Probers, u # t PROVE Kept(u)
      BY <2>2, <3>3, <3>1 DEF Kept, Tasks
    <3>4. task[t].pc = "persisting"
      BY <1>11 DEF PersistObservation
    <3>5. Advances(t)
      BY <2>2, <3>1, <3>4 DEF Advances, After, Tasks
    <3> QED
      BY <3>2, <3>3, <3>5
  <2> QED
    BY <1>11, <2>1, <2>2 DEF PersistObservation, Abandon
<1>12. ASSUME CacheResult(t) PROVE Goal
  <2>1. task' = [u \in Probers |->
              IF u = t THEN NoTask
              ELSE IF u \in On(n) THEN [task[u] EXCEPT !.served = TRUE]
              ELSE task[u]]
    BY <1>12 DEF CacheResult
  <2>2. ASSUME NEW u \in Probers
        PROVE  [task[u] EXCEPT !.served = TRUE] \in Tasks /\ task[u] \in Tasks
    BY TaskTypes, TaskFields DEF TaskStates
  <2>3. task' \in [Probers -> Tasks]
    BY <2>1, <2>2, NoTaskType
  <2>4. ASSUME NEW u \in Probers, u # t PROVE Kept(u)
    BY <2>1, <2>2, <2>4 DEF Kept, Tasks
  <2> QED
    BY <2>1, <2>3, <2>4
<1> HIDE DEF Goal
<1>13. Goal
  BY <1>1, <1>2, <1>3, <1>4, <1>5, <1>6, <1>7, <1>8, <1>9, <1>10, <1>11,
     <1>12 DEF ProbeStep
<1> QED
  BY <1>a, <1>b, <1>13 DEF Goal

\* The map has lost a node's lock only if nobody uses it; then all are free.
LEMMA FreeLock ==
    ASSUME TypeOK, Shape, NEW n \in Nodes
    PROVE  /\ KeepLocks \in [Nodes -> {0} \cup LockIds]
           /\ On(n) # {} => KeepLocks[n] = lockOf[n] /\ lockOf[n] # 0
           /\ On(n) = {} => UnusedLock(n) \in LockIds
<1>1. Cardinality(Manual) \in Nat
  BY FS_Subset, FS_CardinalityType, Manual \subseteq Nodes \cup Manual
<1>2. LockIds \subseteq Nat /\ 0 \notin LockIds /\ 1 \in LockIds
      /\ \A l \in LockIds : 1 <= l
  BY <1>1 DEF LockIds
<1>3. KeepLocks \in [Nodes -> {0} \cup LockIds]
  BY DEF KeepLocks, TypeOK
<1>4. ASSUME NEW t \in On(n)
      PROVE  KeepLocks[n] = lockOf[n] /\ lockOf[n] # 0
  <2>1. t \in Probers /\ task[t].pc # "idle" /\ task[t].node = n
    BY DEF On
  <2>2. task[t].lock = lockOf[n] /\ task[t].lock \in LockIds
    BY <2>1 DEF Shape
  <2> QED
    BY <1>2, <2>2 DEF KeepLocks
<1>5. ASSUME On(n) = {} PROVE UnusedLock(n) \in LockIds
  <2> DEFINE S == {l \in LockIds : \A t \in On(n) : task[t].lock # l}
  <2>1. S = LockIds
    BY <1>5
  <2>2. Min(S) \in S
    BY <1>2, <2>1, MinInSet
  <2> QED
    BY <2>1, <2>2 DEF UnusedLock
<1> QED
  BY <1>3, <1>4, <1>5

\* What a new probe does to the probes and to the locks.
LEMMA BeginFrame ==
    ASSUME TypeOK, Shape, NEW t \in Probers, NEW n \in Nodes, Begin(t, n)
    PROVE  /\ task' \in [Probers -> Tasks]
           /\ \A u \in Probers \ {t} : task'[u] = task[u]
           /\ task[t].pc = "idle"
           /\ task'[t].pc = "queued" /\ task'[t].node = n
           /\ task'[t].lock = lockOf'[n] /\ task'[t].lock \in LockIds
           /\ task'[t].gen = 0 /\ task'[t].rev = 0
           /\ ~task'[t].mark /\ ~task'[t].owed /\ ~task'[t].served
           /\ lockOf' \in [Nodes -> {0} \cup LockIds]
           /\ \A m \in Nodes : On(m) # {} => lockOf'[m] = lockOf[m]
<1> DEFINE lock == IF KeepLocks[n] = 0 THEN UnusedLock(n) ELSE KeepLocks[n]
           r == [NoTask EXCEPT !.pc = "queued", !.node = n, !.lock = lock]
<1>1. lock \in LockIds /\ KeepLocks \in [Nodes -> {0} \cup LockIds]
  BY FreeLock
<1>2. /\ r \in Tasks /\ r.pc = "queued" /\ r.node = n /\ r.lock = lock
      /\ r.gen = 0 /\ r.rev = 0 /\ ~r.mark /\ ~r.owed /\ ~r.served
  BY <1>1, NoTaskType DEF Tasks, NoTask, TaskStates
<1>3. /\ task[t].pc = "idle"
      /\ task' = [task EXCEPT ![t] = r]
      /\ lockOf' = [KeepLocks EXCEPT ![n] = lock]
  BY DEF Begin
<1>4. lockOf' \in [Nodes -> {0} \cup LockIds] /\ lockOf'[n] = lock
  BY <1>1, <1>3
<1>5. ASSUME NEW m \in Nodes, On(m) # {} PROVE lockOf'[m] = lockOf[m]
  BY <1>1, <1>3, <1>5, FreeLock
<1> HIDE DEF r, lock
<1> QED
  BY <1>1, <1>2, <1>3, <1>4, <1>5, TaskTypes, TaskWritten

Rest ==
    \/ \E all \in BOOLEAN : StartupProbe(all)
    \/ ListNodes
    \/ \E busy \in SUBSET Nodes : PlanBatch(busy)
    \/ EndBatch
    \/ \E n \in Nodes : Elapse(n) \/ Lapse(n)
    \/ \E n \in Nodes, value \in Configs \cup {"off", "gone"} :
          PublishEdit(n, value)
    \/ FinishEdit
    \/ ChangeSettings
    \/ \E c \in Concurrencies : ChangeConcurrency(c)

\* A step is one of a probe, asks for a probe, or is another.
LEMMA NextCases ==
    Next => \/ \E t \in Probers : ProbeStep(t) \/ Recheck(t)
            \/ \E t \in Manual, n \in Nodes : TestProxy(t, n)
            \/ \E n \in Nodes : SpawnProbe(n)
            \/ Rest
BY DEF Next, LoopStep, Rest

\* Another step lets the probes be, except that it may disown them, and takes
\* no lock away from them.
LEMMA RestFrame ==
    ASSUME TypeOK, Shape, Rest
    PROVE  /\ task' \in [Probers -> Tasks]
           /\ \A u \in Probers : /\ Kept(u)
                                 /\ task'[u].served = task[u].served
                                 /\ task'[u].owed => task[u].owed
           /\ lockOf' \in [Nodes -> {0} \cup LockIds]
           /\ \A m \in Nodes : On(m) # {} => lockOf'[m] = lockOf[m]
<1> DEFINE Goal ==
           /\ task' \in [Probers -> Tasks]
           /\ \A u \in Probers : /\ Kept(u)
                                 /\ task'[u].served = task[u].served
                                 /\ task'[u].owed => task[u].owed
           Locks ==
           /\ lockOf' \in [Nodes -> {0} \cup LockIds]
           /\ \A m \in Nodes : On(m) # {} => lockOf'[m] = lockOf[m]
<1>1. ASSUME task' = task PROVE Goal
  BY <1>1, TasksType DEF Kept
<1>2. ASSUME lockOf' = lockOf PROVE Locks
  BY <1>2 DEF TypeOK
<1>3. ASSUME NEW T \in SUBSET Probers,
             task' = [t \in Probers |-> IF t \in T
                                        THEN [task[t] EXCEPT !.owed = FALSE]
                                        ELSE task[t]]
      PROVE  Goal
  <2>1. ASSUME NEW u \in Probers
        PROVE  [task[u] EXCEPT !.owed = FALSE] \in Tasks /\ task[u] \in Tasks
    BY TaskTypes, TaskFields
  <2>2. task' \in [Probers -> Tasks]
    BY <1>3, <2>1
  <2>3. ASSUME NEW u \in Probers
        PROVE  /\ Kept(u) /\ task'[u].served = task[u].served
               /\ task'[u].owed => task[u].owed
    BY <1>3, <2>1 DEF Kept, Tasks
  <2> QED
    BY <2>2, <2>3
<1>4. ASSUME NEW n \in Nodes, NEW value \in Configs \cup {"off", "gone"},
             PublishEdit(n, value)
      PROVE  Goal /\ Locks
  <2>1. On(n) \in SUBSET Probers
    BY DEF On
  <2>2. Goal
    BY <1>3, <1>4, <2>1 DEF PublishEdit, Disowed
  <2> QED
    BY <1>2, <1>4, <2>2 DEF PublishEdit
<1>5. ASSUME FinishEdit PROVE Goal /\ Locks
  <2> DEFINE n == edit.node
  <2>1. On(n) \in SUBSET Probers
    BY DEF On
  <2>2. Goal
    BY <1>3, <1>5, <2>1 DEF FinishEdit, Disowed
  <2>3. /\ lockOf' = [lockOf EXCEPT ![n] =
                         IF edit.gone /\ ~\E t \in On(n) : task[t].lock = @
                         THEN 0 ELSE @]
        /\ lockOf \in [Nodes -> {0} \cup LockIds]
    BY <1>5 DEF FinishEdit, TypeOK
  <2>4. ASSUME NEW m \in Nodes, NEW t \in On(m) PROVE lockOf'[m] = lockOf[m]
    <3>1. task[t].lock = lockOf[m]
      BY DEF On, Shape
    <3> QED
      BY <2>3, <3>1
  <2> QED
    BY <2>2, <2>3, <2>4
<1>6. ASSUME ChangeSettings PROVE Goal /\ Locks
  <2>1. Goal
    BY <1>3, <1>6 DEF ChangeSettings
  <2> QED
    BY <1>2, <1>6, <2>1 DEF ChangeSettings
<1>7. ASSUME Rest, ~ChangeSettings, ~FinishEdit,
             \A n \in Nodes, value \in Configs \cup {"off", "gone"} :
                ~PublishEdit(n, value)
      PROVE  task' = task /\ lockOf' = lockOf
  BY <1>7 DEF Rest, StartupProbe, ListNodes, PlanBatch, EndBatch, Elapse,
     Lapse, ChangeConcurrency
<1> HIDE DEF Goal, Locks
<1>8. Goal /\ Locks
  BY <1>1, <1>2, <1>4, <1>5, <1>6, <1>7
<1> QED
  BY <1>8 DEF Goal, Locks

-----------------------------------------------------------------------------
(* One test per node. *)

\* Every step keeps the shape of the probes and their hold on the locks.
LEMMA ShapeStep ==
    ASSUME TypeOK, Shape, Next PROVE Shape'
<1>1. ASSUME NEW t \in Probers, ProbeStep(t) \/ Recheck(t) PROVE Shape'
  <2>1. lockOf' = lockOf
    BY <1>1 DEF ProbeStep, LockNode, TakeSlots, QueueTimeout, ReadRow,
       ReuseResult, StartTest, Misconfigured, FinishTest, Count,
       CheckObservation, PublishObservation, PersistObservation, CacheResult,
       Recheck
  <2>2. /\ task[t].pc # "idle"
        /\ \A u \in Probers \ {t} : Kept(u)
        /\ task'[t] = NoTask \/ Advances(t)
    BY <1>1, ProberFrame
  <2>3. task'[t].pc # "idle" => /\ task'[t].node = task[t].node
                                /\ task'[t].lock = task[t].lock
    BY <2>2 DEF NoTask, Advances
  <2> QED
    BY <2>1, <2>2, <2>3 DEF Shape, Kept
<1>2. ASSUME NEW t \in Probers, NEW n \in Nodes, Begin(t, n),
             t \in Nodes => t = n
      PROVE  Shape'
  <2> SUFFICES ASSUME NEW u \in Probers, task'[u].pc # "idle"
               PROVE  /\ task'[u].node \in Nodes
                      /\ u \in Nodes => task'[u].node = u
                      /\ task'[u].lock \in LockIds
                      /\ task'[u].lock = lockOf'[task'[u].node]
    BY DEF Shape
  <2>1. CASE u = t
    BY <1>2, <2>1, BeginFrame
  <2>2. CASE u # t
    <3>1. task'[u] = task[u]
      BY <1>2, <2>2, BeginFrame
    <3>2. u \in On(task[u].node) /\ task[u].node \in Nodes
      BY <3>1 DEF On, Shape
    <3>3. lockOf'[task[u].node] = lockOf[task[u].node]
      BY <1>2, <3>2, BeginFrame
    <3> QED
      BY <3>1, <3>3 DEF Shape
  <2> QED
    BY <2>1, <2>2
<1>3. ASSUME NEW t \in Manual, NEW n \in Nodes, TestProxy(t, n) PROVE Shape'
  BY <1>2, <1>3 DEF TestProxy, Probers
<1>4. ASSUME NEW n \in Nodes, SpawnProbe(n) PROVE Shape'
  BY <1>2, <1>4 DEF SpawnProbe, Probers
<1>5. ASSUME Rest PROVE Shape'
  <2> SUFFICES ASSUME NEW u \in Probers, task'[u].pc # "idle"
               PROVE  /\ task'[u].node \in Nodes
                      /\ u \in Nodes => task'[u].node = u
                      /\ task'[u].lock \in LockIds
                      /\ task'[u].lock = lockOf'[task'[u].node]
    BY DEF Shape
  <2>1. Kept(u)
    BY <1>5, RestFrame
  <2>2. u \in On(task[u].node) /\ task[u].node \in Nodes
    BY <2>1 DEF On, Shape, Kept
  <2>3. lockOf'[task[u].node] = lockOf[task[u].node]
    BY <1>5, <2>2, RestFrame
  <2> QED
    BY <2>1, <2>3 DEF Shape, Kept
<1> QED
  BY <1>1, <1>3, <1>4, <1>5, NextCases

\* The lock of its node lets one probe in.
LEMMA OneTestStep ==
    ASSUME TypeOK, Shape, OneTestPerNode, Next PROVE OneTestPerNode'
<1>1. ASSUME NEW t \in Probers, ProbeStep(t) \/ Recheck(t)
      PROVE  OneTestPerNode'
  <2>1. /\ \A u \in Probers \ {t} : Kept(u)
        /\ task'[t] = NoTask \/ Advances(t)
        /\ task[t].pc # "idle"
    BY <1>1, ProberFrame
  <2>2. CASE LockNode(t)
    <3>0. task'[t].node = task[t].node
      <4>1. task'[t].pc = "locked"
        BY <2>2, TaskTypes DEF LockNode, Tasks
      <4> QED
        BY <2>1, <4>1 DEF NoTask, Advances
    <3>1. ASSUME NEW u \in Probers, u # t, Inside(u)', task'[u].node = task'[t].node
          PROVE  FALSE
      <4>1. /\ Kept(u) /\ Inside(u) /\ task[u].pc # "idle"
            /\ task[u].node = task[t].node
        BY <2>1, <3>0, <3>1 DEF Kept, Inside
      <4>2. u \in On(task[t].node) /\ task[u].lock = task[t].lock
        BY <4>1, <2>1 DEF On, Shape
      <4> QED
        BY <2>2, <4>1, <4>2 DEF LockNode
    <3>2. ASSUME NEW u \in Probers \ {t}, NEW v \in Probers \ {t},
                 Inside(u)', Inside(v)', task'[u].node = task'[v].node
          PROVE  u = v
      BY <2>1, <3>2 DEF Kept, Inside, OneTestPerNode
    <3> QED
      BY <3>1, <3>2 DEF OneTestPerNode, Inside
  <2>3. CASE ~LockNode(t)
    <3>1. task[t].pc # "queued" \/ task'[t] = NoTask
      BY <1>1, <2>3, Ended DEF ProbeStep, Recheck, TakeSlots, QueueTimeout,
         ReadRow, ReuseResult, StartTest, Misconfigured, FinishTest, Count,
         CheckObservation, PublishObservation, PersistObservation, CacheResult
    <3>2. \A u \in Probers : Inside(u)' =>
             Inside(u) /\ task'[u].node = task[u].node
      BY <2>1, <3>1 DEF Inside, Kept, Advances, NoTask
    <3> QED
      BY <3>2 DEF OneTestPerNode, Inside
  <2> QED
    BY <2>2, <2>3
<1>2. ASSUME NEW t \in Probers, NEW n \in Nodes, Begin(t, n)
      PROVE  OneTestPerNode'
  <2>1. \A u \in Probers : Inside(u)' => Inside(u) /\ task'[u] = task[u]
    BY <1>2, BeginFrame DEF Inside
  <2> QED
    BY <2>1 DEF OneTestPerNode, Inside
<1>3. ASSUME Rest PROVE OneTestPerNode'
  <2>1. \A u \in Probers : Kept(u)
    BY <1>3, RestFrame
  <2> QED
    BY <2>1 DEF OneTestPerNode, Inside, Kept
<1> QED
  BY <1>1, <1>2, <1>3, NextCases DEF TestProxy, SpawnProbe, Probers

-----------------------------------------------------------------------------
(* Types. *)

\* What a test does to the counters and the verdict.
LEMMA ObserveFields ==
    ASSUME NEW h \in Healths, NEW result \in Results, NEW needed \in BOOLEAN
    PROVE  LET g == Observe(h, result, needed)
               oks == UpTo(RecoveryThreshold, h.oks)
               fails == UpTo(FailureThreshold, h.fails)
           IN  /\ g \in Healths
               /\ result = "success" =>
                    /\ g.oks = oks /\ g.fails = 0
                    /\ g.readiness = IF needed => oks = RecoveryThreshold
                                     THEN "ready" ELSE h.readiness
               /\ RemoteFailure(result) =>
                    /\ g.oks = 0 /\ g.fails = fails
                    /\ g.readiness = IF fails = FailureThreshold THEN "notReady"
                                     ELSE IF h.readiness = "ready"
                                          THEN "degraded" ELSE h.readiness
               /\ result # "success" /\ ~RemoteFailure(result) =>
                    /\ g.oks = 0 /\ g.fails = h.fails
                    /\ g.readiness = h.readiness
<1> DEFINE g == Observe(h, result, needed)
           oks == UpTo(RecoveryThreshold, h.oks)
           fails == UpTo(FailureThreshold, h.fails)
<1>1. /\ h.oks \in 0..RecoveryThreshold /\ h.fails \in 0..FailureThreshold
      /\ h.readiness \in {"unknown", "ready", "degraded", "notReady"}
  BY DEF Healths
<1>2. /\ oks \in 0..RecoveryThreshold /\ fails \in 0..FailureThreshold
      /\ 0 \in 0..RecoveryThreshold /\ 0 \in 0..FailureThreshold
  BY <1>1, UpToTypes, ProbeHealthAssumption
<1> HIDE DEF oks, fails
<1>3. CASE result = "success"
  <2> DEFINE q == IF needed => oks = RecoveryThreshold THEN "ready"
                  ELSE h.readiness
  <2>1. g = [h EXCEPT !.fresh = TRUE, !.oks = oks, !.fails = 0,
                      !.readiness = q]
    <3> DEFINE A == [h EXCEPT !.fresh = TRUE, !.oks = oks, !.fails = 0,
                              !.readiness = q]
               B == [h EXCEPT !.fresh = TRUE, !.oks = 0, !.fails = fails,
                              !.readiness = IF fails = FailureThreshold
                                            THEN "notReady"
                                            ELSE IF @ = "ready"
                                                 THEN "degraded" ELSE @]
               C == [h EXCEPT !.fresh = TRUE, !.oks = 0]
    <3>1. g = CASE result = "success" -> A
                [] RemoteFailure(result) -> B
                [] OTHER -> C
      BY DEF Observe, oks, fails
    <3> HIDE DEF A, B, C, g
    <3>2. g = A
      BY <1>3, <3>1 DEF RemoteFailure
    <3> QED
      BY <3>2 DEF A
  <2>2. q \in {"unknown", "ready", "degraded", "notReady"}
    BY <1>1
  <2> HIDE DEF q, g
  <2>3. /\ g \in Healths
        /\ g.oks = oks /\ g.fails = 0 /\ g.readiness = q
    BY <1>1, <1>2, <2>1, <2>2 DEF Healths
  <2> QED
    BY <1>3, <2>3 DEF RemoteFailure, g, q, oks
<1>4. CASE RemoteFailure(result)
  <2> DEFINE q == IF fails = FailureThreshold THEN "notReady"
                  ELSE IF h.readiness = "ready" THEN "degraded"
                       ELSE h.readiness
  <2>1. g = [h EXCEPT !.fresh = TRUE, !.oks = 0, !.fails = fails,
                      !.readiness = q]
    BY <1>4 DEF Observe, oks, fails, RemoteFailure
  <2>2. q \in {"unknown", "ready", "degraded", "notReady"}
    BY <1>1
  <2> HIDE DEF q, g
  <2>3. /\ g \in Healths
        /\ g.oks = 0 /\ g.fails = fails /\ g.readiness = q
    BY <1>1, <1>2, <2>1, <2>2 DEF Healths
  <2> QED
    BY <1>4, <2>3 DEF RemoteFailure, g, q, fails
<1>5. CASE result # "success" /\ ~RemoteFailure(result)
  <2>1. g = [h EXCEPT !.fresh = TRUE, !.oks = 0]
    BY <1>5 DEF Observe
  <2> HIDE DEF g
  <2>2. /\ g \in Healths
        /\ g.oks = 0 /\ g.fails = h.fails /\ g.readiness = h.readiness
    BY <1>2, <2>1 DEF Healths
  <2> QED
    BY <1>5, <2>2 DEF g
<1> QED
  BY <1>3, <1>4, <1>5

LEMMA HealthTypes ==
    /\ NewHealth \in Healths
    /\ \A h \in Healths, late \in BOOLEAN : Expire(h, late) \in Healths
<1>1. NewHealth \in Healths
  BY ProbeHealthAssumption DEF NewHealth, Healths
<1> QED
  BY <1>1 DEF Expire, Invalidated

LEMMA RecordedType ==
    ASSUME NEW s \in Seq(Results), NEW result \in Results
    PROVE  Recorded(s, result) \in Seq(Results)
<1>1. Append(s, result) \in Seq(Results)
  OBVIOUS
<1>2. MaxTests + 1 \in Nat /\ "unknown" \in Results
  BY DEF Results
<1>3. Forgotten \in Seq(Results)
  BY <1>2, [i \in 1..(MaxTests + 1) |-> "unknown"] \in [1..(MaxTests + 1) -> Results]
  DEF Forgotten
<1> QED
  BY <1>1, <1>3 DEF Recorded

RowTypes ==
    /\ cfg \in [Nodes -> Configs \cup {"off", "gone"}]
    /\ nodeGen \in [Nodes -> 0..MaxGen]
    /\ routingGen \in 1..MaxGen
    /\ settings \in 0..MaxSettings
    /\ concurrency \in Concurrencies
    /\ edit \in [node : Nodes \cup {NoNode}, gone : BOOLEAN]

HealthVarTypes ==
    /\ entry \in [Nodes -> Entries]
    /\ lapsed \in [Nodes -> BOOLEAN]
    /\ log \in [Nodes -> Seq(Results)]

CountTypes ==
    /\ cached \in [Nodes -> CachedResults]
    /\ failures \in [Nodes -> 0..DownThreshold]
    /\ streak \in [Nodes -> 0..DownThreshold]

LoopTypes ==
    /\ forced \subseteq Nodes
    /\ overdue \in [Nodes -> BOOLEAN]
    /\ loop \in [pc    : {"startup", "idle", "listed", "batch"},
                 live  : SUBSET Nodes,
                 stale : SUBSET Nodes,
                 batch : SUBSET Nodes,
                 limit : Concurrencies,
                 first : BOOLEAN]

LEMMA TypeParts ==
    TypeOK <=> /\ RowTypes
               /\ HealthVarTypes
               /\ CountTypes
               /\ LoopTypes
               /\ lockOf \in [Nodes -> {0} \cup LockIds]
               /\ task \in [Probers -> Tasks]
               /\ untested \subseteq Nodes
BY DEF TypeOK, RowTypes, HealthVarTypes, CountTypes, LoopTypes, Entries,
   CachedResults, Tasks

LEMMA RowTypeStep ==
    ASSUME TypeOK, Next PROVE RowTypes'
<1> USE TypeParts DEF RowTypes
<1>1. ASSUME NEW n \in Nodes, NEW value \in Configs \cup {"off", "gone"},
             PublishEdit(n, value)
      PROVE  RowTypes'
  BY <1>1 DEF PublishEdit
<1>2. CASE FinishEdit
  BY <1>2 DEF FinishEdit, NoEdit
<1>3. CASE ChangeSettings
  BY <1>3 DEF ChangeSettings
<1>4. ASSUME NEW c \in Concurrencies, ChangeConcurrency(c) PROVE RowTypes'
  BY <1>4 DEF ChangeConcurrency
<1>5. ASSUME UNCHANGED rowVars PROVE RowTypes'
  BY <1>5 DEF rowVars
<1>6. ASSUME NEW t \in Probers, ProbeStep(t) \/ Recheck(t) PROVE UNCHANGED rowVars
  BY <1>6 DEF ProbeStep, LockNode, TakeSlots, QueueTimeout, ReadRow,
     ReuseResult, StartTest, Misconfigured, FinishTest, Count,
     CheckObservation, PublishObservation, PersistObservation, CacheResult,
     Recheck
<1>7. ASSUME \/ \E t \in Manual, n \in Nodes : TestProxy(t, n)
             \/ LoopStep
             \/ \E n \in Nodes : Elapse(n) \/ Lapse(n)
      PROVE  UNCHANGED rowVars
  BY <1>7 DEF TestProxy, LoopStep, StartupProbe, ListNodes, PlanBatch,
     SpawnProbe, EndBatch, Elapse, Lapse
<1> QED
  BY <1>1, <1>2, <1>3, <1>4, <1>5, <1>6, <1>7 DEF Next

LEMMA HealthTypeStep ==
    ASSUME TypeOK, Shape, Next PROVE HealthVarTypes'
<1> USE TypeParts DEF HealthVarTypes
<1>1. ASSUME NEW t \in Probers, PublishObservation(t) PROVE HealthVarTypes'
  <2> DEFINE n == task[t].node
             r == task[t].result
             h == Observe(CurrentHealth(n), r, n \in Required)
  <2>1. task[t].pc = "publishing"
    BY <1>1 DEF PublishObservation
  <2>2. /\ n \in Nodes /\ r \in Results
        /\ task[t].gen \in 0..MaxGen /\ task[t].rev \in 0..MaxSettings
    BY <2>1, TaskTypes DEF Shape
  <2>3. entry[n].health \in Healths /\ lapsed[n] \in BOOLEAN
    BY <2>2 DEF Entries
  <2>4. h \in Healths
    <3>1. CurrentHealth(n) \in Healths
      BY <2>3, HealthTypes DEF CurrentHealth, Invalidated
    <3>2. (n \in Required) \in BOOLEAN
      OBVIOUS
    <3> QED
      BY <2>2, <3>1, <3>2, ObserveFields
  <2>5. [gen |-> task[t].gen, rev |-> task[t].rev, health |-> h] \in Entries
    BY <2>2, <2>4 DEF Entries
  <2>6. entry' \in [Nodes -> Entries]
    <3>1. entry' = [entry EXCEPT ![n] = [gen |-> task[t].gen,
                                         rev |-> task[t].rev, health |-> h]]
      BY <1>1 DEF PublishObservation
    <3> HIDE DEF h, n
    <3> QED
      BY <2>5, <3>1
  <2>7. lapsed' \in [Nodes -> BOOLEAN]
    BY <1>1, <2>2 DEF PublishObservation
  <2>8. log' \in [Nodes -> Seq(Results)]
    <3>1. Recorded(log[n], r) \in Seq(Results)
      BY <2>2, RecordedType
    <3>2. log' = log \/ log' = [log EXCEPT ![n] = Recorded(log[n], r)]
      BY <1>1 DEF PublishObservation
    <3> QED
      BY <3>1, <3>2
  <2> QED
    BY <2>6, <2>7, <2>8
<1>2. ASSUME NEW n \in Nodes, NEW value \in Configs \cup {"off", "gone"},
             PublishEdit(n, value)
      PROVE  HealthVarTypes'
  <2>1. NoEntry \in Entries
    BY HealthTypes DEF NoEntry, Entries
  <2>2. entry' \in [Nodes -> Entries]
    BY <1>2, <2>1 DEF PublishEdit
  <2> QED
    BY <1>2, <2>2 DEF PublishEdit
<1>3. CASE ChangeSettings
  BY <1>3 DEF ChangeSettings
<1>4. ASSUME NEW n \in Nodes, Lapse(n) PROVE HealthVarTypes'
  BY <1>4 DEF Lapse
<1>5. ASSUME UNCHANGED healthVars PROVE HealthVarTypes'
  BY <1>5 DEF healthVars
<1>6. ASSUME NEW t \in Probers, ProbeStep(t) \/ Recheck(t),
             ~PublishObservation(t)
      PROVE  UNCHANGED healthVars
  BY <1>6 DEF ProbeStep, LockNode, TakeSlots, QueueTimeout, ReadRow,
     ReuseResult, StartTest, Misconfigured, FinishTest, Count,
     CheckObservation, PersistObservation, CacheResult, Recheck
<1>7. ASSUME \/ \E t \in Manual, n \in Nodes : TestProxy(t, n)
             \/ LoopStep \/ FinishEdit
             \/ \E n \in Nodes : Elapse(n)
             \/ \E c \in Concurrencies : ChangeConcurrency(c)
      PROVE  UNCHANGED healthVars
  BY <1>7 DEF TestProxy, LoopStep, StartupProbe, ListNodes, PlanBatch,
     SpawnProbe, EndBatch, Elapse, FinishEdit, ChangeConcurrency
<1> QED
  BY <1>1, <1>2, <1>3, <1>4, <1>5, <1>6, <1>7 DEF Next

LEMMA CountTypeStep ==
    ASSUME TypeOK, Shape, Next PROVE CountTypes'
<1> USE TypeParts DEF CountTypes
<1>a. 0 \in 0..DownThreshold /\ NoResult \in CachedResults
  BY DEF NoResult, CachedResults
<1>1. ASSUME NEW t \in Probers, NEW alive \in BOOLEAN, Count(t, alive)
      PROVE  CountTypes'
  <2> DEFINE n == task[t].node
  <2>1. n \in Nodes
    BY <1>1 DEF Count, Shape
  <2>2. /\ UpTo(DownThreshold, failures[n]) \in 0..DownThreshold
        /\ UpTo(DownThreshold, streak[n]) \in 0..DownThreshold
    BY <2>1, UpToTypes
  <2>3. failures' \in [Nodes -> 0..DownThreshold]
    BY <1>1, <1>a, <2>1, <2>2 DEF Count
  <2>4. streak' \in [Nodes -> 0..DownThreshold]
    BY <1>1, <1>a, <2>1, <2>2 DEF Count
  <2> QED
    BY <1>1, <2>3, <2>4 DEF Count
<1>2. ASSUME NEW n \in Nodes
      PROVE  FailuresWithout(n) \in [Nodes -> 0..DownThreshold]
  BY <1>a DEF FailuresWithout
<1>3. ASSUME NEW t \in Probers, NEW alive \in BOOLEAN,
             CheckObservation(t, alive)
      PROVE  CountTypes'
  <2>1. task[t].node \in Nodes
    BY <1>3 DEF CheckObservation, Shape
  <2> QED
    BY <1>2, <1>3, <2>1 DEF CheckObservation, Abandon
<1>4. ASSUME NEW t \in Probers, NEW ok \in BOOLEAN, PersistObservation(t, ok)
      PROVE  CountTypes'
  <2>1. task[t].node \in Nodes
    BY <1>4 DEF PersistObservation, Shape
  <2> QED
    BY <1>2, <1>4, <2>1 DEF PersistObservation, Abandon
<1>5. ASSUME NEW t \in Probers, CacheResult(t) PROVE CountTypes'
  <2> DEFINE r == [gen |-> task[t].gen, rev |-> task[t].rev,
                   cfg |-> task[t].cfg]
  <2>1. task[t].node \in Nodes
    BY <1>5 DEF CacheResult, Shape
  <2>2. r \in CachedResults
    BY TaskTypes DEF CachedResults
  <2>3. cached' \in [Nodes -> CachedResults]
    BY <1>5, <1>a, <2>1, <2>2 DEF CacheResult
  <2> QED
    BY <1>2, <1>5, <2>1, <2>3 DEF CacheResult
<1>6. ASSUME NEW busy \in SUBSET Nodes, PlanBatch(busy) PROVE CountTypes'
  BY <1>6, <1>a DEF PlanBatch
<1>7. ASSUME NEW n \in Nodes, NEW value \in Configs \cup {"off", "gone"},
             PublishEdit(n, value)
      PROVE  CountTypes'
  BY <1>7, <1>a DEF PublishEdit
<1>8. CASE FinishEdit
  BY <1>8, <1>a DEF FinishEdit
<1>9. ASSUME UNCHANGED countVars PROVE CountTypes'
  BY <1>9 DEF countVars
<1>10. ASSUME NEW t \in Probers, ProbeStep(t) \/ Recheck(t),
              \A x \in BOOLEAN : /\ ~Count(t, x) /\ ~CheckObservation(t, x)
                                 /\ ~PersistObservation(t, x),
              ~CacheResult(t)
       PROVE  UNCHANGED countVars
  BY <1>10 DEF ProbeStep, LockNode, TakeSlots, QueueTimeout, ReadRow,
     ReuseResult, StartTest, Misconfigured, FinishTest, PublishObservation,
     Recheck
<1>11. ASSUME \/ \E t \in Manual, n \in Nodes : TestProxy(t, n)
              \/ \E all \in BOOLEAN : StartupProbe(all)
              \/ ListNodes \/ EndBatch \/ ChangeSettings
              \/ \E n \in Nodes : SpawnProbe(n) \/ Elapse(n) \/ Lapse(n)
              \/ \E c \in Concurrencies : ChangeConcurrency(c)
       PROVE  UNCHANGED countVars
  BY <1>11 DEF TestProxy, StartupProbe, ListNodes, SpawnProbe, EndBatch,
     Elapse, Lapse, ChangeSettings, ChangeConcurrency
<1> QED
  BY <1>1, <1>3, <1>4, <1>5, <1>6, <1>7, <1>8, <1>9, <1>10, <1>11
  DEF Next, LoopStep

LEMMA LoopTypeStep ==
    ASSUME TypeOK, EditShape, Next PROVE LoopTypes'
<1> USE TypeParts DEF LoopTypes
<1>a. Listed \subseteq Nodes /\ concurrency \in Concurrencies
  BY DEF Listed, RowTypes
<1>1. ASSUME NEW all \in BOOLEAN, StartupProbe(all) PROVE LoopTypes'
  BY <1>1, <1>a DEF StartupProbe
<1>2. CASE ListNodes
  <2>1. overdue' \in [Nodes -> BOOLEAN]
    BY <1>2 DEF ListNodes, OverdueUnless
  <2>2. PICK S \in SUBSET Nodes :
          loop' = [loop EXCEPT !.pc = "listed", !.live = Listed, !.stale = S,
                               !.limit = concurrency]
    BY <1>2, <1>a DEF ListNodes
  <2> QED
    BY <1>2, <1>a, <2>1, <2>2 DEF ListNodes
<1>3. ASSUME NEW busy \in SUBSET Nodes, PlanBatch(busy) PROVE LoopTypes'
  <2>1. PICK D \in SUBSET Nodes :
          /\ loop' = [loop EXCEPT !.pc = IF D = {} THEN "idle" ELSE "batch",
                                  !.live = {}, !.stale = {}, !.batch = D]
          /\ overdue' = [n \in Nodes |-> overdue[n] /\ n \notin D]
          /\ forced' = {}
    <3> DEFINE D == (forced \cap loop.live)
                      \cup {n \in loop.live \ (busy \ Required) :
                              n \in loop.stale \/ overdue[n]}
    <3>1. D \in SUBSET Nodes
      OBVIOUS
    <3> QED
      BY <1>3, <3>1 DEF PlanBatch
  <2> QED
    BY <2>1
<1>4. ASSUME NEW n \in Nodes, SpawnProbe(n) PROVE LoopTypes'
  BY <1>4 DEF SpawnProbe
<1>5. CASE EndBatch
  BY <1>5 DEF EndBatch
<1>6. ASSUME NEW n \in Nodes, Elapse(n) PROVE LoopTypes'
  BY <1>6 DEF Elapse
<1>7. CASE FinishEdit
  <2>1. edit.node \in Nodes
    BY <1>7 DEF FinishEdit, EditShape
  <2> QED
    BY <1>7, <2>1 DEF FinishEdit
<1>8. ASSUME UNCHANGED loopVars PROVE LoopTypes'
  BY <1>8 DEF loopVars
<1>9. ASSUME NEW t \in Probers, ProbeStep(t) \/ Recheck(t)
      PROVE  UNCHANGED loopVars
  BY <1>9 DEF ProbeStep, LockNode, TakeSlots, QueueTimeout, ReadRow,
     ReuseResult, StartTest, Misconfigured, FinishTest, Count,
     CheckObservation, PublishObservation, PersistObservation, CacheResult,
     Recheck
<1>10. ASSUME \/ \E t \in Manual, n \in Nodes : TestProxy(t, n)
              \/ \E n \in Nodes : Lapse(n)
              \/ \E n \in Nodes, value \in Configs \cup {"off", "gone"} :
                    PublishEdit(n, value)
              \/ ChangeSettings
              \/ \E c \in Concurrencies : ChangeConcurrency(c)
       PROVE  UNCHANGED loopVars
  BY <1>10 DEF TestProxy, Lapse, PublishEdit, ChangeSettings,
     ChangeConcurrency, loopVars
<1> QED
  BY <1>1, <1>2, <1>3, <1>4, <1>5, <1>6, <1>7, <1>8, <1>9, <1>10
  DEF Next, LoopStep

LEMMA EditShapeStep ==
    ASSUME TypeOK, EditShape, Next PROVE EditShape'
<1>1. ASSUME NEW n \in Nodes, NEW value \in Configs \cup {"off", "gone"},
             PublishEdit(n, value)
      PROVE  EditShape'
  BY <1>1 DEF PublishEdit, EditShape
<1>2. CASE FinishEdit
  BY <1>2 DEF FinishEdit, EditShape, NoEdit
<1>3. CASE UNCHANGED edit
  BY <1>3 DEF EditShape, NoEdit
<1>4. ASSUME NEW t \in Probers, ProbeStep(t) \/ Recheck(t) PROVE UNCHANGED edit
  BY <1>4 DEF ProbeStep, LockNode, TakeSlots, QueueTimeout, ReadRow,
     ReuseResult, StartTest, Misconfigured, FinishTest, Count,
     CheckObservation, PublishObservation, PersistObservation, CacheResult,
     Recheck, rowVars
<1>5. ASSUME \/ \E t \in Manual, n \in Nodes : TestProxy(t, n)
             \/ LoopStep
             \/ \E n \in Nodes : Elapse(n) \/ Lapse(n)
             \/ ChangeSettings
             \/ \E c \in Concurrencies : ChangeConcurrency(c)
      PROVE  UNCHANGED edit
  BY <1>5 DEF TestProxy, LoopStep, StartupProbe, ListNodes, PlanBatch,
     SpawnProbe, EndBatch, Elapse, Lapse, ChangeSettings, ChangeConcurrency,
     rowVars
<1> QED
  BY <1>1, <1>2, <1>3, <1>4, <1>5 DEF Next

LEMMA TypeStep ==
    ASSUME TypeOK, Shape, EditShape, Next PROVE TypeOK'
<1>1. RowTypes'
  BY RowTypeStep
<1>2. HealthVarTypes'
  BY HealthTypeStep
<1>3. CountTypes'
  BY CountTypeStep
<1>4. LoopTypes'
  BY LoopTypeStep
<1>5. task' \in [Probers -> Tasks] /\ lockOf' \in [Nodes -> {0} \cup LockIds]
  <2>1. ASSUME NEW t \in Probers, ProbeStep(t) \/ Recheck(t)
        PROVE  UNCHANGED lockOf
    BY <2>1 DEF ProbeStep, LockNode, TakeSlots, QueueTimeout, ReadRow,
       ReuseResult, StartTest, Misconfigured, FinishTest, Count,
       CheckObservation, PublishObservation, PersistObservation, CacheResult,
       Recheck
  <2>2. lockOf \in [Nodes -> {0} \cup LockIds]
    BY DEF TypeOK
  <2>3. \A t \in Manual, n \in Nodes : TestProxy(t, n) => Begin(t, n)
    BY DEF TestProxy
  <2>4. \A n \in Nodes : SpawnProbe(n) => Begin(n, n)
    BY DEF SpawnProbe
  <2> QED
    BY <2>1, <2>2, <2>3, <2>4, ProberFrame, BeginFrame, RestFrame, NextCases
    DEF Probers
<1>6. untested' \subseteq Nodes
  <2>1. untested \subseteq Nodes
    BY DEF TypeOK
  <2>2. ASSUME NEW n \in Nodes, NEW value \in Configs \cup {"off", "gone"},
               PublishEdit(n, value)
        PROVE  untested' \subseteq Nodes
    BY <2>1, <2>2 DEF PublishEdit
  <2>3. ASSUME NEW t \in Probers, ProbeStep(t) \/ Recheck(t)
        PROVE  untested' \subseteq untested
    BY <2>3 DEF ProbeStep, LockNode, TakeSlots, QueueTimeout, ReadRow,
       ReuseResult, StartTest, Misconfigured, FinishTest, Count,
       CheckObservation, PublishObservation, PersistObservation, CacheResult,
       Recheck
  <2>4. ASSUME \/ \E t \in Manual, n \in Nodes : TestProxy(t, n)
               \/ LoopStep \/ FinishEdit
               \/ \E n \in Nodes : Elapse(n) \/ Lapse(n)
               \/ ChangeSettings
               \/ \E c \in Concurrencies : ChangeConcurrency(c)
        PROVE  untested' = untested
    BY <2>4 DEF TestProxy, LoopStep, StartupProbe, ListNodes, PlanBatch,
       SpawnProbe, EndBatch, FinishEdit, Elapse, Lapse, ChangeSettings,
       ChangeConcurrency
  <2> QED
    BY <2>1, <2>2, <2>3, <2>4 DEF Next
<1> QED
  <2>1. TypeOK' <=> /\ RowTypes'
                    /\ HealthVarTypes'
                    /\ CountTypes'
                    /\ LoopTypes'
                    /\ lockOf' \in [Nodes -> {0} \cup LockIds]
                    /\ task' \in [Probers -> Tasks]
                    /\ untested' \subseteq Nodes
    BY DEF TypeOK, RowTypes, HealthVarTypes, CountTypes, LoopTypes, Entries,
       CachedResults, Tasks
  <2> QED
    BY <1>1, <1>2, <1>3, <1>4, <1>5, <1>6, <2>1

\* Generations and revisions are of the past or of the present.
Past ==
    /\ \A n \in Nodes : /\ nodeGen[n] <= routingGen
                        /\ entry[n].gen <= routingGen
                        /\ entry[n].rev <= settings
    /\ \A t \in Probers : task[t].gen <= routingGen /\ task[t].rev <= settings

LEMMA Numbers ==
    ASSUME TypeOK
    PROVE  /\ routingGen \in Nat /\ settings \in Nat
           /\ \A n \in Nodes : /\ nodeGen[n] \in Nat
                               /\ entry[n].gen \in Nat /\ entry[n].rev \in Nat
           /\ \A t \in Probers : task[t].gen \in Nat /\ task[t].rev \in Nat
BY TaskTypes, TypeParts DEF RowTypes, HealthVarTypes, Entries

\* Numbers only grow.
LEMMA NumbersGrow ==
    ASSUME TypeOK, Next
    PROVE  routingGen <= routingGen' /\ settings <= settings'
<1>1. ASSUME NEW n \in Nodes, NEW value \in Configs \cup {"off", "gone"},
             PublishEdit(n, value)
      PROVE  routingGen' = routingGen + 1 /\ settings' = settings
  BY <1>1 DEF PublishEdit
<1>2. ASSUME ChangeSettings
      PROVE  routingGen' = routingGen /\ settings' = settings + 1
  BY <1>2 DEF ChangeSettings
<1>3. ASSUME NEW t \in Probers, ProbeStep(t) \/ Recheck(t)
      PROVE  routingGen' = routingGen /\ settings' = settings
  BY <1>3 DEF ProbeStep, LockNode, TakeSlots, QueueTimeout, ReadRow,
     ReuseResult, StartTest, Misconfigured, FinishTest, Count,
     CheckObservation, PublishObservation, PersistObservation, CacheResult,
     Recheck, rowVars
<1>4. ASSUME \/ \E t \in Manual, n \in Nodes : TestProxy(t, n)
             \/ LoopStep \/ FinishEdit
             \/ \E n \in Nodes : Elapse(n) \/ Lapse(n)
             \/ \E c \in Concurrencies : ChangeConcurrency(c)
      PROVE  routingGen' = routingGen /\ settings' = settings
  BY <1>4 DEF TestProxy, LoopStep, StartupProbe, ListNodes, PlanBatch,
     SpawnProbe, EndBatch, FinishEdit, Elapse, Lapse, ChangeConcurrency,
     rowVars
<1>5. routingGen \in Nat /\ settings \in Nat
  BY Numbers
<1> QED
  BY <1>1, <1>2, <1>3, <1>4, <1>5 DEF Next

LEMMA PastStep ==
    ASSUME TypeOK, Shape, EditShape, Past, Next PROVE Past'
<1>1. /\ routingGen <= routingGen' /\ settings <= settings'
      /\ routingGen \in Nat /\ settings \in Nat
  BY NumbersGrow, Numbers
<1>2. TypeOK'
  BY TypeStep
<1>3. routingGen' \in Nat /\ settings' \in Nat
  BY <1>2, TypeParts DEF RowTypes, TypeOK
<1>4. ASSUME NEW t \in Probers
      PROVE  task'[t].gen <= routingGen' /\ task'[t].rev <= settings'
  <2>1. /\ task[t].gen <= routingGen /\ task[t].rev <= settings
        /\ task[t].gen \in Nat /\ task[t].rev \in Nat
    BY Numbers DEF Past
  <2>2. CASE task'[t].gen = task[t].gen /\ task'[t].rev = task[t].rev
    BY <1>1, <1>3, <2>1, <2>2
  <2>3. CASE task'[t].gen = 0 /\ task'[t].rev = 0
    BY <1>3, <2>3
  <2>4. CASE (ProbeStep(t) \/ Recheck(t)) /\ Advances(t)
    <3>1. /\ task[t].node \in Nodes
      BY <2>4, ProberFrame
    <3>2. nodeGen[task[t].node] <= routingGen /\ nodeGen[task[t].node] \in Nat
      BY <3>1, Numbers DEF Past
    <3> QED
      BY <1>1, <1>3, <2>1, <2>4, <3>2 DEF Advances
  <2>5. \/ task'[t].gen = task[t].gen /\ task'[t].rev = task[t].rev
        \/ task'[t].gen = 0 /\ task'[t].rev = 0
        \/ (ProbeStep(t) \/ Recheck(t)) /\ Advances(t)
    <3>1. ASSUME NEW u \in Probers, ProbeStep(u) \/ Recheck(u)
          PROVE  \/ task'[t].gen = task[t].gen /\ task'[t].rev = task[t].rev
                 \/ task'[t].gen = 0 /\ task'[t].rev = 0
                 \/ (ProbeStep(t) \/ Recheck(t)) /\ Advances(t)
      BY <3>1, ProberFrame DEF Kept, NoTask
    <3>2. ASSUME NEW u \in Probers, NEW n \in Nodes, Begin(u, n)
          PROVE  \/ task'[t].gen = task[t].gen /\ task'[t].rev = task[t].rev
                 \/ task'[t].gen = 0 /\ task'[t].rev = 0
      BY <3>2, BeginFrame
    <3>3. ASSUME Rest
          PROVE  task'[t].gen = task[t].gen /\ task'[t].rev = task[t].rev
      BY <3>3, RestFrame DEF Kept
    <3> QED
      BY <3>1, <3>2, <3>3, NextCases DEF TestProxy, SpawnProbe, Probers
  <2> QED
    BY <2>2, <2>3, <2>4, <2>5
<1>5. ASSUME NEW n \in Nodes
      PROVE  /\ nodeGen'[n] <= routingGen'
             /\ entry'[n].gen <= routingGen' /\ entry'[n].rev <= settings'
  <2>1. /\ nodeGen[n] <= routingGen /\ nodeGen[n] \in Nat
        /\ entry[n].gen <= routingGen /\ entry[n].gen \in Nat
        /\ entry[n].rev <= settings /\ entry[n].rev \in Nat
    BY Numbers DEF Past
  <2>2. nodeGen'[n] \in {nodeGen[n], 0, routingGen'}
    <3>1. ASSUME NEW m \in Nodes, NEW value \in Configs \cup {"off", "gone"},
                 PublishEdit(m, value)
          PROVE  nodeGen'[n] \in {nodeGen[n], 0, routingGen'}
      BY <3>1, TypeParts DEF PublishEdit, RowTypes
    <3>2. ASSUME NEW t \in Probers, ProbeStep(t) \/ Recheck(t)
          PROVE  nodeGen' = nodeGen
      BY <3>2 DEF ProbeStep, LockNode, TakeSlots, QueueTimeout, ReadRow,
         ReuseResult, StartTest, Misconfigured, FinishTest, Count,
         CheckObservation, PublishObservation, PersistObservation, CacheResult,
         Recheck, rowVars
    <3>3. ASSUME \/ \E t \in Manual, m \in Nodes : TestProxy(t, m)
                 \/ LoopStep \/ FinishEdit \/ ChangeSettings
                 \/ \E m \in Nodes : Elapse(m) \/ Lapse(m)
                 \/ \E c \in Concurrencies : ChangeConcurrency(c)
          PROVE  nodeGen' = nodeGen
      BY <3>3 DEF TestProxy, LoopStep, StartupProbe, ListNodes, PlanBatch,
         SpawnProbe, EndBatch, FinishEdit, ChangeSettings, Elapse, Lapse,
         ChangeConcurrency, rowVars
    <3> QED
      BY <3>1, <3>2, <3>3 DEF Next
  <2>3. \/ entry'[n] = entry[n]
        \/ entry'[n].gen = 0 /\ entry'[n].rev = 0
        \/ \E t \in Probers : /\ entry'[n].gen = task[t].gen
                              /\ entry'[n].rev = task[t].rev
    <3>1. ASSUME NEW m \in Nodes, NEW value \in Configs \cup {"off", "gone"},
                 PublishEdit(m, value)
          PROVE  \/ entry'[n] = entry[n]
                 \/ entry'[n].gen = 0 /\ entry'[n].rev = 0
      BY <3>1, TypeParts DEF PublishEdit, HealthVarTypes, NoEntry
    <3>2. ASSUME NEW t \in Probers, PublishObservation(t)
          PROVE  \/ entry'[n] = entry[n]
                 \/ /\ entry'[n].gen = task[t].gen
                    /\ entry'[n].rev = task[t].rev
      <4> DEFINE h == Observe(CurrentHealth(task[t].node), task[t].result,
                              task[t].node \in Required)
      <4>1. entry' = [entry EXCEPT ![task[t].node] =
                        [gen |-> task[t].gen, rev |-> task[t].rev,
                         health |-> h]]
        BY <3>2 DEF PublishObservation
      <4> HIDE DEF h
      <4> QED
        BY <4>1, TypeParts DEF HealthVarTypes
    <3>3. ASSUME NEW t \in Probers, ProbeStep(t) \/ Recheck(t),
                 ~PublishObservation(t)
          PROVE  entry' = entry
      BY <3>3 DEF ProbeStep, LockNode, TakeSlots, QueueTimeout, ReadRow,
         ReuseResult, StartTest, Misconfigured, FinishTest, Count,
         CheckObservation, PersistObservation, CacheResult, Recheck, healthVars
    <3>4. ASSUME \/ \E t \in Manual, m \in Nodes : TestProxy(t, m)
                 \/ LoopStep \/ FinishEdit \/ ChangeSettings
                 \/ \E m \in Nodes : Elapse(m) \/ Lapse(m)
                 \/ \E c \in Concurrencies : ChangeConcurrency(c)
          PROVE  entry' = entry
      BY <3>4 DEF TestProxy, LoopStep, StartupProbe, ListNodes, PlanBatch,
         SpawnProbe, EndBatch, FinishEdit, ChangeSettings, Elapse, Lapse,
         ChangeConcurrency, healthVars
    <3> QED
      BY <3>1, <3>2, <3>3, <3>4 DEF Next
  <2>4. \A t \in Probers : /\ task[t].gen <= routingGen /\ task[t].gen \in Nat
                           /\ task[t].rev <= settings /\ task[t].rev \in Nat
    BY Numbers DEF Past
  <2> QED
    BY <1>1, <1>3, <2>1, <2>2, <2>3, <2>4
<1> QED
  BY <1>4, <1>5 DEF Past

-----------------------------------------------------------------------------
(* The count of failed probes. *)

\* A probe of an earlier row has counted and is about to be found out.
Late(n) == \E t \in On(n) : task[t].pc = "checking" /\ task[t].gen # nodeGen[n]

\* The count is that of the node as it is now, unless a late probe, or a
\* command with its reset still to do, is about to clear it.
FailuresAreRecent ==
    \A n \in Nodes : edit.node = n \/ failures[n] <= streak[n] \/ Late(n)

\* A probe stays late while nobody moves it.
LEMMA LateStays ==
    ASSUME NEW n \in Nodes, Late(n), nodeGen'[n] = nodeGen[n],
           \A u \in Probers : task[u].pc = "checking" => Kept(u)
    PROVE  Late(n)'
<1>1. PICK u \in On(n) : task[u].pc = "checking" /\ task[u].gen # nodeGen[n]
  BY DEF Late
<1>2. u \in Probers /\ Kept(u)
  BY <1>1 DEF On
<1>3. u \in On(n)'
  BY <1>1, <1>2 DEF On, Kept
<1> QED
  BY <1>1, <1>2, <1>3 DEF Late, Kept

LEMMA Counts ==
    ASSUME TypeOK, NEW n \in Nodes
    PROVE  /\ failures \in [Nodes -> 0..DownThreshold]
           /\ streak \in [Nodes -> 0..DownThreshold]
           /\ failures[n] \in 0..DownThreshold /\ streak[n] \in 0..DownThreshold
           /\ failures[n] \in Nat /\ streak[n] \in Nat
BY TypeParts DEF CountTypes

\* While a probe counts, nobody is late.
LEMMA NobodyIsLate ==
    ASSUME OneTestPerNode, NEW t \in Probers, task[t].pc = "counting"
    PROVE  ~Late(task[t].node)
BY DEF Late, On, OneTestPerNode, Inside

LEMMA CountKeepsFailures ==
    ASSUME TypeOK, Shape, OneTestPerNode, FailuresAreRecent,
           NEW t \in Probers, NEW alive \in BOOLEAN, Count(t, alive)
    PROVE  FailuresAreRecent'
<1> DEFINE n == task[t].node
           result == task[t].result
           clears == Proven(result) \/ (result = "proxyFail" /\ alive)
           counts == result = "proxyFail" /\ ~alive
<1>1. /\ task[t].pc = "counting"
      /\ failures' = [failures EXCEPT ![n] =
                         IF clears THEN 0
                         ELSE IF counts THEN UpTo(DownThreshold, failures[n])
                         ELSE @]
      /\ streak' = [streak EXCEPT ![n] =
                       IF task[t].gen # nodeGen[n] THEN @
                       ELSE IF clears THEN 0
                       ELSE IF counts THEN UpTo(DownThreshold, @) ELSE @]
      /\ edit' = edit /\ nodeGen' = nodeGen
  BY DEF Count, rowVars
<1>2. n \in Nodes
  BY <1>1 DEF Shape
<1>3. \A u \in Probers \ {t} : Kept(u)
  BY ProberFrame DEF ProbeStep
<1>4. task'[t].pc = "checking" /\ task'[t].node = n /\ task'[t].gen = task[t].gen
  BY TaskTypes DEF Count, Tasks
<1>5. ASSUME NEW m \in Nodes, m # n
      PROVE  edit'.node = m \/ failures'[m] <= streak'[m] \/ Late(m)'
  <2>1. failures'[m] = failures[m] /\ streak'[m] = streak[m]
    BY <1>1, <1>5, Counts
  <2>2. Late(m) => Late(m)'
    BY <1>1, <1>3, LateStays
  <2> QED
    BY <1>1, <2>1, <2>2 DEF FailuresAreRecent
<1>6. ASSUME NEW m \in Nodes, m = n
      PROVE  edit'.node = m \/ failures'[m] <= streak'[m] \/ Late(m)'
  <2>1. CASE task[t].gen # nodeGen[m]
    <3>1. t \in On(m)'
      BY <1>4, <1>6 DEF On
    <3>2. Late(m)'
      BY <1>1, <1>4, <2>1, <3>1 DEF Late
    <3> QED
      BY <3>2
  <2>2. CASE task[t].gen = nodeGen[m]
    <3>1. edit.node = m \/ failures[m] <= streak[m]
      BY <1>1, <1>6, NobodyIsLate DEF FailuresAreRecent
    <3>2. failures[m] <= streak[m] =>
             UpTo(DownThreshold, failures[m]) <= UpTo(DownThreshold, streak[m])
      BY Counts, UpToTypes
    <3>3. /\ failures'[m] = IF clears THEN 0
                            ELSE IF counts THEN UpTo(DownThreshold, failures[m])
                            ELSE failures[m]
          /\ streak'[m] = IF clears THEN 0
                          ELSE IF counts THEN UpTo(DownThreshold, streak[m])
                          ELSE streak[m]
      BY <1>1, <1>6, <2>2, Counts
    <3> HIDE DEF clears, counts
    <3> QED
      BY <1>1, <3>1, <3>2, <3>3
  <2> QED
    BY <2>1, <2>2
<1> QED
  BY <1>5, <1>6 DEF FailuresAreRecent

LEMMA FailuresStep ==
    ASSUME TypeOK, Shape, EditShape, OneTestPerNode, FailuresAreRecent, Next
    PROVE  FailuresAreRecent'
<1>a. \A n \in Nodes : /\ failures[n] \in Nat /\ streak[n] \in Nat
                       /\ 0 <= streak[n]
  BY Counts
\* The count of node n is cleared, the others stay.
<1>b. ASSUME NEW n \in Nodes,
             failures' = FailuresWithout(n), UNCHANGED <<streak, edit, nodeGen>>,
             \A u \in Probers : task[u].node # n => Kept(u)
      PROVE  FailuresAreRecent'
  <2>1. ASSUME NEW m \in Nodes
        PROVE  edit'.node = m \/ failures'[m] <= streak'[m] \/ Late(m)'
    <3>1. CASE m = n
      BY <1>a, <1>b, <3>1, Counts DEF FailuresWithout
    <3>2. CASE m # n
      <4>1. failures'[m] = failures[m]
        BY <1>b, <3>2, Counts DEF FailuresWithout
      <4>2. ASSUME Late(m) PROVE Late(m)'
        <5>1. PICK u \in On(m) : /\ task[u].pc = "checking"
                                 /\ task[u].gen # nodeGen[m]
          BY <4>2 DEF Late
        <5>2. u \in Probers /\ Kept(u)
          BY <1>b, <3>2, <5>1 DEF On
        <5>3. u \in On(m)'
          BY <5>1, <5>2 DEF On, Kept
        <5> QED
          BY <1>b, <5>1, <5>2, <5>3 DEF Late, Kept
      <4> QED
        BY <1>b, <4>1, <4>2 DEF FailuresAreRecent
    <3> QED
      BY <3>1, <3>2
  <2> QED
    BY <2>1 DEF FailuresAreRecent
\* The counts stay, or are cleared.
<1>c. ASSUME \A n \in Nodes : failures'[n] \in {0, failures[n]},
             UNCHANGED <<streak, edit, nodeGen>>,
             \A u \in Probers : task[u].pc = "checking" => Kept(u)
      PROVE  FailuresAreRecent'
  BY <1>a, <1>c, LateStays DEF FailuresAreRecent
<1>1. ASSUME NEW t \in Probers, ProbeStep(t) \/ Recheck(t)
      PROVE  FailuresAreRecent'
  <2>1. /\ \A u \in Probers \ {t} : Kept(u)
        /\ task[t].node \in Nodes
        /\ task'[t] = NoTask \/ Advances(t)
    BY <1>1, ProberFrame
  <2>2. UNCHANGED <<edit, nodeGen>>
    BY <1>1 DEF ProbeStep, LockNode, TakeSlots, QueueTimeout, ReadRow,
       ReuseResult, StartTest, Misconfigured, FinishTest, Count,
       CheckObservation, PublishObservation, PersistObservation, CacheResult,
       Recheck, rowVars
  <2>3. ASSUME NEW alive \in BOOLEAN, Count(t, alive) PROVE FailuresAreRecent'
    BY <2>3, CountKeepsFailures
  <2>4. ASSUME NEW alive \in BOOLEAN, CheckObservation(t, alive)
        PROVE  FailuresAreRecent'
    <3>1. CASE Abandon(t)
      BY <1>b, <2>1, <2>2, <2>4, <3>1 DEF Abandon, CheckObservation
    <3>2. CASE ~Abandon(t)
      <4>1. /\ failures' = failures /\ streak' = streak
            /\ task[t].gen = nodeGen[task[t].node]
        BY <2>4, <3>2 DEF CheckObservation
      <4>2. ASSUME NEW m \in Nodes, Late(m) PROVE Late(m)'
        <5>1. PICK u \in On(m) : /\ task[u].pc = "checking"
                                 /\ task[u].gen # nodeGen[m]
          BY <4>2 DEF Late
        <5>2. u \in Probers /\ Kept(u)
          BY <2>1, <4>1, <5>1 DEF On
        <5>3. u \in On(m)'
          BY <5>1, <5>2 DEF On, Kept
        <5> QED
          BY <2>2, <5>1, <5>2, <5>3 DEF Late, Kept
      <4> QED
        BY <2>2, <4>1, <4>2 DEF FailuresAreRecent
    <3> QED
      BY <3>1, <3>2
  <2>5. ASSUME NEW ok \in BOOLEAN, PersistObservation(t, ok)
        PROVE  FailuresAreRecent'
    <3>1. CASE Abandon(t)
      BY <1>b, <2>1, <2>2, <2>5, <3>1 DEF Abandon, PersistObservation
    <3>2. CASE ~Abandon(t)
      BY <1>c, <2>1, <2>2, <2>5, <3>2 DEF PersistObservation
    <3> QED
      BY <3>1, <3>2
  <2>6. CASE CacheResult(t)
    <3>1. CASE task[t].alive
      BY <1>b, <2>1, <2>2, <2>6, <3>1 DEF CacheResult
    <3>2. CASE ~task[t].alive
      BY <1>c, <2>1, <2>2, <2>6, <3>2 DEF CacheResult
    <3> QED
      BY <3>1, <3>2
  <2>7. ASSUME \A x \in BOOLEAN : /\ ~Count(t, x) /\ ~CheckObservation(t, x)
                                  /\ ~PersistObservation(t, x),
               ~CacheResult(t)
        PROVE  FailuresAreRecent'
    <3>1. UNCHANGED <<failures, streak>> /\ task[t].pc # "checking"
      BY <1>1, <2>7 DEF ProbeStep, LockNode, TakeSlots, QueueTimeout, ReadRow,
         ReuseResult, StartTest, Misconfigured, FinishTest,
         PublishObservation, Recheck, countVars
    <3> QED
      BY <1>c, <2>1, <2>2, <3>1
  <2> QED
    BY <2>3, <2>4, <2>5, <2>6, <2>7
<1>2. ASSUME NEW t \in Probers, NEW n \in Nodes, Begin(t, n),
             UNCHANGED <<failures, streak, edit, nodeGen>>
      PROVE  FailuresAreRecent'
  <2>1. \A u \in Probers : task[u].pc = "checking" => Kept(u)
    BY <1>2, BeginFrame DEF Kept
  <2> QED
    BY <1>2, <1>c, <2>1
<1>3. ASSUME Rest PROVE FailuresAreRecent'
  <2>1. \A u \in Probers : Kept(u)
    BY <1>3, RestFrame
  <2>2. ASSUME NEW n \in Nodes, NEW value \in Configs \cup {"off", "gone"},
               PublishEdit(n, value)
        PROVE  FailuresAreRecent'
    <3>1. /\ edit = NoEdit /\ edit'.node = n /\ failures' = failures
          /\ \A m \in Nodes \ {n} : /\ streak'[m] = streak[m]
                                    /\ nodeGen'[m] = nodeGen[m]
      BY <2>2, TypeParts DEF PublishEdit, RowTypes, CountTypes
    <3>2. \A m \in Nodes : edit.node # m
      BY <3>1 DEF NoEdit
    <3>3. ASSUME NEW m \in Nodes, m # n
          PROVE  failures'[m] <= streak'[m] \/ Late(m)'
      BY <2>1, <3>1, <3>2, <3>3, LateStays DEF FailuresAreRecent
    <3> QED
      BY <3>1, <3>3 DEF FailuresAreRecent
  <2>3. CASE FinishEdit
    <3>1. edit.node \in Nodes
      BY <2>3 DEF FinishEdit, EditShape
    <3>2. ASSUME NEW m \in Nodes PROVE failures'[m] <= streak'[m] \/ Late(m)'
      <4>1. CASE m = edit.node
        BY <1>a, <2>3, <4>1, Counts DEF FinishEdit
      <4>2. CASE m # edit.node
        <5>1. /\ failures'[m] = failures[m] /\ streak' = streak
              /\ nodeGen' = nodeGen
          BY <2>3, <4>2, Counts DEF FinishEdit
        <5> QED
          BY <2>1, <4>2, <5>1, LateStays DEF FailuresAreRecent
      <4> QED
        BY <4>1, <4>2
    <3> QED
      BY <3>2 DEF FailuresAreRecent
  <2>4. ASSUME NEW busy \in SUBSET Nodes, PlanBatch(busy)
        PROVE  FailuresAreRecent'
    BY <1>c, <2>1, <2>4 DEF PlanBatch, rowVars
  <2>5. ASSUME \/ \E all \in BOOLEAN : StartupProbe(all)
               \/ ListNodes \/ EndBatch \/ ChangeSettings
               \/ \E n \in Nodes : Elapse(n) \/ Lapse(n)
               \/ \E c \in Concurrencies : ChangeConcurrency(c)
        PROVE  UNCHANGED <<failures, streak, edit, nodeGen>>
    BY <2>5 DEF StartupProbe, ListNodes, EndBatch, Elapse, Lapse,
       ChangeSettings, ChangeConcurrency, rowVars, countVars
  <2> QED
    BY <1>3, <1>c, <2>1, <2>2, <2>3, <2>4, <2>5 DEF Rest
<1> QED
  BY <1>1, <1>2, <1>3, NextCases
  DEF TestProxy, SpawnProbe, Probers, rowVars, countVars

\* A probe that newly decides for inactive counted just now.
LEMMA OnlyCountingMarks ==
    ASSUME TypeOK, Shape, Next, NEW n \in Nodes, task'[n].mark, ~task[n].mark
    PROVE  \E alive \in BOOLEAN : Count(n, alive)
<1>1. n \in Probers
  BY DEF Probers
<1>2. ASSUME NEW t \in Probers, ProbeStep(t) \/ Recheck(t)
      PROVE  \E alive \in BOOLEAN : Count(n, alive)
  <2>1. t = n
    BY <1>1, <1>2, ProberFrame DEF Kept
  <2>2. Advances(n) /\ task[n].pc = "counting"
    <3>1. task'[n] = NoTask \/ Advances(n)
      BY <1>1, <1>2, <2>1, ProberFrame
    <3>2. task'[n] # NoTask
      BY DEF NoTask
    <3> QED
      BY <3>1, <3>2 DEF Advances
  <2> QED
    BY <1>2, <2>1, <2>2 DEF ProbeStep, Recheck, LockNode, TakeSlots,
       QueueTimeout, ReadRow, ReuseResult, StartTest, Misconfigured,
       FinishTest, CheckObservation, PublishObservation, PersistObservation,
       CacheResult
<1>3. ASSUME NEW t \in Probers, NEW m \in Nodes, Begin(t, m) PROVE FALSE
  BY <1>1, <1>3, BeginFrame
<1>4. ASSUME Rest PROVE FALSE
  BY <1>1, <1>4, RestFrame DEF Kept
<1> QED
  BY <1>2, <1>3, <1>4, NextCases DEF TestProxy, SpawnProbe, Probers

LEMMA MarksAreEarned ==
    ASSUME TypeOK, Shape, OneTestPerNode, FailuresAreRecent, Next,
           NEW n \in Nodes, task'[n].mark, ~task[n].mark, ~loop.first,
           task[n].gen = nodeGen[n]
    PROVE  streak'[n] >= DownThreshold \/ edit.node = n
<1>1. PICK alive \in BOOLEAN : Count(n, alive)
  BY OnlyCountingMarks
<1>2. n \in Probers /\ task[n].pc = "counting" /\ task[n].node = n
  BY <1>1 DEF Count, Shape, Probers
<1> DEFINE more == UpTo(DownThreshold, failures[n])
<1>3. /\ task[n].result = "proxyFail" /\ ~alive
      /\ Marks(n, more)
  BY <1>1, <1>2, TaskTypes DEF Count, Tasks
<1>4. more >= DownThreshold
  BY <1>3 DEF Marks, Periodic
<1>5. edit.node = n \/ failures[n] <= streak[n]
  BY <1>2, NobodyIsLate DEF FailuresAreRecent
<1>6. streak'[n] = UpTo(DownThreshold, streak[n])
  <2>1. ~(Proven(task[n].result) \/ (task[n].result = "proxyFail" /\ alive))
    BY <1>3 DEF Proven
  <2> QED
    BY <1>1, <1>2, <1>3, <2>1, Counts DEF Count
<1>7. failures[n] <= streak[n] => more <= UpTo(DownThreshold, streak[n])
  BY Counts, UpToTypes
<1>8. more \in 0..DownThreshold /\ UpTo(DownThreshold, streak[n]) \in 0..DownThreshold
  BY Counts, UpToTypes
<1> HIDE DEF more
<1> QED
  BY <1>4, <1>5, <1>6, <1>7, <1>8

-----------------------------------------------------------------------------
(* No edit is forgotten. *)

\* While the loop has its list, the nodes that are not on it are due; and a
\* command that deletes a node leaves nothing to be tested.
DueInv ==
    /\ EditedNodeIsDue
    /\ loop.pc = "listed" => \A n \in Nodes \ loop.live : overdue[n]
    /\ edit.gone => edit.node \notin untested

\* What a node is due by.
IsDue(n) ==
    \/ edit.node = n
    \/ n \in forced
    \/ overdue[n]
    \/ loop.pc = "batch" /\ n \in loop.batch

Waiting(n) == \E t \in On(n) : task[t].pc \in {"queued", "locked", "ready"}

LEMMA DueParts ==
    EditedNodeIsDue <=> \A n \in untested : IsDue(n) \/ Waiting(n)
BY DEF EditedNodeIsDue, IsDue, Waiting

LEMMA WaitingStays ==
    ASSUME NEW n \in Nodes, Waiting(n),
           \A u \in Probers : task[u].pc # "idle" => Kept(u)
    PROVE  Waiting(n)'
<1>1. PICK u \in On(n) : task[u].pc \in {"queued", "locked", "ready"}
  BY DEF Waiting
<1>2. u \in Probers /\ Kept(u)
  BY <1>1 DEF On
<1>3. u \in On(n)'
  BY <1>1, <1>2 DEF On, Kept
<1> QED
  BY <1>1, <1>2, <1>3 DEF Waiting, Kept

LEMMA DueStep ==
    ASSUME TypeOK, Shape, EditShape, DueInv, Next PROVE DueInv'
<1>a. untested \subseteq Nodes
  BY TypeParts
<1>b. \A n \in untested : IsDue(n) \/ Waiting(n)
  BY DueParts DEF DueInv
<1>c. ASSUME \A n \in untested' : IsDue(n)' \/ Waiting(n)' PROVE EditedNodeIsDue'
  BY <1>c DEF EditedNodeIsDue, IsDue, Waiting
<1>1. ASSUME NEW t \in Probers, ProbeStep(t) \/ Recheck(t) PROVE DueInv'
  <2>1. UNCHANGED <<loopVars, edit>>
    BY <1>1 DEF ProbeStep, LockNode, TakeSlots, QueueTimeout, ReadRow,
       ReuseResult, StartTest, Misconfigured, FinishTest, Count,
       CheckObservation, PublishObservation, PersistObservation, CacheResult,
       Recheck, rowVars
  <2>2. /\ \A u \in Probers \ {t} : Kept(u)
        /\ task[t].pc # "idle" /\ task[t].node \in Nodes
        /\ task'[t] = NoTask \/ Advances(t)
    BY <1>1, ProberFrame
  <2>3. /\ untested' \subseteq untested
        /\ \/ task[t].node \notin untested'
           \/ task'[t] # NoTask /\ task[t].pc \in {"queued", "locked"}
           \/ task[t].pc \notin {"queued", "locked", "ready"}
    <3>1. CASE LockNode(t) \/ TakeSlots(t)
      <4>1. task'[t].pc # "idle"
        BY <3>1, TaskTypes DEF LockNode, TakeSlots, Tasks
      <4> QED
        BY <3>1, <4>1 DEF LockNode, TakeSlots, NoTask
    <3>2. CASE QueueTimeout(t) \/ ReadRow(t)
      BY <3>2 DEF QueueTimeout, ReadRow
    <3>3. CASE ~(LockNode(t) \/ TakeSlots(t) \/ QueueTimeout(t) \/ ReadRow(t))
      BY <1>1, <3>3 DEF ProbeStep, ReuseResult, StartTest, Misconfigured,
         FinishTest, Count, CheckObservation, PublishObservation,
         PersistObservation, CacheResult, Recheck
    <3> QED
      BY <3>1, <3>2, <3>3
  <2>4. ASSUME NEW n \in untested' PROVE IsDue(n)' \/ Waiting(n)'
    <3>1. n \in untested /\ n \in Nodes
      BY <1>a, <2>3
    <3>2. IsDue(n) => IsDue(n)'
      BY <2>1 DEF IsDue, loopVars
    <3>3. ASSUME Waiting(n) PROVE Waiting(n)'
      <4>1. PICK u \in On(n) : task[u].pc \in {"queued", "locked", "ready"}
        BY <3>3 DEF Waiting
      <4>2. CASE u # t
        <5>1. u \in Probers /\ Kept(u)
          BY <2>2, <4>1, <4>2 DEF On
        <5>2. u \in On(n)'
          BY <4>1, <5>1 DEF On, Kept
        <5> QED
          BY <4>1, <5>1, <5>2 DEF Waiting, Kept
      <4>3. CASE u = t
        <5>1. task[t].node = n
          BY <4>1, <4>3 DEF On
        <5>2. task[t].pc \in {"queued", "locked"} /\ Advances(t)
          BY <2>2, <2>3, <4>1, <4>3, <5>1
        <5>3. task'[t].pc \in {"locked", "ready"} /\ task'[t].node = n
          BY <5>1, <5>2 DEF Advances, After
        <5>4. t \in On(n)'
          BY <5>3 DEF On
        <5> QED
          BY <5>3, <5>4 DEF Waiting
      <4> QED
        BY <4>2, <4>3
    <3> QED
      BY <1>b, <3>1, <3>2, <3>3
  <2> QED
    BY <1>c, <2>1, <2>3, <2>4 DEF DueInv, loopVars
<1>2. ASSUME NEW t \in Probers, NEW n \in Nodes, Begin(t, n)
      PROVE  /\ \A u \in Probers : task[u].pc # "idle" => Kept(u)
             /\ Waiting(n)'
  <2>1. \A u \in Probers : task[u].pc # "idle" => Kept(u)
    BY <1>2, BeginFrame DEF Kept
  <2>2. t \in On(n)' /\ task'[t].pc = "queued"
    BY <1>2, BeginFrame DEF On
  <2> QED
    BY <2>1, <2>2 DEF Waiting
<1>3. ASSUME NEW t \in Manual, NEW n \in Nodes, TestProxy(t, n) PROVE DueInv'
  <2>1. \A u \in Probers : task[u].pc # "idle" => Kept(u)
    BY <1>2, <1>3 DEF TestProxy, Probers
  <2>2. UNCHANGED <<loopVars, edit, untested>>
    BY <1>3 DEF TestProxy, rowVars
  <2>3. ASSUME NEW m \in untested' PROVE IsDue(m)' \/ Waiting(m)'
    BY <1>a, <1>b, <2>1, <2>2, <2>3, WaitingStays DEF IsDue, loopVars
  <2> QED
    BY <1>c, <2>2, <2>3 DEF DueInv, loopVars
<1>4. ASSUME NEW n \in Nodes, SpawnProbe(n) PROVE DueInv'
  <2>1. /\ \A u \in Probers : task[u].pc # "idle" => Kept(u)
        /\ Waiting(n)'
    BY <1>2, <1>4 DEF SpawnProbe, Probers
  <2>2. /\ UNCHANGED <<forced, overdue, edit, untested>>
        /\ loop.pc = "batch" /\ loop' = [loop EXCEPT !.batch = @ \ {n}]
    BY <1>4 DEF SpawnProbe, rowVars
  <2>3. loop'.pc = "batch" /\ loop'.batch = loop.batch \ {n}
    BY <2>2, TypeParts DEF LoopTypes
  <2>4. ASSUME NEW m \in untested', m # n PROVE IsDue(m)' \/ Waiting(m)'
    BY <1>a, <1>b, <2>1, <2>2, <2>3, <2>4, WaitingStays DEF IsDue
  <2> QED
    BY <1>c, <2>1, <2>2, <2>3, <2>4 DEF DueInv
<1>5. ASSUME Rest PROVE DueInv'
  <2>1. \A u \in Probers : Kept(u)
    BY <1>5, RestFrame
  <2>2. \A n \in Nodes : Waiting(n) => Waiting(n)'
    BY <2>1, WaitingStays
  <2>3. ASSUME NEW all \in BOOLEAN, StartupProbe(all) PROVE DueInv'
    <3> DEFINE listed == IF all THEN Listed ELSE Listed \cap Required
    <3>1. /\ loop.pc = "startup" /\ loop'.pc = "batch" /\ loop'.batch = listed
          /\ overdue' = [n \in Nodes |-> overdue[n] /\ n \notin listed]
          /\ UNCHANGED <<forced, edit, untested>>
      BY <2>3, TypeParts DEF StartupProbe, LoopTypes, rowVars
    <3> HIDE DEF listed
    <3>2. ASSUME NEW m \in untested' PROVE IsDue(m)' \/ Waiting(m)'
      BY <1>a, <1>b, <2>2, <3>1, <3>2 DEF IsDue
    <3> QED
      BY <1>c, <3>1, <3>2 DEF DueInv
  <2>4. CASE ListNodes
    <3>1. /\ loop.pc = "idle" /\ loop'.pc = "listed" /\ loop'.live = Listed
          /\ overdue' = [n \in Nodes |-> n \in Listed => overdue[n]]
          /\ UNCHANGED <<forced, edit, untested>>
      BY <2>4, TypeParts DEF ListNodes, LoopTypes, OverdueUnless, rowVars
    <3>2. ASSUME NEW m \in untested' PROVE IsDue(m)' \/ Waiting(m)'
      BY <1>a, <1>b, <2>2, <3>1, <3>2 DEF IsDue
    <3> QED
      BY <1>c, <3>1, <3>2 DEF DueInv
  <2>5. ASSUME NEW busy \in SUBSET Nodes, PlanBatch(busy) PROVE DueInv'
    <3> DEFINE due == (forced \cap loop.live)
                        \cup {n \in loop.live \ (busy \ Required) :
                                n \in loop.stale \/ overdue[n]}
    <3>1. /\ loop.pc = "listed"
          /\ loop'.pc = IF due = {} THEN "idle" ELSE "batch"
          /\ loop'.batch = due
          /\ overdue' = [n \in Nodes |-> overdue[n] /\ n \notin due]
          /\ UNCHANGED <<edit, untested>>
      BY <2>5, TypeParts DEF PlanBatch, LoopTypes, rowVars
    <3>2. \A n \in Nodes : n \in forced => n \in due \/ n \notin loop.live
      OBVIOUS
    <3>3. \A n \in Nodes : n \in due => n \in loop.live
      OBVIOUS
    <3>4. \A n \in Nodes \ loop.live : overdue[n]
      BY <3>1 DEF DueInv
    <3> HIDE DEF due
    <3>5. ASSUME NEW m \in untested' PROVE IsDue(m)' \/ Waiting(m)'
      BY <1>a, <1>b, <2>2, <3>1, <3>2, <3>3, <3>4, <3>5 DEF IsDue
    <3> QED
      BY <1>c, <3>1, <3>5 DEF DueInv
  <2>6. CASE EndBatch
    <3>1. /\ loop.batch = {} /\ loop'.pc = "idle"
          /\ UNCHANGED <<forced, overdue, edit, untested>>
      BY <2>6, TypeParts DEF EndBatch, LoopTypes, rowVars
    <3>2. ASSUME NEW m \in untested' PROVE IsDue(m)' \/ Waiting(m)'
      BY <1>a, <1>b, <2>2, <3>1, <3>2 DEF IsDue
    <3> QED
      BY <1>c, <3>1, <3>2 DEF DueInv
  <2>7. ASSUME NEW n \in Nodes, Elapse(n) PROVE DueInv'
    <3>1. /\ overdue' = [overdue EXCEPT ![n] = TRUE]
          /\ overdue \in [Nodes -> BOOLEAN]
          /\ UNCHANGED <<forced, loop, edit, untested>>
      BY <2>7, TypeParts DEF Elapse, LoopTypes, rowVars
    <3>2. \A m \in Nodes : overdue[m] => overdue'[m]
      BY <3>1
    <3>3. ASSUME NEW m \in untested' PROVE IsDue(m)' \/ Waiting(m)'
      BY <1>a, <1>b, <2>2, <3>1, <3>2, <3>3 DEF IsDue
    <3> QED
      BY <1>c, <3>1, <3>2, <3>3 DEF DueInv
  <2>8. ASSUME NEW n \in Nodes, NEW value \in Configs \cup {"off", "gone"},
               PublishEdit(n, value)
        PROVE  DueInv'
    <3>1. /\ edit = NoEdit /\ edit' = [node |-> n, gone |-> value = "gone"]
          /\ untested' = IF value \in Configs THEN untested \cup {n}
                         ELSE untested \ {n}
          /\ UNCHANGED loopVars
      BY <2>8 DEF PublishEdit
    <3>2. ASSUME NEW m \in untested', m # n PROVE IsDue(m)' \/ Waiting(m)'
      <4>1. m \in untested /\ m \in Nodes /\ edit.node # m
        BY <1>a, <3>1, <3>2 DEF NoEdit
      <4> QED
        BY <1>b, <2>2, <3>1, <4>1 DEF IsDue, loopVars
    <3>3. IsDue(n)'
      BY <3>1 DEF IsDue
    <3>4. edit'.gone => edit'.node \notin untested'
      BY <3>1
    <3> QED
      BY <1>c, <3>1, <3>2, <3>3, <3>4 DEF DueInv, loopVars
  <2>9. CASE FinishEdit
    <3>1. /\ forced' = IF edit.gone THEN forced \ {edit.node}
                       ELSE forced \cup {edit.node}
          /\ edit' = NoEdit /\ UNCHANGED <<overdue, loop, untested>>
      BY <2>9 DEF FinishEdit
    <3>2. ASSUME NEW m \in untested' PROVE IsDue(m)' \/ Waiting(m)'
      <4>1. edit.gone => m # edit.node
        BY <3>1, <3>2 DEF DueInv
      <4> QED
        BY <1>a, <1>b, <2>2, <3>1, <3>2, <4>1 DEF IsDue
    <3> QED
      BY <1>c, <3>1, <3>2 DEF DueInv, NoEdit
  <2>10. ASSUME \/ ChangeSettings \/ \E n \in Nodes : Lapse(n)
                \/ \E c \in Concurrencies : ChangeConcurrency(c)
         PROVE  DueInv'
    <3>1. UNCHANGED <<loopVars, edit, untested>>
      BY <2>10 DEF ChangeSettings, Lapse, ChangeConcurrency, loopVars, rowVars
    <3>2. ASSUME NEW m \in untested' PROVE IsDue(m)' \/ Waiting(m)'
      BY <1>a, <1>b, <2>2, <3>1, <3>2 DEF IsDue, loopVars
    <3> QED
      BY <1>c, <3>1, <3>2 DEF DueInv, loopVars
  <2> QED
    BY <1>5, <2>3, <2>4, <2>5, <2>6, <2>7, <2>8, <2>9, <2>10 DEF Rest
<1> QED
  BY <1>1, <1>3, <1>4, <1>5, NextCases

-----------------------------------------------------------------------------
(* The slots. *)

PermitInv == Cardinality(PermitsOut) <= Slots

LEMMA PermitsAreFinite ==
    /\ IsFiniteSet(Probers \X (1..Slots))
    /\ PermitsOut \in SUBSET (Probers \X (1..Slots))
    /\ IsFiniteSet(PermitsOut) /\ Cardinality(PermitsOut) \in Nat
<1>1. IsFiniteSet(1..Slots)
  BY FS_Interval
<1>2. IsFiniteSet(Probers \X (1..Slots))
  BY <1>1, FS_Product DEF Probers
<1>3. PermitsOut \in SUBSET (Probers \X (1..Slots))
  BY DEF PermitsOut, Holding
<1> QED
  BY <1>2, <1>3, FS_Subset, FS_CardinalityType

\* Fewer shares, or the same.
LEMMA FewerPermits ==
    ASSUME PermitInv,
           \A t \in Holding' : t \in Holding /\ task'[t].weight = task[t].weight
    PROVE  PermitInv'
<1>1. PermitsOut' \subseteq PermitsOut
  BY DEF PermitsOut
<1>2. Cardinality(PermitsOut') <= Cardinality(PermitsOut)
  BY <1>1, PermitsAreFinite, FS_Subset
<1>3. IsFiniteSet(PermitsOut')
  BY <1>1, PermitsAreFinite, FS_Subset
<1>4. Cardinality(PermitsOut') \in Nat
  BY <1>3, FS_CardinalityType
<1> QED
  BY <1>2, <1>4, PermitsAreFinite DEF PermitInv

LEMMA PermitStep ==
    ASSUME TypeOK, Shape, PermitInv, Next PROVE PermitInv'
<1>1. ASSUME NEW t \in Probers, TakeSlots(t) PROVE PermitInv'
  <2> DEFINE w == task[t].weight
             share == {t} \X (1..w)
  <2>1. w \in 0..Slots
    BY TaskTypes
  <2>2. /\ Cardinality(PermitsOut) + w <= Slots
        /\ task[t].pc = "locked"
        /\ task' = [task EXCEPT ![t].pc = "ready"]
    BY <1>1 DEF TakeSlots
  <2>3. /\ \A u \in Probers \ {t} : Kept(u)
        /\ task'[t].weight = w
    BY <1>1, <2>2, ProberFrame, TaskTypes DEF ProbeStep, Tasks
  <2>4. PermitsOut' \subseteq PermitsOut \cup share
    <3>1. ASSUME NEW p \in PermitsOut' PROVE p \in PermitsOut \cup share
      <4>1. PICK u \in Holding', k \in 1..Slots :
              p = <<u, k>> /\ k <= task'[u].weight
        BY <3>1 DEF PermitsOut
      <4>2. CASE u = t
        BY <2>1, <2>3, <4>1, <4>2
      <4>3. CASE u # t
        <5>1. u \in Probers /\ Kept(u)
          BY <2>3, <4>1, <4>3 DEF Holding
        <5>2. u \in Holding /\ k <= task[u].weight
          BY <4>1, <5>1 DEF Holding, Kept
        <5> QED
          BY <4>1, <5>2 DEF PermitsOut
      <4> QED
        BY <4>2, <4>3
    <3> QED
      BY <3>1
  <2>5. IsFiniteSet(share) /\ Cardinality(share) = w
    <3>1. IsFiniteSet(1..w) /\ Cardinality(1..w) = w
      <4>1. w \in Int /\ 1 \in Int /\ w >= 0
        BY <2>1
      <4> HIDE DEF w
      <4>2. /\ IsFiniteSet(1..w)
            /\ Cardinality(1..w) = IF 1 > w THEN 0 ELSE w - 1 + 1
        BY <4>1, FS_Interval
      <4> QED
        BY <4>1, <4>2
    <3>2. IsFiniteSet({t}) /\ Cardinality({t}) = 1
      BY FS_Singleton
    <3>3. IsFiniteSet(share) /\ Cardinality(share) = 1 * w
      BY <3>1, <3>2, FS_Product
    <3> HIDE DEF w, share
    <3> QED
      BY <2>1, <3>3
  <2> HIDE DEF w, share
  <2>6. PICK c \in Nat : c = Cardinality(PermitsOut)
    BY PermitsAreFinite
  <2>7. /\ IsFiniteSet(PermitsOut \cup share)
        /\ Cardinality(PermitsOut \cup share)
             = c + w - Cardinality(PermitsOut \cap share)
    BY <2>5, <2>6, PermitsAreFinite, FS_Union
  <2>8. Cardinality(PermitsOut \cap share) \in Nat
    BY PermitsAreFinite, FS_Intersection, FS_CardinalityType
  <2>9. /\ IsFiniteSet(PermitsOut')
        /\ Cardinality(PermitsOut') <= Cardinality(PermitsOut \cup share)
    BY <2>4, <2>7, FS_Subset
  <2>10. Cardinality(PermitsOut') \in Nat
    BY <2>9, FS_CardinalityType
  <2>11. PICK d \in Nat, e \in Nat : /\ d = Cardinality(PermitsOut \cap share)
                                    /\ e = Cardinality(PermitsOut')
    BY <2>8, <2>10
  <2>12. e <= c + w - d /\ c + w <= Slots /\ w \in Nat
    BY <2>1, <2>2, <2>6, <2>7, <2>9, <2>11
  <2>13. e <= Slots
    BY <2>12, ProbingAssumption
  <2> QED
    BY <2>11, <2>13 DEF PermitInv
<1>2. ASSUME NEW t \in Probers, ProbeStep(t) \/ Recheck(t), ~TakeSlots(t)
      PROVE  PermitInv'
  <2>1. /\ \A u \in Probers \ {t} : Kept(u)
        /\ task'[t] = NoTask \/ Advances(t)
        /\ task[t].pc # "idle"
    BY <1>2, ProberFrame
  <2>2. task[t].pc # "locked" \/ task'[t] = NoTask
    BY <1>2, Ended DEF ProbeStep, Recheck, LockNode, QueueTimeout, ReadRow,
       ReuseResult, StartTest, Misconfigured, FinishTest, Count,
       CheckObservation, PublishObservation, PersistObservation, CacheResult
  <2>3. t \in Holding' => t \in Holding /\ task'[t].weight = task[t].weight
    BY <2>1, <2>2 DEF Holding, Advances, After, NoTask
  <2>4. \A u \in Holding' : u \in Holding /\ task'[u].weight = task[u].weight
    BY <2>1, <2>3 DEF Holding, Kept
  <2> QED
    BY <2>4, FewerPermits
<1>3. ASSUME NEW t \in Probers, NEW n \in Nodes, Begin(t, n) PROVE PermitInv'
  <2>1. \A u \in Holding' : u \in Holding /\ task'[u].weight = task[u].weight
    BY <1>3, BeginFrame DEF Holding
  <2> QED
    BY <2>1, FewerPermits
<1>4. ASSUME Rest PROVE PermitInv'
  <2>1. \A u \in Holding' : u \in Holding /\ task'[u].weight = task[u].weight
    BY <1>4, RestFrame DEF Holding, Kept
  <2> QED
    BY <2>1, FewerPermits
<1> QED
  BY <1>1, <1>2, <1>3, <1>4, NextCases DEF TestProxy, SpawnProbe, Probers

\* Shares of one size that fit in the slots are no more than their number.
LEMMA SharesFit ==
    ASSUME NEW c \in 1..Slots, NEW h \in Nat, NEW w \in 1..Slots,
           w * c >= Slots, h * w <= Slots
    PROVE  h <= c
<1> SUFFICES ASSUME h >= c + 1 PROVE FALSE
  OBVIOUS
<1>1. h * w >= (c + 1) * w
  BY SMTT(30)
<1>2. (c + 1) * w = c * w + w
  BY SMTT(30)
<1>3. c * w = w * c
  BY SMTT(30)
<1>4. PICK x \in Nat, y \in Nat : x = h * w /\ y = w * c
  BY SMTT(30)
<1>5. x >= y + w
  BY <1>1, <1>2, <1>3, <1>4
<1> QED
  BY <1>4, <1>5, ProbingAssumption

LEMMA ConcurrencyHolds ==
    ASSUME TypeOK, PermitInv PROVE TestsWithinConcurrency
<1> SUFFICES ASSUME \A t \in Holding : task[t].weight = Weight(concurrency)
             PROVE  Cardinality(Holding) <= concurrency
  BY DEF TestsWithinConcurrency
<1> DEFINE w == Weight(concurrency)
<1>1. concurrency \in 1..Slots
  BY DEF TypeOK
<1>2. w \in 1..Slots /\ w * concurrency >= Slots
  BY <1>1, WeightCovers
<1>3. IsFiniteSet(Holding) /\ Cardinality(Holding) \in Nat
  BY FS_Subset, FS_CardinalityType DEF Holding, Probers
<1>4. PermitsOut = Holding \X (1..w)
  BY <1>2 DEF PermitsOut
<1>5. Cardinality(PermitsOut) = Cardinality(Holding) * w
  <2>1. IsFiniteSet(1..w) /\ Cardinality(1..w) = w
    BY <1>2, FS_Interval
  <2> HIDE DEF w
  <2> QED
    BY <1>3, <1>4, <2>1, FS_Product
<1> HIDE DEF w
<1>6. PICK h \in Nat : h = Cardinality(Holding)
  BY <1>3
<1>7. h * w <= Slots
  BY <1>5, <1>6 DEF PermitInv
<1>8. h <= concurrency
  BY <1>1, <1>2, <1>7, SharesFit
<1> QED
  BY <1>6, <1>8

-----------------------------------------------------------------------------
(* Overlapping probes. *)

\* The result in probe_results is that of the node as it is now.
CacheIsCurrent(n) ==
    cached[n] = [gen |-> nodeGen[n], rev |-> settings, cfg |-> cfg[n]]

IsCurrent(t) ==
    LET n == task[t].node
    IN  /\ task[t].gen = nodeGen[n]
        /\ task[t].rev = settings
        /\ task[t].cfg = cfg[n]

\* Somebody else's result has answered the probe, or is about to: either the
\* result is in the cache, or the probe that brings it has still to put it
\* there and holds the lock this one waits for.
Answered(t) ==
    LET n == task[t].node
    IN  /\ task[t].pc \in {"queued", "locked", "ready", "reading"}
        /\ task[t].pc = "reading" =>
              task[t].rev = settings /\ task[t].cfg = cfg[n]
        /\ \/ task[t].pc = "queued" /\ \E u \in On(n) : task[u].pc = "caching"
           \/ task[t].served /\ CacheIsCurrent(n)
        /\ \A u \in On(n) : task[u].pc = "caching" => IsCurrent(u)

Owes(t) ==
    task[t].owed => /\ task[t].pc # "idle"
                    /\ nodeGen[task[t].node] # 0 => Answered(t)

\* A probe that is owed an answer of an enabled node is answered.
OwedInv == \A t \in Probers : Owes(t)

\* It stays so while neither it nor the one that brings the answer moves and
\* the node stays as it is.
LEMMA StillOwes ==
    ASSUME NEW t \in Probers, Owes(t),
           task'[t].owed => task[t].owed,
           Kept(t), task[t].served => task'[t].served,
           task'[t].owed =>
              /\ nodeGen'[task[t].node] = nodeGen[task[t].node]
              /\ cfg'[task[t].node] = cfg[task[t].node]
              /\ cached'[task[t].node] = cached[task[t].node]
              /\ settings' = settings,
           \A u \in Probers :
              task[u].pc = "caching" \/ task'[u].pc = "caching" => Kept(u)
    PROVE  Owes(t)'
<1> SUFFICES ASSUME task'[t].owed
             PROVE  /\ task'[t].pc # "idle"
                    /\ nodeGen'[task'[t].node] # 0 => Answered(t)'
  BY DEF Owes
<1> DEFINE n == task[t].node
<1>1. task'[t].pc # "idle"
  BY DEF Owes, Kept
<1>2. ASSUME nodeGen'[task'[t].node] # 0 PROVE Answered(t)'
  <2>1. Answered(t)
    BY <1>2 DEF Owes, Kept
  <2>2. task'[t].pc = task[t].pc /\ task'[t].node = n /\ task'[t].rev = task[t].rev
        /\ task'[t].cfg = task[t].cfg
    BY DEF Kept
  <2>3. \A u \in Probers : u \in On(n) /\ task[u].pc = "caching" =>
                              u \in On(n)' /\ task'[u].pc = "caching"
    BY DEF On, Kept
  <2>4. ASSUME NEW u \in Probers, NEW m, m = n, u \in On(m)', task'[u].pc = "caching"
        PROVE  IsCurrent(u)'
    <3>1. u \in On(n) /\ task[u].pc = "caching" /\ Kept(u)
      BY <2>4 DEF On, Kept
    <3>2. IsCurrent(u) /\ task[u].node = n
      BY <2>1, <3>1 DEF Answered, On
    <3> QED
      BY <3>1, <3>2 DEF IsCurrent, Kept
  <2>5. CacheIsCurrent(n) =>
           cached'[n] = [gen |-> nodeGen'[n], rev |-> settings', cfg |-> cfg'[n]]
    BY DEF CacheIsCurrent
  <2>6. \/ task'[t].pc = "queued" /\ \E u \in On(n) : task[u].pc = "caching"
        \/ task'[t].served /\ CacheIsCurrent(n)
    BY <2>1, <2>2 DEF Answered
  <2>7. \/ task'[t].pc = "queued"
           /\ \E u \in Probers : /\ task'[u].pc = "caching"
                                 /\ task'[u].node = n
        \/ task'[t].served
           /\ cached'[n] = [gen |-> nodeGen'[n], rev |-> settings', cfg |-> cfg'[n]]
    <3>1. ASSUME NEW u \in On(n), task[u].pc = "caching"
          PROVE  u \in Probers /\ task'[u].pc = "caching" /\ task'[u].node = n
      BY <3>1, <2>2, <2>3 DEF On
    <3> HIDE DEF n
    <3> QED
      BY <3>1, <2>5, <2>6
  <2>8. \A u \in Probers : task'[u].pc = "caching" /\ task'[u].node = n =>
                              IsCurrent(u)'
    BY <2>4 DEF On
  <2>9. /\ task'[t].pc \in {"queued", "locked", "ready", "reading"}
        /\ task'[t].pc = "reading" =>
              task'[t].rev = settings' /\ task'[t].cfg = cfg'[n]
    BY <2>1, <2>2 DEF Answered
  <2> HIDE DEF n
  <2> QED
    BY <2>2, <2>7, <2>8, <2>9 DEF Answered, CacheIsCurrent, On
<1> QED
  BY <1>1, <1>2

\* What the own steps of a probe leave alone.
LEMMA ProberLeaves ==
    ASSUME TypeOK, NEW t \in Probers, ProbeStep(t) \/ Recheck(t)
    PROVE  /\ nodeGen' = nodeGen /\ cfg' = cfg /\ settings' = settings
           /\ edit' = edit /\ routingGen' = routingGen
           /\ ~CacheResult(t) => cached' = cached
           /\ ~PersistObservation(t, TRUE) /\ ~PersistObservation(t, FALSE)
              /\ ~CacheResult(t) =>
                 \A u \in Probers \ {t} : task'[u] = task[u]
           /\ ~PublishObservation(t) => UNCHANGED healthVars
<1>1. nodeGen' = nodeGen /\ cfg' = cfg /\ settings' = settings
      /\ edit' = edit /\ routingGen' = routingGen
  BY DEF ProbeStep, LockNode, TakeSlots, QueueTimeout, ReadRow,
     ReuseResult, StartTest, Misconfigured, FinishTest, Count,
     CheckObservation, PublishObservation, PersistObservation, CacheResult,
     Recheck, rowVars
<1>2. ~CacheResult(t) => cached' = cached
  BY DEF ProbeStep, LockNode, TakeSlots, QueueTimeout, ReadRow,
     ReuseResult, StartTest, Misconfigured, FinishTest, Count,
     CheckObservation, PublishObservation, PersistObservation,
     Recheck, countVars
<1>3. ASSUME ~PersistObservation(t, TRUE), ~PersistObservation(t, FALSE),
             ~CacheResult(t), NEW u \in Probers, u # t
      PROVE  task'[u] = task[u]
  <2>1. \E r : task' = [task EXCEPT ![t] = r]
    BY <1>3 DEF ProbeStep, LockNode, TakeSlots, QueueTimeout, ReadRow,
       ReuseResult, StartTest, Misconfigured, FinishTest, Count,
       CheckObservation, PublishObservation, Recheck, End, Abandon
  <2> QED
    BY <1>3, <2>1, TasksType
<1>4. ~PublishObservation(t) => UNCHANGED healthVars
  BY DEF ProbeStep, LockNode, TakeSlots, QueueTimeout, ReadRow,
     ReuseResult, StartTest, Misconfigured, FinishTest, Count,
     CheckObservation, PersistObservation, CacheResult, Recheck
<1> QED
  BY <1>1, <1>2, <1>3, <1>4

LEMMA OwedStep ==
    ASSUME TypeOK, Shape, EditShape, OneTestPerNode, OwedInv, Next
    PROVE  OwedInv'
<1>1. ASSUME NEW t \in Probers, ProbeStep(t) \/ Recheck(t),
             ~PersistObservation(t, TRUE), ~PersistObservation(t, FALSE),
             ~CacheResult(t)
      PROVE  OwedInv'
  <2> DEFINE n == task[t].node
  <2>1. /\ \A u \in Probers \ {t} : task'[u] = task[u] /\ Kept(u)
        /\ nodeGen' = nodeGen /\ cfg' = cfg /\ settings' = settings
        /\ cached' = cached
        /\ task'[t] = NoTask \/ Advances(t)
        /\ task[t].pc # "idle" /\ n \in Nodes
    BY <1>1, ProberLeaves, ProberFrame
  <2>2. task[t].pc # "caching" /\ task'[t].pc # "caching"
    <3>1. task[t].pc \notin {"persisting", "caching"}
      BY <1>1 DEF ProbeStep, LockNode, TakeSlots, QueueTimeout, ReadRow,
         ReuseResult, StartTest, Misconfigured, FinishTest, Count,
         CheckObservation, PublishObservation, PersistObservation,
         CacheResult, Recheck
    <3> QED
      BY <2>1, <3>1, TaskTypes DEF NoTask, Advances, After, TaskStates
  <2>3. ASSUME NEW u \in Probers, u # t PROVE Owes(u)'
    <3>1. \A v \in Probers :
             task[v].pc = "caching" \/ task'[v].pc = "caching" => Kept(v)
      BY <2>1, <2>2
    <3>2. Owes(u) /\ task'[u] = task[u] /\ Kept(u)
      BY <2>1, <2>3 DEF OwedInv
    <3> QED
      BY <2>1, <3>1, <3>2, StillOwes
  <2>4. Owes(t)'
    <3> SUFFICES ASSUME task'[t].owed, Advances(t)
                 PROVE  /\ task'[t].pc # "idle"
                        /\ nodeGen'[task'[t].node] # 0 => Answered(t)'
      BY <2>1 DEF NoTask, Owes
    <3>1. task'[t].pc # "idle"
      BY <2>1, <2>2, TaskTypes DEF Advances, After, TaskStates
    <3>2. ASSUME nodeGen[n] # 0 PROVE Answered(t)'
      <4>1. Answered(t)
        BY <3>2 DEF Advances, OwedInv, Owes
      <4>2. task[t].served /\ CacheIsCurrent(n)
        <5>1. CASE task[t].pc = "queued"
          <6>1. LockNode(t)
            BY <1>1, <5>1, <3>1, Ended DEF ProbeStep, LockNode, TakeSlots,
               QueueTimeout, ReadRow, ReuseResult, StartTest, Misconfigured,
               FinishTest, Count, CheckObservation, PublishObservation,
               PersistObservation, CacheResult, Recheck, NoTask
          <6>2. ASSUME NEW u \in On(n), task[u].pc = "caching" PROVE FALSE
            <7>1. task[u].lock = task[t].lock
              BY <2>1 DEF Shape, On
            <7> QED
              BY <6>1, <6>2, <7>1 DEF LockNode, Inside
          <6> QED
            BY <4>1, <6>2 DEF Answered
        <5>2. CASE task[t].pc # "queued"
          BY <4>1, <5>2 DEF Answered
        <5> QED
          BY <5>1, <5>2
      <4>3. task[t].pc # "reading"
        <5> SUFFICES ASSUME task[t].pc = "reading" PROVE FALSE
          OBVIOUS
        <5>1. Reusable(t)
          BY <4>1, <4>2 DEF Answered, CacheIsCurrent, Reusable
        <5> QED
          BY <1>1, <3>1, <5>1, Ended DEF ProbeStep, LockNode, TakeSlots,
             QueueTimeout, ReadRow, ReuseResult, StartTest, Misconfigured,
             FinishTest, Count, CheckObservation, PublishObservation,
             PersistObservation, CacheResult, Recheck, NoTask
      <4>4. /\ task'[t].pc \in {"locked", "ready", "reading"}
            /\ task'[t].pc = "reading" => /\ task'[t].rev = settings
                                          /\ task'[t].cfg = cfg[n]
            /\ task'[t].node = n /\ task'[t].served = task[t].served
        BY <4>1, <4>3 DEF Answered, Advances, After
      <4>5. \A u \in Probers : task'[u].pc = "caching" /\ task'[u].node = n =>
                                  IsCurrent(u)'
        <5>1. \A u \in On(n) : task[u].pc = "caching" => IsCurrent(u)
          BY <4>1 DEF Answered
        <5> QED
          BY <2>1, <2>2, <5>1 DEF On, IsCurrent
      <4> HIDE DEF n
      <4> QED
        BY <2>1, <4>2, <4>4, <4>5 DEF Answered, CacheIsCurrent, On
    <3> QED
      BY <2>1, <3>1, <3>2 DEF Advances
  <2> QED
    BY <2>3, <2>4 DEF OwedInv
<1>2. ASSUME NEW t \in Probers, NEW ok \in BOOLEAN, PersistObservation(t, ok)
      PROVE  OwedInv'
  <2> DEFINE n == task[t].node
  <2>1. /\ \A u \in Probers \ {t} : Kept(u)
        /\ nodeGen' = nodeGen /\ cfg' = cfg /\ settings' = settings
        /\ cached' = cached
        /\ task[t].pc = "persisting" /\ n \in Nodes
    BY <1>2, ProberFrame DEF ProbeStep, PersistObservation, rowVars
  <2>2. \A u \in On(n) : task[u].pc # "caching"
    BY <2>1 DEF OneTestPerNode, Inside, On
  <2>3. ASSUME End(t) PROVE OwedInv'
    <3>1. \A v \in Probers :
             task[v].pc = "caching" \/ task'[v].pc = "caching" => Kept(v)
      BY <2>1, <2>3, Ended DEF NoTask
    <3>2. ASSUME NEW u \in Probers, u # t PROVE Owes(u)'
      <4>1. Owes(u) /\ task'[u] = task[u] /\ Kept(u)
        BY <2>1, <2>3, <3>2, Ended DEF OwedInv
      <4> QED
        BY <2>1, <3>1, <4>1, StillOwes
    <3>3. Owes(t)'
      BY <2>3, Ended DEF NoTask, Owes
    <3> QED
      BY <3>2, <3>3 DEF OwedInv
  <2>4. ASSUME nodeGen[n] = task[t].gen, settings = task[t].rev,
               cfg[n] = task[t].cfg,
               task' = [u \in Probers |->
                     IF u = t THEN [task[u] EXCEPT !.pc = "caching"]
                     ELSE IF u \in On(n) /\ task[u].pc = "queued"
                          THEN [task[u] EXCEPT !.owed = TRUE]
                          ELSE task[u]]
        PROVE  OwedInv'
    <3>1. ASSUME NEW u \in Probers, u # t
          PROVE  /\ Kept(u) /\ task'[u].served = task[u].served
                 /\ ~(u \in On(n) /\ task[u].pc = "queued") =>
                       task'[u].owed = task[u].owed
      BY <2>1, <2>4, <3>1, TaskTypes DEF Tasks
    <3>2. /\ task'[t].pc = "caching" /\ task'[t].node = n
          /\ task'[t].gen = task[t].gen /\ task'[t].rev = task[t].rev
          /\ task'[t].cfg = task[t].cfg /\ task'[t].owed = task[t].owed
          /\ task'[t].served = task[t].served
      BY <2>4, TaskTypes DEF Tasks
    <3>3. IsCurrent(t)'
      BY <2>1, <2>4, <3>2 DEF IsCurrent
    <3>4. \A u \in Probers : task'[u].pc = "caching" /\ task'[u].node = n =>
                                u = t
      BY <2>2, <3>1 DEF On, Kept
    <3>5. ASSUME NEW u \in Probers, u # t, task[u].node # n PROVE Owes(u)'
      <4> DEFINE m == task[u].node
      <4> SUFFICES ASSUME task'[u].owed, nodeGen[m] # 0
                   PROVE  task'[u].pc # "idle" /\ Answered(u)'
        <5>1. task'[u].owed => task[u].owed
          BY <3>1, <3>5 DEF On
        <5>2. task'[u].owed => task'[u].pc # "idle"
          BY <3>1, <3>5, <5>1 DEF OwedInv, Owes, Kept
        <5> QED
          BY <2>1, <3>1, <3>5, <5>2 DEF Owes, Kept
      <4>1. task[u].owed
        BY <3>1, <3>5 DEF On
      <4>2. task[u].pc # "idle" /\ Answered(u)
        BY <4>1 DEF OwedInv, Owes
      <4>3. /\ task'[u].pc = task[u].pc /\ task'[u].node = m
            /\ task'[u].rev = task[u].rev /\ task'[u].cfg = task[u].cfg
            /\ task'[u].served = task[u].served
        BY <3>1, <3>5 DEF Kept
      <4>4. \A v \in Probers : /\ task'[v].pc = "caching" <=>
                                    task[v].pc = "caching" \/ v = t
                               /\ task'[v].node = task[v].node
        BY <3>1, <3>2 DEF Kept
      <4>5. ASSUME NEW v \in Probers, task'[v].pc = "caching", task'[v].node = m
            PROVE  IsCurrent(v)'
        <5>1. v # t
          BY <3>2, <3>5, <4>5
        <5>2. v \in On(m) /\ task[v].pc = "caching"
          BY <4>4, <4>5, <5>1 DEF On
        <5>3. IsCurrent(v) /\ Kept(v)
          BY <3>1, <4>2, <5>1, <5>2 DEF Answered
        <5> QED
          BY <2>1, <5>3 DEF IsCurrent, Kept
      <4> HIDE DEF m
      <4>6. \/ task[u].pc = "queued" /\ \E v \in Probers :
                  task'[v].pc = "caching" /\ task'[v].node = m
            \/ task[u].served /\ CacheIsCurrent(m)
        BY <4>2, <4>4 DEF Answered, On, m
      <4>7. /\ task[u].pc \in {"queued", "locked", "ready", "reading"}
            /\ task[u].pc = "reading" =>
                  task[u].rev = settings /\ task[u].cfg = cfg[m]
        BY <4>2 DEF Answered, m
      <4> QED
        BY <2>1, <4>2, <4>3, <4>5, <4>6, <4>7 DEF Answered, CacheIsCurrent, On
    <3>6. ASSUME NEW u \in Probers, u # t, task[u].node = n PROVE Owes(u)'
      <4> SUFFICES ASSUME task'[u].owed
                   PROVE  /\ task'[u].pc # "idle"
                          /\ nodeGen[n] # 0 => Answered(u)'
        BY <2>1, <3>1, <3>6 DEF Owes, Kept
      <4>1. /\ task'[u].pc = task[u].pc /\ task'[u].node = n
            /\ task'[u].rev = task[u].rev /\ task'[u].cfg = task[u].cfg
            /\ task'[u].served = task[u].served
        BY <3>1, <3>6 DEF Kept
      <4>2. \A v \in Probers : task'[v].pc = "caching" /\ task'[v].node = n =>
                                  IsCurrent(v)'
        BY <3>3, <3>4
      <4>3. CASE task[u].pc = "queued"
        BY <2>1, <3>2, <4>1, <4>2, <4>3 DEF Answered, On
      <4>4. CASE task[u].pc # "queued"
        <5>1. task[u].owed
          BY <3>1, <3>6, <4>4
        <5>2. task[u].pc # "idle"
          BY <5>1 DEF OwedInv, Owes
        <5>3. ASSUME nodeGen[n] # 0 PROVE Answered(u)'
          <6>1. Answered(u)
            BY <3>6, <5>1, <5>3 DEF OwedInv, Owes
          <6> HIDE DEF n
          <6> QED
            BY <2>1, <3>6, <4>1, <4>2, <4>4, <6>1
            DEF Answered, CacheIsCurrent, On
        <5> QED
          BY <4>1, <5>2, <5>3
      <4> QED
        BY <4>3, <4>4
    <3>7. Owes(t)'
      <4>1. ~task[t].owed \/ nodeGen[n] = 0
        BY <2>1 DEF OwedInv, Owes, Answered
      <4> QED
        BY <2>1, <3>2, <4>1 DEF Owes
    <3> QED
      BY <3>5, <3>6, <3>7 DEF OwedInv
  <2> QED
    BY <1>2, <2>3, <2>4 DEF PersistObservation, Abandon
<1>3. ASSUME NEW t \in Probers, CacheResult(t) PROVE OwedInv'
  <2> DEFINE n == task[t].node
  <2>1. /\ \A u \in Probers \ {t} : Kept(u)
        /\ nodeGen' = nodeGen /\ cfg' = cfg /\ settings' = settings
        /\ task[t].pc = "caching" /\ n \in Nodes
        /\ cached' = [m \in Nodes |->
              IF m = n THEN [gen |-> task[t].gen, rev |-> task[t].rev,
                             cfg |-> task[t].cfg]
              ELSE IF nodeGen[m] = 0 THEN NoResult ELSE cached[m]]
        /\ task' = [u \in Probers |->
              IF u = t THEN NoTask
              ELSE IF u \in On(n) THEN [task[u] EXCEPT !.served = TRUE]
              ELSE task[u]]
    BY <1>3, ProberFrame DEF ProbeStep, CacheResult, rowVars
  <2>2. ASSUME NEW u \in Probers, u # t
        PROVE  /\ Kept(u) /\ task'[u].owed = task[u].owed
               /\ task[u].served => task'[u].served
               /\ u \in On(n) => task'[u].served
    BY <2>1, <2>2, TaskTypes DEF Tasks
  <2>3. task'[t].pc = "idle" /\ ~task'[t].owed
    BY <2>1 DEF NoTask
  <2>4. ASSUME NEW u \in Probers, u # t PROVE Owes(u)'
    <3> DEFINE m == task[u].node
    <3> SUFFICES ASSUME task'[u].owed, task[u].owed
                 PROVE  /\ task'[u].pc # "idle"
                        /\ nodeGen[m] # 0 => Answered(u)'
      BY <2>1, <2>2, <2>4 DEF Owes, Kept
    <3>1. task'[u].pc # "idle" /\ task[u].pc # "idle"
      BY <2>2, <2>4 DEF OwedInv, Owes, Kept
    <3>2. ASSUME nodeGen[m] # 0 PROVE Answered(u)'
      <4>1. Answered(u) /\ m \in Nodes
        BY <3>1, <3>2 DEF OwedInv, Owes, Shape
      <4>2. /\ task'[u].pc = task[u].pc /\ task'[u].node = m
            /\ task'[u].rev = task[u].rev /\ task'[u].cfg = task[u].cfg
        BY <2>2, <2>4 DEF Kept
      <4>3. ASSUME NEW v \in Probers, task'[v].pc = "caching",
                   task'[v].node = m
            PROVE  IsCurrent(v)'
        <5>1. v # t /\ Kept(v)
          BY <2>2, <2>3, <4>3
        <5>2. IsCurrent(v)
          BY <4>1, <4>3, <5>1 DEF Answered, On, Kept
        <5> QED
          BY <2>1, <5>1, <5>2 DEF IsCurrent, Kept
      <4>4. \/ task'[u].pc = "queued" /\ \E v \in Probers :
                  task'[v].pc = "caching" /\ task'[v].node = m
            \/ /\ task'[u].served
               /\ cached'[m] = [gen |-> nodeGen[m], rev |-> settings,
                                cfg |-> cfg[m]]
        <5>1. CASE m = n
          <6>1. t \in On(m) /\ u \in On(n)
            BY <2>1, <3>1, <5>1 DEF On
          <6>2. IsCurrent(t)
            BY <2>1, <4>1, <6>1 DEF Answered
          <6> QED
            BY <2>1, <2>2, <2>4, <4>1, <5>1, <6>1, <6>2 DEF IsCurrent
        <5>2. CASE m # n
          <6>1. cached'[m] = cached[m]
            BY <2>1, <3>2, <4>1, <5>2
          <6>2. ASSUME NEW v \in On(m), task[v].pc = "caching"
                PROVE  /\ v \in Probers /\ task'[v].pc = "caching"
                       /\ task'[v].node = m
            BY <2>2, <5>2, <6>2 DEF On, Kept
          <6> HIDE DEF m
          <6> QED
            BY <2>2, <2>4, <4>1, <4>2, <6>1, <6>2
            DEF Answered, CacheIsCurrent, m
        <5> QED
          BY <5>1, <5>2
      <4>5. /\ task[u].pc \in {"queued", "locked", "ready", "reading"}
            /\ task[u].pc = "reading" =>
                  task[u].rev = settings /\ task[u].cfg = cfg[m]
        BY <4>1 DEF Answered
      <4> HIDE DEF m
      <4> QED
        BY <2>1, <4>2, <4>3, <4>4, <4>5 DEF Answered, CacheIsCurrent, On
    <3> QED
      BY <3>1, <3>2
  <2> QED
    BY <2>3, <2>4 DEF OwedInv, Owes
<1>4. ASSUME NEW t \in Probers, NEW n \in Nodes, Begin(t, n),
             UNCHANGED <<rowVars, cached>>
      PROVE  OwedInv'
  <2>1. /\ \A u \in Probers \ {t} : task'[u] = task[u] /\ Kept(u)
        /\ nodeGen' = nodeGen /\ cfg' = cfg /\ settings' = settings
        /\ cached' = cached
        /\ task[t].pc = "idle" /\ task'[t].pc = "queued" /\ ~task'[t].owed
    BY <1>4, BeginFrame DEF Kept, rowVars
  <2>2. \A v \in Probers :
           task[v].pc = "caching" \/ task'[v].pc = "caching" => Kept(v)
    BY <2>1
  <2>3. ASSUME NEW u \in Probers, u # t PROVE Owes(u)'
    <3>1. Owes(u) /\ task'[u] = task[u] /\ Kept(u)
      BY <2>1, <2>3 DEF OwedInv
    <3> QED
      BY <2>1, <2>2, <3>1, StillOwes
  <2> QED
    BY <2>1, <2>3 DEF OwedInv, Owes
<1>5. ASSUME Rest PROVE OwedInv'
  <2> SUFFICES ASSUME NEW t \in Probers PROVE Owes(t)'
    BY DEF OwedInv
  <2>1. /\ \A u \in Probers : Kept(u)
        /\ task'[t].served = task[t].served
        /\ task'[t].owed => task[t].owed
    BY <1>5, RestFrame
  <2>2. ASSUME task'[t].owed
        PROVE  /\ nodeGen'[task[t].node] = nodeGen[task[t].node]
               /\ cfg'[task[t].node] = cfg[task[t].node]
               /\ cached'[task[t].node] = cached[task[t].node]
               /\ settings' = settings
    <3> DEFINE n == task[t].node
    <3>1. task[t].pc # "idle" /\ n \in Nodes /\ t \in On(n)
      <4>1. task[t].pc # "idle"
        BY <2>1, <2>2 DEF OwedInv, Owes
      <4> QED
        BY <4>1 DEF Shape, On
    <3>2. ASSUME NEW m \in Nodes, NEW value \in Configs \cup {"off", "gone"},
                 PublishEdit(m, value)
          PROVE  /\ nodeGen'[n] = nodeGen[n] /\ cfg'[n] = cfg[n]
                 /\ cached'[n] = cached[n] /\ settings' = settings
      <4>1. m # n
        <5>1. task' = Disowed(m)
          BY <3>2 DEF PublishEdit
        <5> QED
          BY <2>2, <3>1, <5>1, TaskTypes DEF Disowed, Tasks
      <4> QED
        BY <3>1, <3>2, <4>1, TypeParts DEF PublishEdit, RowTypes
    <3>3. ASSUME FinishEdit
          PROVE  /\ nodeGen'[n] = nodeGen[n] /\ cfg'[n] = cfg[n]
                 /\ cached'[n] = cached[n] /\ settings' = settings
      <4>1. edit.node # n
        <5>1. task' = Disowed(edit.node)
          BY <3>3 DEF FinishEdit
        <5> QED
          BY <2>2, <3>1, <5>1, TaskTypes DEF Disowed, Tasks
      <4> QED
        BY <3>1, <3>3, <4>1, TypeParts DEF FinishEdit, CountTypes
    <3>4. ~ChangeSettings
      BY <2>2, TaskTypes DEF ChangeSettings, Tasks
    <3>5. ASSUME ~ChangeSettings, ~FinishEdit,
                 \A m \in Nodes, value \in Configs \cup {"off", "gone"} :
                    ~PublishEdit(m, value)
          PROVE  UNCHANGED <<nodeGen, cfg, cached, settings>>
      BY <1>5, <3>5 DEF Rest, StartupProbe, ListNodes, PlanBatch, EndBatch,
         Elapse, Lapse, ChangeConcurrency, rowVars, countVars
    <3> HIDE DEF n
    <3>6. /\ nodeGen'[n] = nodeGen[n] /\ cfg'[n] = cfg[n]
          /\ cached'[n] = cached[n] /\ settings' = settings
      BY <3>2, <3>3, <3>4, <3>5
    <3> QED
      BY <3>6 DEF n
  <2> QED
    BY <2>1, <2>2, StillOwes DEF OwedInv
<1>6. ASSUME NEW t \in Manual, NEW n \in Nodes, TestProxy(t, n) PROVE OwedInv'
  BY <1>4, <1>6 DEF TestProxy, countVars, Probers
<1>7. ASSUME NEW n \in Nodes, SpawnProbe(n) PROVE OwedInv'
  BY <1>4, <1>7 DEF SpawnProbe, countVars, Probers
<1> QED
  BY <1>1, <1>2, <1>3, <1>5, <1>6, <1>7, NextCases

\* A probe that is owed an answer reuses it.
LEMMA MergedHolds ==
    ASSUME OwedInv PROVE OverlapIsMerged
BY DEF OwedInv, Owes, Answered, OverlapIsMerged

-----------------------------------------------------------------------------
(* What the results of a node say. *)

\* The health is what results s make of a new node: its counters count the last
\* of them, and it is ready on their strength.
Reflects(h, s) ==
    /\ h.oks <= Len(s)
    /\ \A i \in (Len(s) - h.oks + 1)..Len(s) : s[i] = "success"
    /\ h.fails < FailureThreshold =>
          \A i \in 0..Len(s) :
             NoSuccess(s, i, Len(s)) =>
                Cardinality(FailuresIn(s, i, Len(s))) <= h.fails
    /\ h.readiness \in {"ready", "degraded"} =>
          Earned(s) /\ h.fails < FailureThreshold

LEMMA FailuresAreFinite ==
    ASSUME NEW s, NEW i \in Nat, NEW k \in Nat
    PROVE  /\ IsFiniteSet(FailuresIn(s, i, k))
           /\ Cardinality(FailuresIn(s, i, k)) \in Nat
<1>1. IsFiniteSet((i + 1)..k)
  BY FS_Interval
<1>2. FailuresIn(s, i, k) \subseteq (i + 1)..k
  BY DEF FailuresIn
<1> QED
  BY <1>1, <1>2, FS_Subset, FS_CardinalityType

\* There are none after the last result.
LEMMA NoFailuresYet ==
    ASSUME NEW s, NEW i \in Nat, NEW k \in Nat, k <= i
    PROVE  Cardinality(FailuresIn(s, i, k)) = 0
<1>1. (i + 1)..k = {}
  OBVIOUS
<1>2. FailuresIn(s, i, k) = {}
  BY <1>1 DEF FailuresIn
<1> QED
  BY <1>2, FS_EmptySet

\* One more result leaves the earlier ones as they are.
LEMMA OneMoreResult ==
    ASSUME NEW s \in Seq(Results), NEW x \in Results
    PROVE  LET z == Append(s, x)
               l == Len(s)
           IN  /\ z \in Seq(Results) /\ l \in Nat /\ Len(z) = l + 1
               /\ z[l + 1] = x
               /\ \A j \in 1..l : z[j] = s[j]
OBVIOUS

LEMMA EarlierFailures ==
    ASSUME NEW s \in Seq(Results), NEW x \in Results,
           NEW i \in Nat, NEW k \in Nat, k <= Len(s)
    PROVE  /\ FailuresIn(Append(s, x), i, k) = FailuresIn(s, i, k)
           /\ NoSuccess(Append(s, x), i, k) <=> NoSuccess(s, i, k)
<1> DEFINE z == Append(s, x)
<1>1. \A j \in (i + 1)..k : z[j] = s[j]
  BY OneMoreResult
<1> HIDE DEF z
<1>2. FailuresIn(z, i, k) = FailuresIn(s, i, k)
  BY <1>1 DEF FailuresIn
<1>3. NoSuccess(z, i, k) <=> NoSuccess(s, i, k)
  BY <1>1 DEF NoSuccess
<1> QED
  BY <1>2, <1>3 DEF z

\* One more result that is a failure is one more failure.
LEMMA MoreFailures ==
    ASSUME NEW s \in Seq(Results), NEW x \in Results, NEW i \in 0..Len(s)
    PROVE  LET z == Append(s, x)
               l == Len(s)
               before == Cardinality(FailuresIn(s, i, l))
               after == Cardinality(FailuresIn(z, i, l + 1))
           IN  /\ NoSuccess(z, i, l + 1) => x # "success" /\ NoSuccess(s, i, l)
               /\ RemoteFailure(x) => after = before + 1
               /\ ~RemoteFailure(x) => after = before
<1> DEFINE z == Append(s, x)
           l == Len(s)
<1>1. /\ z \in Seq(Results) /\ l \in Nat /\ Len(z) = l + 1
      /\ z[l + 1] = x
      /\ \A j \in 1..l : z[j] = s[j]
  BY OneMoreResult
<1> HIDE DEF z, l
<1>2. i \in Nat /\ i <= l
  BY DEF l
<1>3. (i + 1)..(l + 1) = ((i + 1)..l) \cup {l + 1}
  BY <1>1, <1>2
<1>4. NoSuccess(z, i, l + 1) => x # "success" /\ NoSuccess(s, i, l)
  <2>1. l + 1 \in (i + 1)..(l + 1) /\ \A j \in (i + 1)..l : j \in 1..l
    BY <1>1, <1>2
  <2> QED
    BY <1>1, <1>3, <2>1 DEF NoSuccess
<1>5. \A j \in (i + 1)..l : z[j] = s[j] /\ j # l + 1
  BY <1>1, <1>2
<1>6. CASE RemoteFailure(x)
  <2>1. FailuresIn(z, i, l + 1) = FailuresIn(s, i, l) \cup {l + 1}
    BY <1>1, <1>3, <1>5, <1>6 DEF FailuresIn
  <2>2. l + 1 \notin FailuresIn(s, i, l)
    BY <1>5 DEF FailuresIn
  <2>3. IsFiniteSet(FailuresIn(s, i, l))
    BY <1>1, <1>2, FailuresAreFinite
  <2>4. Cardinality(FailuresIn(z, i, l + 1)) =
           Cardinality(FailuresIn(s, i, l)) + 1
    BY <2>1, <2>2, <2>3, FS_AddElement
  <2> QED
    BY <1>4, <1>6, <2>4 DEF z, l
<1>7. CASE ~RemoteFailure(x)
  <2>1. FailuresIn(z, i, l + 1) = FailuresIn(s, i, l)
    BY <1>1, <1>3, <1>5, <1>7 DEF FailuresIn
  <2> QED
    BY <1>4, <1>7, <2>1 DEF z, l
<1> QED
  BY <1>6, <1>7

\* What is earned is lost by a series of failures only.
LEMMA StillEarned ==
    ASSUME NEW s \in Seq(Results), NEW x \in Results, Earned(s),
           \A i \in 0..(Len(s) + 1) :
              NoSuccess(Append(s, x), i, Len(s) + 1) =>
                 Cardinality(FailuresIn(Append(s, x), i, Len(s) + 1))
                    < FailureThreshold
    PROVE  Earned(Append(s, x))
<1> DEFINE z == Append(s, x)
           l == Len(s)
<1>1. /\ l \in Nat /\ Len(z) = l + 1
      /\ \A j \in 1..l : z[j] = s[j]
  BY OneMoreResult
<1>2. PICK k \in RecoveryThreshold..l :
        /\ \A i \in (k - RecoveryThreshold + 1)..k : s[i] = "success"
        /\ \A i, j \in k..l :
              NoSuccess(s, i, j) =>
                 Cardinality(FailuresIn(s, i, j)) < FailureThreshold
  BY DEF Earned
<1>3. k \in Nat /\ k >= 1 /\ k <= l /\ RecoveryThreshold \in Nat
  BY <1>1, <1>2
<1>4. \A i \in (k - RecoveryThreshold + 1)..k : z[i] = "success"
  <2>1. \A i \in (k - RecoveryThreshold + 1)..k : i \in 1..l
    BY <1>1, <1>2, <1>3
  <2> QED
    BY <1>1, <1>2, <2>1
<1>5. ASSUME NEW i \in k..(l + 1), NEW j \in k..(l + 1), NoSuccess(z, i, j)
      PROVE  Cardinality(FailuresIn(z, i, j)) < FailureThreshold
  <2>1. i \in Nat /\ j \in Nat
    BY <1>3
  <2>2. CASE j = l + 1
    BY <1>1, <1>3, <1>5, <2>2
  <2>3. CASE j <= l /\ i <= l
    <3>1. i \in k..l /\ j \in k..l
      BY <1>1, <1>3, <2>1, <2>3
    <3> QED
      BY <1>2, <1>5, <2>1, <2>3, <3>1, EarlierFailures
  <2>4. CASE j <= l /\ i = l + 1
    <3>1. Cardinality(FailuresIn(z, i, j)) = 0
      BY <1>1, <2>1, <2>4, NoFailuresYet
    <3> QED
      BY <3>1
  <2> QED
    BY <1>1, <1>3, <2>1, <2>2, <2>3, <2>4
<1>6. k \in RecoveryThreshold..Len(z)
  BY <1>1, <1>2, <1>3
<1> HIDE DEF z, l
<1> QED
  BY <1>1, <1>4, <1>5, <1>6 DEF Earned, z

LEMMA NewHealthReflects == Reflects(NewHealth, <<>>)
<1> DEFINE e == <<>>
<1>1. Len(e) = 0
  OBVIOUS
<1>2. /\ NewHealth.oks = 0 /\ NewHealth.fails = 0
      /\ NewHealth.readiness = "unknown"
  BY DEF NewHealth
<1>3. (0 - 0 + 1)..0 = {} /\ 0..0 = {0}
  OBVIOUS
<1>4. Cardinality(FailuresIn(e, 0, 0)) = 0
  BY NoFailuresYet
<1> HIDE DEF e
<1> QED
  BY <1>1, <1>2, <1>3, <1>4 DEF Reflects, e

\* A test of a required node keeps its health true to its results.
LEMMA ObserveReflects ==
    ASSUME NEW h \in Healths, NEW s \in Seq(Results), NEW x \in Results,
           Reflects(h, s)
    PROVE  Reflects(Observe(h, x, TRUE), Append(s, x))
<1> DEFINE z == Append(s, x)
           l == Len(s)
           g == Observe(h, x, TRUE)
<1>1. /\ l \in Nat /\ Len(z) = l + 1 /\ z[l + 1] = x
      /\ \A j \in 1..l : z[j] = s[j]
  BY OneMoreResult
<1>2. /\ h.oks \in Nat /\ h.oks <= RecoveryThreshold
      /\ h.fails \in Nat /\ h.fails <= FailureThreshold
  BY DEF Healths
<1>3. /\ x = "success" =>
           /\ g.oks = UpTo(RecoveryThreshold, h.oks) /\ g.fails = 0
           /\ g.readiness = IF UpTo(RecoveryThreshold, h.oks) = RecoveryThreshold
                            THEN "ready" ELSE h.readiness
      /\ RemoteFailure(x) =>
           /\ g.oks = 0 /\ g.fails = UpTo(FailureThreshold, h.fails)
           /\ g.readiness = IF UpTo(FailureThreshold, h.fails) = FailureThreshold
                            THEN "notReady"
                            ELSE IF h.readiness = "ready"
                                 THEN "degraded" ELSE h.readiness
      /\ x # "success" /\ ~RemoteFailure(x) =>
           /\ g.oks = 0 /\ g.fails = h.fails /\ g.readiness = h.readiness
      /\ g \in Healths
  BY ObserveFields
<1>4. /\ h.oks <= l
      /\ \A i \in (l - h.oks + 1)..l : s[i] = "success"
      /\ h.fails < FailureThreshold =>
            \A i \in 0..l : NoSuccess(s, i, l) =>
                               Cardinality(FailuresIn(s, i, l)) <= h.fails
      /\ h.readiness \in {"ready", "degraded"} =>
            Earned(s) /\ h.fails < FailureThreshold
  BY DEF Reflects
<1>5. /\ z \in Seq(Results)
      /\ \A i \in 0..l :
            /\ NoSuccess(z, i, l + 1) => x # "success" /\ NoSuccess(s, i, l)
            /\ RemoteFailure(x) => Cardinality(FailuresIn(z, i, l + 1)) =
                                      Cardinality(FailuresIn(s, i, l)) + 1
            /\ ~RemoteFailure(x) => Cardinality(FailuresIn(z, i, l + 1)) =
                                       Cardinality(FailuresIn(s, i, l))
            /\ Cardinality(FailuresIn(s, i, l)) \in Nat
  BY <1>1, MoreFailures, OneMoreResult, FailuresAreFinite
<1>6. Cardinality(FailuresIn(z, l + 1, l + 1)) = 0
  BY <1>1, NoFailuresYet
<1>7. ASSUME Earned(s), \A i \in 0..(l + 1) : NoSuccess(z, i, l + 1) =>
                Cardinality(FailuresIn(z, i, l + 1)) < FailureThreshold
      PROVE  Earned(z)
  BY <1>7, StillEarned
<1> HIDE DEF z, l, g
<1>8. ASSUME NEW f \in Nat, x # "success",
             \A i \in 0..l : NoSuccess(z, i, l + 1) =>
                Cardinality(FailuresIn(z, i, l + 1)) <= f
      PROVE  \A i \in 0..(l + 1) : NoSuccess(z, i, l + 1) =>
                Cardinality(FailuresIn(z, i, l + 1)) <= f
  <2>1. \A i \in 0..(l + 1) : i \in 0..l \/ i = l + 1
    BY <1>1
  <2> QED
    BY <1>6, <1>8, <2>1
<1>9. CASE x = "success"
  <2>1. /\ g.oks \in Nat /\ g.oks <= h.oks + 1 /\ g.oks <= RecoveryThreshold
        /\ g.fails = 0
    BY <1>2, <1>3, <1>9 DEF UpTo
  <2>2. \A i \in (l + 1 - g.oks + 1)..(l + 1) : z[i] = "success"
    <3> SUFFICES ASSUME NEW i \in (l + 1 - g.oks + 1)..(l + 1)
                 PROVE  z[i] = "success"
      OBVIOUS
    <3>1. i \in Int /\ l + 1 - g.oks + 1 <= i /\ i <= l + 1
      BY <1>1, <2>1
    <3>2. CASE i = l + 1
      BY <1>1, <1>9, <3>2
    <3>3. CASE i # l + 1
      <4>1. i \in (l - h.oks + 1)..l
        BY <1>1, <1>2, <2>1, <3>1, <3>3
      <4>2. i \in 1..l
        BY <1>1, <1>2, <1>4, <4>1
      <4> QED
        BY <1>1, <1>4, <4>1, <4>2
    <3> QED
      BY <3>2, <3>3
  <2>3. ASSUME NEW i \in 0..(l + 1), NoSuccess(z, i, l + 1)
        PROVE  Cardinality(FailuresIn(z, i, l + 1)) = 0
    <3>1. i = l + 1
      BY <1>1, <1>5, <1>9, <2>3
    <3> QED
      BY <1>6, <3>1
  <2>4. ASSUME g.oks = RecoveryThreshold PROVE Earned(z)
    <3>1. l + 1 \in RecoveryThreshold..Len(z)
      BY <1>1, <1>2, <1>4, <2>1, <2>4
    <3>2. (l + 1)..Len(z) = {l + 1}
      BY <1>1
    <3>3. ASSUME NEW i \in ((l + 1) - RecoveryThreshold + 1)..(l + 1)
          PROVE  z[i] = "success"
      <4>1. i \in (l + 1 - g.oks + 1)..(l + 1)
        BY <1>1, <1>2, <2>1, <2>4
      <4> QED
        BY <2>2, <4>1
    <3>4. \A i, j \in (l + 1)..Len(z) :
             NoSuccess(z, i, j) =>
                Cardinality(FailuresIn(z, i, j)) < FailureThreshold
      BY <1>6, <3>2, ProbeHealthAssumption
    <3> QED
      BY <3>1, <3>3, <3>4 DEF Earned
  <2>5. ASSUME g.readiness \in {"ready", "degraded"} PROVE Earned(z)
    <3>1. g.oks = RecoveryThreshold \/ h.readiness \in {"ready", "degraded"}
      BY <1>3, <1>9, <2>5
    <3>2. 0 < FailureThreshold
      BY ProbeHealthAssumption
    <3> QED
      BY <1>4, <1>7, <2>3, <2>4, <3>1, <3>2
  <2>6. g.oks <= Len(z)
    BY <1>1, <1>2, <1>4, <2>1
  <2>7. 0 < FailureThreshold
    BY ProbeHealthAssumption
  <2>8. \A i \in 0..Len(z) : NoSuccess(z, i, Len(z)) =>
                                Cardinality(FailuresIn(z, i, Len(z))) <= g.fails
    BY <1>1, <2>1, <2>3
  <2>9. ASSUME NEW i \in (Len(z) - g.oks + 1)..Len(z) PROVE z[i] = "success"
    <3>1. i \in (l + 1 - g.oks + 1)..(l + 1)
      BY <1>1, <2>1
    <3> QED
      BY <2>2, <3>1
  <2> QED
    BY <2>1, <2>5, <2>6, <2>7, <2>8, <2>9 DEF Reflects, g, z
<1>10. CASE RemoteFailure(x)
  <2>1. /\ g.oks = 0 /\ g.fails = UpTo(FailureThreshold, h.fails)
        /\ x # "success"
    BY <1>3, <1>10 DEF RemoteFailure
  <2>2. /\ g.fails \in Nat /\ g.fails <= FailureThreshold
        /\ g.fails < FailureThreshold =>
              g.fails = h.fails + 1 /\ h.fails < FailureThreshold
    BY <1>2, <2>1 DEF UpTo
  <2>3. ASSUME g.fails < FailureThreshold
        PROVE  \A i \in 0..(l + 1) : NoSuccess(z, i, l + 1) =>
                  Cardinality(FailuresIn(z, i, l + 1)) <= g.fails
    <3>1. ASSUME NEW i \in 0..l, NoSuccess(z, i, l + 1)
          PROVE  Cardinality(FailuresIn(z, i, l + 1)) <= g.fails
      <4>1. Cardinality(FailuresIn(s, i, l)) <= h.fails
        BY <1>4, <1>5, <2>2, <2>3, <3>1
      <4>2. PICK c \in Nat : c = Cardinality(FailuresIn(s, i, l))
        BY <1>5
      <4>3. Cardinality(FailuresIn(z, i, l + 1)) = c + 1
        BY <1>5, <1>10, <4>2
      <4> QED
        BY <1>2, <2>2, <2>3, <4>1, <4>2, <4>3
    <3> QED
      BY <1>8, <2>1, <2>2, <3>1
  <2>4. ASSUME g.readiness \in {"ready", "degraded"}
        PROVE  Earned(z) /\ g.fails < FailureThreshold
    <3>1. g.fails # FailureThreshold /\ h.readiness \in {"ready", "degraded"}
      BY <1>3, <1>10, <2>1, <2>4
    <3>2. g.fails < FailureThreshold
      BY <2>2, <3>1
    <3>3. ASSUME NEW i \in 0..(l + 1), NoSuccess(z, i, l + 1)
          PROVE  Cardinality(FailuresIn(z, i, l + 1)) < FailureThreshold
      <4>1. Cardinality(FailuresIn(z, i, l + 1)) <= g.fails
        BY <2>3, <3>2, <3>3
      <4>2. Cardinality(FailuresIn(z, i, l + 1)) \in Nat
        BY <1>1, FailuresAreFinite
      <4>3. PICK c \in Nat : c = Cardinality(FailuresIn(z, i, l + 1))
        BY <4>2
      <4> QED
        BY <2>2, <3>2, <4>1, <4>3, ProbeHealthAssumption
    <3> QED
      BY <1>4, <1>7, <3>1, <3>2, <3>3
  <2>5. g.oks <= Len(z) /\ (Len(z) - g.oks + 1)..Len(z) = {}
    BY <1>1, <2>1
  <2>6. g.fails < FailureThreshold =>
           \A i \in 0..Len(z) : NoSuccess(z, i, Len(z)) =>
                                   Cardinality(FailuresIn(z, i, Len(z))) <= g.fails
    BY <1>1, <2>1, <2>3
  <2> QED
    BY <2>4, <2>5, <2>6 DEF Reflects, g, z
<1>11. CASE x # "success" /\ ~RemoteFailure(x)
  <2>1. /\ g.oks = 0 /\ g.fails = h.fails /\ g.readiness = h.readiness
    BY <1>3, <1>11
  <2>2. ASSUME h.fails < FailureThreshold
        PROVE  \A i \in 0..(l + 1) : NoSuccess(z, i, l + 1) =>
                  Cardinality(FailuresIn(z, i, l + 1)) <= h.fails
    <3>1. ASSUME NEW i \in 0..l, NoSuccess(z, i, l + 1)
          PROVE  Cardinality(FailuresIn(z, i, l + 1)) <= h.fails
      BY <1>4, <1>5, <1>11, <2>2, <3>1
    <3> QED
      BY <1>2, <1>8, <1>11, <3>1
  <2>3. ASSUME g.readiness \in {"ready", "degraded"}
        PROVE  Earned(z) /\ g.fails < FailureThreshold
    <3>2. h.fails < FailureThreshold /\ Earned(s)
      BY <1>4, <2>1, <2>3
    <3>3. ASSUME NEW i \in 0..(l + 1), NoSuccess(z, i, l + 1)
          PROVE  Cardinality(FailuresIn(z, i, l + 1)) < FailureThreshold
      <4>1. Cardinality(FailuresIn(z, i, l + 1)) <= h.fails
        BY <2>2, <3>2, <3>3
      <4>2. Cardinality(FailuresIn(z, i, l + 1)) \in Nat
        BY <1>1, FailuresAreFinite
      <4>3. PICK c \in Nat : c = Cardinality(FailuresIn(z, i, l + 1))
        BY <4>2
      <4> QED
        BY <1>2, <3>2, <4>1, <4>3, ProbeHealthAssumption
    <3> QED
      BY <1>7, <2>1, <3>2, <3>3
  <2>5. g.oks <= Len(z) /\ (Len(z) - g.oks + 1)..Len(z) = {}
    BY <1>1, <2>1
  <2>6. g.fails < FailureThreshold =>
           \A i \in 0..Len(z) : NoSuccess(z, i, Len(z)) =>
                                   Cardinality(FailuresIn(z, i, Len(z))) <= g.fails
    BY <1>1, <2>1, <2>2
  <2> QED
    BY <2>3, <2>5, <2>6 DEF Reflects, g, z
<1> QED
  BY <1>9, <1>10, <1>11

\* The health on record is of the node and the settings as they are now.
Matches(n) == entry[n].gen = nodeGen[n] /\ entry[n].rev = settings

\* The results looked back on are those the health on record is made of.  A
\* probe that publishes what is no longer current finds no such results.
RecordIsTrue(n) ==
    /\ log[n] # <<>> => Matches(n)
    /\ \A t \in On(n) :
          /\ task[t].pc = "publishing"
          /\ task[t].gen # nodeGen[n] \/ task[t].rev # settings
          => log[n] = <<>>
    /\ nodeGen[n] # 0 /\ Matches(n) /\ Len(log[n]) <= MaxTests =>
          Reflects(Expire(entry[n].health, lapsed[n]), log[n])

RecordsAreTrue == \A n \in Required : RecordIsTrue(n)

LEMMA RecordTypes ==
    ASSUME TypeOK, NEW n \in Nodes
    PROVE  /\ entry \in [Nodes -> Entries] /\ lapsed \in [Nodes -> BOOLEAN]
           /\ log \in [Nodes -> Seq(Results)]
           /\ entry[n] \in Entries /\ entry[n].health \in Healths
           /\ entry[n].gen \in Nat /\ entry[n].rev \in Nat
           /\ lapsed[n] \in BOOLEAN /\ log[n] \in Seq(Results)
           /\ Len(log[n]) \in Nat
           /\ CurrentHealth(n) \in Healths
<1>1. /\ entry \in [Nodes -> Entries] /\ lapsed \in [Nodes -> BOOLEAN]
      /\ log \in [Nodes -> Seq(Results)]
  BY TypeParts DEF HealthVarTypes
<1>2. entry[n] \in Entries /\ lapsed[n] \in BOOLEAN /\ log[n] \in Seq(Results)
  BY <1>1
<1>3. entry[n].health \in Healths /\ entry[n].gen \in Nat /\ entry[n].rev \in Nat
  BY <1>2 DEF Entries
<1>4. Len(log[n]) \in Nat
  BY <1>2
<1>5. CurrentHealth(n) \in Healths
  BY <1>2, <1>3, HealthTypes DEF CurrentHealth, Invalidated
<1> QED
  BY <1>1, <1>2, <1>3, <1>4, <1>5

\* The record stays true while the node, its health and the stale probes that
\* publish stay.
LEMMA RecordStays ==
    ASSUME NEW n \in Required, RecordIsTrue(n),
           entry'[n] = entry[n], lapsed'[n] = lapsed[n], log'[n] = log[n],
           nodeGen'[n] = nodeGen[n], settings' = settings,
           \A t \in Probers :
              task'[t].pc = "publishing" /\ task'[t].node = n =>
                 \/ Kept(t)
                 \/ task'[t].gen = nodeGen[n] /\ task'[t].rev = settings
    PROVE  RecordIsTrue(n)'
<1>1. Matches(n)' <=> Matches(n)
  BY DEF Matches
<1>2. ASSUME NEW t \in Probers, task'[t].pc = "publishing", task'[t].node = n,
             task'[t].gen # nodeGen'[n] \/ task'[t].rev # settings'
      PROVE  log'[n] = <<>>
  <2>1. Kept(t)
    BY <1>2
  <2>2. /\ t \in On(n) /\ task[t].pc = "publishing"
        /\ task[t].gen # nodeGen[n] \/ task[t].rev # settings
    BY <1>2, <2>1 DEF Kept, On
  <2> QED
    BY <2>2 DEF RecordIsTrue
<1>3. \A t \in On(n)' : t \in Probers /\ task'[t].node = n
  BY DEF On
<1> QED
  BY <1>1, <1>2, <1>3 DEF RecordIsTrue

\* The record is true of a node without results whose health is of the past.
LEMMA NoRecord ==
    ASSUME NEW n \in Required, log'[n] = <<>>,
           nodeGen'[n] = 0 \/ ~Matches(n)'
    PROVE  RecordIsTrue(n)'
BY DEF RecordIsTrue

\* What is not ready does not expire.
LEMMA ExpireKeeps ==
    ASSUME NEW h, NEW late \in BOOLEAN,
           late => h.readiness \notin {"ready", "degraded"}
    PROVE  Expire(h, late) = h
BY DEF Expire

\* An observation that is still current adds its result to the record; another
\* puts something on record that counts for nothing.
LEMMA PublishedIsTrue ==
    ASSUME TypeOK, Shape, OneTestPerNode, RecordsAreTrue,
           NEW t \in Probers, PublishObservation(t), NEW n \in Required,
           n = task[t].node
    PROVE  RecordIsTrue(n)'
<1> DEFINE x == task[t].result
           c == CurrentHealth(n)
           g == Observe(c, x, TRUE)
<1>1. n \in Nodes /\ task[t].pc = "publishing" /\ t \in On(n)
  BY DEF PublishObservation, On
<1>2. /\ entry'[n] = [gen |-> task[t].gen, rev |-> task[t].rev, health |-> g]
      /\ lapsed'[n] = (lapsed[n] /\ x # "success")
      /\ nodeGen' = nodeGen /\ settings' = settings
      /\ log'[n] = IF nodeGen[n] = task[t].gen /\ settings = task[t].rev
                   THEN Recorded(log[n], x) ELSE log[n]
  BY <1>1, RecordTypes DEF PublishObservation, rowVars
<1>3. ASSUME NEW u \in Probers, task'[u].pc = "publishing", task'[u].node = n
      PROVE  FALSE
  <2>1. /\ \A v \in Probers \ {t} : Kept(v)
        /\ task'[t] = NoTask \/ Advances(t)
    BY ProberFrame DEF ProbeStep
  <2>2. u # t
    BY <1>1, <1>3, <2>1 DEF NoTask, Advances, After
  <2>3. task[u].pc = "publishing" /\ task[u].node = n
    BY <1>3, <2>1, <2>2 DEF Kept
  <2> QED
    BY <1>1, <2>2, <2>3 DEF OneTestPerNode, Inside, On
<1>4. \A u \in On(n)' : task'[u].pc # "publishing"
  BY <1>3 DEF On
<1>5. RecordIsTrue(n) /\ x \in Results /\ c \in Healths
      /\ log[n] \in Seq(Results) /\ lapsed[n] \in BOOLEAN
      /\ entry[n].health \in Healths
  BY <1>1, RecordTypes, TaskTypes DEF RecordsAreTrue
<1>6. CASE ~(nodeGen[n] = task[t].gen /\ settings = task[t].rev)
  <2>1. log'[n] = <<>>
    BY <1>1, <1>2, <1>5, <1>6 DEF RecordIsTrue
  <2>2. ~Matches(n)'
    BY <1>2, <1>6 DEF Matches
  <2> QED
    BY <2>1, <2>2, NoRecord
<1>7. CASE nodeGen[n] = task[t].gen /\ settings = task[t].rev
  <2>1. Matches(n)'
    BY <1>2, <1>7 DEF Matches
  <2>2. ASSUME nodeGen'[n] # 0, Len(log'[n]) <= MaxTests
        PROVE  Reflects(Expire(entry'[n].health, lapsed'[n]), log'[n])
    <3>1. log'[n] = Append(log[n], x) /\ Len(log[n]) <= MaxTests
      <4>1. Len(log[n]) < MaxTests
        <5> SUFFICES ASSUME ~(Len(log[n]) < MaxTests) PROVE FALSE
          OBVIOUS
        <5>1. log'[n] = Forgotten
          BY <1>2, <1>7 DEF Recorded
        <5>2. Len(Forgotten) = MaxTests + 1
          BY MaxTests + 1 \in Nat DEF Forgotten
        <5> QED
          BY <2>2, <5>1, <5>2
      <4>2. Len(log[n]) \in Nat
        BY <1>1, RecordTypes
      <4> QED
        BY <1>2, <1>7, <4>1, <4>2 DEF Recorded
    <3>2. /\ Reflects(c, log[n])
          /\ lapsed[n] => c.readiness \notin {"ready", "degraded"}
      <4>1. CASE Matches(n)
        <5>1. c = Expire(entry[n].health, lapsed[n])
          BY <4>1 DEF Matches, CurrentHealth
        <5>2. Reflects(c, log[n])
          BY <1>2, <1>5, <2>2, <3>1, <4>1, <5>1 DEF RecordIsTrue
        <5>3. lapsed[n] => c.readiness \notin {"ready", "degraded"}
          BY <5>1 DEF Expire, Invalidated, NewHealth
        <5> QED
          BY <5>2, <5>3
      <4>2. CASE ~Matches(n)
        <5>1. c = NewHealth
          BY <4>2 DEF Matches, CurrentHealth, Invalidated
        <5>2. log[n] = <<>>
          BY <1>5, <4>2 DEF RecordIsTrue
        <5>3. c.readiness = "unknown"
          BY <5>1 DEF NewHealth
        <5> QED
          BY <5>1, <5>2, <5>3, NewHealthReflects
      <4> QED
        BY <4>1, <4>2
    <3>3. Reflects(g, Append(log[n], x))
      BY <1>5, <3>2, ObserveReflects
    <3>4. lapsed'[n] => g.readiness \notin {"ready", "degraded"}
      <4> HIDE DEF c, x
      <4>1. x # "success" /\ c.readiness \notin {"ready", "degraded"} =>
               g.readiness \notin {"ready", "degraded"}
        <5>1. /\ RemoteFailure(x) =>
                   g.readiness = IF UpTo(FailureThreshold, c.fails)
                                       = FailureThreshold
                                 THEN "notReady"
                                 ELSE IF c.readiness = "ready"
                                      THEN "degraded" ELSE c.readiness
              /\ x # "success" /\ ~RemoteFailure(x) =>
                   g.readiness = c.readiness
          BY <1>5, ObserveFields
        <5> HIDE DEF g
        <5> QED
          BY <5>1
      <4> HIDE DEF g
      <4> QED
        BY <1>2, <3>2, <4>1
    <3>5. lapsed'[n] \in BOOLEAN
      BY <1>2
    <3> HIDE DEF c, x, g
    <3>6. Expire(g, lapsed'[n]) = g
      BY <3>4, <3>5, ExpireKeeps
    <3>7. entry'[n].health = g
      BY <1>2
    <3> QED
      BY <3>1, <3>3, <3>6, <3>7
  <2> QED
    BY <1>4, <2>1, <2>2 DEF RecordIsTrue
<1> QED
  BY <1>6, <1>7

LEMMA RecordStep ==
    ASSUME TypeOK, Shape, EditShape, OneTestPerNode, Past, RecordsAreTrue, Next
    PROVE  RecordsAreTrue'
<1> SUFFICES ASSUME NEW n \in Required PROVE RecordIsTrue(n)'
  BY DEF RecordsAreTrue
<1>0. /\ n \in Nodes /\ RecordIsTrue(n)
      /\ entry \in [Nodes -> Entries] /\ lapsed \in [Nodes -> BOOLEAN]
      /\ log \in [Nodes -> Seq(Results)]
      /\ nodeGen \in [Nodes -> 0..MaxGen]
  BY RecordTypes, TypeParts DEF RecordsAreTrue, RowTypes
<1>1. ASSUME NEW t \in Probers, PublishObservation(t) PROVE RecordIsTrue(n)'
  <2>1. CASE task[t].node = n
    BY <1>1, <2>1, PublishedIsTrue
  <2>2. CASE task[t].node # n
    <3>1. /\ \A v \in Probers \ {t} : Kept(v)
          /\ task'[t] = NoTask \/ Advances(t)
      BY <1>1, ProberFrame DEF ProbeStep
    <3>2. task[t].pc = "publishing" /\ task'[t].pc # "publishing"
      BY <1>1, <3>1 DEF PublishObservation, NoTask, Advances, After
    <3>3. /\ nodeGen' = nodeGen /\ settings' = settings
      BY <1>1 DEF PublishObservation, rowVars
    <3>4. entry'[n] = entry[n]
      <4> DEFINE e == [gen |-> task[t].gen, rev |-> task[t].rev,
                       health |-> Observe(CurrentHealth(task[t].node),
                                          task[t].result,
                                          task[t].node \in Required)]
      <4>1. entry' = [entry EXCEPT ![task[t].node] = e]
        BY <1>1 DEF PublishObservation
      <4> HIDE DEF e
      <4> QED
        BY <1>0, <2>2, <4>1
    <3>5. lapsed'[n] = lapsed[n] /\ log'[n] = log[n]
      BY <1>0, <1>1, <2>2 DEF PublishObservation
    <3> QED
      BY <1>0, <3>1, <3>2, <3>3, <3>4, <3>5, RecordStays
  <2> QED
    BY <2>1, <2>2
<1>2. ASSUME NEW t \in Probers, ProbeStep(t) \/ Recheck(t),
             ~PublishObservation(t)
      PROVE  RecordIsTrue(n)'
  <2>1. /\ \A v \in Probers \ {t} : Kept(v)
        /\ task'[t] = NoTask \/ Advances(t)
        /\ nodeGen' = nodeGen /\ settings' = settings
        /\ entry' = entry /\ lapsed' = lapsed /\ log' = log
    BY <1>2, ProberFrame, ProberLeaves DEF healthVars
  <2>2. ASSUME task'[t].pc = "publishing", task'[t].node = n
        PROVE  task'[t].gen = nodeGen[n] /\ task'[t].rev = settings
    <3>1. Advances(t) /\ task[t].pc = "checking"
      BY <2>1, <2>2, TaskTypes DEF NoTask, Advances, After, TaskStates
    <3>2. PICK alive \in BOOLEAN : CheckObservation(t, alive)
      BY <1>2, <3>1 DEF ProbeStep, LockNode, TakeSlots, QueueTimeout, ReadRow,
         ReuseResult, StartTest, Misconfigured, FinishTest, Count,
         PublishObservation, PersistObservation, CacheResult, Recheck
    <3>3. /\ nodeGen[task[t].node] = task[t].gen /\ settings = task[t].rev
      BY <2>2, <3>2, Ended DEF CheckObservation, Abandon, NoTask
    <3> QED
      BY <2>2, <3>1, <3>3 DEF Advances
  <2> QED
    BY <1>0, <2>1, <2>2, RecordStays
<1>3. ASSUME NEW t \in Probers, NEW m \in Nodes, Begin(t, m),
             UNCHANGED <<rowVars, healthVars>>
      PROVE  RecordIsTrue(n)'
  <2>1. /\ \A v \in Probers \ {t} : Kept(v)
        /\ task'[t].pc = "queued"
    BY <1>3, BeginFrame DEF Kept
  <2> QED
    BY <1>0, <1>3, <2>1, RecordStays DEF rowVars, healthVars
<1>4. ASSUME Rest,
             entry'[n] = entry[n], lapsed'[n] = lapsed[n], log'[n] = log[n],
             nodeGen'[n] = nodeGen[n], settings' = settings
      PROVE  RecordIsTrue(n)'
  BY <1>0, <1>4, RestFrame, RecordStays
<1>5. ASSUME NEW m \in Nodes, NEW value \in Configs \cup {"off", "gone"},
             PublishEdit(m, value)
      PROVE  RecordIsTrue(n)'
  <2>0. Rest
    BY <1>5 DEF Rest
  <2>1. CASE m = n
    <3>1. /\ log'[n] = <<>> /\ settings' = settings
          /\ nodeGen'[n] = IF value \in Configs THEN routingGen + 1 ELSE 0
          /\ value # "gone" => entry' = entry
      BY <1>0, <1>5, <2>1 DEF PublishEdit
    <3>2. entry[n].gen <= routingGen /\ entry[n].gen \in Nat
          /\ routingGen \in Nat
      BY <1>0, Numbers DEF Past
    <3>3. value \in Configs => value # "gone"
      OBVIOUS
    <3>4. nodeGen'[n] = 0 \/ ~Matches(n)'
      BY <3>1, <3>2, <3>3 DEF Matches
    <3> QED
      BY <3>1, <3>4, NoRecord
  <2>2. CASE m # n
    BY <1>0, <1>4, <1>5, <2>0, <2>2 DEF PublishEdit
  <2> QED
    BY <2>1, <2>2
<1>6. ASSUME ChangeSettings PROVE RecordIsTrue(n)'
  <2>1. log'[n] = <<>> /\ settings' = settings + 1 /\ entry' = entry
    BY <1>0, <1>6 DEF ChangeSettings
  <2>2. entry[n].rev <= settings /\ entry[n].rev \in Nat /\ settings \in Nat
    BY <1>0, Numbers DEF Past
  <2>3. ~Matches(n)'
    BY <2>1, <2>2 DEF Matches
  <2> QED
    BY <2>1, <2>3, NoRecord
<1>7. ASSUME NEW m \in Nodes, Lapse(m) PROVE RecordIsTrue(n)'
  <2>0. Rest
    BY <1>7 DEF Rest
  <2>1. CASE m # n
    BY <1>0, <1>4, <1>7, <2>0, <2>1 DEF Lapse, rowVars
  <2>2. CASE m = n
    <3>1. /\ log'[n] = <<>> /\ lapsed'[n] = TRUE /\ entry' = entry
          /\ nodeGen' = nodeGen /\ settings' = settings
          /\ Offered(n)
      BY <1>0, <1>7, <2>2 DEF Lapse, rowVars
    <3>2. Matches(n)'
      BY <3>1 DEF Offered, Matches
    <3>3. Expire(entry'[n].health, lapsed'[n]) = NewHealth
      BY <3>1 DEF Offered, Eligible, Expire, Invalidated
    <3>4. Reflects(Expire(entry'[n].health, lapsed'[n]), log'[n])
      BY <3>1, <3>3, NewHealthReflects
    <3> QED
      BY <3>1, <3>2, <3>4 DEF RecordIsTrue
  <2> QED
    BY <2>1, <2>2
<1>8. ASSUME Rest, ~ChangeSettings, \A m \in Nodes : ~Lapse(m),
             \A m \in Nodes, value \in Configs \cup {"off", "gone"} :
                ~PublishEdit(m, value)
      PROVE  UNCHANGED <<entry, lapsed, log, nodeGen, settings>>
  BY <1>8 DEF Rest, StartupProbe, ListNodes, PlanBatch, EndBatch, Elapse,
     FinishEdit, ChangeConcurrency, rowVars, healthVars
<1>9. ASSUME Rest PROVE RecordIsTrue(n)'
  BY <1>4, <1>5, <1>6, <1>7, <1>8, <1>9
<1>10. ASSUME NEW t \in Manual, NEW m \in Nodes, TestProxy(t, m)
       PROVE  RecordIsTrue(n)'
  BY <1>3, <1>10 DEF TestProxy, Probers
<1>11. ASSUME NEW m \in Nodes, SpawnProbe(m) PROVE RecordIsTrue(n)'
  BY <1>3, <1>11 DEF SpawnProbe, Probers
<1> QED
  BY <1>1, <1>2, <1>9, <1>10, <1>11, NextCases

\* What is on offer is ready, and has earned it.
LEMMA EarnedHolds ==
    ASSUME TypeOK, RecordsAreTrue PROVE ReadyIsEarned
<1> SUFFICES ASSUME NEW n \in Required, Offered(n), Len(log[n]) <= MaxTests
             PROVE  Earned(log[n])
  BY DEF ReadyIsEarned
<1>1. Reflects(Expire(entry[n].health, lapsed[n]), log[n])
  BY DEF RecordsAreTrue, RecordIsTrue, Offered, Matches
<1>2. /\ Expire(entry[n].health, lapsed[n]) = entry[n].health
      /\ entry[n].health.readiness \in {"ready", "degraded"}
  BY DEF Offered, Eligible, Expire
<1> QED
  BY <1>1, <1>2 DEF Reflects

-----------------------------------------------------------------------------
(* The theorems. *)

\* The inductive invariant: the types and shapes, one test per node, and what
\* each of the counts, histories and promises says of the node as it is now.
InductiveInv ==
    /\ TypeOK
    /\ Shape
    /\ EditShape
    /\ OneTestPerNode
    /\ Past
    /\ FailuresAreRecent
    /\ DueInv
    /\ OwedInv
    /\ RecordsAreTrue
    /\ PermitInv

LEMMA InductiveInit == Init => InductiveInv
<1> SUFFICES ASSUME Init PROVE InductiveInv
  OBVIOUS
<1>1. \A t \in Probers : task[t] = NoTask
  BY DEF Init
<1>2. TypeOK
  <2>1. RowTypes
    <3>1. 0 \in 0..MaxGen /\ 1 \in 0..MaxGen /\ 1 \in 1..MaxGen
          /\ 0 \in 0..MaxSettings
      OBVIOUS
    <3>2. edit = [node |-> NoNode, gone |-> FALSE]
      BY DEF Init, NoEdit
    <3>3. cfg \in [Nodes -> Configs \cup {"off", "gone"}]
      BY DEF Init
    <3> QED
      BY <3>1, <3>2, <3>3 DEF Init, RowTypes
  <2>2. HealthVarTypes
    <3>1. NoEntry \in Entries
      BY HealthTypes DEF NoEntry, Entries
    <3>2. <<>> \in Seq(Results)
      OBVIOUS
    <3> QED
      BY <3>1, <3>2 DEF Init, HealthVarTypes
  <2>3. CountTypes
    <3>1. NoResult \in CachedResults
      BY DEF NoResult, CachedResults
    <3>2. 0 \in 0..DownThreshold
      OBVIOUS
    <3> QED
      BY <3>1, <3>2 DEF Init, CountTypes
  <2>4. LoopTypes
    BY DEF Init, LoopTypes
  <2>5. task \in [Probers -> Tasks]
    BY NoTaskType DEF Init
  <2> QED
    BY <2>1, <2>2, <2>3, <2>4, <2>5, TypeParts DEF Init
<1>3. Shape /\ EditShape /\ OneTestPerNode
  <2>1. \A t \in Probers : task[t].pc = "idle"
    BY <1>1 DEF NoTask
  <2> QED
    BY <2>1 DEF Shape, EditShape, OneTestPerNode, Inside, Init
<1>4. Past
  <2>1. \A t \in Probers : task[t].gen = 0 /\ task[t].rev = 0
    BY <1>1 DEF NoTask
  <2>2. \A n \in Nodes : entry[n].gen = 0 /\ entry[n].rev = 0
    BY DEF Init, NoEntry
  <2>3. \A n \in Nodes : nodeGen[n] \in {0, 1}
    BY DEF Init
  <2>4. routingGen = 1 /\ settings = 0
    BY DEF Init
  <2> QED
    BY <2>1, <2>2, <2>3, <2>4 DEF Past
<1>5. FailuresAreRecent
  BY DEF Init, FailuresAreRecent
<1>6. DueInv
  BY DEF Init, DueInv, EditedNodeIsDue
<1>7. OwedInv
  BY <1>1 DEF OwedInv, Owes, NoTask
<1>8. RecordsAreTrue
  <2> SUFFICES ASSUME NEW n \in Required PROVE RecordIsTrue(n)
    BY DEF RecordsAreTrue
  <2>1. /\ entry[n].health = NewHealth /\ lapsed[n] = FALSE /\ log[n] = <<>>
    BY DEF Init, NoEntry
  <2>2. Expire(NewHealth, FALSE) = NewHealth
    BY DEF Expire
  <2> QED
    BY <2>1, <2>2, NewHealthReflects DEF RecordIsTrue, Matches
<1>9. PermitInv
  <2>1. PermitsOut = {}
    BY <1>1 DEF PermitsOut, Holding, NoTask
  <2> QED
    BY <2>1, FS_EmptySet DEF PermitInv
<1> QED
  BY <1>2, <1>3, <1>4, <1>5, <1>6, <1>7, <1>8, <1>9 DEF InductiveInv

LEMMA InductiveStep == InductiveInv /\ [Next]_vars => InductiveInv'
<1>1. ASSUME InductiveInv, Next PROVE InductiveInv'
  BY <1>1, TypeStep, ShapeStep, EditShapeStep, OneTestStep, PastStep,
     FailuresStep, DueStep, OwedStep, RecordStep, PermitStep DEF InductiveInv
<1>2. ASSUME InductiveInv, UNCHANGED vars PROVE InductiveInv'
  <2> USE <1>2 DEF vars, rowVars, healthVars, countVars, loopVars
  <2>1. TypeOK' /\ EditShape'
    BY DEF InductiveInv, TypeOK, EditShape
  <2>2. Shape' /\ OneTestPerNode'
    BY DEF InductiveInv, Shape, OneTestPerNode, Inside
  <2>3. Past' /\ FailuresAreRecent'
    BY DEF InductiveInv, Past, FailuresAreRecent, Late, On
  <2>4. DueInv'
    BY DEF InductiveInv, DueInv, EditedNodeIsDue, On
  <2>5. OwedInv'
    BY DEF InductiveInv, OwedInv, Owes, Answered, CacheIsCurrent, IsCurrent, On
  <2>6. RecordsAreTrue'
    BY DEF InductiveInv, RecordsAreTrue, RecordIsTrue, Matches, On
  <2>7. PermitInv'
    BY DEF InductiveInv, PermitInv, PermitsOut, Holding
  <2> QED
    BY <2>1, <2>2, <2>3, <2>4, <2>5, <2>6, <2>7 DEF InductiveInv
<1> QED
  BY <1>1, <1>2

THEOREM InductiveHolds == Spec => []InductiveInv
BY InductiveInit, InductiveStep, PTL DEF Spec

\* The types, and that no node is tested twice at the same time, whoever asks:
\* the lock of a node survives its being disabled, edited or deleted while a
\* probe holds a reference to it (state.rs 513-526, 167-181).
THEOREM ProbingHolds == Spec => []ProbingInv
<1>1. InductiveInv => ProbingInv
  BY DEF InductiveInv, ProbingInv
<1> QED
  BY <1>1, InductiveHolds, PTL

\* A required node is offered on the strength of its own results only
\* (database.rs 212-242, README.md:353).
THEOREM ReadyIsEarnedHolds == Spec => []ReadyIsEarned
<1>1. InductiveInv => ReadyIsEarned
  BY EarnedHolds DEF InductiveInv
<1> QED
  BY <1>1, InductiveHolds, PTL

\* A node that was changed or enabled is looked at again (state.rs 393-404,
\* 159-165).
THEOREM EditedNodeIsDueHolds == Spec => []EditedNodeIsDue
<1>1. InductiveInv => EditedNodeIsDue
  BY DEF InductiveInv, DueInv
<1> QED
  BY <1>1, InductiveHolds, PTL

\* Overlapping probes of an enabled node test it once (state.rs 556-577,
\* README.md:344).
THEOREM OverlapIsMergedHolds == Spec => []OverlapIsMerged
<1>1. InductiveInv => OverlapIsMerged
  BY MergedHolds DEF InductiveInv
<1> QED
  BY <1>1, InductiveHolds, PTL

\* The weights of the shares keep the tests within probe_concurrency
\* (state.rs 533-545).
THEOREM TestsWithinConcurrencyHolds == Spec => []TestsWithinConcurrency
<1>1. InductiveInv => TestsWithinConcurrency
  BY ConcurrencyHolds DEF InductiveInv
<1> QED
  BY <1>1, InductiveHolds, PTL

\* A periodic probe marks a node inactive after enough failures in a row of the
\* node as it is now (state.rs 648-714, README.md:329).
THEOREM InactiveIsEarnedHolds == Spec => InactiveIsEarned
<1> DEFINE A == \A n \in Nodes :
                   /\ task'[n].mark /\ ~task[n].mark
                   /\ ~loop.first
                   /\ task[n].gen = nodeGen[n]
                   => streak'[n] >= DownThreshold \/ edit.node = n
<1>1. InductiveInv /\ [Next]_vars => [A]_vars
  <2>1. ASSUME InductiveInv, Next PROVE A
    BY <2>1, MarksAreEarned DEF InductiveInv
  <2> QED
    BY <2>1
<1>2. Spec => [][A]_vars
  BY <1>1, InductiveHolds, PTL DEF Spec
<1> QED
  BY <1>2 DEF InactiveIsEarned
=============================================================================
