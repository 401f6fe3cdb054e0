------------------------ MODULE DatabaseWorkerProofs -------------------------
(***************************************************************************)
(* For every capacity, batch size, set of clients and nodes: the queue of  *)
(* the database worker keeps its bounds and its count, a clear deletes     *)
(* what preceded it and nothing else, a status is on its way until it is   *)
(* in the row, the row never goes back, a flush that succeeds has lost     *)
(* nothing, and the whole implements LogStore.                             *)
(*                                                                         *)
(* The inductive invariant WorkerInv joins four arguments: what the writer *)
(* holds at each of its places (WriterPhase), how the numbers of the logs  *)
(* lie around a barrier (MarksInv), how the revisions of a node's statuses *)
(* lie on their way to the row (StatusOrder), and which of them a closed   *)
(* queue may still owe (FlushInv).                                         *)
(***************************************************************************)
EXTENDS DatabaseWorker, FiniteSetTheorems, SequenceTheorems,
        WellFoundedInduction, TLAPS

USE WorkerAssumption DEF WorkerAssumption

\* What the writer holds, by where it stands.
WriterPhase ==
    /\ worker \notin {"writing", "settling"} => batch = {} /\ retry = Nothing
    /\ worker # "writing" => flight = Nothing
    /\ worker # "settling" => result = {}
    /\ result \in {{}, batch}
    /\ result \subseteq table
    /\ doing = NoClearer <=> worker \notin {"deciding", "deleting", "replied"}

\* Every client makes one request, and it is in one place.
Requests ==
    /\ clear.by = NoClearer => clear.remaining = 0
    /\ \A c \in Clearers :
        /\ client[c] = "idle" => clear.by # c /\ doing # c /\ reply[c] = "none"
        /\ clear.by = c => /\ client[c] \in {"waiting", "giving up"}
                           /\ reply[c] = "none"
                           /\ doing # c
        /\ doing = c /\ worker # "replied" => reply[c] = "none"
        /\ client[c] = "withdrawn" => doing # c /\ reply[c] # "cleared"

\* The queue holds the logs in the order in which they were offered.
LogOrder ==
    /\ \A i, k \in DOMAIN jobs : i < k => jobs[i].id < jobs[k].id
    /\ \A i \in DOMAIN jobs : jobs[i].id <= offered
    /\ \A x \in batch \cup table : x <= offered
    /\ \A c \in Clearers : mark[c] <= offered

\* The logs in front of a barrier are those its request found.
Barriers ==
    /\ clear.remaining <= Len(jobs)
    /\ \A c \in Clearers : clear.by = c =>
         /\ \A i \in DOMAIN jobs :
              jobs[i].id <= mark[c] <=> i <= clear.remaining
         /\ \A x \in batch \cup table : x <= mark[c]

\* While a clear is carried out they are in the table, and there alone;
\* afterwards they are nowhere.
Clears ==
    /\ \A c \in Clearers : doing = c =>
         /\ \A i \in DOMAIN jobs : jobs[i].id > mark[c]
         /\ worker # "replied" => \A x \in table : x <= mark[c]
    /\ \A c \in Clearers : reply[c] = "cleared" =>
         /\ \A i \in DOMAIN jobs : jobs[i].id > mark[c]
         /\ \A x \in batch \cup table : x > mark[c]

MarksInv == LogOrder /\ Barriers /\ Clears

\* No more errors than there may be, those of the batch in hand included.
ErrorBudget ==
    IF worker = "settling" THEN ErrorsOfBatch <= MaxErrors
    ELSE Failed <= MaxErrors

\* A change that is known of a node: not of the future, and nothing if it is
\* of no generation.
Known(n, change) ==
    /\ change.gen = 0 => change = NoChange
    /\ gen[n] # 0 => change.gen <= gen[n]
    /\ change.gen = gen[n] => change.rev <= revision[n]

\* What is queued of a node is newer than what was taken before.
Overtaken(n, change) ==
    change # NoChange /\ change.gen = gen[n] /\ statuses[n] # NoChange =>
      statuses[n].gen = gen[n] /\ change.rev < statuses[n].rev

OrderOf(n) ==
    /\ gen[n] = 0 => latest[n] = "nobody"
    /\ row[n].gen = gen[n] /\ row[n].rev <= revision[n]
    /\ Known(n, statuses[n]) /\ Known(n, flight[n])
    /\ Known(n, retry[n]) /\ Known(n, probeWrite[n])
    /\ flight[n] = NoChange \/ retry[n] = NoChange
    /\ Overtaken(n, flight[n]) /\ Overtaken(n, retry[n])

StatusOrder == \A n \in Nodes : OrderOf(n)

Latest(n) == [gen |-> gen[n], rev |-> revision[n]]

Held(n) == {statuses[n], flight[n], retry[n]}

Pends(n) == \E change \in Held(n) : change # NoChange

\* Where the newest status of a node is.
There(n) == Latest(n) \in {row[n]} \cup Held(n)

\* The newest status is on its way while the queue is open, and as long as
\* anything of the node is.
StatusKept ==
    \A n \in Nodes : latest[n] = "worker" /\ (~stopped \/ Pends(n)) => There(n)

Found == Queued \cup batch \cup table \cup erased

\* What the closed queue held is still there, unless an error was counted.
Flushing ==
    /\ closer = "open" <=> ~stopped
    /\ closer = "flushing" =>
         /\ sealed.errors <= errors
         /\ sealed.errors = errors =>
              /\ sealed.logs \subseteq Found
              /\ \A n \in sealed.nodes : latest[n] = "worker" => There(n)

FlushInv == Flushing /\ SealedFlushIsDurable

WorkerInv ==
    /\ QueueInv /\ WriterPhase /\ ErrorBudget
    /\ Requests /\ MarksInv
    /\ StatusOrder /\ StatusKept
    /\ FlushInv

-----------------------------------------------------------------------------
(* Sets of numbers and sequences of logs. *)

LEMMA LeastNumber ==
    ASSUME NEW n \in Nat, NEW S \in SUBSET (1..n), S # {}
    PROVE  \E i \in S : \A k \in S : i <= k
<1> DEFINE T == {1..i : i \in S}
<1>1. T # {} /\ T \subseteq FiniteSubsetsOf(1..n)
  <2>1. \A i \in S : 1..i \in SUBSET (1..n)
    OBVIOUS
  <2>2. \A i \in S : IsFiniteSet(1..i)
    BY FS_Interval
  <2> QED BY <2>1, <2>2 DEF FiniteSubsetsOf
<1>2. PICK X \in T : \A Y \in T : <<Y, X>> \notin StrictSubsetOrdering(1..n)
  BY <1>1, WFMin, FS_StrictSubsetOrderingWellFounded
<1>3. PICK i \in S : X = 1..i
  BY <1>2
<1>4. ASSUME NEW k \in S, k < i PROVE FALSE
  <2>1. 1..k \in T /\ 1..k \in SUBSET (1..n) /\ 1..i \in SUBSET (1..n)
    OBVIOUS
  <2>2. 1..k \subseteq 1..i /\ i \in 1..i /\ i \notin 1..k
    BY <1>4
  <2> QED BY <1>2, <1>3, <2>1, <2>2 DEF StrictSubsetOrdering
<1> QED BY <1>4

LEMMA RemovedLog ==
    ASSUME NEW s \in Seq(Logs), NEW k \in DOMAIN s
    PROVE  /\ RemoveAt(s, k) \in Seq(Logs)
           /\ Len(RemoveAt(s, k)) = Len(s) - 1
           /\ \A i \in 1..(Len(s) - 1) :
                RemoveAt(s, k)[i] = IF i < k THEN s[i] ELSE s[i + 1]
<1> DEFINE a == SubSeq(s, 1, k - 1)
           b == SubSeq(s, k + 1, Len(s))
<1>1. Len(s) \in Nat /\ k \in 1..Len(s)
  OBVIOUS
<1>2. a \in Seq(Logs) /\ Len(a) = k - 1 /\ \A i \in 1..(k - 1) : a[i] = s[i]
  OBVIOUS
<1>3. b \in Seq(Logs) /\ Len(b) = Len(s) - k
      /\ \A i \in 1..(Len(s) - k) : b[i] = s[k + i]
  OBVIOUS
<1> HIDE DEF a, b
<1>4. RemoveAt(s, k) = a \o b
  BY DEF RemoveAt, a, b
<1> QED BY <1>1, <1>2, <1>3, <1>4, ConcatProperties

LEMMA AppendedLog ==
    ASSUME NEW s \in Seq(Logs), NEW log \in Logs
    PROVE  /\ Append(s, log) \in Seq(Logs)
           /\ Len(Append(s, log)) = Len(s) + 1
           /\ \A i \in 1..Len(s) : Append(s, log)[i] = s[i]
           /\ Append(s, log)[Len(s) + 1] = log
  OBVIOUS

\* The first of several logs leaves the queue.
LEMMA TakenLogs ==
    ASSUME NEW s \in Seq(Logs), NEW k \in 0..Len(s)
    PROVE  /\ SubSeq(s, k + 1, Len(s)) \in Seq(Logs)
           /\ Len(SubSeq(s, k + 1, Len(s))) = Len(s) - k
           /\ \A i \in 1..(Len(s) - k) : SubSeq(s, k + 1, Len(s))[i] = s[i + k]
  OBVIOUS

LEMMA OldestRegularLog ==
    ASSUME jobs \in Seq(Logs), \E i \in DOMAIN jobs : ~jobs[i].important
    PROVE  OldestRegular \in DOMAIN jobs /\ ~jobs[OldestRegular].important
<1> DEFINE S == {i \in DOMAIN jobs : ~jobs[i].important}
<1>1. Len(jobs) \in Nat /\ DOMAIN jobs = 1..Len(jobs) /\ S # {}
  OBVIOUS
<1>2. PICK i \in S : \A k \in S : i <= k
  BY <1>1, LeastNumber
<1>3. i \in DOMAIN jobs /\ ~jobs[i].important
      /\ \A k \in 1..(i - 1) : jobs[k].important
  <2> SUFFICES ASSUME NEW k \in 1..(i - 1) PROVE jobs[k].important
    BY <1>2
  <2>1. k \in DOMAIN jobs /\ ~(i <= k)
    BY <1>1
  <2> QED BY <1>2, <2>1
<1> QED BY <1>3 DEF OldestRegular

\* How many regular logs a queue holds.
Regular(s) == {i \in DOMAIN s : ~s[i].important}

LEMMA RegularFinite ==
    ASSUME NEW s \in Seq(Logs)
    PROVE  IsFiniteSet(Regular(s)) /\ Cardinality(Regular(s)) \in 0..Len(s)
<1>1. IsFiniteSet(1..Len(s)) /\ Cardinality(1..Len(s)) = Len(s)
  <2>1. PICK k \in Nat : Len(s) = k
    OBVIOUS
  <2>2. IsFiniteSet(1..k) /\ Cardinality(1..k) = k
    BY FS_Interval
  <2> QED BY <2>1, <2>2
<1>2. Regular(s) \in SUBSET (1..Len(s))
  BY DEF Regular
<1>3. IsFiniteSet(Regular(s)) /\ Cardinality(Regular(s)) <= Len(s)
  BY <1>1, <1>2, FS_Subset
<1> QED BY <1>3, FS_CardinalityType

\* A sequence whose logs are logs of another one, in different places.
LEMMA FewerRegular ==
    ASSUME NEW s \in Seq(Logs), NEW t \in Seq(Logs),
           NEW f \in [Regular(t) -> DOMAIN s],
           \A i \in Regular(t) : s[f[i]] = t[i],
           \A i, k \in Regular(t) : f[i] = f[k] => i = k
    PROVE  Cardinality(Regular(t)) <= Cardinality(Regular(s))
<1>1. f \in Injection(Regular(t), Regular(s))
  BY DEF Regular, Injection, IsInjective
<1> QED BY <1>1, RegularFinite, FS_Injection

LEMMA RegularOfTaken ==
    ASSUME NEW s \in Seq(Logs), NEW k \in 0..Len(s)
    PROVE  Cardinality(Regular(SubSeq(s, k + 1, Len(s))))
             <= Cardinality(Regular(s))
<1> DEFINE t == SubSeq(s, k + 1, Len(s))
<1>1. t \in Seq(Logs) /\ Len(t) = Len(s) - k
      /\ \A i \in 1..(Len(s) - k) : t[i] = s[i + k]
  BY TakenLogs
<1> HIDE DEF t
<1> DEFINE f == [i \in Regular(t) |-> i + k]
<1>2. \A i \in Regular(t) : i \in 1..Len(t) /\ i + k \in DOMAIN s
  BY <1>1 DEF Regular
<1>3. f \in [Regular(t) -> DOMAIN s]
  BY <1>2
<1>4. \A i \in Regular(t) : s[f[i]] = t[i]
  BY <1>1, <1>2
<1>5. \A i, m \in Regular(t) : f[i] = f[m] => i = m
  BY <1>2
<1>6. Cardinality(Regular(t)) <= Cardinality(Regular(s))
  <2> HIDE DEF f
  <2> QED BY <1>1, <1>3, <1>4, <1>5, FewerRegular
<1> QED BY <1>6 DEF t

LEMMA RegularOfRemoved ==
    ASSUME NEW s \in Seq(Logs), NEW k \in DOMAIN s
    PROVE  Cardinality(Regular(RemoveAt(s, k))) <= Cardinality(Regular(s))
<1> DEFINE t == RemoveAt(s, k)
<1>1. t \in Seq(Logs) /\ Len(t) = Len(s) - 1
      /\ \A i \in 1..(Len(s) - 1) : t[i] = IF i < k THEN s[i] ELSE s[i + 1]
  BY RemovedLog
<1> HIDE DEF t
<1> DEFINE f == [i \in Regular(t) |-> IF i < k THEN i ELSE i + 1]
<1>2. \A i \in Regular(t) : i \in 1..(Len(s) - 1)
  BY <1>1 DEF Regular
<1>3. f \in [Regular(t) -> DOMAIN s]
  BY <1>2
<1>4. \A i \in Regular(t) : s[f[i]] = t[i]
  BY <1>1, <1>2
<1>5. \A i, m \in Regular(t) : f[i] = f[m] => i = m
  BY <1>2
<1>6. Cardinality(Regular(t)) <= Cardinality(Regular(s))
  <2> HIDE DEF f
  <2> QED BY <1>1, <1>3, <1>4, <1>5, FewerRegular
<1> QED BY <1>6 DEF t

LEMMA RegularOfAppended ==
    ASSUME NEW s \in Seq(Logs), NEW log \in Logs
    PROVE  Cardinality(Regular(Append(s, log)))
             = Cardinality(Regular(s)) + IF log.important THEN 0 ELSE 1
<1> DEFINE t == Append(s, log)
<1>1. t \in Seq(Logs) /\ Len(t) = Len(s) + 1
      /\ (\A i \in 1..Len(s) : t[i] = s[i]) /\ t[Len(s) + 1] = log
  BY AppendedLog
<1> HIDE DEF t
<1>2. Regular(t) = IF log.important THEN Regular(s)
                   ELSE Regular(s) \cup {Len(s) + 1}
  BY <1>1 DEF Regular
<1>3. Len(s) + 1 \notin Regular(s)
  BY DEF Regular
<1>4. IsFiniteSet(Regular(s)) /\ Cardinality(Regular(s)) \in Nat
  BY RegularFinite
<1>5. Cardinality(Regular(s) \cup {Len(s) + 1}) = Cardinality(Regular(s)) + 1
  BY <1>3, <1>4, FS_AddElement
<1>6. Cardinality(Regular(t))
        = Cardinality(Regular(s)) + IF log.important THEN 0 ELSE 1
  BY <1>2, <1>4, <1>5
<1> QED BY <1>6 DEF t

\* Distinct numbers are counted by their places.
LEMMA CountedLogs ==
    ASSUME NEW s \in Seq(Logs), NEW k \in 0..Len(s),
           \A i, m \in DOMAIN s : i < m => s[i].id < s[m].id
    PROVE  /\ IsFiniteSet({s[i].id : i \in 1..k})
           /\ Cardinality({s[i].id : i \in 1..k}) = k
<1> DEFINE T == {s[i].id : i \in 1..k}
           f == [i \in 1..k |-> s[i].id]
<1>1. \A i \in 1..k : i \in DOMAIN s /\ s[i].id \in Nat
  <2>1. \A i \in 1..k : i \in DOMAIN s /\ s[i] \in Logs
    OBVIOUS
  <2> QED BY <2>1 DEF Logs
<1>2. \A i, m \in 1..k : s[i].id = s[m].id => i = m
  <2> SUFFICES ASSUME NEW i \in 1..k, NEW m \in 1..k, s[i].id = s[m].id
               PROVE  i = m
    OBVIOUS
  <2> QED BY <1>1
<1>3. f \in Surjection(1..k, T) /\ f \in Injection(1..k, T)
  BY <1>2 DEF Surjection, Injection, IsInjective
<1>4. IsFiniteSet(1..k) /\ Cardinality(1..k) = k
  BY FS_Interval
<1> QED BY <1>3, <1>4, FS_Surjection

-----------------------------------------------------------------------------
(* Where the writer stands. *)

\* Only logs are offered.
LEMMA LogOffered ==
    ASSUME TypeOK, Produce
    PROVE  \E log \in Logs : /\ log.id = offered + 1
                             /\ offered + 1 \in 1..MaxLogs
                             /\ Accept(log) \/ Refuse(log) \/ Evict(log)
<1>1. PICK important \in BOOLEAN :
        LET log == [id |-> offered + 1, important |-> important]
        IN  Accept(log) \/ Refuse(log) \/ Evict(log)
  BY DEF Produce
<1> DEFINE log == [id |-> offered + 1, important |-> important]
<1>2. Accept(log) \/ Refuse(log) \/ Evict(log)
  BY <1>1
<1>3. offered < MaxLogs
  BY <1>2 DEF Accept, Refuse, Evict, Offer
<1>4. log.id = offered + 1 /\ offered + 1 \in 1..MaxLogs
  <2>1. offered \in 0..MaxLogs
    BY DEF TypeOK
  <2>2. log.id = offered + 1
    OBVIOUS
  <2> QED BY <1>3, <2>1, <2>2
<1>5. log \in Logs
  BY <1>4 DEF Logs
<1> QED BY <1>2, <1>4, <1>5

LEMMA PhaseStep ==
    ASSUME TypeOK, WriterPhase, [Next]_vars
    PROVE  WriterPhase'
<1> USE DEF TypeOK, WriterPhase, queueVars, logVars, clearVars, statusVars,
        nodeVars, closeVars
<1>1. ASSUME NEW log \in Logs, Accept(log) \/ Refuse(log) \/ Evict(log)
      PROVE  WriterPhase'
  BY <1>1 DEF Accept, Refuse, Evict, Offer, Push, Woken
<1>2. ASSUME NEW c \in Clearers, Clearing(c)
      PROVE  WriterPhase'
  BY <1>2 DEF Clearing, RequestClear, ReceiveReply, TimeOut, Withdraw, Woken
<1>3. ASSUME NEW n \in Nodes, NodeStep(n)
      PROVE  WriterPhase'
  BY <1>3 DEF NodeStep, Status, ReserveProbe, PersistProbe, Edit, Delete, Woken
<1>4. CASE Sleep \/ Exit \/ Coalesce
  BY <1>4 DEF Sleep, Exit, Coalesce
<1>5. CASE BeginClear
  BY <1>5 DEF BeginClear, BarrierReached, NoClear
<1>6. ASSUME NEW taken \in SUBSET Nodes, TakeBatch(taken)
      PROVE  WriterPhase'
  BY <1>6 DEF TakeBatch
<1>7. ASSUME NEW n \in Nodes, WriteStatus(n) \/ FailStatus(n)
      PROVE  WriterPhase'
  BY <1>7 DEF WriteStatus, FailStatus
<1>8. ASSUME NEW saved \in BOOLEAN, WriteLogs(saved)
      PROVE  WriterPhase'
  BY <1>8 DEF WriteLogs
<1>9. CASE Settle
  BY <1>9 DEF Settle
<1>10. CASE Decide \/ EndClear
  BY <1>10 DEF Decide, EndClear
<1>11. ASSUME NEW saved \in BOOLEAN, DeleteLogs(saved)
       PROVE  WriterPhase'
  BY <1>11 DEF DeleteLogs
<1>12. CASE Closing
  BY <1>12 DEF Closing, Seal, FinishFlush, FlushTimesOut, Woken
<1>13. CASE UNCHANGED vars
  BY <1>13 DEF vars
<1> QED
  BY <1>1, <1>2, <1>3, <1>4, <1>5, <1>6, <1>7, <1>8, <1>9, <1>10, <1>11,
     <1>12, <1>13, LogOffered DEF Next, Produce, WriterStep

-----------------------------------------------------------------------------
(* What the queue holds, and how it is counted. *)

LEMMA Numbers ==
    ASSUME TypeOK
    PROVE  /\ jobs \in Seq(Logs) /\ Len(jobs) \in Nat
           /\ clear = [by |-> clear.by, remaining |-> clear.remaining]
           /\ clear.remaining \in 0..Capacity
           /\ written \in Nat /\ dropped \in Nat /\ offered \in 0..MaxLogs
           /\ IsFiniteSet(Regular(jobs))
           /\ Cardinality(Regular(jobs)) \in 0..Len(jobs)
<1>1. /\ jobs \in Seq(Logs)
      /\ clear = [by |-> clear.by, remaining |-> clear.remaining]
      /\ clear.remaining \in 0..Capacity
      /\ written \in 0..MaxLogs /\ dropped \in 0..MaxLogs
      /\ offered \in 0..MaxLogs
  BY DEF TypeOK
<1>2. Len(jobs) \in Nat
  BY <1>1
<1> QED BY <1>1, <1>2, RegularFinite

LEMMA CountInRange ==
    ASSUME TypeOK, clear.by = NoClearer => clear.remaining = 0,
           clear.remaining <= Len(jobs)
    PROVE  /\ Count \in 0..Len(jobs)
           /\ clear # NoClear => Count <= clear.remaining
  BY Numbers DEF Count, Least, NoClear

\* What an offered log does to the queue.
LEMMA OfferedLog ==
    ASSUME TypeOK, QueueBounded, NEW log \in Logs,
           Accept(log) \/ Refuse(log) \/ Evict(log)
    PROVE  /\ jobs' \in Seq(Logs) /\ Len(jobs') \in 0..Capacity
           /\ Cardinality(Regular(jobs')) <= Capacity - FailureReserve
           /\ offered' = offered + 1
           /\ Len(jobs') + dropped' = Len(jobs) + dropped + 1
           /\ dropped' \in Nat
           /\ UNCHANGED <<batch, written>>
<1> USE DEF queueVars, logVars, clearVars, statusVars, nodeVars, closeVars
<1>1. Len(jobs) \in Nat /\ Cardinality(Regular(jobs)) \in Nat
      /\ Len(jobs) <= Capacity
      /\ Cardinality(Regular(jobs)) <= Capacity - FailureReserve
      /\ Cardinality(Regular(jobs)) <= Len(jobs)
      /\ jobs \in Seq(Logs) /\ dropped \in Nat /\ offered \in Nat
  BY Numbers DEF QueueBounded, Regular
<1>2. CASE Accept(log)
  <2>1. jobs' = Append(jobs, log) /\ Len(jobs) < Limit(log.important)
        /\ dropped' = dropped /\ offered' = offered + 1
        /\ UNCHANGED <<batch, written>>
    BY <1>2 DEF Accept, Push, Offer
  <2>2. jobs' \in Seq(Logs) /\ Len(jobs') = Len(jobs) + 1
    BY <1>1, <2>1, AppendedLog
  <2>3. Cardinality(Regular(jobs')) = Cardinality(Regular(jobs))
                                      + IF log.important THEN 0 ELSE 1
    BY <1>1, <2>1, RegularOfAppended
  <2> QED BY <1>1, <2>1, <2>2, <2>3 DEF Limit, Logs
<1>3. CASE Refuse(log)
  <2>1. jobs' = jobs /\ dropped' = dropped + 1 /\ offered' = offered + 1
        /\ UNCHANGED <<batch, written>>
    BY <1>3 DEF Refuse, Offer
  <2> QED BY <1>1, <2>1
<1>4. CASE Evict(log)
  <2> DEFINE rest == RemoveAt(jobs, OldestRegular)
  <2>1. jobs' = Append(rest, log) /\ log.important
        /\ dropped' = dropped + 1 /\ offered' = offered + 1
        /\ UNCHANGED <<batch, written>>
        /\ \E i \in DOMAIN jobs : ~jobs[i].important
    BY <1>4 DEF Evict, Push, Offer
  <2>2. OldestRegular \in DOMAIN jobs
    BY <1>1, <2>1, OldestRegularLog
  <2>3. rest \in Seq(Logs) /\ Len(rest) = Len(jobs) - 1
    BY <1>1, <2>2, RemovedLog
  <2>4. Cardinality(Regular(rest)) <= Cardinality(Regular(jobs))
    BY <1>1, <2>2, RegularOfRemoved
  <2>5. Cardinality(Regular(rest)) \in Nat
    BY <2>3, RegularFinite
  <2> HIDE DEF rest
  <2>6. jobs' \in Seq(Logs) /\ Len(jobs') = Len(rest) + 1
    BY <2>1, <2>3, AppendedLog
  <2>7. Cardinality(Regular(jobs')) = Cardinality(Regular(rest))
    BY <2>1, <2>3, <2>5, RegularOfAppended
  <2> QED BY <1>1, <2>1, <2>3, <2>4, <2>5, <2>6, <2>7
<1> QED BY <1>2, <1>3, <1>4

\* The writer takes logs from the front and accounts for them.
LEMMA TakenBatch ==
    ASSUME TypeOK, QueueBounded, LogOrder, clear.remaining <= Len(jobs),
           clear.by = NoClearer => clear.remaining = 0,
           NEW taken \in SUBSET Nodes, TakeBatch(taken)
    PROVE  /\ jobs' \in Seq(Logs) /\ Len(jobs') \in 0..Capacity
           /\ Cardinality(Regular(jobs')) <= Capacity - FailureReserve
           /\ Len(jobs') + Cardinality(batch') = Len(jobs)
           /\ IsFiniteSet(batch') /\ Cardinality(batch') \in Nat
           /\ UNCHANGED <<offered, dropped, written>>
<1>1. Count \in 0..Len(jobs)
  BY CountInRange
<1>2. jobs' = SubSeq(jobs, Count + 1, Len(jobs))
      /\ batch' = {jobs[i].id : i \in 1..Count}
      /\ UNCHANGED <<offered, dropped, written>>
  BY DEF TakeBatch
<1>3. jobs' \in Seq(Logs) /\ Len(jobs') = Len(jobs) - Count
  BY Numbers, <1>1, <1>2, TakenLogs
<1>4. Cardinality(Regular(jobs')) <= Cardinality(Regular(jobs))
  BY Numbers, <1>1, <1>2, RegularOfTaken
<1>5. IsFiniteSet(batch') /\ Cardinality(batch') = Count
  BY Numbers, <1>1, <1>2, CountedLogs DEF LogOrder
<1>6. /\ Cardinality(Regular(jobs)) \in Nat
      /\ Cardinality(Regular(jobs')) \in Nat
      /\ Len(jobs) \in Nat /\ Len(jobs) <= Capacity
      /\ Cardinality(Regular(jobs)) <= Capacity - FailureReserve
  <2>1. Len(jobs) <= Capacity
        /\ Cardinality(Regular(jobs)) <= Capacity - FailureReserve
    BY DEF QueueBounded, Regular
  <2>2. Cardinality(Regular(jobs)) \in 0..Len(jobs) /\ Len(jobs) \in Nat
    BY Numbers
  <2>3. Cardinality(Regular(jobs')) \in 0..Len(jobs')
        /\ IsFiniteSet(Regular(jobs'))
    BY <1>3, RegularFinite
  <2>4. Cardinality(Regular(jobs')) \in Nat
    BY <2>3, FS_CardinalityType
  <2> QED BY <2>1, <2>2, <2>4
<1> HIDE DEF Count
<1> QED BY <1>1, <1>2, <1>3, <1>4, <1>5, <1>6

LEMMA BatchFinite ==
    ASSUME TypeOK
    PROVE  /\ IsFiniteSet(batch) /\ Cardinality(batch) \in Nat
           /\ IsFiniteSet(result) /\ Cardinality(result) \in Nat
<1>1. IsFiniteSet(1..MaxLogs)
  BY FS_Interval
<1>2. IsFiniteSet(batch) /\ IsFiniteSet(result)
  BY <1>1, FS_Subset DEF TypeOK
<1> QED BY <1>2, FS_CardinalityType

LEMMA SettledBatch ==
    ASSUME TypeOK, WriterPhase, Settle
    PROVE  /\ dropped' + written' = dropped + written + Cardinality(batch)
           /\ dropped' \in Nat /\ written' \in Nat
           /\ batch' = {} /\ UNCHANGED <<jobs, offered>>
<1>1. dropped' = dropped + Cardinality(batch \ result)
      /\ written' = written + Cardinality(result)
      /\ batch' = {} /\ UNCHANGED <<jobs, offered>>
  BY DEF Settle, Lost
<1>2. result = {} \/ result = batch
  BY DEF WriterPhase
<1>3. Cardinality({}) = 0
  BY FS_EmptySet
<1>4. Cardinality(batch \ result) + Cardinality(result) = Cardinality(batch)
      /\ Cardinality(batch \ result) \in Nat
  <2>1. CASE result = {}
    <3>1. batch \ result = batch
      BY <2>1
    <3> QED BY <2>1, <3>1, <1>3, BatchFinite
  <2>2. CASE result = batch
    <3>1. batch \ result = {}
      BY <2>2
    <3> QED BY <2>2, <3>1, <1>3, BatchFinite
  <2> QED BY <1>2, <2>1, <2>2
<1>5. dropped \in Nat /\ written \in Nat /\ Cardinality(result) \in Nat
  BY Numbers, BatchFinite
<1>6. dropped' \in Nat /\ written' \in Nat
  BY <1>1, <1>4, <1>5
<1> QED BY <1>1, <1>4, <1>5, <1>6

LEMMA OthersKeepQueue ==
    ASSUME [Next]_vars,
           ~\E log \in Logs : Accept(log) \/ Refuse(log) \/ Evict(log),
           ~\E taken \in SUBSET Nodes : TakeBatch(taken),
           ~Settle, TypeOK
    PROVE  UNCHANGED <<jobs, batch, offered, dropped, written>>
<1> USE DEF queueVars, logVars, clearVars, statusVars, nodeVars, closeVars
<1>1. ASSUME NEW c \in Clearers, Clearing(c)
      PROVE  UNCHANGED <<jobs, batch, offered, dropped, written>>
  BY <1>1 DEF Clearing, RequestClear, ReceiveReply, TimeOut, Withdraw
<1>2. ASSUME NEW n \in Nodes, NodeStep(n)
      PROVE  UNCHANGED <<jobs, batch, offered, dropped, written>>
  BY <1>2 DEF NodeStep, Status, ReserveProbe, PersistProbe, Edit, Delete
<1>3. CASE Sleep \/ Exit \/ Coalesce \/ BeginClear \/ Decide \/ EndClear
  BY <1>3 DEF Sleep, Exit, Coalesce, BeginClear, Decide, EndClear
<1>4. ASSUME NEW n \in Nodes, WriteStatus(n) \/ FailStatus(n)
      PROVE  UNCHANGED <<jobs, batch, offered, dropped, written>>
  BY <1>4 DEF WriteStatus, FailStatus
<1>5. ASSUME NEW saved \in BOOLEAN, WriteLogs(saved) \/ DeleteLogs(saved)
      PROVE  UNCHANGED <<jobs, batch, offered, dropped, written>>
  BY <1>5 DEF WriteLogs, DeleteLogs
<1>6. CASE Closing
  BY <1>6 DEF Closing, Seal, FinishFlush, FlushTimesOut
<1>7. CASE UNCHANGED vars
  BY <1>7 DEF vars
<1>8. ~Produce
  BY LogOffered
<1> QED
  BY <1>1, <1>2, <1>3, <1>4, <1>5, <1>6, <1>7, <1>8 DEF Next, WriterStep

LEMMA QueueStep ==
    ASSUME TypeOK, QueueBounded, EveryLogIsCounted, WriterPhase, LogOrder,
           clear.remaining <= Len(jobs),
           clear.by = NoClearer => clear.remaining = 0, [Next]_vars
    PROVE  /\ jobs' \in Seq(Logs) /\ Len(jobs') \in 0..Capacity
           /\ dropped' \in Nat /\ written' \in Nat
           /\ Cardinality(batch') \in Nat
           /\ QueueBounded' /\ EveryLogIsCounted'
<1>0. /\ jobs \in Seq(Logs) /\ Len(jobs) \in 0..Capacity
      /\ Cardinality(Regular(jobs)) <= Capacity - FailureReserve
      /\ dropped \in Nat /\ written \in Nat /\ offered \in Nat
      /\ Cardinality(batch) \in Nat
      /\ Cardinality({}) = 0
  BY Numbers, BatchFinite, FS_EmptySet DEF QueueBounded, Regular
<1>1. ASSUME NEW log \in Logs, Accept(log) \/ Refuse(log) \/ Evict(log)
      PROVE  /\ jobs' \in Seq(Logs) /\ Len(jobs') \in 0..Capacity
             /\ Cardinality(Regular(jobs')) <= Capacity - FailureReserve
             /\ dropped' \in Nat /\ written' \in Nat
             /\ Cardinality(batch') \in Nat
             /\ EveryLogIsCounted'
  <2>1. /\ jobs' \in Seq(Logs) /\ Len(jobs') \in 0..Capacity
        /\ Cardinality(Regular(jobs')) <= Capacity - FailureReserve
        /\ offered' = offered + 1
        /\ Len(jobs') + dropped' = Len(jobs) + dropped + 1
        /\ dropped' \in Nat
        /\ batch' = batch /\ written' = written
    BY <1>1, OfferedLog
  <2>2. offered = Len(jobs) + Cardinality(batch) + written + dropped
    BY DEF EveryLogIsCounted
  <2>3. Len(jobs) \in Nat /\ Len(jobs') \in Nat /\ Cardinality(batch) \in Nat
        /\ written \in Nat /\ dropped \in Nat
    BY <1>0, <2>1
  <2>4. offered' = Len(jobs') + Cardinality(batch) + written + dropped'
    <3>1. Len(jobs') + dropped' = Len(jobs) + dropped + 1 /\ dropped' \in Nat
          /\ offered' = offered + 1 /\ offered \in Nat
      BY <1>0, <2>1
    <3>2. PICK k \in Nat : k = Len(jobs)
      BY <2>3, <3>1
    <3>3. PICK l \in Nat : l = Len(jobs')
      BY <2>3, <3>1
    <3>4. PICK b \in Nat : b = Cardinality(batch)
      BY <2>3, <3>1
    <3>5. PICK w \in Nat : w = written
      BY <2>3, <3>1
    <3>6. PICK d \in Nat : d = dropped
      BY <2>3, <3>1
    <3>7. PICK e \in Nat : e = dropped'
      BY <2>3, <3>1
    <3>8. l + e = k + d + 1 /\ offered' = k + b + w + d + 1
      BY <2>2, <3>1, <3>2, <3>3, <3>4, <3>5, <3>6, <3>7
    <3>9. offered' = l + b + w + e
      BY <3>8
    <3> QED BY <3>3, <3>4, <3>5, <3>7, <3>9
  <2>5. EveryLogIsCounted'
    BY <2>1, <2>4 DEF EveryLogIsCounted
  <2> QED BY <1>0, <2>1, <2>5
<1>2. ASSUME NEW taken \in SUBSET Nodes, TakeBatch(taken)
      PROVE  /\ jobs' \in Seq(Logs) /\ Len(jobs') \in 0..Capacity
             /\ Cardinality(Regular(jobs')) <= Capacity - FailureReserve
             /\ dropped' \in Nat /\ written' \in Nat
             /\ Cardinality(batch') \in Nat
             /\ EveryLogIsCounted'
  <2>1. batch = {}
    BY <1>2 DEF TakeBatch, WriterPhase
  <2>2. /\ jobs' \in Seq(Logs) /\ Len(jobs') \in 0..Capacity
        /\ Cardinality(Regular(jobs')) <= Capacity - FailureReserve
        /\ Len(jobs') + Cardinality(batch') = Len(jobs)
        /\ Cardinality(batch') \in Nat
        /\ offered' = offered /\ dropped' = dropped /\ written' = written
    BY <1>2, TakenBatch
  <2>3. offered = Len(jobs) + 0 + written + dropped
    <3>1. Cardinality(batch) = 0
      BY <1>0, <2>1
    <3> QED BY <3>1 DEF EveryLogIsCounted
  <2>4. Len(jobs) \in Nat /\ Len(jobs') \in Nat
        /\ written \in Nat /\ dropped \in Nat
    BY <1>0, <2>2
  <2>5. offered' = Len(jobs') + Cardinality(batch') + written + dropped
    <3>1. Len(jobs') + Cardinality(batch') = Len(jobs)
          /\ Cardinality(batch') \in Nat /\ offered' = offered
      BY <2>2
    <3>2. PICK k \in Nat : k = Len(jobs)
      BY <2>4, <3>1
    <3>3. PICK l \in Nat : l = Len(jobs')
      BY <2>4, <3>1
    <3>4. PICK b \in Nat : b = Cardinality(batch')
      BY <2>4, <3>1
    <3>5. PICK w \in Nat : w = written
      BY <2>4, <3>1
    <3>6. PICK d \in Nat : d = dropped
      BY <2>4, <3>1
    <3>7. l + b = k /\ offered' = k + 0 + w + d
      BY <2>3, <3>1, <3>2, <3>3, <3>4, <3>5, <3>6
    <3>8. offered' = l + b + w + d
      BY <3>7
    <3> QED BY <3>3, <3>4, <3>5, <3>6, <3>8
  <2>6. EveryLogIsCounted'
    BY <2>2, <2>5 DEF EveryLogIsCounted
  <2> QED BY <1>0, <2>2, <2>6
<1>3. CASE Settle
  <2>1. /\ dropped' + written' = dropped + written + Cardinality(batch)
        /\ dropped' \in Nat /\ written' \in Nat
        /\ offered' = offered
    BY <1>3, SettledBatch
  <2>0. batch' = {} /\ jobs' = jobs
    BY <1>3, SettledBatch
  <2>2. offered = Len(jobs) + Cardinality(batch) + written + dropped
    BY DEF EveryLogIsCounted
  <2>3. Len(jobs) \in Nat /\ Cardinality(batch) \in Nat
        /\ written \in Nat /\ dropped \in Nat
    BY <1>0
  <2>4. offered' = Len(jobs) + 0 + written' + dropped'
    <3>1. PICK k \in Nat : k = Len(jobs)
      BY <2>1, <2>3
    <3>2. PICK b \in Nat : b = Cardinality(batch)
      BY <2>1, <2>3
    <3>3. PICK w \in Nat : w = written
      BY <2>1, <2>3
    <3>4. PICK d \in Nat : d = dropped
      BY <2>1, <2>3
    <3>5. PICK v \in Nat : v = written'
      BY <2>1, <2>3
    <3>6. PICK e \in Nat : e = dropped'
      BY <2>1, <2>3
    <3>7. e + v = d + w + b /\ offered' = k + b + w + d
      BY <2>1, <2>2, <3>1, <3>2, <3>3, <3>4, <3>5, <3>6
    <3>8. offered' = k + 0 + v + e
      BY <3>7
    <3> QED BY <3>1, <3>5, <3>6, <3>8
  <2>5. Cardinality(batch') = 0
    BY <1>0, <2>0
  <2>6. EveryLogIsCounted'
    BY <2>0, <2>4, <2>5 DEF EveryLogIsCounted
  <2>7. jobs' \in Seq(Logs) /\ Len(jobs') \in 0..Capacity
        /\ Cardinality(Regular(jobs')) <= Capacity - FailureReserve
    BY <1>0, <2>0
  <2> QED BY <2>1, <2>5, <2>6, <2>7 DEF QueueBounded, Regular
<1>4. CASE UNCHANGED <<jobs, batch, offered, dropped, written>>
  <2>1. jobs' = jobs /\ batch' = batch /\ offered' = offered
        /\ dropped' = dropped /\ written' = written
    BY <1>4
  <2>2. EveryLogIsCounted'
    BY <2>1 DEF EveryLogIsCounted
  <2>3. jobs' \in Seq(Logs) /\ Len(jobs') \in 0..Capacity
        /\ Cardinality(Regular(jobs')) <= Capacity - FailureReserve
    BY <1>0, <2>1
  <2> QED BY <1>0, <2>1, <2>2, <2>3 DEF QueueBounded, Regular
<1> QED
  BY <1>1, <1>2, <1>3, <1>4, OthersKeepQueue DEF QueueBounded, Regular

-----------------------------------------------------------------------------
(* Types. *)

\* How many statuses could not be written.
LEMMA RetryNumber ==
    ASSUME NEW held \in [Nodes -> Changes]
    PROVE  /\ IsFiniteSet({n \in Nodes : held[n] # NoChange})
           /\ Cardinality({n \in Nodes : held[n] # NoChange}) \in Nat
           /\ Cardinality({n \in Nodes : held[n] # NoChange}) = 0
                <=> held = Nothing
<1> DEFINE S == {n \in Nodes : held[n] # NoChange}
<1>1. IsFiniteSet(S) /\ Cardinality(S) \in Nat
  <2>1. S \in SUBSET Nodes
    OBVIOUS
  <2> QED BY <2>1, FS_Subset, FS_CardinalityType
<1>2. Cardinality(S) = 0 <=> S = {}
  BY <1>1, FS_EmptySet
<1>3. S = {} <=> held = Nothing
  BY DEF Nothing
<1> QED BY <1>1, <1>2, <1>3

LEMMA FailedNumber ==
    ASSUME TypeOK
    PROVE  /\ errors \in Nat /\ Failed \in Nat /\ errors <= Failed
           /\ Failed = errors <=> retry = Nothing
           /\ ErrorsOfBatch = IF result # batch THEN Failed + 1 ELSE Failed
<1>1. errors \in 0..MaxErrors /\ retry \in [Nodes -> Changes]
  BY DEF TypeOK
<1> DEFINE k == Cardinality({n \in Nodes : retry[n] # NoChange})
<1>2. k \in Nat /\ (k = 0 <=> retry = Nothing)
  BY <1>1, RetryNumber
<1>3. Failed = errors + k
  BY DEF Failed
<1> HIDE DEF k
<1>4. Failed \in Nat /\ errors <= Failed /\ (Failed = errors <=> k = 0)
  BY <1>1, <1>2, <1>3
<1>5. ErrorsOfBatch = IF result # batch THEN Failed + 1 ELSE Failed
  BY <1>4 DEF ErrorsOfBatch
<1> QED BY <1>1, <1>2, <1>4, <1>5

LEMMA QueuedNumbers ==
    ASSUME TypeOK
    PROVE  /\ DOMAIN jobs = 1..Len(jobs)
           /\ \A i \in DOMAIN jobs : jobs[i].id \in 1..MaxLogs
           /\ Queued \subseteq 1..MaxLogs
<1>1. jobs \in Seq(Logs)
  BY Numbers
<1>2. \A i \in DOMAIN jobs : jobs[i] \in Logs
  BY <1>1
<1> QED BY <1>1, <1>2 DEF Logs, Queued

LEMMA StatusTypes ==
    ASSUME TypeOK, NEW n \in Nodes
    PROVE  /\ NoChange \in Changes /\ Nothing \in [Nodes -> Changes]
           /\ gen[n] \in 0..MaxGen /\ revision[n] \in 0..MaxRevision
           /\ revision[n] < MaxRevision =>
                [gen |-> gen[n], rev |-> revision[n] + 1] \in Changes
<1>1. gen[n] \in 0..MaxGen /\ revision[n] \in 0..MaxRevision
  BY DEF TypeOK
<1> QED BY <1>1 DEF NoChange, Changes, Nothing

LEMMA NodeStepTypes ==
    ASSUME TypeOK, NEW n \in Nodes, NodeStep(n)
    PROVE  TypeOK'
<1> USE DEF queueVars, logVars, clearVars, statusVars, nodeVars, closeVars
<1>0. /\ NoChange \in Changes
      /\ gen[n] \in 0..MaxGen /\ revision[n] \in 0..MaxRevision
      /\ revision[n] < MaxRevision =>
           /\ revision[n] + 1 \in 0..MaxRevision
           /\ [gen |-> gen[n], rev |-> revision[n] + 1] \in Changes
  BY StatusTypes
<1>1. CASE Status(n)
  <2>1. revision' \in [Nodes -> 0..MaxRevision]
    BY <1>0, <1>1 DEF Status, Reserve, TypeOK
  <2>2. statuses' \in [Nodes -> Changes]
    BY <1>0, <1>1 DEF Status, TypeOK
  <2>3. latest' \in [Nodes -> {"nobody", "worker", "probe"}]
        /\ worker' \in {"look", "asleep", "coalescing", "writing", "settling",
                        "deciding", "deleting", "replied", "exited"}
    BY <1>1 DEF Status, TypeOK, Woken
  <2> QED BY <1>1, <2>1, <2>2, <2>3 DEF Status, TypeOK
<1>2. CASE ReserveProbe(n)
  <2>1. revision' \in [Nodes -> 0..MaxRevision]
    BY <1>0, <1>2 DEF ReserveProbe, Reserve, TypeOK
  <2>2. probeWrite' \in [Nodes -> Changes]
    BY <1>0, <1>2 DEF ReserveProbe, TypeOK
  <2>3. latest' \in [Nodes -> {"nobody", "worker", "probe"}]
    BY <1>2 DEF ReserveProbe, TypeOK
  <2> QED BY <1>2, <2>1, <2>2, <2>3 DEF ReserveProbe, TypeOK
<1>3. ASSUME NEW saved \in BOOLEAN, PersistProbe(n, saved)
      PROVE  TypeOK'
  <2>1. row' \in [Nodes -> Changes] /\ probeWrite' \in [Nodes -> Changes]
    BY <1>0, <1>3 DEF PersistProbe, TypeOK
  <2> QED BY <1>3, <2>1 DEF PersistProbe, TypeOK
<1>4. CASE Edit(n)
  <2>0. gen[n] + 1 \in 0..MaxGen
        /\ [gen |-> gen[n] + 1, rev |-> 0] \in Changes
    BY <1>0, <1>4 DEF Edit, Changes
  <2>1. gen' \in [Nodes -> 0..MaxGen]
    BY <2>0, <1>4 DEF Edit, TypeOK
  <2>2. row' \in [Nodes -> Changes]
    BY <2>0, <1>4 DEF Edit, TypeOK
  <2>3. latest' \in [Nodes -> {"nobody", "worker", "probe"}]
    BY <1>4 DEF Edit, TypeOK
  <2> QED BY <1>4, <2>1, <2>2, <2>3 DEF Edit, TypeOK
<1>5. CASE Delete(n)
  <2>0. 0 \in 0..MaxGen /\ 0 \in 0..MaxRevision
    OBVIOUS
  <2>1. gen' \in [Nodes -> 0..MaxGen] /\ revision' \in [Nodes -> 0..MaxRevision]
    BY <2>0, <1>5 DEF Delete, TypeOK
  <2>2. row' \in [Nodes -> Changes]
    BY <1>0, <1>5 DEF Delete, TypeOK
  <2>3. latest' \in [Nodes -> {"nobody", "worker", "probe"}]
    BY <1>5 DEF Delete, TypeOK
  <2> QED BY <1>5, <2>1, <2>2, <2>3 DEF Delete, TypeOK
<1> QED BY <1>1, <1>2, <1>3, <1>4, <1>5 DEF NodeStep

LEMMA ClearingTypes ==
    ASSUME TypeOK, QueueBounded, NEW c \in Clearers, Clearing(c)
    PROVE  TypeOK'
<1> USE DEF queueVars, logVars, clearVars, statusVars, nodeVars, closeVars
<1>1. CASE RequestClear(c)
  <2>0. Len(jobs) \in 0..Capacity
    BY Numbers DEF QueueBounded
  <2>1. clear' \in [by : Clearers \cup {NoClearer}, remaining : 0..Capacity]
    BY <1>1, <2>0 DEF RequestClear, Barrier
  <2>2. mark' \in [Clearers -> 0..MaxLogs]
    BY <1>1 DEF RequestClear, TypeOK
  <2>3. /\ client' \in [Clearers -> {"idle", "waiting", "giving up",
                          "cleared", "refused", "withdrawn", "uncertain"}]
        /\ cancelled' \in [Clearers -> BOOLEAN]
        /\ reply' \in [Clearers -> {"none", "cleared", "refused"}]
    BY <1>1 DEF RequestClear, TypeOK
  <2> QED BY <1>1, <2>1, <2>2, <2>3 DEF RequestClear, TypeOK, Woken
<1>2. CASE ReceiveReply(c)
  BY <1>2 DEF ReceiveReply, TypeOK
<1>3. CASE TimeOut(c)
  BY <1>3 DEF TimeOut, TypeOK
<1>4. CASE Withdraw(c)
  <2>1. NoClear \in [by : Clearers \cup {NoClearer}, remaining : 0..Capacity]
    BY DEF NoClear
  <2> QED BY <1>4, <2>1 DEF Withdraw, TypeOK
<1> QED BY <1>1, <1>2, <1>3, <1>4 DEF Clearing

LEMMA BarrierTypes ==
    ASSUME TypeOK, NEW log \in Logs, Evict(log),
           clear.by = NoClearer => clear.remaining = 0
    PROVE  clear' \in [by : Clearers \cup {NoClearer}, remaining : 0..Capacity]
<1>1. OldestRegular \in DOMAIN jobs
  BY OldestRegularLog DEF Evict, TypeOK
<1>2. OldestRegular \in Nat \ {0}
  BY <1>1, Numbers
<1>3. clear.remaining \in 0..Capacity /\ clear.by \in Clearers \cup {NoClearer}
      /\ clear \in [by : Clearers \cup {NoClearer}, remaining : 0..Capacity]
  BY DEF TypeOK
<1>4. clear' = IF clear # NoClear /\ OldestRegular <= clear.remaining
               THEN [clear EXCEPT !.remaining = @ - 1] ELSE clear
  BY DEF Evict, BarrierWithout
<1> HIDE DEF OldestRegular
<1>5. OldestRegular <= clear.remaining => clear.remaining - 1 \in 0..Capacity
  BY <1>2, <1>3
<1> QED BY <1>3, <1>4, <1>5

LEMMA ProduceTypes ==
    ASSUME TypeOK, clear.by = NoClearer => clear.remaining = 0,
           NEW log \in Logs, Accept(log) \/ Refuse(log) \/ Evict(log),
           jobs' \in Seq(Logs), dropped' \in 0..MaxLogs
    PROVE  TypeOK'
<1> USE DEF queueVars, logVars, clearVars, statusVars, nodeVars, closeVars
<1>1. Offer(log)
  BY DEF Accept, Refuse, Evict
<1>2. offered' \in 0..MaxLogs
  <2>1. offered \in 0..MaxLogs
    BY DEF TypeOK
  <2>2. offered < MaxLogs /\ offered' = offered + 1
    BY <1>1 DEF Offer
  <2> QED BY <2>1, <2>2
<1>3. clear' \in [by : Clearers \cup {NoClearer}, remaining : 0..Capacity]
  <2>1. CASE Evict(log)
    BY <2>1, BarrierTypes
  <2> QED BY <2>1 DEF Accept, Refuse, TypeOK
<1>4. worker' \in {"look", "asleep", "coalescing", "writing", "settling",
                   "deciding", "deleting", "replied", "exited"}
  BY DEF Accept, Refuse, Evict, Push, Woken, TypeOK
<1> QED BY <1>1, <1>2, <1>3, <1>4 DEF Offer, TypeOK

LEMMA ClosingTypes ==
    ASSUME TypeOK, Closing
    PROVE  TypeOK'
<1> USE DEF queueVars, logVars, clearVars, statusVars, nodeVars, closeVars
<1>1. CASE Seal
  <2>1. Queued \cup batch \in SUBSET (1..MaxLogs)
    <3>1. batch \in SUBSET (1..MaxLogs)
      BY DEF TypeOK
    <3> QED BY <3>1, QueuedNumbers
  <2>2. sealed' \in [errors : 0..MaxErrors, logs : SUBSET (1..MaxLogs),
                     nodes : SUBSET Nodes]
    BY <1>1, <2>1 DEF Seal, TypeOK
  <2> QED BY <1>1, <2>2 DEF Seal, TypeOK, Woken
<1>2. CASE FinishFlush \/ FlushTimesOut
  BY <1>2 DEF FinishFlush, FlushTimesOut, Verdict, TypeOK
<1> QED BY <1>1, <1>2 DEF Closing

LEMMA WriterTypes ==
    ASSUME TypeOK, WriterPhase, ErrorBudget, WriterStep,
           clear.by = NoClearer => clear.remaining = 0,
           clear.remaining <= Len(jobs),
           jobs' \in Seq(Logs), written' \in 0..MaxLogs,
           dropped' \in 0..MaxLogs
    PROVE  TypeOK'
<1> USE DEF queueVars, logVars, clearVars, statusVars, nodeVars, closeVars
<1>1. CASE Sleep \/ Exit \/ Coalesce \/ Decide
  BY <1>1 DEF Sleep, Exit, Coalesce, Decide, TypeOK
<1>2. CASE BeginClear
  <2>1. NoClear \in [by : Clearers \cup {NoClearer}, remaining : 0..Capacity]
    BY DEF NoClear
  <2>2. clear.by \in Clearers \cup {NoClearer}
    BY DEF TypeOK
  <2> QED BY <1>2, <2>1, <2>2 DEF BeginClear, TypeOK
<1>3. ASSUME NEW taken \in SUBSET Nodes, TakeBatch(taken)
      PROVE  TypeOK'
  <2>1. Count \in 0..Len(jobs) /\ (clear # NoClear => Count <= clear.remaining)
    BY CountInRange
  <2>2. batch' \in SUBSET (1..MaxLogs)
    <3>1. \A i \in 1..Count : i \in DOMAIN jobs
      <4>1. DOMAIN jobs = 1..Len(jobs) /\ Len(jobs) \in Nat
        BY Numbers, QueuedNumbers
      <4> HIDE DEF Count
      <4> QED BY <2>1, <4>1
    <3> QED BY <1>3, <3>1, QueuedNumbers DEF TakeBatch
  <2>3. clear' \in [by : Clearers \cup {NoClearer}, remaining : 0..Capacity]
    <3>1. clear' = IF clear = NoClear THEN clear
                   ELSE [clear EXCEPT !.remaining = @ - Count]
      BY <1>3 DEF TakeBatch
    <3>2. clear \in [by : Clearers \cup {NoClearer}, remaining : 0..Capacity]
      BY DEF TypeOK
    <3>3. Count \in Nat
      BY <2>1, Numbers
    <3>4. clear # NoClear => clear.remaining - Count \in 0..Capacity
      BY <2>1, <3>2, <3>3
    <3> QED BY <3>1, <3>2, <3>4
  <2>4. statuses' \in [Nodes -> Changes] /\ flight' \in [Nodes -> Changes]
    BY <1>3, StatusTypes DEF TakeBatch, TypeOK
  <2> QED BY <1>3, <2>2, <2>3, <2>4 DEF TakeBatch, TypeOK
<1>4. ASSUME NEW n \in Nodes, WriteStatus(n) \/ FailStatus(n)
      PROVE  TypeOK'
  <2>1. NoChange \in Changes
    BY StatusTypes
  <2>2. CASE WriteStatus(n)
    <3>1. row' \in [Nodes -> Changes] /\ flight' \in [Nodes -> Changes]
      BY <2>1, <2>2 DEF WriteStatus, TypeOK
    <3> QED BY <2>2, <3>1 DEF WriteStatus, TypeOK
  <2>3. CASE FailStatus(n)
    <3>1. retry' \in [Nodes -> Changes] /\ flight' \in [Nodes -> Changes]
      BY <2>1, <2>3 DEF FailStatus, TypeOK
    <3> QED BY <2>3, <3>1 DEF FailStatus, TypeOK
  <2> QED BY <1>4, <2>2, <2>3
<1>5. ASSUME NEW saved \in BOOLEAN, WriteLogs(saved)
      PROVE  TypeOK'
  BY <1>5 DEF WriteLogs, TypeOK
<1>6. CASE Settle
  <2>1. errors' \in 0..MaxErrors
    BY <1>6, FailedNumber DEF Settle, ErrorBudget
  <2>2. statuses' \in [Nodes -> Changes]
    BY <1>6 DEF Settle, Retried, TypeOK
  <2>3. retry' \in [Nodes -> Changes]
    BY <1>6 DEF Settle, Nothing, NoChange, Changes
  <2> QED BY <1>6, <2>1, <2>2, <2>3 DEF Settle, TypeOK
<1>7. ASSUME NEW saved \in BOOLEAN, DeleteLogs(saved)
      PROVE  TypeOK'
  BY <1>7 DEF DeleteLogs, TypeOK
<1>8. CASE EndClear
  BY <1>8 DEF EndClear, TypeOK
<1> QED
  BY <1>1, <1>2, <1>3, <1>4, <1>5, <1>6, <1>7, <1>8 DEF WriterStep

LEMMA TypeStep ==
    ASSUME QueueInv, WriterPhase, ErrorBudget, LogOrder,
           clear.by = NoClearer => clear.remaining = 0,
           clear.remaining <= Len(jobs), [Next]_vars
    PROVE  QueueInv'
<1> USE DEF QueueInv
<1>1. /\ jobs' \in Seq(Logs) /\ Len(jobs') \in Nat
      /\ dropped' \in Nat /\ written' \in Nat /\ Cardinality(batch') \in Nat
      /\ QueueBounded' /\ EveryLogIsCounted'
  BY QueueStep
<1>2. offered' \in 0..MaxLogs
  <2>1. offered \in 0..MaxLogs
    BY Numbers
  <2>2. ASSUME NEW log \in Logs, Offer(log)
        PROVE  offered' \in 0..MaxLogs
    BY <2>1, <2>2 DEF Offer
  <2>3. ASSUME NEW taken \in SUBSET Nodes, TakeBatch(taken)
        PROVE  offered' = offered
    BY <2>3 DEF TakeBatch
  <2>4. Settle => offered' = offered
    BY DEF Settle
  <2> QED
    BY <2>1, <2>2, <2>3, <2>4, OthersKeepQueue DEF Accept, Refuse, Evict
<1>3. dropped' \in 0..MaxLogs /\ written' \in 0..MaxLogs
  BY <1>1, <1>2 DEF EveryLogIsCounted
<1>4. TypeOK'
  <2>1. CASE Produce
    BY <1>1, <1>3, <2>1, LogOffered, ProduceTypes
  <2>2. ASSUME NEW c \in Clearers, Clearing(c)
        PROVE  TypeOK'
    BY <2>2, ClearingTypes
  <2>3. ASSUME NEW n \in Nodes, NodeStep(n)
        PROVE  TypeOK'
    BY <2>3, NodeStepTypes
  <2>4. CASE WriterStep
    BY <1>1, <1>3, <2>4, WriterTypes
  <2>5. CASE Closing
    BY <2>5, ClosingTypes
  <2>6. CASE UNCHANGED vars
    BY <2>6 DEF vars, queueVars, logVars, clearVars, statusVars, nodeVars,
                closeVars, TypeOK
  <2> QED BY <2>1, <2>2, <2>3, <2>4, <2>5, <2>6 DEF Next
<1> QED BY <1>1, <1>4

-----------------------------------------------------------------------------
(* Errors and requests. *)

LEMMA BudgetStep ==
    ASSUME TypeOK, WriterPhase, ErrorBudget, [Next]_vars
    PROVE  ErrorBudget'
<1> USE DEF queueVars, logVars, clearVars, statusVars, nodeVars, closeVars
<1>0. /\ errors \in Nat /\ Failed \in Nat
      /\ ErrorsOfBatch = IF result # batch THEN Failed + 1 ELSE Failed
  BY FailedNumber
<1>1. ASSUME UNCHANGED <<errors, retry, result, batch>>,
             worker' = "settling" => worker = "settling",
             worker = "settling" => worker' = "settling"
      PROVE  ErrorBudget'
  <2>1. Failed' = Failed
    BY <1>1 DEF Failed
  <2>2. ErrorsOfBatch' = ErrorsOfBatch
    BY <1>1, <2>1 DEF ErrorsOfBatch
  <2> QED BY <1>1, <2>1, <2>2 DEF ErrorBudget
<1>2. ASSUME NEW log \in Logs, Accept(log) \/ Refuse(log) \/ Evict(log)
      PROVE  ErrorBudget'
  BY <1>1, <1>2 DEF Accept, Refuse, Evict, Offer, Push, Woken
<1>3. ASSUME NEW c \in Clearers, Clearing(c)
      PROVE  ErrorBudget'
  BY <1>1, <1>3 DEF Clearing, RequestClear, ReceiveReply, TimeOut, Withdraw,
                    Woken
<1>4. ASSUME NEW n \in Nodes, NodeStep(n)
      PROVE  ErrorBudget'
  BY <1>1, <1>4 DEF NodeStep, Status, ReserveProbe, PersistProbe, Edit,
                    Delete, Woken
<1>5. CASE Sleep \/ Exit \/ Coalesce \/ BeginClear \/ Decide \/ EndClear
  BY <1>1, <1>5 DEF Sleep, Exit, Coalesce, BeginClear, Decide, EndClear
<1>6. ASSUME NEW taken \in SUBSET Nodes, TakeBatch(taken)
      PROVE  ErrorBudget'
  <2>1. Failed' = Failed /\ worker \notin {"settling"} /\ worker' = "writing"
    BY <1>6 DEF TakeBatch, Failed
  <2> QED BY <2>1 DEF ErrorBudget
<1>7. ASSUME NEW n \in Nodes, WriteStatus(n)
      PROVE  ErrorBudget'
  BY <1>1, <1>7 DEF WriteStatus
<1>8. ASSUME NEW n \in Nodes, FailStatus(n)
      PROVE  ErrorBudget'
  <2> DEFINE S == {m \in Nodes : retry[m] # NoChange}
             T == {m \in Nodes : retry'[m] # NoChange}
  <2>1. retry' = [retry EXCEPT ![n] = flight[n]] /\ errors' = errors
        /\ Failed < MaxErrors /\ worker' = "writing"
    BY <1>8 DEF FailStatus
  <2>2. T \subseteq S \cup {n}
    BY <2>1 DEF TypeOK
  <2>3. IsFiniteSet(S) /\ Cardinality(S) \in Nat
    BY RetryNumber DEF TypeOK
  <2>4. IsFiniteSet(S \cup {n}) /\ Cardinality(S \cup {n}) \in Nat
        /\ Cardinality(S \cup {n}) <= Cardinality(S) + 1
    <3>1. IsFiniteSet(S \cup {n})
          /\ Cardinality(S \cup {n})
               = IF n \in S THEN Cardinality(S) ELSE Cardinality(S) + 1
      BY <2>3, FS_AddElement
    <3> HIDE DEF S
    <3> QED BY <2>3, <3>1
  <2>5. IsFiniteSet(T) /\ Cardinality(T) <= Cardinality(S \cup {n})
    BY <2>2, <2>4, FS_Subset
  <2>6. Cardinality(T) \in Nat
    BY <2>5, FS_CardinalityType
  <2>7. Failed = errors + Cardinality(S) /\ Failed' = errors + Cardinality(T)
    BY <2>1 DEF Failed
  <2> HIDE DEF S, T
  <2>8. Failed' <= MaxErrors
    BY <1>0, <2>1, <2>3, <2>4, <2>5, <2>6, <2>7
  <2> QED BY <2>1, <2>8 DEF ErrorBudget
<1>9. ASSUME NEW saved \in BOOLEAN, WriteLogs(saved)
      PROVE  ErrorBudget'
  <2>1. /\ worker = "writing" /\ worker' = "settling"
        /\ saved \/ Failed < MaxErrors
        /\ saved => result' = batch'
        /\ Failed' = Failed
    BY <1>9 DEF WriteLogs, Failed
  <2>2. Failed <= MaxErrors
    BY <2>1 DEF ErrorBudget
  <2>3. ErrorsOfBatch' = Failed + IF result' # batch' THEN 1 ELSE 0
    BY <2>1 DEF ErrorsOfBatch
  <2>4. ErrorsOfBatch' <= MaxErrors
    BY <1>0, <2>1, <2>2, <2>3
  <2> QED BY <2>1, <2>4 DEF ErrorBudget
<1>10. CASE Settle
  <2>1. errors' = ErrorsOfBatch /\ retry' = Nothing /\ worker' = "look"
        /\ ErrorsOfBatch <= MaxErrors
    BY <1>10 DEF Settle, ErrorBudget
  <2>2. Nothing \in [Nodes -> Changes]
    BY DEF Nothing, NoChange, Changes
  <2>3. Cardinality({n \in Nodes : Nothing[n] # NoChange}) = 0
    BY <2>2, RetryNumber
  <2>4. Failed' = ErrorsOfBatch + 0
    BY <2>1, <2>3 DEF Failed
  <2>5. Failed' <= MaxErrors
    BY <1>0, <2>1, <2>4
  <2> QED BY <2>1, <2>5 DEF ErrorBudget
<1>11. ASSUME NEW saved \in BOOLEAN, DeleteLogs(saved)
       PROVE  ErrorBudget'
  BY <1>1, <1>11 DEF DeleteLogs
<1>12. CASE Closing
  BY <1>1, <1>12 DEF Closing, Seal, FinishFlush, FlushTimesOut, Woken
<1>13. CASE UNCHANGED vars
  BY <1>1, <1>13 DEF vars
<1> QED
  BY <1>2, <1>3, <1>4, <1>5, <1>6, <1>7, <1>8, <1>9, <1>10, <1>11, <1>12,
     <1>13, LogOffered DEF Next, WriterStep

\* A log that evicts another one.
LEMMA Evicted ==
    ASSUME TypeOK, clear.by = NoClearer => clear.remaining = 0,
           NEW log \in Logs, Evict(log)
    PROVE  \E k \in 1..Len(jobs) :
             /\ ~jobs[k].important
             /\ clear'.by = clear.by
             /\ clear'.remaining = IF k <= clear.remaining
                                   THEN clear.remaining - 1
                                   ELSE clear.remaining
             /\ Len(jobs') = Len(jobs)
             /\ \A i \in 1..(Len(jobs) - 1) :
                  jobs'[i] = IF i < k THEN jobs[i] ELSE jobs[i + 1]
             /\ jobs'[Len(jobs)] = log
<1>1. \E i \in DOMAIN jobs : ~jobs[i].important
  BY DEF Evict
<1> DEFINE k == OldestRegular
<1>2. k \in 1..Len(jobs) /\ ~jobs[k].important
  BY <1>1, Numbers, QueuedNumbers, OldestRegularLog
<1>3. jobs' = Append(RemoveAt(jobs, k), log)
      /\ clear' = IF clear # NoClear /\ k <= clear.remaining
                  THEN [clear EXCEPT !.remaining = @ - 1] ELSE clear
  BY DEF Evict, Push, BarrierWithout
<1> HIDE DEF k
<1>4. k \in DOMAIN jobs /\ Len(jobs) \in Nat /\ jobs \in Seq(Logs)
  BY <1>2, Numbers, QueuedNumbers
<1>5. /\ RemoveAt(jobs, k) \in Seq(Logs)
      /\ Len(RemoveAt(jobs, k)) = Len(jobs) - 1
      /\ \A i \in 1..(Len(jobs) - 1) :
           RemoveAt(jobs, k)[i] = IF i < k THEN jobs[i] ELSE jobs[i + 1]
  BY <1>4, RemovedLog
<1>6. /\ Len(jobs') = Len(jobs)
      /\ \A i \in 1..(Len(jobs) - 1) :
           jobs'[i] = IF i < k THEN jobs[i] ELSE jobs[i + 1]
      /\ jobs'[Len(jobs)] = log
  BY <1>3, <1>4, <1>5, AppendedLog
<1>7. /\ clear = [by |-> clear.by, remaining |-> clear.remaining]
      /\ clear.remaining \in Nat
  BY Numbers
<1>8. k <= clear.remaining => clear.by # NoClearer
  BY <1>2, <1>7
<1>9. clear # NoClear \/ ~(k <= clear.remaining)
  BY <1>8 DEF NoClear
<1>10. /\ clear'.by = clear.by
       /\ clear'.remaining = IF k <= clear.remaining
                             THEN clear.remaining - 1 ELSE clear.remaining
  BY <1>3, <1>7, <1>9
<1> QED BY <1>2, <1>6, <1>10

LEMMA RequestsStep ==
    ASSUME TypeOK, WriterPhase, Requests, [Next]_vars
    PROVE  Requests'
<1> USE DEF Requests, queueVars, logVars, clearVars, statusVars, nodeVars,
        closeVars
<1>0. /\ clear = [by |-> clear.by, remaining |-> clear.remaining]
      /\ client \in [Clearers -> {"idle", "waiting", "giving up", "cleared",
                                 "refused", "withdrawn", "uncertain"}]
      /\ reply \in [Clearers -> {"none", "cleared", "refused"}]
      /\ doing \in Clearers \cup {NoClearer}
  BY DEF TypeOK
<1>1. ASSUME NEW log \in Logs, Accept(log) \/ Refuse(log) \/ Evict(log)
      PROVE  Requests'
  <2>1. UNCHANGED <<client, reply, doing>> /\ clear'.by = clear.by
        /\ (worker' # "replied" => worker # "replied")
        /\ (clear.by = NoClearer => clear'.remaining = clear.remaining)
    <3>1. CASE Accept(log) \/ Refuse(log)
      BY <3>1 DEF Accept, Refuse, Offer, Push, Woken
    <3>2. CASE Evict(log)
      <4>1. PICK k \in 1..Len(jobs) :
              /\ clear'.by = clear.by
              /\ clear'.remaining = IF k <= clear.remaining
                                    THEN clear.remaining - 1
                                    ELSE clear.remaining
        BY <3>2, Evicted
      <4>2. clear.remaining = 0 => ~(k <= clear.remaining)
        <5>1. Len(jobs) \in Nat /\ clear.remaining \in 0..Capacity
          BY Numbers
        <5> HIDE DEF Requests
        <5>2. k \in Nat /\ k > 0
          BY <5>1
        <5> QED BY <5>2
      <4> QED BY <3>2, <4>1, <4>2 DEF Evict, Offer, Push, Woken
    <3> QED BY <1>1, <3>1, <3>2
  <2> QED BY <2>1
<1>2. ASSUME NEW c \in Clearers, Clearing(c)
      PROVE  Requests'
  <2>1. CASE RequestClear(c)
    BY <1>0, <2>1 DEF RequestClear, Barrier, NoClear, Woken
  <2>2. CASE ReceiveReply(c)
    BY <1>0, <2>2 DEF ReceiveReply
  <2>3. CASE TimeOut(c)
    BY <1>0, <2>3 DEF TimeOut
  <2>4. CASE Withdraw(c)
    <3>1. CASE clear.by = c
      <4>0. client' = [client EXCEPT ![c] = "withdrawn"] /\ clear' = NoClear
            /\ reply' = reply /\ doing' = doing /\ worker' = worker
        BY <2>4, <3>1 DEF Withdraw
      <4>1. clear'.by = NoClearer /\ clear'.remaining = 0
        BY <4>0 DEF NoClear
      <4>2. doing # c /\ reply[c] = "none"
        BY <3>1
      <4> QED BY <1>0, <4>0, <4>1, <4>2
    <3>2. CASE clear.by # c
      BY <1>0, <2>4, <3>2 DEF Withdraw
    <3> QED BY <3>1, <3>2
  <2> QED BY <1>2, <2>1, <2>2, <2>3, <2>4 DEF Clearing
<1>3. ASSUME NEW n \in Nodes, NodeStep(n)
      PROVE  Requests'
  BY <1>3 DEF NodeStep, Status, ReserveProbe, PersistProbe, Edit, Delete, Woken
<1>4. CASE Sleep \/ Exit \/ Coalesce
  BY <1>4 DEF Sleep, Exit, Coalesce
<1>5. CASE BeginClear
  BY <1>0, <1>5 DEF BeginClear, BarrierReached, NoClear
<1>6. ASSUME NEW taken \in SUBSET Nodes, TakeBatch(taken)
      PROVE  Requests'
  <2>1. clear'.by = clear.by /\ (clear = NoClear => clear' = clear)
        /\ UNCHANGED clearVars /\ worker' = "writing"
    BY <1>0, <1>6 DEF TakeBatch
  <2>2. clear.by = NoClearer => clear = NoClear
    BY <1>0 DEF NoClear
  <2> QED BY <1>6, <2>1, <2>2 DEF WriterPhase, TakeBatch
<1>7. ASSUME NEW n \in Nodes, WriteStatus(n) \/ FailStatus(n)
      PROVE  Requests'
  BY <1>7 DEF WriteStatus, FailStatus
<1>8. ASSUME NEW saved \in BOOLEAN, WriteLogs(saved)
      PROVE  Requests'
  BY <1>8 DEF WriteLogs
<1>9. CASE Settle \/ Decide \/ EndClear
  <2>1. CASE Settle
    BY <2>1, <1>0 DEF Settle, WriterPhase
  <2>2. CASE Decide
    BY <2>2 DEF Decide
  <2>3. CASE EndClear
    BY <2>3, <1>0 DEF EndClear
  <2> QED BY <1>9, <2>1, <2>2, <2>3
<1>10. ASSUME NEW saved \in BOOLEAN, DeleteLogs(saved)
       PROVE  Requests'
  BY <1>0, <1>10 DEF DeleteLogs, WriterPhase
<1>11. CASE Closing
  BY <1>11 DEF Closing, Seal, FinishFlush, FlushTimesOut, Woken
<1>12. CASE UNCHANGED vars
  BY <1>12 DEF vars
<1> QED
  BY <1>1, <1>2, <1>3, <1>4, <1>5, <1>6, <1>7, <1>8, <1>9, <1>10, <1>11,
     <1>12, LogOffered DEF Next, WriterStep

-----------------------------------------------------------------------------
(* Barriers. *)

LEMMA MarkNumbers ==
    ASSUME TypeOK
    PROVE  /\ offered \in Nat /\ clear.remaining \in Nat /\ Len(jobs) \in Nat
           /\ DOMAIN jobs = 1..Len(jobs)
           /\ \A i \in DOMAIN jobs : jobs[i].id \in Nat
           /\ \A x \in batch \cup table : x \in Nat
           /\ \A c \in Clearers : mark[c] \in Nat
<1>1. \A x \in batch \cup table : x \in 1..MaxLogs
  BY DEF TypeOK
<1>2. \A c \in Clearers : mark[c] \in 0..MaxLogs
  BY DEF TypeOK
<1>3. /\ offered \in 0..MaxLogs /\ clear.remaining \in 0..Capacity
      /\ Len(jobs) \in Nat
  BY Numbers
<1>4. /\ DOMAIN jobs = 1..Len(jobs)
      /\ \A i \in DOMAIN jobs : jobs[i].id \in 1..MaxLogs
  BY QueuedNumbers
<1>5. \A x \in 0..MaxLogs : x \in Nat
  OBVIOUS
<1>6. \A x \in 1..MaxLogs : x \in Nat
  OBVIOUS
<1>7. \A x \in 0..Capacity : x \in Nat
  OBVIOUS
<1> QED BY <1>1, <1>2, <1>3, <1>4, <1>5, <1>6, <1>7

\* A log joins the queue, the others keep their places.
LEMMA AcceptMarks ==
    ASSUME TypeOK, MarksInv, NEW log \in Logs, log.id = offered + 1,
           Accept(log)
    PROVE  MarksInv'
<1>1. /\ jobs' = Append(jobs, log) /\ offered' = offered + 1
      /\ UNCHANGED <<clear, batch, table, mark, doing, reply>>
      /\ (worker' # "replied" => worker # "replied")
  BY DEF Accept, Offer, Push, Woken, logVars, clearVars
<1>2. /\ Len(jobs') = Len(jobs) + 1 /\ DOMAIN jobs' = 1..(Len(jobs) + 1)
      /\ \A i \in 1..Len(jobs) : jobs'[i] = jobs[i]
      /\ jobs'[Len(jobs) + 1] = log
  <2>1. jobs \in Seq(Logs)
    BY Numbers
  <2>2. jobs' \in Seq(Logs)
    BY <1>1, <2>1, AppendedLog
  <2> QED BY <1>1, <2>1, <2>2, AppendedLog
<1>3. LogOrder'
  BY <1>1, <1>2, MarkNumbers DEF MarksInv, LogOrder
<1>4. Barriers'
  BY <1>1, <1>2, MarkNumbers DEF MarksInv, Barriers, LogOrder
<1>5. Clears'
  BY <1>1, <1>2, MarkNumbers DEF MarksInv, Clears, LogOrder
<1> QED BY <1>3, <1>4, <1>5 DEF MarksInv

\* A log is evicted, the barrier keeps its place between the others.
LEMMA EvictMarks ==
    ASSUME TypeOK, MarksInv, clear.by = NoClearer => clear.remaining = 0,
           NEW log \in Logs, log.id = offered + 1, Evict(log), jobs' \in Seq(Logs)
    PROVE  MarksInv'
<1>1. /\ offered' = offered + 1
      /\ UNCHANGED <<batch, table, mark, doing, reply>>
      /\ (worker' # "replied" => worker # "replied")
  BY DEF Evict, Offer, Push, Woken, logVars, clearVars
<1>2. PICK k \in 1..Len(jobs) :
         /\ clear'.by = clear.by
         /\ clear'.remaining = IF k <= clear.remaining
                               THEN clear.remaining - 1 ELSE clear.remaining
         /\ Len(jobs') = Len(jobs)
         /\ \A i \in 1..(Len(jobs) - 1) :
              jobs'[i] = IF i < k THEN jobs[i] ELSE jobs[i + 1]
         /\ jobs'[Len(jobs)] = log
  BY Evicted
<1>3. DOMAIN jobs' = 1..Len(jobs)
  BY <1>2
<1> DEFINE From(i) == IF i < k THEN i ELSE i + 1
<1>4. \A i \in DOMAIN jobs' :
        \/ /\ i < Len(jobs) /\ From(i) \in DOMAIN jobs
           /\ jobs'[i].id = jobs[From(i)].id
        \/ i = Len(jobs) /\ jobs'[i].id = offered + 1
  <2> SUFFICES ASSUME NEW i \in 1..Len(jobs)
               PROVE  \/ /\ i < Len(jobs) /\ From(i) \in DOMAIN jobs
                         /\ jobs'[i].id = jobs[From(i)].id
                      \/ i = Len(jobs) /\ jobs'[i].id = offered + 1
    BY <1>3
  <2>1. Len(jobs) \in Nat /\ DOMAIN jobs = 1..Len(jobs)
    BY MarkNumbers
  <2>2. CASE i = Len(jobs)
    BY <1>2, <2>2
  <2>3. CASE i # Len(jobs)
    <3>1. i \in 1..(Len(jobs) - 1) /\ i < Len(jobs)
      <4>1. PICK l \in Nat : l = Len(jobs)
        BY <2>1
      <4>2. i \in 1..l /\ i # l
        BY <2>3, <4>1
      <4>3. i \in 1..(l - 1) /\ i < l
        BY <4>2
      <4> QED BY <4>1, <4>3
    <3>2. From(i) \in 1..Len(jobs)
      BY <2>1, <3>1
    <3>3. jobs'[i] = jobs[From(i)]
      BY <1>2, <3>1
    <3> QED BY <2>1, <3>1, <3>2, <3>3
  <2> QED BY <2>2, <2>3
<1>5. k \in Nat \ {0} /\ Len(jobs) \in Nat /\ k <= Len(jobs)
      /\ \A i \in DOMAIN jobs' : i \in Nat \ {0}
  BY <1>3, MarkNumbers
<1>6. LogOrder'
  <2>1. ASSUME NEW i \in DOMAIN jobs', NEW m \in DOMAIN jobs', i < m
        PROVE  jobs'[i].id < jobs'[m].id
    <3>1. i < Len(jobs) /\ From(i) \in DOMAIN jobs
          /\ jobs'[i].id = jobs[From(i)].id
      BY <1>3, <1>4, <1>5, <2>1
    <3>2. CASE m = Len(jobs)
      BY <3>1, <3>2, <1>4, MarkNumbers DEF MarksInv, LogOrder
    <3>3. CASE m # Len(jobs)
      <4>1. From(m) \in DOMAIN jobs /\ jobs'[m].id = jobs[From(m)].id
        BY <1>4, <3>3
      <4>2. From(i) < From(m)
        BY <1>5, <2>1
      <4> QED BY <3>1, <4>1, <4>2 DEF MarksInv, LogOrder
    <3> QED BY <3>2, <3>3
  <2>2. ASSUME NEW i \in DOMAIN jobs'
        PROVE  jobs'[i].id <= offered'
    <3>1. \A m \in DOMAIN jobs : jobs[m].id <= offered /\ jobs[m].id \in Nat
      BY MarkNumbers DEF MarksInv, LogOrder
    <3>2. offered \in Nat
      BY MarkNumbers
    <3> HIDE DEF From
    <3> QED BY <1>1, <1>4, <3>1, <3>2
  <2>3. \A x \in batch' \cup table' : x <= offered'
    BY <1>1, MarkNumbers DEF MarksInv, LogOrder
  <2>4. \A c \in Clearers : mark'[c] <= offered'
    BY <1>1, MarkNumbers DEF MarksInv, LogOrder
  <2> QED BY <2>1, <2>2, <2>3, <2>4 DEF LogOrder
<1>7. clear'.remaining <= Len(jobs')
  BY <1>2, <1>5, MarkNumbers DEF MarksInv, Barriers
<1>8. ASSUME NEW c \in Clearers, clear.by = c, NEW i \in DOMAIN jobs'
      PROVE  jobs'[i].id <= mark[c] <=> i <= clear'.remaining
  <2>1. clear.remaining <= Len(jobs) /\ clear.remaining \in Nat
        /\ mark[c] <= offered /\ mark[c] \in Nat /\ offered \in Nat
    BY MarkNumbers DEF MarksInv, Barriers, LogOrder
  <2>2. CASE i = Len(jobs)
    <3>1. jobs'[i].id = offered + 1
      BY <1>4, <2>2
    <3>2. ~(jobs'[i].id <= mark[c])
      BY <2>1, <3>1
    <3>3. ~(i <= clear'.remaining)
      BY <1>2, <1>5, <2>1, <2>2
    <3> QED BY <3>2, <3>3
  <2>3. CASE i # Len(jobs)
    <3>1. From(i) \in DOMAIN jobs /\ jobs'[i].id = jobs[From(i)].id
      BY <1>4, <2>3
    <3>2. jobs[From(i)].id <= mark[c] <=> From(i) <= clear.remaining
      BY <1>8, <3>1 DEF MarksInv, Barriers
    <3>3. From(i) <= clear.remaining <=> i <= clear'.remaining
      BY <1>2, <1>5, <2>1
    <3> QED BY <3>1, <3>2, <3>3
  <2> QED BY <2>2, <2>3
<1>9. Barriers'
  BY <1>1, <1>2, <1>7, <1>8 DEF MarksInv, Barriers
<1>10. ASSUME NEW c \in Clearers, NEW i \in DOMAIN jobs',
              \A m \in DOMAIN jobs : jobs[m].id > mark[c]
       PROVE  jobs'[i].id > mark[c]
  <2>1. mark[c] <= offered /\ mark[c] \in Nat /\ offered \in Nat
    BY MarkNumbers DEF MarksInv, LogOrder
  <2>2. CASE i = Len(jobs)
    BY <1>4, <2>1, <2>2
  <2>3. CASE i # Len(jobs)
    BY <1>4, <1>10, <2>3
  <2> QED BY <2>2, <2>3
<1>11. Clears'
  BY <1>1, <1>10 DEF MarksInv, Clears
<1> QED BY <1>6, <1>9, <1>11 DEF MarksInv

LEMMA RequestMarks ==
    ASSUME TypeOK, MarksInv, WriterPhase, Requests, NEW c \in Clearers,
           RequestClear(c)
    PROVE  MarksInv'
<1>1. /\ jobs' = jobs /\ batch' = batch /\ table' = table
      /\ doing' = doing /\ offered' = offered
      /\ clear'.by = c /\ clear'.remaining = Len(jobs)
      /\ mark' = [mark EXCEPT ![c] = offered]
      /\ reply' = [reply EXCEPT ![c] = "none"]
      /\ (worker' # "replied" => worker # "replied")
      /\ doing # c
  BY DEF RequestClear, Barrier, Woken, logVars, Requests
<1>2. /\ mark' [c] = offered /\ reply' [c] = "none"
      /\ \A d \in Clearers \ {c} : mark'[d] = mark[d] /\ reply'[d] = reply[d]
  BY <1>1 DEF TypeOK
<1>3. LogOrder'
  BY <1>1, <1>2, MarkNumbers DEF MarksInv, LogOrder
<1>4. Barriers'
  BY <1>1, <1>2, MarkNumbers DEF MarksInv, Barriers, LogOrder
<1>5. Clears'
  BY <1>1, <1>2, MarkNumbers DEF MarksInv, Clears, LogOrder
<1> QED BY <1>3, <1>4, <1>5 DEF MarksInv

LEMMA BeginMarks ==
    ASSUME TypeOK, MarksInv, BeginClear
    PROVE  MarksInv'
<1>1. /\ jobs' = jobs /\ batch' = batch /\ table' = table /\ mark' = mark
      /\ reply' = reply /\ offered' = offered
      /\ clear' = NoClear /\ doing' = clear.by
      /\ clear.remaining = 0 /\ worker' = "deciding"
  BY DEF BeginClear, BarrierReached, logVars
<1>2. clear'.by = NoClearer /\ clear'.remaining = 0
  BY <1>1 DEF NoClear
<1>3. LogOrder'
  BY <1>1 DEF MarksInv, LogOrder
<1>4. Barriers'
  BY <1>1, <1>2, MarkNumbers DEF MarksInv, Barriers
<1>5. Clears'
  BY <1>1, <1>2, MarkNumbers DEF MarksInv, Clears, Barriers
<1> QED BY <1>3, <1>4, <1>5 DEF MarksInv

LEMMA TakeMarks ==
    ASSUME TypeOK, MarksInv, WriterPhase,
           clear.by = NoClearer => clear.remaining = 0,
           NEW taken \in SUBSET Nodes, TakeBatch(taken)
    PROVE  MarksInv'
<1>1. Count \in 0..Len(jobs) /\ (clear # NoClear => Count <= clear.remaining)
  BY CountInRange DEF MarksInv, Barriers
<1>2. /\ jobs' = SubSeq(jobs, Count + 1, Len(jobs))
      /\ batch' = {jobs[i].id : i \in 1..Count}
      /\ clear' = IF clear = NoClear THEN clear
                  ELSE [clear EXCEPT !.remaining = @ - Count]
      /\ UNCHANGED <<offered, table, mark, doing, reply>>
      /\ worker' = "writing" /\ doing = NoClearer
  BY DEF TakeBatch, clearVars, WriterPhase
<1>3. /\ Len(jobs') = Len(jobs) - Count /\ DOMAIN jobs' = 1..(Len(jobs) - Count)
      /\ \A i \in DOMAIN jobs' : i + Count \in DOMAIN jobs /\ i \in Nat \ {0}
                                 /\ jobs'[i].id = jobs[i + Count].id
  <2>1. jobs \in Seq(Logs) /\ Len(jobs) \in Nat /\ DOMAIN jobs = 1..Len(jobs)
    BY MarkNumbers, Numbers
  <2>2. jobs' \in Seq(Logs) /\ Len(jobs') = Len(jobs) - Count
        /\ \A i \in 1..(Len(jobs) - Count) : jobs'[i] = jobs[i + Count]
    BY <1>1, <1>2, <2>1, TakenLogs
  <2>3. DOMAIN jobs' = 1..(Len(jobs) - Count)
    BY <2>2
  <2>4. \A i \in 1..(Len(jobs) - Count) : i + Count \in 1..Len(jobs)
                                          /\ i \in Nat \ {0}
    <3> HIDE DEF Count
    <3> QED BY <1>1, <2>1
  <2> QED BY <2>1, <2>2, <2>3, <2>4
<1>4. \A x \in batch' : \E i \in DOMAIN jobs : i <= Count /\ x = jobs[i].id
  <2>1. DOMAIN jobs = 1..Len(jobs) /\ Len(jobs) \in Nat
    BY MarkNumbers
  <2> HIDE DEF Count
  <2>2. \A i \in 1..Count : i \in 1..Len(jobs) /\ i <= Count
    BY <1>1, <2>1
  <2> QED BY <1>2, <2>1, <2>2
<1>5. /\ clear'.by = clear.by
      /\ clear'.remaining = IF clear = NoClear THEN 0
                            ELSE clear.remaining - Count
      /\ \A c \in Clearers : clear.by = c => clear # NoClear
  <2>1. clear = [by |-> clear.by, remaining |-> clear.remaining]
    BY Numbers
  <2>2. clear # NoClear => clear'.remaining = clear.remaining - Count
                           /\ clear'.by = clear.by
    BY <1>2, <2>1
  <2>3. clear = NoClear => clear.remaining = 0 /\ clear.by = NoClearer
                           /\ clear' = clear
    BY <1>2 DEF NoClear
  <2> QED BY <2>2, <2>3
<1> HIDE DEF Count
<1>6. Count \in Nat /\ DOMAIN jobs = 1..Len(jobs) /\ Len(jobs) \in Nat
  BY <1>1, MarkNumbers
<1>7. \A x \in batch' \cup table' :
        x \in table \/ \E i \in DOMAIN jobs : i <= Count /\ x = jobs[i].id
  BY <1>2, <1>4
<1>8. LogOrder'
  <2>1. ASSUME NEW i \in DOMAIN jobs', NEW m \in DOMAIN jobs', i < m
        PROVE  jobs'[i].id < jobs'[m].id
    <3>1. i + Count \in DOMAIN jobs /\ m + Count \in DOMAIN jobs
          /\ i + Count < m + Count
      BY <1>3, <1>6, <2>1
    <3> QED BY <1>3, <3>1 DEF MarksInv, LogOrder
  <2>2. \A i \in DOMAIN jobs' : jobs'[i].id <= offered'
    BY <1>2, <1>3 DEF MarksInv, LogOrder
  <2>3. \A x \in batch' \cup table' : x <= offered'
    BY <1>2, <1>7 DEF MarksInv, LogOrder
  <2> QED BY <1>2, <2>1, <2>2, <2>3 DEF MarksInv, LogOrder
<1>9. Barriers'
  <2>1. clear'.remaining <= Len(jobs')
    BY <1>1, <1>3, <1>5, <1>6, MarkNumbers DEF MarksInv, Barriers
  <2>2. ASSUME NEW c \in Clearers, clear.by = c
        PROVE  /\ \A i \in DOMAIN jobs' :
                    jobs'[i].id <= mark[c] <=> i <= clear'.remaining
               /\ \A x \in batch' \cup table' : x <= mark[c]
    <3>1. Count <= clear.remaining /\ clear'.remaining = clear.remaining - Count
          /\ clear.remaining \in Nat
      BY <1>1, <1>5, <2>2, MarkNumbers
    <3>2. \A i \in DOMAIN jobs :
            jobs[i].id <= mark[c] <=> i <= clear.remaining
      BY <2>2 DEF MarksInv, Barriers
    <3>3. ASSUME NEW i \in DOMAIN jobs'
          PROVE  jobs'[i].id <= mark[c] <=> i <= clear'.remaining
      <4>1. i + Count <= clear.remaining <=> i <= clear'.remaining
        BY <1>3, <1>6, <3>1
      <4> QED BY <1>3, <3>2, <4>1
    <3>4. ASSUME NEW x \in batch' \cup table'
          PROVE  x <= mark[c]
      <4>1. CASE x \in table
        BY <2>2, <4>1 DEF MarksInv, Barriers
      <4>2. ASSUME NEW i \in DOMAIN jobs, i <= Count, x = jobs[i].id
            PROVE  x <= mark[c]
        <5>1. i <= clear.remaining
          BY <1>6, <3>1, <4>2
        <5> QED BY <3>2, <4>2, <5>1
      <4> QED BY <1>7, <4>1, <4>2
    <3> QED BY <3>3, <3>4
  <2> QED BY <1>2, <1>5, <2>1, <2>2 DEF Barriers
<1>10. Clears'
  <2>1. \A c \in Clearers : reply[c] = "cleared" =>
          /\ \A i \in DOMAIN jobs' : jobs'[i].id > mark[c]
          /\ \A x \in batch' \cup table' : x > mark[c]
    BY <1>3, <1>7 DEF MarksInv, Clears
  <2>2. \A c \in Clearers : doing' # c
    BY <1>2
  <2> QED BY <1>2, <2>1, <2>2 DEF Clears
<1> QED BY <1>8, <1>9, <1>10 DEF MarksInv

LEMMA DeleteMarks ==
    ASSUME TypeOK, MarksInv, WriterPhase, NEW saved \in BOOLEAN,
           DeleteLogs(saved)
    PROVE  MarksInv'
<1>1. /\ UNCHANGED <<jobs, clear, offered, batch, mark, doing>>
      /\ table' = IF saved THEN {} ELSE table
      /\ reply' = [reply EXCEPT ![doing] =
                     IF saved THEN "cleared" ELSE "refused"]
      /\ worker = "deleting" /\ worker' = "replied"
      /\ batch = {} /\ doing # NoClearer
  BY DEF DeleteLogs, queueVars, WriterPhase
<1>2. \A x \in batch' \cup table' : x \in batch \cup table
  BY <1>1
<1>3. LogOrder'
  BY <1>1, <1>2 DEF MarksInv, LogOrder
<1>4. Barriers'
  BY <1>1, <1>2 DEF MarksInv, Barriers
<1>5. Clears'
  <2>1. doing \in Clearers
    BY <1>1 DEF TypeOK
  <2>2. \A c \in Clearers : reply'[c] = "cleared" =>
          reply[c] = "cleared" \/ (c = doing /\ saved)
    BY <1>1, <2>1 DEF TypeOK
  <2>3. saved => batch' \cup table' = {}
    BY <1>1
  <2> QED BY <1>1, <1>2, <2>2, <2>3 DEF MarksInv, Clears
<1> QED BY <1>3, <1>4, <1>5 DEF MarksInv

\* Nobody else touches what the barriers are about.
LEMMA OthersKeepMarks ==
    ASSUME TypeOK, WriterPhase, Requests, [Next]_vars
    PROVE  \/ \E log \in Logs : log.id = offered + 1
                                /\ (Accept(log) \/ Evict(log))
           \/ \E c \in Clearers : RequestClear(c)
           \/ BeginClear
           \/ \E taken \in SUBSET Nodes : TakeBatch(taken)
           \/ \E saved \in BOOLEAN : DeleteLogs(saved)
           \/ /\ UNCHANGED <<jobs, mark, reply>>
              /\ offered' \in {offered, offered + 1}
              /\ batch' \cup table' \subseteq batch \cup table
              /\ clear' = clear \/ clear' = NoClear
              /\ doing' = doing \/ doing' = NoClearer
              /\ doing' # NoClearer => table' = table
              /\ worker' # "replied" /\ doing' # NoClearer => worker # "replied"
<1> DEFINE Others ==
             /\ UNCHANGED <<jobs, mark, reply>>
             /\ offered' \in {offered, offered + 1}
             /\ batch' \cup table' \subseteq batch \cup table
             /\ clear' = clear \/ clear' = NoClear
             /\ doing' = doing \/ doing' = NoClearer
             /\ doing' # NoClearer => table' = table
             /\ worker' # "replied" /\ doing' # NoClearer => worker # "replied"
<1> USE DEF queueVars, logVars, clearVars, statusVars, nodeVars, closeVars
<1>1. ASSUME NEW log \in Logs, Refuse(log)
      PROVE  Others
  BY <1>1 DEF Refuse, Offer
<1>2. ASSUME NEW c \in Clearers, ReceiveReply(c) \/ TimeOut(c) \/ Withdraw(c)
      PROVE  Others
  BY <1>2 DEF ReceiveReply, TimeOut, Withdraw
<1>3. ASSUME NEW n \in Nodes, NodeStep(n)
      PROVE  Others
  BY <1>3 DEF NodeStep, Status, ReserveProbe, PersistProbe, Edit, Delete, Woken
<1>4. (Sleep \/ Exit \/ Coalesce) => Others
  BY DEF Sleep, Exit, Coalesce
<1>5. ASSUME NEW n \in Nodes, WriteStatus(n) \/ FailStatus(n)
      PROVE  Others
  BY <1>5 DEF WriteStatus, FailStatus
<1>6. ASSUME NEW saved \in BOOLEAN, WriteLogs(saved)
      PROVE  Others
  <2>1. /\ UNCHANGED <<jobs, mark, reply, offered, batch, clear, doing>>
        /\ table' \subseteq batch \cup table
        /\ worker = "writing" /\ worker' = "settling"
    BY <1>6 DEF WriteLogs
  <2>2. doing = NoClearer
    BY <2>1 DEF WriterPhase
  <2> QED BY <2>1, <2>2
<1>7. Settle => Others
  BY DEF Settle
<1>8. Decide => Others
  BY DEF Decide
<1>9. EndClear => Others
  BY DEF EndClear
<1>10. Closing => Others
  BY DEF Closing, Seal, FinishFlush, FlushTimesOut, Woken
<1>11. (UNCHANGED vars) => Others
  BY DEF vars
<1> HIDE DEF Others
<1>12. \/ \E log \in Logs : log.id = offered + 1
                            /\ (Accept(log) \/ Evict(log))
       \/ Others
       \/ ~Produce
  BY <1>1, LogOffered
<1> DEFINE Touched ==
             \/ \E log \in Logs : log.id = offered + 1
                                  /\ (Accept(log) \/ Evict(log))
             \/ \E c \in Clearers : RequestClear(c)
             \/ BeginClear
             \/ \E taken \in SUBSET Nodes : TakeBatch(taken)
             \/ \E saved \in BOOLEAN : DeleteLogs(saved)
<1>13. Produce => Touched \/ Others
  BY <1>12
<1>14. ASSUME NEW c \in Clearers, Clearing(c)
       PROVE  Touched \/ Others
  BY <1>2, <1>14 DEF Clearing
<1>15. WriterStep => Touched \/ Others
  BY <1>4, <1>5, <1>6, <1>7, <1>8, <1>9 DEF WriterStep
<1>16. Touched \/ Others
  BY <1>3, <1>10, <1>11, <1>13, <1>14, <1>15 DEF Next
<1> QED BY <1>16 DEF Others

LEMMA MarksStep ==
    ASSUME TypeOK, TypeOK', WriterPhase, Requests, MarksInv, [Next]_vars
    PROVE  MarksInv'
<1>1. ASSUME NEW log \in Logs, log.id = offered + 1, Accept(log)
      PROVE  MarksInv'
  BY <1>1, AcceptMarks
<1>2. ASSUME NEW log \in Logs, log.id = offered + 1, Evict(log)
      PROVE  MarksInv'
  <2>1. jobs' \in Seq(Logs)
    BY DEF TypeOK
  <2>2. clear.by = NoClearer => clear.remaining = 0
    BY DEF Requests
  <2> QED BY <1>2, <2>1, <2>2, EvictMarks
<1>3. ASSUME NEW c \in Clearers, RequestClear(c)
      PROVE  MarksInv'
  BY <1>3, RequestMarks
<1>4. CASE BeginClear
  BY <1>4, BeginMarks
<1>5. ASSUME NEW taken \in SUBSET Nodes, TakeBatch(taken)
      PROVE  MarksInv'
  <2>1. clear.by = NoClearer => clear.remaining = 0
    BY DEF Requests
  <2> QED BY <1>5, <2>1, TakeMarks
<1>6. ASSUME NEW saved \in BOOLEAN, DeleteLogs(saved)
      PROVE  MarksInv'
  BY <1>6, DeleteMarks
<1>7. CASE /\ UNCHANGED <<jobs, mark, reply>>
           /\ offered' \in {offered, offered + 1}
           /\ batch' \cup table' \subseteq batch \cup table
           /\ clear' = clear \/ clear' = NoClear
           /\ doing' = doing \/ doing' = NoClearer
           /\ doing' # NoClearer => table' = table
           /\ worker' # "replied" /\ doing' # NoClearer => worker # "replied"
  <2>1. offered <= offered' /\ offered' \in Nat
    BY <1>7, MarkNumbers
  <2>2. LogOrder'
    BY <1>7, <2>1, MarkNumbers DEF MarksInv, LogOrder
  <2>3. Barriers'
    <3>1. CASE clear' = clear
      BY <1>7, <3>1 DEF MarksInv, Barriers
    <3>2. CASE clear' = NoClear
      BY <1>7, <3>2, MarkNumbers DEF Barriers, NoClear
    <3> QED BY <1>7, <3>1, <3>2
  <2>4. Clears'
    BY <1>7 DEF MarksInv, Clears
  <2> QED BY <2>2, <2>3, <2>4 DEF MarksInv
<1> QED BY <1>1, <1>2, <1>3, <1>4, <1>5, <1>6, <1>7, OthersKeepMarks

-----------------------------------------------------------------------------
(* The order of statuses. *)

LEMMA ChangeNumbers ==
    ASSUME TypeOK, NEW n \in Nodes
    PROVE  /\ gen[n] \in Nat /\ revision[n] \in Nat
           /\ statuses[n].gen \in Nat /\ statuses[n].rev \in Nat
           /\ flight[n].gen \in Nat /\ flight[n].rev \in Nat
           /\ retry[n].gen \in Nat /\ retry[n].rev \in Nat
           /\ probeWrite[n].gen \in Nat /\ probeWrite[n].rev \in Nat
           /\ row[n].gen \in Nat /\ row[n].rev \in Nat
<1>1. gen[n] \in 0..MaxGen /\ revision[n] \in 0..MaxRevision
  BY DEF TypeOK
<1>2. /\ statuses[n] \in Changes /\ flight[n] \in Changes
      /\ retry[n] \in Changes /\ probeWrite[n] \in Changes
      /\ row[n] \in Changes
  BY DEF TypeOK
<1>3. \A change \in Changes : change.gen \in Nat /\ change.rev \in Nat
  BY DEF Changes
<1> QED BY <1>1, <1>2, <1>3

\* The statuses of a node that no step concerns.
LEMMA SameNode ==
    ASSUME NEW m \in Nodes, OrderOf(m),
           gen'[m] = gen[m], revision'[m] = revision[m], row'[m] = row[m],
           latest'[m] = latest[m], probeWrite'[m] = probeWrite[m],
           statuses'[m] \in {statuses[m], NoChange},
           flight'[m] = flight[m], retry'[m] = retry[m]
    PROVE  OrderOf(m)'
<1>1. Known(m, NoChange)'
  BY DEF OrderOf, Known, NoChange
<1> QED BY <1>1 DEF OrderOf, Known, Overtaken

LEMMA OrderNodeStep ==
    ASSUME TypeOK, StatusOrder, NEW n \in Nodes, NodeStep(n)
    PROVE  StatusOrder'
<1> USE DEF queueVars, logVars, clearVars, statusVars, nodeVars, closeVars
<1> SUFFICES ASSUME NEW m \in Nodes PROVE OrderOf(m)'
  BY DEF StatusOrder
<1>0. OrderOf(m) /\ OrderOf(n)
  BY DEF StatusOrder
<1>1. CASE Status(n)
  <2>1. CASE m = n
    <3>1. /\ gen[n] # 0 /\ gen' = gen /\ row' = row
          /\ flight' = flight /\ retry' = retry /\ probeWrite' = probeWrite
          /\ revision'[n] = revision[n] + 1
          /\ statuses'[n] = [gen |-> gen[n], rev |-> revision[n] + 1]
      BY <1>1 DEF Status, Reserve, TypeOK
    <3>2. /\ statuses'[n].gen = gen[n] /\ statuses'[n].rev = revision[n] + 1
          /\ statuses'[n] # NoChange
      BY <3>1 DEF NoChange
    <3>3. Known(n, statuses[n])' /\ Known(n, flight[n])' /\ Known(n, retry[n])'
          /\ Known(n, probeWrite[n])'
      BY <1>0, <3>1, <3>2, ChangeNumbers DEF OrderOf, Known
    <3>4. Overtaken(n, flight[n])' /\ Overtaken(n, retry[n])'
      BY <1>0, <3>1, <3>2, ChangeNumbers DEF OrderOf, Known, Overtaken
    <3>5. row'[n].gen = gen'[n] /\ row'[n].rev <= revision'[n]
      BY <1>0, <3>1, ChangeNumbers DEF OrderOf
    <3> QED BY <1>0, <2>1, <3>1, <3>3, <3>4, <3>5 DEF OrderOf
  <2>2. CASE m # n
    BY <1>0, <1>1, <2>2, SameNode DEF Status, Reserve, TypeOK
  <2> QED BY <2>1, <2>2
<1>2. CASE ReserveProbe(n)
  <2>1. CASE m = n
    <3>1. /\ gen[n] # 0 /\ gen' = gen /\ row' = row /\ statuses' = statuses
          /\ flight' = flight /\ retry' = retry
          /\ revision'[n] = revision[n] + 1
          /\ probeWrite'[n] = [gen |-> gen[n], rev |-> revision[n] + 1]
      BY <1>2 DEF ReserveProbe, Reserve, TypeOK
    <3>2. /\ probeWrite'[n].gen = gen[n] /\ probeWrite'[n].rev = revision[n] + 1
      BY <3>1
    <3>3. Known(n, statuses[n])' /\ Known(n, flight[n])' /\ Known(n, retry[n])'
          /\ Known(n, probeWrite[n])'
      BY <1>0, <3>1, <3>2, ChangeNumbers DEF OrderOf, Known
    <3>4. Overtaken(n, flight[n])' /\ Overtaken(n, retry[n])'
      BY <1>0, <3>1 DEF OrderOf, Overtaken
    <3>5. row'[n].gen = gen'[n] /\ row'[n].rev <= revision'[n]
      BY <1>0, <3>1, ChangeNumbers DEF OrderOf
    <3> QED BY <1>0, <2>1, <3>1, <3>3, <3>4, <3>5 DEF OrderOf
  <2>2. CASE m # n
    BY <1>0, <1>2, <2>2, SameNode DEF ReserveProbe, Reserve, TypeOK
  <2> QED BY <2>1, <2>2
<1>3. ASSUME NEW saved \in BOOLEAN, PersistProbe(n, saved)
      PROVE  OrderOf(m)'
  <2>1. /\ gen' = gen /\ revision' = revision /\ statuses' = statuses
        /\ flight' = flight /\ retry' = retry /\ latest' = latest
        /\ row'[m] = row[m] \/ (m = n /\ row'[m] = probeWrite[m]
                                /\ Newest(m, probeWrite[m]))
        /\ probeWrite'[m] \in {probeWrite[m], NoChange}
    BY <1>3 DEF PersistProbe, TypeOK
  <2>2. Known(m, probeWrite[m])'
    BY <1>0, <2>1 DEF OrderOf, Known, NoChange
  <2>3. row'[m].gen = gen[m] /\ row'[m].rev <= revision[m]
    BY <1>0, <2>1, ChangeNumbers DEF OrderOf, Newest
  <2> QED BY <1>0, <2>1, <2>2, <2>3 DEF OrderOf, Known, Overtaken
<1>4. CASE Edit(n)
  <2>1. CASE m = n
    <3>1. /\ gen[n] # 0 /\ gen'[n] = gen[n] + 1 /\ revision' = revision
          /\ row'[n] = [gen |-> gen[n] + 1, rev |-> 0]
          /\ statuses' = statuses /\ flight' = flight /\ retry' = retry
          /\ probeWrite' = probeWrite /\ latest'[n] = "nobody"
      <4>1. gen[n] \in 1..(MaxGen - 1)
        BY <1>4 DEF Edit
      <4>2. gen[n] # 0
        BY <4>1
      <4> QED BY <1>4, <4>2 DEF Edit, TypeOK
    <3>2. \A change \in {statuses[n], flight[n], retry[n], probeWrite[n]} :
            change.gen <= gen[n] /\ change.gen # gen'[n]
            /\ change.gen \in Nat /\ change.rev \in Nat
      BY <1>0, <3>1, ChangeNumbers DEF OrderOf, Known
    <3>3. Known(n, statuses[n])' /\ Known(n, flight[n])' /\ Known(n, retry[n])'
          /\ Known(n, probeWrite[n])'
      BY <1>0, <3>1, <3>2, ChangeNumbers DEF OrderOf, Known
    <3>4. Overtaken(n, flight[n])' /\ Overtaken(n, retry[n])'
      BY <3>1, <3>2 DEF Overtaken
    <3>5. row'[n].gen = gen'[n] /\ row'[n].rev <= revision'[n]
      BY <3>1, ChangeNumbers
    <3> QED BY <1>0, <2>1, <3>1, <3>3, <3>4, <3>5 DEF OrderOf
  <2>2. CASE m # n
    BY <1>0, <1>4, <2>2, SameNode DEF Edit, TypeOK
  <2> QED BY <2>1, <2>2
<1>5. CASE Delete(n)
  <2>1. CASE m = n
    <3>1. /\ gen'[n] = 0 /\ revision'[n] = 0 /\ row'[n] = NoChange
          /\ statuses' = statuses /\ flight' = flight /\ retry' = retry
          /\ probeWrite' = probeWrite /\ latest'[n] = "nobody"
      BY <1>5 DEF Delete, TypeOK
    <3>2. Known(n, statuses[n])' /\ Known(n, flight[n])' /\ Known(n, retry[n])'
          /\ Known(n, probeWrite[n])'
      BY <1>0, <3>1 DEF OrderOf, Known, NoChange
    <3>3. Overtaken(n, flight[n])' /\ Overtaken(n, retry[n])'
      BY <1>0, <3>1 DEF OrderOf, Overtaken, Known
    <3> QED BY <1>0, <2>1, <3>1, <3>2, <3>3 DEF OrderOf, NoChange
  <2>2. CASE m # n
    BY <1>0, <1>5, <2>2, SameNode DEF Delete, TypeOK
  <2> QED BY <2>1, <2>2
<1> QED BY <1>1, <1>2, <1>3, <1>4, <1>5 DEF NodeStep

LEMMA OrderWriterStep ==
    ASSUME TypeOK, WriterPhase, StatusOrder, WriterStep
    PROVE  StatusOrder'
<1> USE DEF queueVars, logVars, clearVars, statusVars, nodeVars, closeVars
<1> SUFFICES ASSUME NEW m \in Nodes PROVE OrderOf(m)'
  BY DEF StatusOrder
<1>0. OrderOf(m)
  BY DEF StatusOrder
<1>1. CASE UNCHANGED <<statuses, flight, retry, latest, gen, revision, row,
                       probeWrite>>
  BY <1>0, <1>1, SameNode
<1>2. CASE Sleep \/ Exit \/ Coalesce \/ BeginClear \/ Decide \/ EndClear
  BY <1>1, <1>2 DEF Sleep, Exit, Coalesce, BeginClear, Decide, EndClear
<1>3. ASSUME NEW saved \in BOOLEAN, WriteLogs(saved) \/ DeleteLogs(saved)
      PROVE  OrderOf(m)'
  BY <1>1, <1>3 DEF WriteLogs, DeleteLogs
<1>4. ASSUME NEW taken \in SUBSET Nodes, TakeBatch(taken)
      PROVE  OrderOf(m)'
  <2>1. /\ retry = Nothing /\ UNCHANGED <<gen, revision, row, latest,
                                           probeWrite, retry>>
        /\ \/ flight'[m] = statuses[m] /\ statuses'[m] = NoChange
           \/ flight'[m] = NoChange /\ statuses'[m] = statuses[m]
    BY <1>4 DEF TakeBatch, WriterPhase
  <2>2. retry[m] = NoChange
    BY <2>1 DEF Nothing
  <2>3. Known(m, NoChange)'
    BY <2>1, ChangeNumbers DEF Known, NoChange
  <2> QED BY <1>0, <2>1, <2>2, <2>3 DEF OrderOf, Known, Overtaken
<1>5. ASSUME NEW n \in Nodes, WriteStatus(n)
      PROVE  OrderOf(m)'
  <2>1. /\ UNCHANGED <<statuses, retry, latest, gen, revision, probeWrite>>
        /\ \/ flight'[m] = flight[m] /\ row'[m] = row[m]
           \/ /\ flight'[m] = NoChange
              /\ \/ row'[m] = row[m]
                 \/ row'[m] = flight[m] /\ Newest(m, flight[m])
    BY <1>5 DEF WriteStatus, TypeOK
  <2>2. row'[m].gen = gen[m] /\ row'[m].rev <= revision[m]
    BY <1>0, <2>1, ChangeNumbers DEF OrderOf, Newest
  <2>3. Known(m, NoChange)'
    BY <2>1, ChangeNumbers DEF Known, NoChange
  <2>4. Known(m, flight[m])' /\ Overtaken(m, flight[m])'
        /\ (flight'[m] = NoChange \/ retry'[m] = NoChange)
    <3>1. CASE flight'[m] = flight[m]
      BY <1>0, <2>1, <3>1 DEF OrderOf, Known, Overtaken
    <3>2. CASE flight'[m] = NoChange
      <4>1. Known(m, flight[m])'
        BY <2>3, <3>2 DEF Known
      <4> QED BY <3>2, <4>1 DEF Overtaken
    <3> QED BY <2>1, <3>1, <3>2
  <2>5. Known(m, statuses[m])' /\ Known(m, retry[m])'
        /\ Known(m, probeWrite[m])' /\ Overtaken(m, retry[m])'
    BY <1>0, <2>1 DEF OrderOf, Known, Overtaken
  <2> QED BY <1>0, <2>1, <2>2, <2>4, <2>5 DEF OrderOf
<1>6. ASSUME NEW n \in Nodes, FailStatus(n)
      PROVE  OrderOf(m)'
  <2>1. /\ UNCHANGED <<statuses, row, latest, gen, revision, probeWrite>>
        /\ \/ flight'[m] = flight[m] /\ retry'[m] = retry[m]
           \/ flight'[m] = NoChange /\ retry'[m] = flight[m]
    BY <1>6 DEF FailStatus, TypeOK
  <2>2. Known(m, NoChange)'
    BY <2>1, ChangeNumbers DEF Known, NoChange
  <2> QED BY <1>0, <2>1, <2>2 DEF OrderOf, Known, Overtaken
<1>7. CASE Settle
  <2>1. /\ UNCHANGED <<flight, latest, gen, revision, row, probeWrite>>
        /\ retry' = Nothing /\ flight = Nothing
        /\ statuses'[m] \in {statuses[m], retry[m]}
    BY <1>7 DEF Settle, Retried, WriterPhase
  <2>2. retry'[m] = NoChange /\ flight'[m] = NoChange
    BY <2>1 DEF Nothing
  <2>3. Known(m, NoChange)'
    BY <2>1, ChangeNumbers DEF Known, NoChange
  <2> QED BY <1>0, <2>1, <2>2, <2>3 DEF OrderOf, Known, Overtaken
<1> QED BY <1>2, <1>3, <1>4, <1>5, <1>6, <1>7 DEF WriterStep

LEMMA OthersKeepStatuses ==
    ASSUME Produce \/ (\E c \in Clearers : Clearing(c)) \/ Closing
           \/ UNCHANGED vars
    PROVE  /\ UNCHANGED <<statuses, flight, retry, latest, gen, revision, row,
                          probeWrite>>
           /\ stopped => stopped'
<1> USE DEF queueVars, logVars, clearVars, statusVars, nodeVars, closeVars
<1> DEFINE Kept == /\ UNCHANGED <<statuses, flight, retry, latest, gen,
                                  revision, row, probeWrite>>
                   /\ stopped => stopped'
<1>1. ASSUME NEW log, Accept(log) \/ Refuse(log) \/ Evict(log)
      PROVE  Kept
  BY <1>1 DEF Accept, Refuse, Evict, Offer
<1>2. ASSUME NEW c \in Clearers, Clearing(c)
      PROVE  Kept
  <2>1. CASE RequestClear(c)
    BY <2>1 DEF RequestClear
  <2>2. CASE ReceiveReply(c)
    BY <2>2 DEF ReceiveReply
  <2>3. CASE TimeOut(c)
    BY <2>3 DEF TimeOut
  <2>4. CASE Withdraw(c)
    BY <2>4 DEF Withdraw
  <2> QED BY <1>2, <2>1, <2>2, <2>3, <2>4 DEF Clearing
<1>3. Closing => Kept
  BY DEF Closing, Seal, FinishFlush, FlushTimesOut
<1>4. (UNCHANGED vars) => Kept
  BY DEF vars
<1> QED BY <1>1, <1>2, <1>3, <1>4 DEF Produce

LEMMA OrderStep ==
    ASSUME TypeOK, WriterPhase, StatusOrder, [Next]_vars
    PROVE  StatusOrder'
<1>1. CASE Produce \/ (\E c \in Clearers : Clearing(c)) \/ Closing
           \/ UNCHANGED vars
  BY <1>1, OthersKeepStatuses DEF StatusOrder, OrderOf, Known, Overtaken
<1>2. ASSUME NEW n \in Nodes, NodeStep(n)
      PROVE  StatusOrder'
  BY <1>2, OrderNodeStep
<1>3. CASE WriterStep
  BY <1>3, OrderWriterStep
<1> QED BY <1>1, <1>2, <1>3 DEF Next

-----------------------------------------------------------------------------
(* The newest status. *)

LEMMA NewestIsAChange ==
    ASSUME TypeOK, StatusOrder, NEW n \in Nodes, latest[n] = "worker"
    PROVE  gen[n] # 0 /\ Latest(n) # NoChange /\ Latest(n).gen = gen[n]
           /\ Latest(n).rev = revision[n]
<1>1. gen[n] # 0
  BY DEF StatusOrder, OrderOf
<1> QED BY <1>1 DEF Latest, NoChange

\* Whatever else happens to the node of n, the newest status stays until it
\* is replaced.
LEMMA ThereStays ==
    ASSUME TypeOK, WriterPhase, StatusOrder, [Next]_vars,
           NEW n \in Nodes, latest[n] = "worker", latest'[n] = "worker",
           There(n)
    PROVE  \/ There(n)'
           \/ /\ Settle /\ stopped /\ errors' > errors
              /\ statuses'[n] = NoChange /\ flight'[n] = NoChange
              /\ retry'[n] = NoChange
<1> USE DEF queueVars, logVars, clearVars, statusVars, nodeVars, closeVars
<1>0. /\ OrderOf(n) /\ gen[n] # 0 /\ Latest(n) # NoChange
      /\ Latest(n).gen = gen[n] /\ Latest(n).rev = revision[n]
  BY NewestIsAChange DEF StatusOrder
<1>1. ASSUME UNCHANGED <<statuses, flight, retry, gen, revision, row>>
      PROVE  There(n)'
  BY <1>1 DEF There, Latest, Held
<1>2. ASSUME NEW m \in Nodes, Status(m)
      PROVE  There(n)'
  <2>1. CASE m = n
    BY <1>2, <2>1 DEF Status, Reserve, There, Latest, Held, TypeOK
  <2>2. CASE m # n
    <3>1. /\ UNCHANGED <<flight, retry, gen, row>> /\ revision'[n] = revision[n]
          /\ statuses[n].gen = gen[n] => statuses'[n] = statuses[n]
      BY <1>2, <2>2 DEF Status, Reserve, TypeOK
    <3> QED BY <1>0, <3>1 DEF There, Latest, Held
  <2> QED BY <2>1, <2>2
<1>3. ASSUME NEW m \in Nodes, ReserveProbe(m)
      PROVE  There(n)'
  <2>1. m # n
    BY <1>3 DEF ReserveProbe, TypeOK
  <2>2. /\ UNCHANGED <<statuses, flight, retry, gen, row>>
        /\ revision'[n] = revision[n]
    BY <1>3, <2>1 DEF ReserveProbe, Reserve, TypeOK
  <2> QED BY <2>2 DEF There, Latest, Held
<1>4. ASSUME NEW m \in Nodes, NEW saved \in BOOLEAN, PersistProbe(m, saved)
      PROVE  There(n)'
  <2>1. /\ UNCHANGED <<statuses, flight, retry, gen, revision>>
        /\ row'[n] = row[n] \/ (row'[n] = probeWrite[n]
                                /\ Newest(n, probeWrite[n]))
    BY <1>4 DEF PersistProbe, TypeOK
  <2>2. Newest(n, probeWrite[n]) => probeWrite[n] = Latest(n)
    BY DEF Newest, Latest, TypeOK, Changes
  <2> QED BY <2>1, <2>2 DEF There, Latest, Held
<1>5. ASSUME NEW m \in Nodes, Edit(m) \/ Delete(m)
      PROVE  There(n)'
  <2>1. m # n
    BY <1>5 DEF Edit, Delete, TypeOK
  <2>2. /\ UNCHANGED <<statuses, flight, retry>> /\ row'[n] = row[n]
        /\ revision'[n] = revision[n] /\ gen'[n] = gen[n]
    BY <1>5, <2>1 DEF Edit, Delete, TypeOK
  <2> QED BY <2>2 DEF There, Latest, Held
<1>6. CASE Produce \/ (\E c \in Clearers : Clearing(c)) \/ Closing
           \/ UNCHANGED vars
  BY <1>1, <1>6, OthersKeepStatuses
<1>7. CASE Sleep \/ Exit \/ Coalesce \/ BeginClear \/ Decide \/ EndClear
  BY <1>1, <1>7 DEF Sleep, Exit, Coalesce, BeginClear, Decide, EndClear
<1>8. ASSUME NEW saved \in BOOLEAN, WriteLogs(saved) \/ DeleteLogs(saved)
      PROVE  There(n)'
  BY <1>1, <1>8 DEF WriteLogs, DeleteLogs
<1>9. ASSUME NEW taken \in SUBSET Nodes, TakeBatch(taken)
      PROVE  There(n)'
  <2>1. /\ UNCHANGED <<gen, revision, row, retry>> /\ flight = Nothing
        /\ \/ flight'[n] = statuses[n] /\ statuses'[n] = NoChange
           \/ flight'[n] = NoChange /\ statuses'[n] = statuses[n]
    BY <1>9 DEF TakeBatch, WriterPhase
  <2>2. flight[n] = NoChange
    BY <2>1 DEF Nothing
  <2> QED BY <1>0, <2>1, <2>2 DEF There, Latest, Held
<1>10. ASSUME NEW m \in Nodes, WriteStatus(m)
       PROVE  There(n)'
  <2>1. /\ UNCHANGED <<statuses, retry, gen, revision>>
        /\ \/ flight'[n] = flight[n] /\ row'[n] = row[n]
           \/ row'[n] = IF Newest(n, flight[n]) THEN flight[n] ELSE row[n]
    BY <1>10 DEF WriteStatus, TypeOK
  <2>2. Newest(n, flight[n]) <=> flight[n] = Latest(n)
    <3>1. flight[n] \in Changes
      BY DEF TypeOK
    <3> QED BY <3>1 DEF Newest, Latest, Changes
  <2> QED BY <2>1, <2>2 DEF There, Latest, Held
<1>11. ASSUME NEW m \in Nodes, FailStatus(m)
       PROVE  There(n)'
  <2>1. /\ UNCHANGED <<statuses, row, gen, revision>>
        /\ \/ flight'[n] = flight[n] /\ retry'[n] = retry[n]
           \/ flight[n] # NoChange /\ flight'[n] = NoChange
              /\ retry'[n] = flight[n]
    BY <1>11 DEF FailStatus, TypeOK
  <2>2. flight[n] # NoChange => retry[n] = NoChange
    BY <1>0 DEF OrderOf
  <2> QED BY <1>0, <2>1, <2>2 DEF There, Latest, Held
<1>12. CASE Settle
  <2>1. /\ UNCHANGED <<flight, gen, revision, row>> /\ flight = Nothing
        /\ retry' = Nothing /\ errors' = ErrorsOfBatch
        /\ statuses'[n] = IF /\ retry[n] # NoChange /\ ~stopped
                             /\ Newest(n, retry[n]) /\ statuses[n] = NoChange
                          THEN retry[n] ELSE statuses[n]
    BY <1>12 DEF Settle, Retried, WriterPhase
  <2>2. flight'[n] = NoChange /\ retry'[n] = NoChange /\ flight[n] = NoChange
    BY <2>1 DEF Nothing
  <2>3. CASE Latest(n) = row[n] \/ Latest(n) = statuses[n]
    BY <1>0, <2>1, <2>3 DEF There, Latest, Held
  <2>4. CASE Latest(n) = retry[n]
    <3>1. retry[n] # NoChange /\ Newest(n, retry[n])
      BY <1>0, <2>4 DEF Newest
    <3>2. statuses[n] = NoChange
      <4>1. statuses[n] # NoChange => statuses[n].gen = gen[n]
                                      /\ revision[n] < statuses[n].rev
        BY <1>0, <2>4, <3>1 DEF OrderOf, Overtaken
      <4>2. statuses[n].gen = gen[n] => statuses[n].rev <= revision[n]
        BY <1>0 DEF OrderOf, Known
      <4> QED BY <4>1, <4>2, ChangeNumbers
    <3>3. CASE ~stopped
      BY <2>1, <2>4, <3>1, <3>2, <3>3 DEF There, Latest, Held
    <3>4. CASE stopped
      <4>1. errors' > errors
        <5>1. retry # Nothing
          BY <3>1 DEF Nothing
        <5> QED BY <2>1, <5>1, FailedNumber
      <4> QED BY <1>12, <2>1, <2>2, <3>2, <3>4, <4>1
    <3> QED BY <3>3, <3>4
  <2> QED BY <1>0, <2>2, <2>3, <2>4 DEF There, Held
<1> QED
  BY <1>2, <1>3, <1>4, <1>5, <1>6, <1>7, <1>8, <1>9, <1>10, <1>11, <1>12
     DEF Next, NodeStep, WriterStep

\* Only an open queue takes a status.
LEMMA NewOwner ==
    ASSUME TypeOK, [Next]_vars, NEW n \in Nodes, latest'[n] = "worker",
           latest[n] # "worker"
    PROVE  ~stopped /\ There(n)'
<1> USE DEF queueVars, logVars, clearVars, statusVars, nodeVars, closeVars
<1>1. ASSUME NEW m \in Nodes, Status(m)
      PROVE  ~stopped /\ There(n)'
  <2>1. m = n
    BY <1>1 DEF Status, TypeOK
  <2> QED BY <1>1, <2>1 DEF Status, Reserve, There, Latest, Held, TypeOK
<1>2. ASSUME NEW m \in Nodes, ReserveProbe(m) \/ Edit(m) \/ Delete(m)
      PROVE  FALSE
  <2>1. latest \in [Nodes -> {"nobody", "worker", "probe"}]
    BY DEF TypeOK
  <2>2. \/ latest' = [latest EXCEPT ![m] = "probe"]
        \/ latest' = [latest EXCEPT ![m] = "nobody"]
    BY <1>2 DEF ReserveProbe, Edit, Delete
  <2> QED BY <2>1, <2>2
<1>3. ASSUME NEW m \in Nodes, NEW saved \in BOOLEAN, PersistProbe(m, saved)
      PROVE  FALSE
  BY <1>3 DEF PersistProbe
<1>4. CASE Produce \/ (\E c \in Clearers : Clearing(c)) \/ Closing
           \/ UNCHANGED vars
  BY <1>4, OthersKeepStatuses
<1>5. WriterStep => UNCHANGED latest
  BY DEF WriterStep, Sleep, Exit, Coalesce, BeginClear, Decide, EndClear,
         WriteLogs, DeleteLogs, TakeBatch, WriteStatus, FailStatus, Settle
<1> QED BY <1>1, <1>2, <1>3, <1>4, <1>5 DEF Next, NodeStep

\* A closed queue takes nothing, and it stays closed.
LEMMA ClosedQueue ==
    ASSUME TypeOK, WriterPhase, [Next]_vars, stopped, NEW n \in Nodes
    PROVE  /\ stopped'
           /\ Pends(n)' => Pends(n)
<1> USE DEF queueVars, logVars, clearVars, statusVars, nodeVars, closeVars
<1>1. ASSUME UNCHANGED <<statuses, flight, retry>>
      PROVE  Pends(n)' => Pends(n)
  BY <1>1 DEF Pends, Held
<1>2. ASSUME NEW m \in Nodes, NodeStep(m)
      PROVE  stopped' /\ UNCHANGED <<statuses, flight, retry>>
  BY <1>2 DEF NodeStep, Status, ReserveProbe, PersistProbe, Edit, Delete
<1>3. CASE Produce \/ (\E c \in Clearers : Clearing(c)) \/ Closing
           \/ UNCHANGED vars
  BY <1>1, <1>3, OthersKeepStatuses
<1>4. CASE Sleep \/ Exit \/ Coalesce \/ BeginClear \/ Decide \/ EndClear
  BY <1>1, <1>4 DEF Sleep, Exit, Coalesce, BeginClear, Decide, EndClear
<1>5. ASSUME NEW saved \in BOOLEAN, WriteLogs(saved) \/ DeleteLogs(saved)
      PROVE  stopped' /\ (Pends(n)' => Pends(n))
  BY <1>1, <1>5 DEF WriteLogs, DeleteLogs
<1>6. ASSUME NEW taken \in SUBSET Nodes, TakeBatch(taken)
      PROVE  stopped' /\ (Pends(n)' => Pends(n))
  <2>1. /\ stopped' = stopped /\ retry' = retry
        /\ \/ flight'[n] = statuses[n] /\ statuses'[n] = NoChange
           \/ flight'[n] = NoChange /\ statuses'[n] = statuses[n]
    BY <1>6 DEF TakeBatch
  <2> QED BY <2>1 DEF Pends, Held
<1>7. ASSUME NEW m \in Nodes, WriteStatus(m) \/ FailStatus(m)
      PROVE  stopped' /\ (Pends(n)' => Pends(n))
  <2>1. /\ stopped' = stopped /\ statuses' = statuses
        /\ flight'[n] \in {flight[n], NoChange}
        /\ retry'[n] \in {retry[n], flight[n]}
    <3>1. CASE WriteStatus(m)
      BY <3>1 DEF WriteStatus, TypeOK
    <3>2. CASE FailStatus(m)
      BY <3>2 DEF FailStatus, TypeOK
    <3> QED BY <1>7, <3>1, <3>2
  <2> QED BY <2>1 DEF Pends, Held
<1>8. CASE Settle
  <2>1. /\ stopped' = stopped /\ flight' = flight
        /\ retry'[n] = NoChange /\ statuses'[n] = statuses[n]
    BY <1>8 DEF Settle, Retried, Nothing, TypeOK
  <2> QED BY <2>1 DEF Pends, Held
<1> QED
  BY <1>1, <1>2, <1>3, <1>4, <1>5, <1>6, <1>7, <1>8 DEF Next, WriterStep

LEMMA KeptStep ==
    ASSUME TypeOK, WriterPhase, StatusOrder, StatusKept, [Next]_vars
    PROVE  StatusKept'
<1> SUFFICES ASSUME NEW n \in Nodes, latest'[n] = "worker",
                    ~stopped' \/ Pends(n)'
             PROVE  There(n)'
  BY DEF StatusKept
<1>1. CASE latest[n] # "worker"
  BY <1>1, NewOwner
<1>2. CASE latest[n] = "worker"
  <2>1. ~stopped \/ Pends(n)
    BY ClosedQueue
  <2>2. There(n)
    BY <1>2, <2>1 DEF StatusKept
  <2>3. ~(/\ stopped /\ statuses'[n] = NoChange /\ flight'[n] = NoChange
          /\ retry'[n] = NoChange)
    BY ClosedQueue DEF Pends, Held
  <2> QED BY <1>2, <2>2, <2>3, ThereStays
<1> QED BY <1>1, <1>2

LEMMA RegressStep ==
    ASSUME TypeOK, StatusOrder, [Next]_vars,
           NEW n \in Nodes, row'[n] # row[n], gen'[n] = gen[n]
    PROVE  row'[n].rev > row[n].rev
<1> USE DEF queueVars, logVars, clearVars, statusVars, nodeVars, closeVars
<1>0. row[n].gen = gen[n] /\ row[n].rev <= revision[n]
  BY DEF StatusOrder, OrderOf
<1>1. ASSUME NEW change \in Changes, Newest(n, change), row'[n] = change
      PROVE  row'[n].rev > row[n].rev
  <2>1. row[n] \in Changes
    BY DEF TypeOK
  <2>2. change.rev # row[n].rev
    BY <1>0, <1>1, <2>1 DEF Newest, Changes
  <2> QED BY <1>0, <1>1, <2>2, ChangeNumbers DEF Newest
<1>2. ASSUME NEW m \in Nodes, NEW saved \in BOOLEAN, PersistProbe(m, saved)
      PROVE  row'[n].rev > row[n].rev
  <2>1. Newest(n, probeWrite[n]) /\ row'[n] = probeWrite[n]
    BY <1>2 DEF PersistProbe, TypeOK
  <2> QED BY <1>1, <2>1 DEF TypeOK
<1>3. ASSUME NEW m \in Nodes, WriteStatus(m)
      PROVE  row'[n].rev > row[n].rev
  <2>1. Newest(n, flight[n]) /\ row'[n] = flight[n]
    BY <1>3 DEF WriteStatus, TypeOK
  <2> QED BY <1>1, <2>1 DEF TypeOK
<1>4. ASSUME NEW m \in Nodes, Edit(m) \/ Delete(m)
      PROVE  FALSE
  <2>1. m = n
    BY <1>4 DEF Edit, Delete, TypeOK
  <2>2. gen[n] \in 0..MaxGen
    BY DEF TypeOK
  <2>3. CASE Edit(m)
    <3>1. gen'[n] = gen[n] + 1
      BY <2>1, <2>3 DEF Edit, TypeOK
    <3> QED BY <2>2, <3>1
  <2>4. CASE Delete(m)
    BY <2>1, <2>2, <2>4 DEF Delete, TypeOK
  <2> QED BY <1>4, <2>3, <2>4
<1>5. ASSUME NEW m \in Nodes, Status(m) \/ ReserveProbe(m)
      PROVE  FALSE
  BY <1>5 DEF Status, ReserveProbe
<1>6. CASE Produce \/ (\E c \in Clearers : Clearing(c)) \/ Closing
           \/ UNCHANGED vars
  BY <1>6, OthersKeepStatuses
<1>7. WriterStep => UNCHANGED row \/ \E m \in Nodes : WriteStatus(m)
  BY DEF WriterStep, Sleep, Exit, Coalesce, BeginClear, Decide, EndClear,
         WriteLogs, DeleteLogs, TakeBatch, FailStatus, Settle
<1> QED BY <1>2, <1>3, <1>4, <1>5, <1>6, <1>7 DEF Next, NodeStep

-----------------------------------------------------------------------------
(* The last flush. *)

\* What a closed queue holds, the tables had or an error tells of.
LEMMA FoundStays ==
    ASSUME TypeOK, WriterPhase, Requests, clear.remaining <= Len(jobs),
           [Next]_vars, stopped
    PROVE  /\ errors' \in Nat /\ errors <= errors'
           /\ Found \subseteq Found' \/ errors < errors'
           /\ table \cup erased \subseteq table' \cup erased'
<1> USE DEF queueVars, logVars, clearVars, statusVars, nodeVars, closeVars
<1>0. errors \in Nat
  BY FailedNumber
<1>1. ASSUME UNCHANGED <<jobs, batch, errors>>, table \subseteq table',
             erased \subseteq erased'
      PROVE  /\ errors' \in Nat /\ errors <= errors' /\ Found \subseteq Found'
             /\ table \cup erased \subseteq table' \cup erased'
  BY <1>0, <1>1 DEF Found, Queued
<1>2. ASSUME NEW log \in Logs, Accept(log) \/ Refuse(log) \/ Evict(log)
      PROVE  UNCHANGED <<jobs, batch, table, erased, errors>>
  BY <1>2 DEF Accept, Refuse, Evict, Offer
<1>3. ASSUME NEW c \in Clearers, Clearing(c)
      PROVE  UNCHANGED <<jobs, batch, table, erased, errors>>
  <2>1. CASE RequestClear(c)
    BY <2>1 DEF RequestClear
  <2>2. CASE ReceiveReply(c)
    BY <2>2 DEF ReceiveReply
  <2>3. CASE TimeOut(c)
    BY <2>3 DEF TimeOut
  <2>4. CASE Withdraw(c)
    BY <2>4 DEF Withdraw
  <2> QED BY <1>3, <2>1, <2>2, <2>3, <2>4 DEF Clearing
<1>4. ASSUME NEW n \in Nodes, NodeStep(n)
      PROVE  UNCHANGED <<jobs, batch, table, erased, errors>>
  BY <1>4 DEF NodeStep, Status, ReserveProbe, PersistProbe, Edit, Delete
<1>5. (Sleep \/ Exit \/ Coalesce \/ BeginClear \/ Decide \/ EndClear) =>
        UNCHANGED <<jobs, batch, table, erased, errors>>
  BY DEF Sleep, Exit, Coalesce, BeginClear, Decide, EndClear
<1>6. ASSUME NEW taken \in SUBSET Nodes, TakeBatch(taken)
      PROVE  /\ UNCHANGED <<table, erased, errors>>
             /\ Queued \cup batch \subseteq Queued' \cup batch'
  <2>1. Count \in 0..Len(jobs)
    BY CountInRange DEF Requests
  <2>2. /\ jobs' = SubSeq(jobs, Count + 1, Len(jobs)) /\ batch = {}
        /\ batch' = {jobs[i].id : i \in 1..Count}
        /\ UNCHANGED <<table, erased, errors>>
    BY <1>6 DEF TakeBatch, WriterPhase
  <2>3. /\ DOMAIN jobs' = 1..(Len(jobs) - Count)
        /\ \A i \in 1..(Len(jobs) - Count) : jobs'[i] = jobs[i + Count]
    <3>1. jobs \in Seq(Logs)
      BY Numbers
    <3>2. jobs' \in Seq(Logs) /\ Len(jobs') = Len(jobs) - Count
          /\ \A i \in 1..(Len(jobs) - Count) : jobs'[i] = jobs[i + Count]
      BY <2>1, <2>2, <3>1, TakenLogs
    <3> QED BY <3>2
  <2>4. Len(jobs) \in Nat /\ DOMAIN jobs = 1..Len(jobs)
    BY MarkNumbers
  <2> HIDE DEF Count
  <2>5. ASSUME NEW i \in DOMAIN jobs
        PROVE  jobs[i].id \in Queued' \cup batch'
    <3>1. CASE i <= Count
      <4>1. i \in 1..Count
        BY <2>1, <2>4, <3>1
      <4> QED BY <2>2, <4>1
    <3>2. CASE ~(i <= Count)
      <4>1. i - Count \in 1..(Len(jobs) - Count) /\ (i - Count) + Count = i
        BY <2>1, <2>4, <3>2
      <4>2. jobs'[i - Count] = jobs[i] /\ i - Count \in DOMAIN jobs'
        BY <2>3, <4>1
      <4> QED BY <4>2 DEF Queued
    <3> QED BY <3>1, <3>2
  <2> QED BY <2>2, <2>5 DEF Queued
<1>7. ASSUME NEW n \in Nodes, WriteStatus(n) \/ FailStatus(n)
      PROVE  UNCHANGED <<jobs, batch, table, erased, errors>>
  BY <1>7 DEF WriteStatus, FailStatus
<1>8. ASSUME NEW saved \in BOOLEAN, WriteLogs(saved)
      PROVE  UNCHANGED <<jobs, batch, erased, errors>> /\ table \subseteq table'
  BY <1>8 DEF WriteLogs
<1>9. CASE Settle
  <2>1. /\ UNCHANGED <<jobs, table, erased>> /\ errors' = ErrorsOfBatch
        /\ result \in {{}, batch} /\ result \subseteq table
    BY <1>9 DEF Settle, WriterPhase
  <2>2. CASE result = batch
    <3>1. Found \subseteq Found'
      BY <2>1, <2>2 DEF Found, Queued
    <3>2. errors' \in Nat /\ errors <= errors'
      BY <2>1, FailedNumber
    <3> QED BY <2>1, <3>1, <3>2
  <2>3. CASE result # batch
    <3>1. errors' = Failed + 1 /\ Failed \in Nat /\ errors <= Failed
      BY <2>1, <2>3, FailedNumber
    <3>2. errors' \in Nat /\ errors < errors' /\ errors <= errors'
      BY <1>0, <3>1
    <3> QED BY <2>1, <3>2
  <2> QED BY <2>2, <2>3
<1>10. ASSUME NEW saved \in BOOLEAN, DeleteLogs(saved)
       PROVE  /\ UNCHANGED <<jobs, batch, errors>>
              /\ table \cup erased \subseteq table' \cup erased'
  BY <1>10 DEF DeleteLogs
<1>11. (Closing \/ UNCHANGED vars) =>
         UNCHANGED <<jobs, batch, table, erased, errors>>
  BY DEF Closing, Seal, FinishFlush, FlushTimesOut, vars
<1>12. \/ UNCHANGED <<jobs, batch, errors>> /\ table \subseteq table'
          /\ erased \subseteq erased'
       \/ \E taken \in SUBSET Nodes : TakeBatch(taken)
       \/ Settle
       \/ \E saved \in BOOLEAN : DeleteLogs(saved)
  BY <1>2, <1>3, <1>4, <1>5, <1>7, <1>8, <1>11, LogOffered
     DEF Next, WriterStep
<1>13. ASSUME NEW taken \in SUBSET Nodes, TakeBatch(taken)
       PROVE  /\ errors' \in Nat /\ errors <= errors' /\ Found \subseteq Found'
              /\ table \cup erased \subseteq table' \cup erased'
  BY <1>0, <1>6, <1>13 DEF Found
<1>14. ASSUME NEW saved \in BOOLEAN, DeleteLogs(saved)
       PROVE  /\ errors' \in Nat /\ errors <= errors' /\ Found \subseteq Found'
              /\ table \cup erased \subseteq table' \cup erased'
  BY <1>0, <1>10, <1>14 DEF Found, Queued
<1> QED BY <1>1, <1>9, <1>12, <1>13, <1>14

\* A row that shows the newest status goes on showing it.
LEMMA RowStays ==
    ASSUME TypeOK, [Next]_vars, stopped, NEW n \in Nodes,
           latest[n] = "worker", latest'[n] = "worker", row[n] = Latest(n)
    PROVE  row'[n] = Latest(n)'
<1> USE DEF queueVars, logVars, clearVars, statusVars, nodeVars, closeVars
<1>1. ASSUME NEW m \in Nodes, Status(m)
      PROVE  FALSE
  BY <1>1 DEF Status
<1>2. ASSUME NEW m \in Nodes, ReserveProbe(m) \/ Edit(m) \/ Delete(m)
      PROVE  row'[n] = row[n] /\ Latest(n)' = Latest(n)
  <2>1. m # n
    BY <1>2 DEF ReserveProbe, Edit, Delete, TypeOK
  <2>2. gen'[n] = gen[n] /\ revision'[n] = revision[n] /\ row'[n] = row[n]
    <3>1. /\ gen \in [Nodes -> 0..MaxGen] /\ row \in [Nodes -> Changes]
          /\ revision \in [Nodes -> 0..MaxRevision]
      BY DEF TypeOK
    <3>2. CASE ReserveProbe(m)
      BY <2>1, <3>1, <3>2 DEF ReserveProbe, Reserve
    <3>3. CASE Edit(m)
      BY <2>1, <3>1, <3>3 DEF Edit
    <3>4. CASE Delete(m)
      BY <2>1, <3>1, <3>4 DEF Delete
    <3> QED BY <1>2, <3>2, <3>3, <3>4
  <2> QED BY <2>2 DEF Latest
<1>3. ASSUME NEW m \in Nodes, NEW saved \in BOOLEAN, PersistProbe(m, saved)
      PROVE  row'[n] = Latest(n)'
  <2>1. /\ UNCHANGED <<gen, revision>>
        /\ row'[n] = row[n] \/ (row'[n] = probeWrite[n]
                                /\ Newest(n, probeWrite[n]))
    BY <1>3 DEF PersistProbe, TypeOK
  <2>2. Newest(n, probeWrite[n]) => probeWrite[n] = Latest(n)
    BY DEF Newest, Latest, TypeOK, Changes
  <2> QED BY <2>1, <2>2 DEF Latest
<1>4. ASSUME NEW m \in Nodes, WriteStatus(m)
      PROVE  row'[n] = Latest(n)'
  <2>1. /\ UNCHANGED <<gen, revision>>
        /\ row'[n] = row[n] \/ (row'[n] = flight[n] /\ Newest(n, flight[n]))
    BY <1>4 DEF WriteStatus, TypeOK
  <2>2. Newest(n, flight[n]) => flight[n] = Latest(n)
    BY DEF Newest, Latest, TypeOK, Changes
  <2> QED BY <2>1, <2>2 DEF Latest
<1>5. CASE Produce \/ (\E c \in Clearers : Clearing(c)) \/ Closing
           \/ UNCHANGED vars
  BY <1>5, OthersKeepStatuses DEF Latest
<1>6. WriterStep => \/ UNCHANGED <<row, gen, revision>>
                    \/ \E m \in Nodes : WriteStatus(m)
  BY DEF WriterStep, Sleep, Exit, Coalesce, BeginClear, Decide, EndClear,
         WriteLogs, DeleteLogs, TakeBatch, FailStatus, Settle
<1> QED
  BY <1>1, <1>2, <1>3, <1>4, <1>5, <1>6 DEF Next, NodeStep, Latest

\* Who seals, and who flushes.
LEMMA CloserMoves ==
    ASSUME TypeOK, [Next]_vars
    PROVE  \/ Seal \/ FinishFlush \/ FlushTimesOut
           \/ UNCHANGED <<closer, sealed, stopped>>
<1> USE DEF queueVars, logVars, clearVars, statusVars, nodeVars, closeVars
<1>1. ASSUME NEW log \in Logs, Accept(log) \/ Refuse(log) \/ Evict(log)
      PROVE  UNCHANGED <<closer, sealed, stopped>>
  BY <1>1 DEF Accept, Refuse, Evict, Offer
<1>2. ASSUME NEW c \in Clearers, Clearing(c)
      PROVE  UNCHANGED <<closer, sealed, stopped>>
  <2>1. CASE RequestClear(c)
    BY <2>1 DEF RequestClear
  <2>2. CASE ReceiveReply(c)
    BY <2>2 DEF ReceiveReply
  <2>3. CASE TimeOut(c)
    BY <2>3 DEF TimeOut
  <2>4. CASE Withdraw(c)
    BY <2>4 DEF Withdraw
  <2> QED BY <1>2, <2>1, <2>2, <2>3, <2>4 DEF Clearing
<1>3. ASSUME NEW n \in Nodes, NodeStep(n)
      PROVE  UNCHANGED <<closer, sealed, stopped>>
  BY <1>3 DEF NodeStep, Status, ReserveProbe, PersistProbe, Edit, Delete
<1>4. WriterStep => UNCHANGED <<closer, sealed, stopped>>
  <2>1. (Sleep \/ Exit \/ Coalesce \/ BeginClear \/ Decide \/ EndClear
         \/ Settle) => UNCHANGED <<closer, sealed, stopped>>
    BY DEF Sleep, Exit, Coalesce, BeginClear, Decide, EndClear, Settle
  <2>2. ASSUME NEW taken \in SUBSET Nodes, TakeBatch(taken)
        PROVE  UNCHANGED <<closer, sealed, stopped>>
    BY <2>2 DEF TakeBatch
  <2>3. ASSUME NEW n \in Nodes, WriteStatus(n) \/ FailStatus(n)
        PROVE  UNCHANGED <<closer, sealed, stopped>>
    BY <2>3 DEF WriteStatus, FailStatus
  <2>4. ASSUME NEW saved \in BOOLEAN, WriteLogs(saved) \/ DeleteLogs(saved)
        PROVE  UNCHANGED <<closer, sealed, stopped>>
    BY <2>4 DEF WriteLogs, DeleteLogs
  <2> QED BY <2>1, <2>2, <2>3, <2>4 DEF WriterStep
<1>5. (UNCHANGED vars) => UNCHANGED <<closer, sealed, stopped>>
  BY DEF vars
<1> QED
  BY <1>1, <1>2, <1>3, <1>4, <1>5, LogOffered DEF Next, Closing

LEMMA FlushStep ==
    ASSUME TypeOK, WriterPhase, Requests, clear.remaining <= Len(jobs),
           StatusOrder, StatusKept, FlushInv, [Next]_vars
    PROVE  FlushInv'
<1> USE DEF queueVars, logVars, clearVars, statusVars, nodeVars, closeVars
<1>0. errors \in Nat
  BY FailedNumber
<1>1. CASE Seal
  <2>1. /\ closer' = "flushing" /\ stopped' /\ sealed'.errors = errors
        /\ sealed'.logs = Queued \cup batch
        /\ sealed'.nodes = {n \in Nodes : Pends(n)}
        /\ UNCHANGED <<errors, jobs, batch, table, erased, statuses, flight,
                       retry, latest, gen, revision, row>>
    BY <1>1 DEF Seal, Pends, Held
  <2>2. sealed'.logs \subseteq (Queued \cup batch \cup table \cup erased)'
    BY <2>1 DEF Queued
  <2>3. ASSUME NEW n \in sealed'.nodes, latest'[n] = "worker"
        PROVE  There(n)'
    <3>1. n \in Nodes /\ Pends(n) /\ latest[n] = "worker"
      BY <2>1, <2>3
    <3>2. There(n)
      BY <3>1 DEF StatusKept
    <3> QED BY <2>1, <3>2 DEF There, Latest, Held
  <2>4. Flushing'
    BY <1>0, <2>1, <2>2, <2>3 DEF Flushing, Found
  <2> QED BY <2>1, <2>4 DEF FlushInv, SealedFlushIsDurable
<1>2. CASE FlushTimesOut
  BY <1>2 DEF FlushTimesOut, FlushInv, Flushing, SealedFlushIsDurable
<1>3. CASE FinishFlush
  <2>1. /\ closer = "flushing" /\ closer' \in {"flushed", "failed"}
        /\ closer' = "flushed" => sealed.errors = errors
        /\ Drained
        /\ UNCHANGED <<sealed, stopped, errors, table, erased, latest, gen,
                       revision, row>>
    BY <1>3 DEF FinishFlush, Verdict
  <2>2. Queued = {} /\ batch = {} /\ flight = Nothing /\ retry = Nothing
        /\ \A n \in Nodes : statuses[n] = NoChange
    BY <2>1 DEF Drained, Empty, Pending, Working, Queued, WriterPhase
  <2>3. ASSUME closer' = "flushed"
        PROVE  /\ sealed.logs \subseteq table \cup erased
               /\ \A n \in sealed.nodes : latest[n] = "worker" =>
                    row[n] = Latest(n)
    <3>1. /\ sealed.logs \subseteq Queued \cup batch \cup table \cup erased
          /\ \A n \in sealed.nodes : latest[n] = "worker" => There(n)
      BY <2>1, <2>3 DEF FlushInv, Flushing, Found
    <3>2. ASSUME NEW n \in sealed.nodes, latest[n] = "worker"
          PROVE  row[n] = Latest(n)
      <4>1. n \in Nodes
        BY DEF TypeOK
      <4>2. Held(n) = {NoChange} /\ Latest(n) # NoChange
        BY <2>2, <3>2, <4>1, NewestIsAChange DEF Held, Nothing
      <4> QED BY <3>1, <3>2, <4>2 DEF There
    <3> QED BY <2>2, <3>1, <3>2
  <2>4. SealedFlushIsDurable'
    BY <2>1, <2>3 DEF SealedFlushIsDurable, Latest
  <2>5. Flushing'
    BY <2>1 DEF FlushInv, Flushing
  <2> QED BY <2>4, <2>5 DEF FlushInv
<1>4. CASE UNCHANGED <<closer, sealed, stopped>>
  <2>1. (closer = "open" <=> ~stopped) /\ SealedFlushIsDurable
    BY DEF FlushInv, Flushing
  <2>2. CASE ~stopped
    BY <1>4, <2>1, <2>2 DEF FlushInv, Flushing, SealedFlushIsDurable
  <2>3. CASE stopped
    <3>1. /\ errors' \in Nat /\ errors <= errors'
          /\ Found \subseteq Found' \/ errors < errors'
          /\ table \cup erased \subseteq table' \cup erased'
      BY <2>3, FoundStays
    <3>2. ASSUME NEW n \in Nodes, latest'[n] = "worker"
          PROVE  latest[n] = "worker"
      BY <2>3, <3>2, NewOwner
    <3>3. sealed.errors \in Nat /\ \A n \in sealed.nodes : n \in Nodes
      <4>1. sealed.errors \in 0..MaxErrors
        BY DEF TypeOK
      <4>2. \A n \in sealed.nodes : n \in Nodes
        BY DEF TypeOK
      <4> QED BY <4>1, <4>2
    <3>4. SealedFlushIsDurable'
      <4> SUFFICES ASSUME closer = "flushed"
                   PROVE  /\ sealed.logs \subseteq table' \cup erased'
                          /\ \A n \in sealed.nodes : latest'[n] = "worker" =>
                               row'[n] = Latest(n)'
        BY <1>4 DEF SealedFlushIsDurable, Latest
      <4>1. /\ sealed.logs \subseteq table \cup erased
            /\ \A n \in sealed.nodes : latest[n] = "worker" =>
                 row[n] = Latest(n)
        BY <2>1 DEF SealedFlushIsDurable, Latest
      <4>2. ASSUME NEW n \in sealed.nodes, latest'[n] = "worker"
            PROVE  row'[n] = Latest(n)'
        BY <2>3, <3>2, <3>3, <4>1, <4>2, RowStays
      <4> QED BY <3>1, <4>1, <4>2
    <3>5. Flushing'
      <4> SUFFICES ASSUME closer = "flushing"
                   PROVE  /\ sealed.errors <= errors'
                          /\ sealed.errors = errors' =>
                               /\ sealed.logs \subseteq Found'
                               /\ \A n \in sealed.nodes :
                                    latest'[n] = "worker" => There(n)'
        BY <1>4, <2>1 DEF Flushing
      <4>1. /\ sealed.errors <= errors
            /\ sealed.errors = errors =>
                 /\ sealed.logs \subseteq Found
                 /\ \A n \in sealed.nodes : latest[n] = "worker" => There(n)
        BY DEF FlushInv, Flushing
      <4>2. sealed.errors <= errors'
        BY <1>0, <3>1, <3>3, <4>1
      <4>3. ASSUME sealed.errors = errors'
            PROVE  /\ sealed.logs \subseteq Found'
                   /\ \A n \in sealed.nodes :
                        latest'[n] = "worker" => There(n)'
        <5>1. sealed.errors = errors /\ ~(errors < errors') /\ ~(errors' > errors)
          BY <1>0, <3>1, <3>3, <4>1, <4>3
        <5>2. sealed.logs \subseteq Found'
          BY <3>1, <4>1, <5>1
        <5>3. ASSUME NEW n \in sealed.nodes, latest'[n] = "worker"
              PROVE  There(n)'
          <6>1. n \in Nodes /\ latest[n] = "worker" /\ There(n)
            BY <3>2, <3>3, <4>1, <5>1, <5>3
          <6> QED BY <5>1, <5>3, <6>1, ThereStays
        <5> QED BY <5>2, <5>3
      <4> QED BY <4>2, <4>3
    <3> QED BY <3>4, <3>5 DEF FlushInv
  <2> QED BY <2>2, <2>3
<1> QED BY <1>1, <1>2, <1>3, <1>4, CloserMoves

-----------------------------------------------------------------------------
(* The invariant, and what follows from it. *)

\* An empty queue, an idle writer and rows of which nothing is on its way.
LEMMA WorkerInit == Init => WorkerInv
<1> SUFFICES ASSUME Init PROVE WorkerInv
  OBVIOUS
<1>1. Len(jobs) = 0 /\ DOMAIN jobs = {} /\ jobs \in Seq(Logs) /\ batch = {}
      /\ offered = 0 /\ written = 0 /\ dropped = 0
  BY DEF Init
<1>2. Cardinality({}) = 0
  BY FS_EmptySet
<1>3. TypeOK
  <2>1. /\ clear \in [by : Clearers \cup {NoClearer}, remaining : 0..Capacity]
        /\ sealed \in [errors : 0..MaxErrors, logs : SUBSET (1..MaxLogs),
                       nodes : SUBSET Nodes]
    BY DEF Init, NoClear, NotSealed
  <2>2. /\ statuses \in [Nodes -> Changes] /\ flight \in [Nodes -> Changes]
        /\ retry \in [Nodes -> Changes] /\ probeWrite \in [Nodes -> Changes]
        /\ row \in [Nodes -> Changes]
    BY DEF Init, Nothing, NoChange, Changes
  <2>3. /\ gen \in [Nodes -> 0..MaxGen] /\ revision \in [Nodes -> 0..MaxRevision]
        /\ mark \in [Clearers -> 0..MaxLogs]
    BY DEF Init
  <2>4. /\ errors \in 0..MaxErrors /\ offered \in 0..MaxLogs
        /\ written \in 0..MaxLogs /\ dropped \in 0..MaxLogs
    BY <1>1 DEF Init
  <2> QED BY <1>1, <2>1, <2>2, <2>3, <2>4 DEF Init, TypeOK
<1>4. QueueInv
  <2>1. {i \in DOMAIN jobs : ~jobs[i].important} = {}
    BY <1>1
  <2>2. QueueBounded
    BY <1>1, <1>2, <2>1 DEF QueueBounded
  <2>3. EveryLogIsCounted
    <3>1. Cardinality(batch) = 0
      BY <1>1, <1>2
    <3> QED BY <1>1, <3>1 DEF EveryLogIsCounted
  <2> QED BY <1>3, <2>2, <2>3 DEF QueueInv
<1>5. WriterPhase
  BY DEF Init, WriterPhase
<1>6. ErrorBudget
  <2>1. Failed = errors /\ errors = 0 /\ worker = "look"
    BY <1>3, FailedNumber DEF Init
  <2> QED BY <2>1 DEF ErrorBudget
<1>7. Requests
  BY DEF Init, Requests, NoClear
<1>8. MarksInv
  <2>1. clear.by = NoClearer /\ clear.remaining = 0
    BY DEF Init, NoClear
  <2> QED BY <1>1, <2>1 DEF Init, MarksInv, LogOrder, Barriers, Clears
<1>9. StatusOrder /\ StatusKept
  BY DEF Init, StatusOrder, OrderOf, Known, Overtaken, StatusKept, Nothing,
         NoChange
<1>10. FlushInv
  BY DEF Init, FlushInv, Flushing, SealedFlushIsDurable
<1> QED BY <1>4, <1>5, <1>6, <1>7, <1>8, <1>9, <1>10 DEF WorkerInv

\* Every handler and every step of the writer keeps each part of it.
LEMMA WorkerStep == WorkerInv /\ [Next]_vars => WorkerInv'
<1> SUFFICES ASSUME WorkerInv, [Next]_vars PROVE WorkerInv'
  OBVIOUS
<1>1. /\ TypeOK /\ clear.remaining <= Len(jobs)
      /\ clear.by = NoClearer => clear.remaining = 0
      /\ LogOrder
  BY DEF WorkerInv, QueueInv, MarksInv, Barriers, Requests
<1>2. QueueInv'
  BY <1>1, TypeStep DEF WorkerInv
<1>3. WriterPhase'
  BY <1>1, PhaseStep DEF WorkerInv
<1>4. ErrorBudget'
  BY <1>1, BudgetStep DEF WorkerInv
<1>5. Requests'
  BY <1>1, RequestsStep DEF WorkerInv
<1>6. MarksInv'
  BY <1>1, <1>2, MarksStep DEF WorkerInv, QueueInv
<1>7. StatusOrder'
  BY <1>1, OrderStep DEF WorkerInv
<1>8. StatusKept'
  BY <1>1, KeptStep DEF WorkerInv
<1>9. FlushInv'
  BY <1>1, FlushStep DEF WorkerInv
<1> QED
  BY <1>2, <1>3, <1>4, <1>5, <1>6, <1>7, <1>8, <1>9 DEF WorkerInv

\* The inductive invariant of the database worker, for every capacity, batch
\* size, number of callers and of nodes.
THEOREM WorkerInvHolds == Spec => []WorkerInv
  BY WorkerInit, WorkerStep, PTL DEF Spec

\* The queue stays within its capacity, regular logs never enter the failure
\* reserve, and every log that was offered is queued, in hand, written or
\* dropped, and counted once (DatabaseWorker::log and write_batch).
THEOREM QueueInvHolds == Spec => []QueueInv
<1>1. WorkerInv => QueueInv
  BY DEF WorkerInv
<1> QED BY <1>1, WorkerInvHolds, PTL

\* clear_logs tells the truth: after "cleared" no log offered before the
\* request is left anywhere, and a request that was withdrawn never deletes.
THEOREM ClearsAreHonestHolds == Spec => []ClearsAreHonest
<1>1. WorkerInv => ClearsAreHonest
  <2> SUFFICES ASSUME WorkerInv PROVE ClearsAreHonest
    OBVIOUS
  <2>1. TypeOK /\ Requests /\ Clears
    BY DEF WorkerInv, QueueInv, MarksInv
  <2>2. WithdrawnNeverDeletes
    BY <2>1 DEF Requests, WithdrawnNeverDeletes
  <2>3. ASSUME NEW c \in Clearers, reply[c] = "cleared"
        PROVE  (table \cup Queued \cup batch) \cap 1..mark[c] = {}
    <3>1. mark[c] \in Nat
      BY <2>1, MarkNumbers
    <3>2. \A x \in table \cup Queued \cup batch : x > mark[c]
      BY <2>1, <2>3 DEF Clears, Queued
    <3>3. \A x \in table \cup Queued \cup batch : x \in Nat
      BY <2>1, MarkNumbers DEF Queued
    <3>4. ASSUME NEW x \in table \cup Queued \cup batch, x \in 1..mark[c]
          PROVE  FALSE
      <4>1. x > mark[c] /\ x \in Nat
        BY <3>2, <3>3
      <4> QED BY <3>1, <3>4, <4>1
    <3> QED BY <3>4
  <2> QED BY <2>2, <2>3 DEF ClearsAreHonest, ClearedStaysCleared
<1> QED BY <1>1, WorkerInvHolds, PTL

\* A flush at exit that counted no new error has every log and status the
\* queue held when it was closed in the tables, or a newer one.
THEOREM SealedFlushIsDurableHolds == Spec => []SealedFlushIsDurable
<1>1. WorkerInv => SealedFlushIsDurable
  BY DEF WorkerInv, FlushInv
<1> QED BY <1>1, WorkerInvHolds, PTL

\* Neither coalescing nor the retry of a failed write loses the newest status
\* of the runtime, and no row shows one of a former configuration.
THEOREM StatusOnItsWayHolds == Spec => []StatusOnItsWay
<1>1. WorkerInv => StatusOnItsWay
  BY DEF WorkerInv, StatusOrder, OrderOf, StatusKept, There, StatusOnItsWay,
         Latest, Held
<1> QED BY <1>1, WorkerInvHolds, PTL

\* No write of a status, by the writer thread or by a probe, replaces a newer
\* status of the same configuration.
THEOREM StatusNeverRegressesHolds == Spec => StatusNeverRegresses
<1>1. WorkerInv /\ [Next]_vars =>
        [\A n \in Nodes :
           row'[n] # row[n] /\ gen'[n] = gen[n] => row'[n].rev > row[n].rev]_vars
  BY RegressStep DEF WorkerInv, QueueInv
<1> QED BY <1>1, WorkerInvHolds, PTL DEF Spec, StatusNeverRegresses

-----------------------------------------------------------------------------
(* The worker implements LogStore. *)

\* What is in hand came before what is queued.
BatchFirst == \A x \in batch, y \in Queued : x < y

\* An accepted log joins those that are queued.
LEMMA AcceptedIds ==
    ASSUME TypeOK, NEW log \in Logs, Accept(log)
    PROVE  Queued' = Queued \cup {offered + 1} /\ offered' = offered + 1
<1>1. jobs' = Append(jobs, log) /\ log.id = offered + 1
      /\ offered' = offered + 1
  BY DEF Accept, Offer, Push
<1>2. jobs \in Seq(Logs) /\ Len(jobs) \in Nat /\ DOMAIN jobs = 1..Len(jobs)
  BY Numbers, QueuedNumbers
<1>3. /\ DOMAIN jobs' = 1..(Len(jobs) + 1)
      /\ \A i \in 1..Len(jobs) : jobs'[i] = jobs[i]
      /\ jobs'[Len(jobs) + 1] = log
  <2>1. /\ jobs' \in Seq(Logs) /\ Len(jobs') = Len(jobs) + 1
        /\ \A i \in 1..Len(jobs) : jobs'[i] = jobs[i]
        /\ jobs'[Len(jobs) + 1] = log
    BY <1>1, <1>2, AppendedLog
  <2>2. DOMAIN jobs' = 1..Len(jobs')
    BY <2>1
  <2> QED BY <2>1, <2>2
<1>4. \A i \in DOMAIN jobs' : i \in DOMAIN jobs \/ i = Len(jobs) + 1
  BY <1>2, <1>3
<1>5. \A i \in DOMAIN jobs : i \in DOMAIN jobs'
  BY <1>2, <1>3
<1>6. Len(jobs) + 1 \in DOMAIN jobs'
  BY <1>2, <1>3
<1>7. Queued' = {jobs'[i].id : i \in DOMAIN jobs'}
  BY DEF Queued
<1> QED BY <1>1, <1>2, <1>3, <1>4, <1>5, <1>6, <1>7 DEF Queued

\* A failure that takes the place of a regular log.
LEMMA EvictedIds ==
    ASSUME TypeOK, LogOrder, clear.by = NoClearer => clear.remaining = 0,
           NEW log \in Logs, Evict(log), jobs' \in Seq(Logs)
    PROVE  /\ \E x \in Queued : Queued' = (Queued \ {x}) \cup {offered + 1}
           /\ offered' = offered + 1
<1>1. PICK k \in 1..Len(jobs) :
        /\ Len(jobs') = Len(jobs)
        /\ \A i \in 1..(Len(jobs) - 1) :
             jobs'[i] = IF i < k THEN jobs[i] ELSE jobs[i + 1]
        /\ jobs'[Len(jobs)] = log
  BY Evicted
<1>2. log.id = offered + 1 /\ offered' = offered + 1
  BY DEF Evict, Offer
<1>3. Len(jobs) \in Nat /\ DOMAIN jobs = 1..Len(jobs)
      /\ DOMAIN jobs' = 1..Len(jobs) /\ k \in Nat /\ k > 0
  <2>1. Len(jobs) \in Nat /\ DOMAIN jobs = 1..Len(jobs)
    BY Numbers, QueuedNumbers
  <2>2. DOMAIN jobs' = 1..Len(jobs')
    OBVIOUS
  <2> QED BY <1>1, <2>1, <2>2
<1>4. \A i \in DOMAIN jobs' :
        \/ i = Len(jobs)
        \/ i \in DOMAIN jobs /\ i < k /\ jobs'[i] = jobs[i]
        \/ i + 1 \in DOMAIN jobs /\ i + 1 > k /\ jobs'[i] = jobs[i + 1]
  BY <1>1, <1>3
<1>5. \A i \in DOMAIN jobs :
        \/ i = k
        \/ i \in DOMAIN jobs' /\ jobs'[i] = jobs[i]
        \/ i - 1 \in DOMAIN jobs' /\ jobs'[i - 1] = jobs[i]
  <2> SUFFICES ASSUME NEW i \in DOMAIN jobs, i # k
               PROVE  \/ i \in DOMAIN jobs' /\ jobs'[i] = jobs[i]
                      \/ i - 1 \in DOMAIN jobs' /\ jobs'[i - 1] = jobs[i]
    OBVIOUS
  <2>1. CASE i < k
    <3>1. i \in 1..(Len(jobs) - 1) /\ i \in DOMAIN jobs'
      BY <1>3, <2>1
    <3> QED BY <1>1, <2>1, <3>1
  <2>2. CASE i > k
    <3>1. i - 1 \in 1..(Len(jobs) - 1) /\ i - 1 \in DOMAIN jobs'
          /\ ~(i - 1 < k) /\ (i - 1) + 1 = i
      BY <1>3, <2>2
    <3>2. jobs'[i - 1] = jobs[(i - 1) + 1]
      BY <1>1, <3>1
    <3> QED BY <3>1, <3>2
  <2> QED BY <1>3, <2>1, <2>2
<1>6. \A i \in DOMAIN jobs : i # k => jobs[i].id # jobs[k].id
  <2>1. \A i \in DOMAIN jobs : jobs[i].id \in Nat
    BY MarkNumbers
  <2>2. \A i \in DOMAIN jobs : i < k \/ k < i \/ i = k
    BY <1>3
  <2> QED BY <1>1, <1>3, <2>1, <2>2 DEF LogOrder
<1>7. Queued' = {jobs'[i].id : i \in DOMAIN jobs'}
  BY DEF Queued
<1> DEFINE others == {jobs[i].id : i \in DOMAIN jobs \ {k}}
<1>8. Queued' = others \cup {offered + 1}
  <2>1. Len(jobs) \in DOMAIN jobs'
    BY <1>1, <1>3
  <2>2. ASSUME NEW i \in DOMAIN jobs'
        PROVE  jobs'[i].id \in others \cup {offered + 1}
    <3>1. CASE i = Len(jobs)
      BY <1>1, <1>2, <3>1
    <3>2. CASE i \in DOMAIN jobs /\ i < k /\ jobs'[i] = jobs[i]
      BY <1>3, <3>2
    <3>3. CASE i + 1 \in DOMAIN jobs /\ i + 1 > k /\ jobs'[i] = jobs[i + 1]
      BY <1>3, <3>3
    <3> QED BY <1>4, <3>1, <3>2, <3>3
  <2>3. ASSUME NEW i \in DOMAIN jobs \ {k}
        PROVE  jobs[i].id \in Queued'
    BY <1>5, <1>7
  <2> QED BY <1>1, <1>2, <1>7, <2>1, <2>2, <2>3
<1>9. others = Queued \ {jobs[k].id}
  BY <1>3, <1>6 DEF Queued
<1>10. jobs[k].id \in Queued
  BY <1>3 DEF Queued
<1> QED BY <1>2, <1>8, <1>9, <1>10

\* What the writer takes leaves the queue for its hand.
LEMMA TakenIds ==
    ASSUME TypeOK, LogOrder, WriterPhase, clear.remaining <= Len(jobs),
           clear.by = NoClearer => clear.remaining = 0,
           NEW taken \in SUBSET Nodes, TakeBatch(taken)
    PROVE  batch = {} /\ Queued' \cup batch' = Queued /\ BatchFirst'
<1> DEFINE k == Count
<1>1. k \in 0..Len(jobs)
  BY CountInRange
<1>2. /\ jobs' = SubSeq(jobs, k + 1, Len(jobs))
      /\ batch' = {jobs[i].id : i \in 1..k}
      /\ batch = {}
  BY DEF TakeBatch, WriterPhase
<1> HIDE DEF k
<1>3. jobs \in Seq(Logs) /\ Len(jobs) \in Nat /\ DOMAIN jobs = 1..Len(jobs)
  BY Numbers, QueuedNumbers
<1>4. DOMAIN jobs' = 1..(Len(jobs) - k)
      /\ \A i \in 1..(Len(jobs) - k) : jobs'[i] = jobs[i + k]
  <2>1. jobs' \in Seq(Logs) /\ Len(jobs') = Len(jobs) - k
        /\ \A i \in 1..(Len(jobs) - k) : jobs'[i] = jobs[i + k]
    BY <1>1, <1>2, <1>3, TakenLogs
  <2>2. DOMAIN jobs' = 1..Len(jobs')
    BY <2>1
  <2> QED BY <2>1, <2>2
<1>5. \A i \in DOMAIN jobs' : i + k \in DOMAIN jobs /\ i + k > k
                              /\ jobs'[i] = jobs[i + k]
  BY <1>1, <1>3, <1>4
<1>6. \A i \in DOMAIN jobs :
        i \in 1..k \/ (i - k \in DOMAIN jobs' /\ jobs'[i - k] = jobs[i])
  <2> SUFFICES ASSUME NEW i \in DOMAIN jobs, i \notin 1..k
               PROVE  i - k \in DOMAIN jobs' /\ jobs'[i - k] = jobs[i]
    OBVIOUS
  <2>1. i - k \in 1..(Len(jobs) - k) /\ (i - k) + k = i
    BY <1>1, <1>3
  <2>2. jobs'[i - k] = jobs[(i - k) + k]
    BY <1>4, <2>1
  <2> QED BY <1>4, <2>1, <2>2
<1>7. \A i \in 1..k : i \in DOMAIN jobs
  BY <1>1, <1>3
<1>8. Queued' = {jobs'[i].id : i \in DOMAIN jobs'}
  BY DEF Queued
<1>9. Queued' \cup batch' = Queued
  <2>1. \A i \in DOMAIN jobs : jobs[i].id \in Queued' \cup batch'
    BY <1>2, <1>6, <1>8
  <2>2. \A i \in DOMAIN jobs' : jobs'[i].id \in Queued
    BY <1>5 DEF Queued
  <2>3. \A i \in 1..k : jobs[i].id \in Queued
    BY <1>7 DEF Queued
  <2> QED BY <1>2, <1>8, <2>1, <2>2, <2>3 DEF Queued
<1>10. BatchFirst'
  <2> SUFFICES ASSUME NEW i \in 1..k, NEW m \in DOMAIN jobs'
               PROVE  jobs[i].id < jobs'[m].id
    BY <1>2, <1>8 DEF BatchFirst
  <2>1. i \in DOMAIN jobs /\ m + k \in DOMAIN jobs /\ jobs'[m] = jobs[m + k]
    BY <1>5, <1>7
  <2>2. i < m + k
    BY <1>1, <1>4
  <2> QED BY <2>1, <2>2 DEF LogOrder
<1> QED BY <1>2, <1>9, <1>10

LEMMA BatchFirstStep ==
    ASSUME WorkerInv, WorkerInv', BatchFirst, [Next]_vars
    PROVE  BatchFirst'
<1> USE DEF queueVars, logVars, clearVars, statusVars, nodeVars, closeVars
<1>1. /\ TypeOK /\ LogOrder /\ WriterPhase /\ jobs' \in Seq(Logs)
      /\ clear.remaining <= Len(jobs)
      /\ clear.by = NoClearer => clear.remaining = 0
  BY DEF WorkerInv, QueueInv, TypeOK, MarksInv, Barriers, Requests
<1>2. \A x \in batch : x \in Nat /\ x < offered + 1
  BY <1>1, MarkNumbers DEF LogOrder
<1>3. ASSUME NEW log \in Logs, Accept(log) \/ Refuse(log) \/ Evict(log)
      PROVE  BatchFirst'
  <2>1. batch' = batch
    BY <1>3 DEF Accept, Refuse, Evict, Offer
  <2>2. Queued' \subseteq Queued \cup {offered + 1}
    <3>1. CASE Accept(log)
      BY <1>1, <3>1, AcceptedIds
    <3>2. CASE Refuse(log)
      BY <3>2 DEF Refuse, Queued
    <3>3. CASE Evict(log)
      BY <1>1, <3>3, EvictedIds
    <3> QED BY <1>3, <3>1, <3>2, <3>3
  <2> QED BY <1>2, <2>1, <2>2 DEF BatchFirst
<1>4. ASSUME NEW taken \in SUBSET Nodes, TakeBatch(taken)
      PROVE  BatchFirst'
  BY <1>1, <1>4, TakenIds
<1>5. CASE Settle
  BY <1>5 DEF Settle, BatchFirst
<1>6. CASE UNCHANGED <<jobs, batch>>
  BY <1>6 DEF BatchFirst, Queued
<1> QED BY <1>1, <1>3, <1>4, <1>5, <1>6, OthersKeepQueue

\* Nothing that LogStore knows of changes.
Unseen ==
    /\ UNCHANGED <<offered, Coming, table, mark>>
    /\ \A c \in Clearers : Fate(c)' = Fate(c) /\ Told(c)' = Told(c)

LEMMA UnseenStutters ==
    ASSUME Unseen
    PROVE  UNCHANGED Log!storeVars
<1>1. [c \in Clearers |-> Fate(c)]' = [c \in Clearers |-> Fate(c)]
  BY DEF Unseen
<1>2. [c \in Clearers |-> Told(c)]' = [c \in Clearers |-> Told(c)]
  BY DEF Unseen
<1> QED BY <1>1, <1>2 DEF Unseen, Log!storeVars

\* What decides about the fate of a call.
LEMMA FatesStay ==
    ASSUME UNCHANGED <<client, reply, doing>>, clear'.by = clear.by,
           worker' = "replied" <=> worker = "replied"
    PROVE  \A c \in Clearers : Fate(c)' = Fate(c) /\ Told(c)' = Told(c)
  BY DEF Fate, Told

\* What decides about the logs that are coming.
LEMMA ComingStays ==
    ASSUME UNCHANGED <<jobs, batch>>, worker' = "settling" <=> worker = "settling"
    PROVE  Coming' = Coming
  BY DEF Coming, Queued

\* An offered log arrives.
LEMMA OfferArrives ==
    ASSUME WorkerInv, WorkerInv', BatchFirst, NEW log \in Logs,
           Accept(log) \/ Refuse(log) \/ Evict(log)
    PROVE  Log!Arrive
<1>1. /\ TypeOK /\ LogOrder /\ jobs' \in Seq(Logs)
      /\ clear = [by |-> clear.by, remaining |-> clear.remaining]
      /\ clear.by = NoClearer => clear.remaining = 0
  BY DEF WorkerInv, QueueInv, TypeOK, MarksInv, Requests
<1>2. /\ UNCHANGED <<batch, table, mark, client, reply, doing>>
      /\ offered' = offered + 1
      /\ worker' = "replied" <=> worker = "replied"
      /\ worker' = "settling" <=> worker = "settling"
  BY DEF Accept, Refuse, Evict, Offer, Push, Woken, logVars, clearVars
<1>3. clear'.by = clear.by
  <2>1. CASE Accept(log) \/ Refuse(log)
    BY <2>1 DEF Accept, Refuse
  <2>2. CASE Evict(log)
    BY <1>1, <2>2, Evicted
  <2> QED BY <2>1, <2>2
<1>4. \A c \in Clearers : Fate(c)' = Fate(c) /\ Told(c)' = Told(c)
  BY <1>2, <1>3, FatesStay
<1>5. \/ Coming' = Coming
      \/ Coming' = Coming \cup {offered + 1}
      \/ \E x \in Coming : Coming' = (Coming \ {x}) \cup {offered + 1}
  <2> DEFINE hand == IF worker = "settling" THEN {} ELSE batch
  <2>1. Coming = Queued \cup hand /\ Coming' = Queued' \cup hand
    BY <1>2 DEF Coming
  <2>2. CASE Accept(log)
    BY <1>1, <2>1, <2>2, AcceptedIds
  <2>3. CASE Refuse(log)
    BY <2>1, <2>3 DEF Refuse, Queued
  <2>4. CASE Evict(log)
    <3>1. PICK x \in Queued : Queued' = (Queued \ {x}) \cup {offered + 1}
      BY <1>1, <2>4, EvictedIds
    <3>2. x \notin hand
      <4>1. x \in Nat
        BY <1>1, MarkNumbers DEF Queued
      <4>2. ~(x < x)
        BY <4>1
      <4> QED BY <4>2 DEF BatchFirst
    <3> HIDE DEF hand
    <3>3. Coming' = (Coming \ {x}) \cup {offered + 1} /\ x \in Coming
      BY <2>1, <3>1, <3>2
    <3> QED BY <3>3
  <2> QED BY <2>2, <2>3, <2>4
<1>6. /\ [c \in Clearers |-> Fate(c)]' = [c \in Clearers |-> Fate(c)]
      /\ [c \in Clearers |-> Told(c)]' = [c \in Clearers |-> Told(c)]
  BY <1>4
<1> QED BY <1>2, <1>5, <1>6 DEF Log!Arrive

\* The transaction decides about the batch, and about all of it.
LEMMA WriteStores ==
    ASSUME WorkerInv, BatchFirst, NEW saved \in BOOLEAN, WriteLogs(saved)
    PROVE  \E upTo \in 0..offered : Log!Store(upTo)
<1>1. TypeOK /\ LogOrder
  BY DEF WorkerInv, QueueInv, MarksInv
<1>2. /\ worker = "writing" /\ worker' = "settling"
      /\ UNCHANGED <<jobs, batch, clear, offered, client, reply, mark, doing>>
      /\ table' \in {table, table \cup batch}
  <2>1. /\ worker = "writing" /\ worker' = "settling"
        /\ UNCHANGED <<jobs, batch, clear, offered, client, reply, mark, doing>>
    BY DEF WriteLogs, queueVars, clearVars
  <2>2. table' \in {table, table \cup batch}
    BY DEF WriteLogs
  <2> QED BY <2>1, <2>2
<1>3. Coming = Queued \cup batch /\ Coming' = Queued
  BY <1>2 DEF Coming, Queued
<1>4. /\ \A x \in batch \cup Queued : x \in Nat /\ x > 0 /\ x <= offered
      /\ offered \in Nat
  <2>1. batch \subseteq 1..MaxLogs /\ Queued \subseteq 1..MaxLogs
    BY <1>1, QueuedNumbers DEF TypeOK
  <2>2. \A x \in batch \cup Queued : x <= offered
    BY <1>1 DEF LogOrder, Queued
  <2>3. \A x \in 1..MaxLogs : x \in Nat /\ x > 0
    OBVIOUS
  <2>4. offered \in Nat
    BY <1>1, MarkNumbers
  <2> QED BY <2>1, <2>2, <2>3, <2>4
<1>5. PICK upTo \in 0..offered : /\ \A x \in batch : x <= upTo
                                 /\ \A y \in Queued : y > upTo
  <2>1. CASE Queued = {}
    BY <1>4, <2>1
  <2>2. CASE Queued # {}
    <3>1. PICK y \in Queued : \A z \in Queued : y <= z
      <4>1. Queued \in SUBSET (1..MaxLogs) /\ MaxLogs \in Nat
        BY <1>1, QueuedNumbers
      <4> QED BY <2>2, <4>1, LeastNumber
    <3>2. /\ y - 1 \in 0..offered
          /\ \A x \in batch : x <= y - 1
          /\ \A z \in Queued : z > y - 1
      BY <1>4, <3>1 DEF BatchFirst
    <3> QED BY <3>2
  <2> QED BY <2>1, <2>2
<1>6. {x \in Coming : x > upTo} = Queued /\ {x \in Coming : x <= upTo} = batch
  <2>1. upTo \in Nat
    BY <1>4, <1>5
  <2>2. \A x \in batch : ~(x > upTo)
    BY <1>4, <1>5, <2>1
  <2>3. \A y \in Queued : ~(y <= upTo)
    BY <1>4, <1>5, <2>1
  <2> QED BY <1>3, <1>5, <2>2, <2>3
<1>7. /\ [c \in Clearers |-> Fate(c)]' = [c \in Clearers |-> Fate(c)]
      /\ [c \in Clearers |-> Told(c)]' = [c \in Clearers |-> Told(c)]
  BY <1>2, FatesStay
<1>8. Log!Store(upTo)
  BY <1>2, <1>3, <1>6, <1>7 DEF Log!Store
<1> QED BY <1>8

\* A call of clear_logs and what it is told.
LEMMA CallSteps ==
    ASSUME WorkerInv, NEW c \in Clearers, Clearing(c)
    PROVE  Log!Ask(c) \/ Log!Tell(c) \/ Log!Withdraw(c) \/ Unseen
<1> USE DEF queueVars, logVars
<1>1. /\ TypeOK /\ Requests
      /\ clear = [by |-> clear.by, remaining |-> clear.remaining]
      /\ client \in [Clearers -> {"idle", "waiting", "giving up", "cleared",
                                 "refused", "withdrawn", "uncertain"}]
      /\ reply \in [Clearers -> {"none", "cleared", "refused"}]
  BY DEF WorkerInv, QueueInv, TypeOK
<1>2. /\ UNCHANGED <<jobs, batch, table, offered, doing>>
      /\ worker' = "replied" <=> worker = "replied"
      /\ worker' = "settling" <=> worker = "settling"
  BY DEF Clearing, RequestClear, ReceiveReply, TimeOut, Withdraw, Woken
<1>3. Coming' = Coming
  BY <1>2, ComingStays
<1>4. CASE RequestClear(c)
  <2>1. /\ client[c] = "idle" /\ clear.by = NoClearer /\ clear'.by = c
        /\ client' = [client EXCEPT ![c] = "waiting"]
        /\ reply' = [reply EXCEPT ![c] = "none"]
        /\ mark' = [mark EXCEPT ![c] = offered]
    BY <1>4 DEF RequestClear, NoClear, Barrier
  <2>2. Fate(c) = "none" /\ Fate(c)' = "pending" /\ Told(c)' = Told(c)
    BY <1>1, <2>1 DEF Fate, Told
  <2>3. \A d \in Clearers \ {c} : Fate(d)' = Fate(d) /\ Told(d)' = Told(d)
    BY <1>1, <1>2, <2>1 DEF Fate, Told
  <2>4. /\ [d \in Clearers |-> Fate(d)]'
             = [[d \in Clearers |-> Fate(d)] EXCEPT ![c] = "pending"]
        /\ [d \in Clearers |-> Told(d)]' = [d \in Clearers |-> Told(d)]
    BY <2>2, <2>3
  <2> QED BY <1>2, <1>3, <2>1, <2>2, <2>4 DEF Log!Ask
<1>5. CASE ReceiveReply(c)
  <2>1. /\ client[c] = "waiting" /\ reply[c] # "none"
        /\ client' = [client EXCEPT ![c] = reply[c]]
        /\ UNCHANGED <<clear, reply, mark, worker>>
    BY <1>5 DEF ReceiveReply
  <2>2. /\ Fate(c) = reply[c] /\ Fate(c)' = Fate(c)
        /\ Told(c) = "nothing" /\ Told(c)' = reply[c]
    BY <1>1, <2>1 DEF Fate, Told
  <2>3. \A d \in Clearers \ {c} : Fate(d)' = Fate(d) /\ Told(d)' = Told(d)
    BY <1>1, <1>2, <2>1 DEF Fate, Told
  <2>4. /\ [d \in Clearers |-> Fate(d)]' = [d \in Clearers |-> Fate(d)]
        /\ [d \in Clearers |-> Told(d)]'
             = [[d \in Clearers |-> Told(d)] EXCEPT ![c] = Fate(c)]
    BY <2>2, <2>3
  <2>5. Fate(c) # "none" /\ Fate(c) # "pending"
    BY <1>1, <2>1, <2>2
  <2> QED BY <1>2, <1>3, <2>1, <2>2, <2>4, <2>5 DEF Log!Tell
<1>6. CASE TimeOut(c)
  <2>1. /\ client[c] = "waiting"
        /\ client' = [client EXCEPT ![c] = "giving up"]
        /\ UNCHANGED <<clear, reply, mark, worker>>
    BY <1>6 DEF TimeOut
  <2>2. \A d \in Clearers : Fate(d)' = Fate(d) /\ Told(d)' = Told(d)
    BY <1>1, <1>2, <2>1 DEF Fate, Told
  <2> QED BY <1>2, <1>3, <2>1, <2>2 DEF Unseen
<1>7. CASE Withdraw(c) /\ clear.by = c
  <2>1. /\ client[c] = "giving up" /\ clear'.by = NoClearer
        /\ client' = [client EXCEPT ![c] = "withdrawn"]
        /\ UNCHANGED <<reply, mark, worker>>
    <3>1. /\ client[c] = "giving up" /\ clear' = NoClear
          /\ client' = [client EXCEPT ![c] = "withdrawn"]
          /\ UNCHANGED <<reply, mark, worker>>
      BY <1>7 DEF Withdraw
    <3> QED BY <3>1 DEF NoClear
  <2>2. doing # c /\ reply[c] = "none" /\ NoClearer # c
    BY <1>1, <1>7 DEF Requests
  <2>3. /\ Fate(c) = "pending" /\ Fate(c)' = "withdrawn"
        /\ Told(c) = "nothing" /\ Told(c)' = "withdrawn"
    BY <1>1, <1>2, <1>7, <2>1, <2>2 DEF Fate, Told
  <2>4. \A d \in Clearers \ {c} : Fate(d)' = Fate(d) /\ Told(d)' = Told(d)
    BY <1>1, <1>2, <1>7, <2>1 DEF Fate, Told
  <2>5. /\ [d \in Clearers |-> Fate(d)]'
             = [[d \in Clearers |-> Fate(d)] EXCEPT ![c] = "withdrawn"]
        /\ [d \in Clearers |-> Told(d)]'
             = [[d \in Clearers |-> Told(d)] EXCEPT ![c] = "withdrawn"]
    BY <2>3, <2>4
  <2> QED BY <1>2, <1>3, <2>1, <2>3, <2>5 DEF Log!Withdraw
<1>8. CASE Withdraw(c) /\ clear.by # c
  <2>1. /\ client[c] = "giving up"
        /\ client' = [client EXCEPT ![c] = "uncertain"]
        /\ UNCHANGED <<clear, reply, mark, worker>>
    BY <1>8 DEF Withdraw
  <2>2. /\ Fate(c) # "none" /\ Fate(c)' = Fate(c)
        /\ Told(c) = "nothing" /\ Told(c)' = "uncertain"
    BY <1>1, <1>2, <2>1 DEF Fate, Told
  <2>3. \A d \in Clearers \ {c} : Fate(d)' = Fate(d) /\ Told(d)' = Told(d)
    BY <1>1, <1>2, <2>1 DEF Fate, Told
  <2>4. /\ [d \in Clearers |-> Fate(d)]' = [d \in Clearers |-> Fate(d)]
        /\ [d \in Clearers |-> Told(d)]'
             = [[d \in Clearers |-> Told(d)] EXCEPT ![c] = "uncertain"]
    BY <2>2, <2>3
  <2> QED BY <1>2, <1>3, <2>1, <2>2, <2>4 DEF Log!Tell
<1> QED BY <1>4, <1>5, <1>6, <1>7, <1>8 DEF Clearing

\* The writer reads the flag of a caller: from then on its clear is withdrawn
\* or will be carried out.
LEMMA DecideWithdraws ==
    ASSUME WorkerInv, Decide
    PROVE  Unseen \/ \E c \in Clearers : Log!Withdraw(c)
<1>1. /\ TypeOK /\ Requests /\ doing \in Clearers
  BY DEF WorkerInv, QueueInv, TypeOK, WriterPhase, Decide
<1>2. /\ UNCHANGED <<jobs, batch, table, offered, client, reply, mark, doing,
                     clear>>
      /\ worker = "deciding"
      /\ worker' = IF cancelled[doing] THEN "replied" ELSE "deleting"
  BY DEF Decide, queueVars, logVars, clearVars
<1>3. Coming' = Coming
  BY <1>2, ComingStays
<1>4. CASE ~cancelled[doing]
  BY <1>2, <1>3, <1>4, FatesStay DEF Unseen
<1>5. CASE cancelled[doing]
  <2>1. reply[doing] = "none" /\ client[doing] # "idle" /\ clear.by # doing
    BY <1>1, <1>2 DEF Requests
  <2>2. Fate(doing) = "pending" /\ Fate(doing)' = "withdrawn"
    BY <1>2, <1>5, <2>1 DEF Fate
  <2>3. \A d \in Clearers \ {doing} : Fate(d)' = Fate(d)
    BY <1>2 DEF Fate
  <2>4. \A d \in Clearers : Told(d)' = Told(d)
    BY <1>2 DEF Told
  <2>5. /\ [d \in Clearers |-> Fate(d)]'
             = [[d \in Clearers |-> Fate(d)] EXCEPT ![doing] = "withdrawn"]
        /\ [d \in Clearers |-> Told(d)]' = [d \in Clearers |-> Told(d)]
    BY <1>1, <1>2, <2>2, <2>3, <2>4
  <2>6. Log!Withdraw(doing)
    BY <1>1, <1>2, <1>3, <2>2, <2>5 DEF Log!Withdraw
  <2> QED BY <1>1, <2>6
<1> QED BY <1>4, <1>5

\* The delete is the moment at which a clear takes effect: all that was
\* offered before the request is in the table, and nothing else is.
LEMMA DeleteClears ==
    ASSUME WorkerInv, NEW saved \in BOOLEAN, DeleteLogs(saved)
    PROVE  \E c \in Clearers : Log!Clear(c) \/ Log!Fail(c)
<1>1. /\ TypeOK /\ Requests /\ Clears /\ doing \in Clearers /\ batch = {}
      /\ reply \in [Clearers -> {"none", "cleared", "refused"}]
  BY DEF WorkerInv, QueueInv, TypeOK, WriterPhase, DeleteLogs, MarksInv
<1>2. /\ UNCHANGED <<jobs, batch, offered, client, mark, doing, clear>>
      /\ worker = "deleting" /\ worker' = "replied"
      /\ table' = IF saved THEN {} ELSE table
      /\ reply' = [reply EXCEPT ![doing] =
                     IF saved THEN "cleared" ELSE "refused"]
  BY DEF DeleteLogs, queueVars
<1>3. Coming' = Coming
  BY <1>2, ComingStays
<1>4. reply[doing] = "none" /\ client[doing] # "idle" /\ clear.by # doing
  BY <1>1, <1>2 DEF Requests
<1>5. Fate(doing) = "pending" /\ Fate(doing)' = reply'[doing]
      /\ reply'[doing] = IF saved THEN "cleared" ELSE "refused"
  BY <1>1, <1>2, <1>4 DEF Fate
<1>6. \A d \in Clearers \ {doing} : Fate(d)' = Fate(d)
  BY <1>1, <1>2 DEF Fate
<1>7. \A d \in Clearers : Told(d)' = Told(d)
  BY <1>2 DEF Told
<1>8. /\ [d \in Clearers |-> Fate(d)]'
           = [[d \in Clearers |-> Fate(d)] EXCEPT ![doing] =
                IF saved THEN "cleared" ELSE "refused"]
      /\ [d \in Clearers |-> Told(d)]' = [d \in Clearers |-> Told(d)]
  BY <1>1, <1>2, <1>5, <1>6, <1>7
<1>9. CASE saved
  <2>1. mark[doing] \in Nat
    BY <1>1, MarkNumbers
  <2>2. \A x \in Coming : x > mark[doing]
    BY <1>1 DEF Clears, Coming, Queued
  <2>3. \A x \in table : ~(x > mark[doing])
    <3>1. \A x \in table : x <= mark[doing] /\ x \in Nat
      BY <1>1, <1>2, MarkNumbers DEF Clears
    <3> QED BY <2>1, <3>1
  <2>4. Coming' = {x \in Coming : x > mark[doing]}
        /\ table' = {x \in table : x > mark[doing]}
    BY <1>2, <1>3, <1>9, <2>2, <2>3
  <2>5. Log!Clear(doing)
    BY <1>1, <1>2, <1>5, <1>8, <1>9, <2>4 DEF Log!Clear
  <2> QED BY <1>1, <2>5
<1>10. CASE ~saved
  <2>1. Log!Fail(doing)
    BY <1>1, <1>2, <1>3, <1>5, <1>8, <1>10 DEF Log!Fail
  <2> QED BY <1>1, <2>1
<1> QED BY <1>9, <1>10

\* Nothing else is seen.
LEMMA OthersUnseen ==
    ASSUME WorkerInv, [Next]_vars,
           ~Produce, ~Decide, ~\E c \in Clearers : Clearing(c),
           ~\E saved \in BOOLEAN : WriteLogs(saved) \/ DeleteLogs(saved)
    PROVE  Unseen
<1> USE DEF queueVars, logVars, clearVars, statusVars, nodeVars, closeVars
<1>1. /\ TypeOK /\ LogOrder /\ WriterPhase /\ Requests
      /\ clear.remaining <= Len(jobs)
      /\ clear.by = NoClearer => clear.remaining = 0
      /\ clear = [by |-> clear.by, remaining |-> clear.remaining]
  BY DEF WorkerInv, QueueInv, TypeOK, MarksInv, Barriers, Requests
<1> DEFINE Quiet ==
      /\ UNCHANGED <<jobs, batch, table, offered, client, reply, mark, doing,
                     clear>>
      /\ worker' = "replied" <=> worker = "replied"
      /\ worker' = "settling" <=> worker = "settling"
<1>2. Quiet => Unseen
  BY FatesStay, ComingStays DEF Unseen
<1>3. ASSUME NEW n \in Nodes, NodeStep(n)
      PROVE  Quiet
  BY <1>3 DEF NodeStep, Status, ReserveProbe, PersistProbe, Edit, Delete, Woken
<1>4. (Sleep \/ Exit \/ Coalesce) => Quiet
  BY DEF Sleep, Exit, Coalesce
<1>5. ASSUME NEW n \in Nodes, WriteStatus(n) \/ FailStatus(n)
      PROVE  Quiet
  BY <1>5 DEF WriteStatus, FailStatus
<1>6. Closing => Quiet
  BY DEF Closing, Seal, FinishFlush, FlushTimesOut, Woken
<1>7. (UNCHANGED vars) => Quiet
  BY DEF vars
<1> HIDE DEF Quiet
<1>8. CASE BeginClear
  <2>1. /\ UNCHANGED <<jobs, batch, table, offered, client, reply, mark>>
        /\ worker = "look" /\ worker' = "deciding"
        /\ doing' = clear.by /\ clear' = NoClear
        /\ clear # NoClear /\ clear.remaining = 0
    BY <1>8 DEF BeginClear, BarrierReached
  <2>2. clear'.by = NoClearer /\ clear.by # NoClearer
    BY <1>1, <2>1 DEF NoClear
  <2>3. doing = NoClearer
    BY <1>1, <2>1 DEF WriterPhase
  <2>4. \A c \in Clearers : Fate(c)' = Fate(c) /\ Told(c)' = Told(c)
    BY <2>1, <2>2, <2>3 DEF Fate, Told
  <2>5. Coming' = Coming
    BY <2>1, ComingStays
  <2> QED BY <2>1, <2>4, <2>5 DEF Unseen
<1>9. CASE EndClear
  <2>1. /\ UNCHANGED <<jobs, batch, table, offered, client, reply, mark, clear>>
        /\ worker = "replied" /\ worker' = "look" /\ doing' = NoClearer
    BY <1>9 DEF EndClear
  <2>2. \A c \in Clearers : Fate(c)' = Fate(c) /\ Told(c)' = Told(c)
    BY <2>1 DEF Fate, Told
  <2>3. Coming' = Coming
    BY <2>1, ComingStays
  <2> QED BY <2>1, <2>2, <2>3 DEF Unseen
<1>10. CASE Settle
  <2>1. /\ UNCHANGED <<jobs, table, offered, client, reply, mark, doing, clear>>
        /\ worker = "settling" /\ worker' = "look" /\ batch' = {}
    BY <1>10 DEF Settle
  <2>2. Coming' = Coming
    BY <2>1 DEF Coming, Queued
  <2> QED BY <2>1, <2>2, FatesStay DEF Unseen
<1>11. ASSUME NEW taken \in SUBSET Nodes, TakeBatch(taken)
       PROVE  Unseen
  <2>1. /\ UNCHANGED <<table, offered, client, reply, mark, doing>>
        /\ worker \in {"look", "coalescing"} /\ worker' = "writing"
    BY <1>11 DEF TakeBatch
  <2>2. clear'.by = clear.by
    BY <1>1, <1>11 DEF TakeBatch
  <2>3. Coming' = Coming
    BY <1>1, <1>11, <2>1, TakenIds DEF Coming
  <2> QED BY <2>1, <2>2, <2>3, FatesStay DEF Unseen
<1> QED
  BY <1>2, <1>3, <1>4, <1>5, <1>6, <1>7, <1>8, <1>9, <1>10, <1>11
  DEF Next, WriterStep

\* Every step of the worker, its producers and its callers is a step of the
\* store, or nothing.
LEMMA StoreStep ==
    ASSUME WorkerInv, WorkerInv', BatchFirst, [Next]_vars
    PROVE  [Log!StoreNext]_(Log!storeVars)
<1>1. CASE Produce
  <2>1. PICK log \in Logs : Accept(log) \/ Refuse(log) \/ Evict(log)
    BY <1>1, LogOffered DEF WorkerInv, QueueInv
  <2>2. Log!Arrive
    BY <2>1, OfferArrives
  <2> QED BY <2>2 DEF Log!StoreNext
<1>2. ASSUME NEW c \in Clearers, Clearing(c)
      PROVE  [Log!StoreNext]_(Log!storeVars)
  <2>1. Log!Ask(c) \/ Log!Tell(c) \/ Log!Withdraw(c) \/ Unseen
    BY <1>2, CallSteps
  <2> QED BY <2>1, UnseenStutters DEF Log!StoreNext
<1>3. CASE Decide
  <2>1. Unseen \/ \E c \in Clearers : Log!Withdraw(c)
    BY <1>3, DecideWithdraws
  <2> QED BY <2>1, UnseenStutters DEF Log!StoreNext
<1>4. ASSUME NEW saved \in BOOLEAN, WriteLogs(saved)
      PROVE  [Log!StoreNext]_(Log!storeVars)
  <2>1. \E upTo \in 0..offered : Log!Store(upTo)
    BY <1>4, WriteStores
  <2> QED BY <2>1 DEF Log!StoreNext
<1>5. ASSUME NEW saved \in BOOLEAN, DeleteLogs(saved)
      PROVE  [Log!StoreNext]_(Log!storeVars)
  <2>1. \E c \in Clearers : Log!Clear(c) \/ Log!Fail(c)
    BY <1>5, DeleteClears
  <2> QED BY <2>1 DEF Log!StoreNext
<1> QED
  BY <1>1, <1>2, <1>3, <1>4, <1>5, OthersUnseen, UnseenStutters

\* The worker implements LogStore (database_worker.rs:157-180, 308-346, 412-453): a
\* clear takes effect at one moment between its request and its answer, takes
\* the logs offered before the request and no others, and its caller learns
\* what happened; a batch is stored in order and as a whole, or lost.
THEOREM ClearIsAtomicHolds == Spec => ClearIsAtomic
<1>1. Init => Log!StoreInit
  <2> SUFFICES ASSUME Init PROVE Log!StoreInit
    OBVIOUS
  <2>1. Coming = {}
    BY DEF Init, Coming, Queued
  <2>2. \A c \in Clearers : Fate(c) = "none" /\ Told(c) = "nothing"
    BY DEF Init, Fate, Told
  <2> QED BY <2>1, <2>2 DEF Init, Log!StoreInit
<1>2. Init => BatchFirst
  BY DEF Init, BatchFirst
<1>3. WorkerInv /\ WorkerInv' /\ BatchFirst /\ [Next]_vars =>
        BatchFirst' /\ [Log!StoreNext]_(Log!storeVars)
  BY BatchFirstStep, StoreStep
<1> QED
  BY <1>1, <1>2, <1>3, WorkerInvHolds, PTL
  DEF Spec, ClearIsAtomic, Log!StoreSpec
=============================================================================
