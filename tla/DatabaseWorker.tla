--------------------------- MODULE DatabaseWorker ---------------------------
(***************************************************************************)
(* database_worker.rs: one thread ("proxy-db-writer") writes request logs  *)
(* and passive node statuses for everybody else.  Connections enqueue logs *)
(* and statuses, clear_logs asks for an ordered barrier, seal_and_flush    *)
(* stops the queue at exit, probes and edits write node rows on their own. *)
(*                                                                         *)
(* One action is what happens under one hold of the queue mutex, or one    *)
(* transaction on SQLite.  wake is a Condvar with one waiter, the writer:  *)
(* notify_one moves a sleeping writer on and is otherwise lost.            *)
(*                                                                         *)
(* Logs are numbered in the order in which they are offered; a log is      *)
(* important (a failure) or regular.  A status is the revision that was    *)
(* reserved for it, in the generation of the node it was observed in.      *)
(***************************************************************************)
EXTENDS Integers, Sequences, FiniteSets, SequencesExt

CONSTANTS
    Capacity,        \* CAPACITY
    FailureReserve,  \* FAILURE_RESERVE
    BatchSize,       \* BATCH_SIZE
    Clearers,        \* calls of clear_logs, each with its flag and channel
    NoClearer,
    Nodes,           \* upstream proxies
    MaxLogs,         \* bound: logs offered
    MaxGen,          \* bound: generations of a node
    MaxRevision,     \* bound: status revisions of a node
    MaxErrors        \* bound: database operations that fail

ASSUME WorkerAssumption ==
    /\ Capacity \in Nat \ {0}
    /\ BatchSize \in Nat \ {0}
    /\ FailureReserve \in 0..(Capacity - 1)
    /\ NoClearer \notin Clearers
    /\ IsFiniteSet(Nodes)
    /\ MaxLogs \in Nat
    /\ MaxGen \in Nat \ {0}
    /\ MaxRevision \in Nat
    /\ MaxErrors \in Nat

VARIABLES
    jobs,       \* queue.jobs
    statuses,   \* queue.statuses
    clear,      \* queue.clear: whose barrier, and how many logs precede it
    stopped,    \* queue.stopped
    errors,     \* queue.errors
    written,    \* queue.written
    dropped,    \* queue.dropped_logs
    worker,     \* where the writer thread stands
    doing,      \* whose clear it is carrying out
    batch,      \* the logs it has taken and not yet accounted for
    flight,     \* the statuses it has taken and not yet tried to write
    retry,      \* those it tried to write in vain
    result,     \* what log_requests returned: logs written
    offered,    \* how many logs were offered so far
    table,      \* request_logs
    erased,     \* history: logs that were in the table and were cleared
    client,     \* where a caller of clear_logs stands, or what it was told
    cancelled,  \* its cancelled flag
    reply,      \* its reply channel
    mark,       \* history: logs offered before its request
    gen,        \* the node's generation in the routing snapshot, 0 = deleted
    revision,   \* status_revisions
    row,        \* the write the status column of the node's row stems from
    latest,     \* history: who reserved the latest revision
    probeWrite, \* a probe's status on its way to the row
    closer,     \* where the caller of seal_and_flush stands
    sealed      \* what it found when it closed the queue

queueVars == <<jobs, clear, stopped, dropped, offered>>
logVars == <<batch, result, table, erased>>
clearVars == <<client, cancelled, reply, mark, doing>>
statusVars == <<statuses, flight, retry, latest>>
nodeVars == <<gen, revision, row, probeWrite>>
closeVars == <<closer, sealed>>

vars == <<queueVars, logVars, clearVars, statusVars, nodeVars, closeVars,
          worker, errors, written>>

Logs == [id : 1..MaxLogs, important : BOOLEAN]

NoChange == [gen |-> 0, rev |-> 0]
Changes == [gen : 0..MaxGen, rev : 0..MaxRevision]
Nothing == [n \in Nodes |-> NoChange]

NoClear == [by |-> NoClearer, remaining |-> 0]
NotSealed == [errors |-> 0, logs |-> {}, nodes |-> {}]

TypeOK ==
    /\ jobs \in Seq(Logs)
    /\ statuses \in [Nodes -> Changes]
    /\ clear \in [by : Clearers \cup {NoClearer}, remaining : 0..Capacity]
    /\ stopped \in BOOLEAN
    /\ errors \in 0..MaxErrors
    /\ written \in 0..MaxLogs
    /\ dropped \in 0..MaxLogs
    /\ worker \in {"look", "asleep", "coalescing", "writing", "settling",
                   "deciding", "deleting", "replied", "exited"}
    /\ doing \in Clearers \cup {NoClearer}
    /\ batch \subseteq 1..MaxLogs
    /\ flight \in [Nodes -> Changes]
    /\ retry \in [Nodes -> Changes]
    /\ result \subseteq 1..MaxLogs
    /\ offered \in 0..MaxLogs
    /\ table \subseteq 1..MaxLogs
    /\ erased \subseteq 1..MaxLogs
    /\ client \in [Clearers -> {"idle", "waiting", "giving up", "cleared",
                                "refused", "withdrawn", "uncertain"}]
    /\ cancelled \in [Clearers -> BOOLEAN]
    /\ reply \in [Clearers -> {"none", "cleared", "refused"}]
    /\ mark \in [Clearers -> 0..MaxLogs]
    /\ gen \in [Nodes -> 0..MaxGen]
    /\ revision \in [Nodes -> 0..MaxRevision]
    /\ row \in [Nodes -> Changes]
    /\ latest \in [Nodes -> {"nobody", "worker", "probe"}]
    /\ probeWrite \in [Nodes -> Changes]
    /\ closer \in {"open", "flushing", "flushed", "failed"}
    /\ sealed \in [errors : 0..MaxErrors, logs : SUBSET (1..MaxLogs),
                   nodes : SUBSET Nodes]

Init ==
    /\ jobs = <<>>
    /\ statuses = Nothing
    /\ clear = NoClear
    /\ stopped = FALSE
    /\ errors = 0
    /\ written = 0
    /\ dropped = 0
    /\ worker = "look"
    /\ doing = NoClearer
    /\ batch = {}
    /\ flight = Nothing
    /\ retry = Nothing
    /\ result = {}
    /\ offered = 0
    /\ table = {}
    /\ erased = {}
    /\ client = [c \in Clearers |-> "idle"]
    /\ cancelled = [c \in Clearers |-> FALSE]
    /\ reply = [c \in Clearers |-> "none"]
    /\ mark = [c \in Clearers |-> 0]
    /\ gen = [n \in Nodes |-> 1]
    /\ revision = [n \in Nodes |-> 0]
    /\ row = [n \in Nodes |-> [gen |-> 1, rev |-> 0]]
    /\ latest = [n \in Nodes |-> "nobody"]
    /\ probeWrite = Nothing
    /\ closer = "open"
    /\ sealed = NotSealed

-----------------------------------------------------------------------------

Pending == {n \in Nodes : statuses[n] # NoChange}

Queued == {jobs[i].id : i \in DOMAIN jobs}

Working == worker \in {"writing", "settling", "deciding", "deleting",
                       "replied"}

Empty == jobs = <<>> /\ Pending = {} /\ clear = NoClear

Drained == Empty /\ ~Working

\* Mutant: notify_one is forgotten.
NotWoken == worker

Woken == IF worker = "asleep" THEN "look" ELSE worker

-----------------------------------------------------------------------------
(***************************************************************************)
(* Producers of logs                                                       *)
(***************************************************************************)

\* Mutant: no room is kept for failures.
LimitForAll(important) == Capacity

Limit(important) ==
    IF important THEN Capacity ELSE Capacity - FailureReserve

\* The queue is signalled when it stops being empty and when it holds a
\* batch; a lone signal in between would only shorten the coalescing.
Push(log, queue) ==
    /\ jobs' = Append(queue, log)
    /\ worker' = IF Len(jobs') = 1 \/ Len(jobs') >= BatchSize
                 THEN Woken ELSE worker

Offer(log) ==
    /\ offered < MaxLogs
    /\ log = [id |-> offered + 1, important |-> log.important]
    /\ offered' = offered + 1
    /\ UNCHANGED <<stopped, logVars, clearVars, statusVars, nodeVars,
                   closeVars, errors, written>>

Accept(log) ==
    /\ ~stopped
    /\ Len(jobs) < Limit(log.important)
    /\ Offer(log)
    /\ Push(log, jobs)
    /\ UNCHANGED <<clear, dropped>>

Refuse(log) ==
    /\ stopped \/ Len(jobs) >= Limit(log.important)
    /\ stopped \/ ~log.important \/ \A i \in DOMAIN jobs : jobs[i].important
    /\ Offer(log)
    /\ dropped' = dropped + 1
    /\ UNCHANGED <<jobs, clear, worker>>

OldestRegular ==
    CHOOSE i \in DOMAIN jobs :
        /\ ~jobs[i].important
        /\ \A k \in 1..(i - 1) : jobs[k].important

\* Mutant: the barrier still counts the log that was evicted.
BarrierAsBefore(i) == clear

\* Mutant: the barrier moves wherever the evicted log stood.
BarrierMoves(i) ==
    IF clear # NoClear
    THEN [clear EXCEPT !.remaining = @ - 1] ELSE clear

\* The barrier counts the logs in front of it.
BarrierWithout(i) ==
    IF clear # NoClear /\ i <= clear.remaining
    THEN [clear EXCEPT !.remaining = @ - 1] ELSE clear

\* A failure takes the place of the oldest regular log.
Evict(log) ==
    /\ ~stopped
    /\ log.important
    /\ Len(jobs) >= Capacity
    /\ \E i \in DOMAIN jobs : ~jobs[i].important
    /\ Offer(log)
    /\ Push(log, RemoveAt(jobs, OldestRegular))
    /\ clear' = BarrierWithout(OldestRegular)
    /\ dropped' = dropped + 1

-----------------------------------------------------------------------------
(***************************************************************************)
(* clear_logs                                                              *)
(***************************************************************************)

\* Mutant: the barrier is put in front of what is queued.
BarrierAtFront(c) == [by |-> c, remaining |-> 0]

Barrier(c) == [by |-> c, remaining |-> Len(jobs)]

RequestClear(c) ==
    /\ client[c] = "idle"
    /\ ~stopped /\ clear = NoClear
    /\ clear' = Barrier(c)
    /\ worker' = Woken
    /\ client' = [client EXCEPT ![c] = "waiting"]
    /\ cancelled' = [cancelled EXCEPT ![c] = FALSE]
    /\ reply' = [reply EXCEPT ![c] = "none"]
    /\ mark' = [mark EXCEPT ![c] = offered]
    /\ UNCHANGED <<jobs, stopped, dropped, offered, logVars, doing,
                   statusVars, nodeVars, closeVars, errors, written>>

ReceiveReply(c) ==
    /\ client[c] = "waiting"
    /\ reply[c] # "none"
    /\ client' = [client EXCEPT ![c] = reply[c]]
    /\ UNCHANGED <<queueVars, logVars, cancelled, reply, mark, doing,
                   statusVars, nodeVars, closeVars, worker, errors, written>>

\* The caller's budget is over before a reply has come.
TimeOut(c) ==
    /\ client[c] = "waiting"
    /\ reply[c] = "none"
    /\ client' = [client EXCEPT ![c] = "giving up"]
    /\ cancelled' = [cancelled EXCEPT ![c] = TRUE]
    /\ UNCHANGED <<queueVars, logVars, reply, mark, doing, statusVars,
                   nodeVars, closeVars, worker, errors, written>>

\* Mutant: whatever request is queued is taken for the caller's own.
WithdrawAny(c) ==
    /\ client[c] = "giving up"
    /\ IF clear # NoClear
       THEN /\ clear' = NoClear
            /\ client' = [client EXCEPT ![c] = "withdrawn"]
       ELSE /\ client' = [client EXCEPT ![c] = "uncertain"]
            /\ UNCHANGED clear
    /\ UNCHANGED <<jobs, stopped, dropped, offered, logVars, cancelled, reply,
                   mark, doing, statusVars, nodeVars, closeVars, worker,
                   errors, written>>

\* It takes back its own request, and only that, if it still can.
Withdraw(c) ==
    /\ client[c] = "giving up"
    /\ IF clear.by = c
       THEN /\ clear' = NoClear
            /\ client' = [client EXCEPT ![c] = "withdrawn"]
       ELSE /\ client' = [client EXCEPT ![c] = "uncertain"]
            /\ UNCHANGED clear
    /\ UNCHANGED <<jobs, stopped, dropped, offered, logVars, cancelled, reply,
                   mark, doing, statusVars, nodeVars, closeVars, worker,
                   errors, written>>

-----------------------------------------------------------------------------
(***************************************************************************)
(* Node statuses: the runtime, probes, administrators                      *)
(***************************************************************************)

Reserve(n) == revision' = [revision EXCEPT ![n] = @ + 1]

\* DatabaseWorker::status.  What it holds of other generations goes.
Status(n) ==
    /\ ~stopped
    /\ gen[n] # 0
    /\ revision[n] < MaxRevision
    /\ Reserve(n)
    /\ statuses' = [m \in Nodes |->
                       IF m = n
                       THEN [gen |-> gen[n], rev |-> revision[n] + 1]
                       ELSE IF statuses[m].gen = gen[m] THEN statuses[m]
                       ELSE NoChange]
    /\ latest' = [latest EXCEPT ![n] = "worker"]
    /\ worker' = Woken
    /\ UNCHANGED <<queueVars, logVars, clearVars, flight, retry, gen, row,
                   probeWrite, closeVars, errors, written>>

\* record_probe_observation reserves a revision for its status and persists
\* it later, on a connection of its own; the probe lock of the node admits
\* one probe at a time.
ReserveProbe(n) ==
    /\ probeWrite[n] = NoChange
    /\ gen[n] # 0
    /\ revision[n] < MaxRevision
    /\ Reserve(n)
    /\ probeWrite' = [probeWrite EXCEPT
                         ![n] = [gen |-> gen[n], rev |-> revision[n] + 1]]
    /\ latest' = [latest EXCEPT ![n] = "probe"]
    /\ UNCHANGED <<queueVars, logVars, clearVars, statuses, flight, retry,
                   gen, row, closeVars, worker, errors, written>>

\* Mutant: the revision is not compared.
NewestOfNode(n, change) == gen[n] = change.gen

\* Mutant: the generation is not compared.
NewestOfAnyNode(n, change) == revision[n] = change.rev

\* The check update_passive_status and persist_probe_observation make while
\* they hold the connection.
Newest(n, change) == gen[n] = change.gen /\ revision[n] = change.rev

\* saved: the write is neither stale in its settings nor fails.
PersistProbe(n, saved) ==
    /\ probeWrite[n] # NoChange
    /\ row' = IF saved /\ Newest(n, probeWrite[n])
              THEN [row EXCEPT ![n] = probeWrite[n]] ELSE row
    /\ probeWrite' = [probeWrite EXCEPT ![n] = NoChange]
    /\ UNCHANGED <<queueVars, logVars, clearVars, statusVars, gen, revision,
                   closeVars, worker, errors, written>>

\* update_proxy changes the connection: a new generation, an unknown status.
Edit(n) ==
    /\ gen[n] \in 1..(MaxGen - 1)
    /\ gen' = [gen EXCEPT ![n] = @ + 1]
    /\ row' = [row EXCEPT ![n] = [gen |-> gen[n] + 1, rev |-> 0]]
    /\ latest' = [latest EXCEPT ![n] = "nobody"]
    /\ UNCHANGED <<queueVars, logVars, clearVars, statuses, flight, retry,
                   revision, probeWrite, closeVars, worker, errors, written>>

\* delete_proxy; the id is not used again.
Delete(n) ==
    /\ gen[n] # 0
    /\ gen' = [gen EXCEPT ![n] = 0]
    /\ revision' = [revision EXCEPT ![n] = 0]
    /\ row' = [row EXCEPT ![n] = NoChange]
    /\ latest' = [latest EXCEPT ![n] = "nobody"]
    /\ UNCHANGED <<queueVars, logVars, clearVars, statuses, flight, retry,
                   probeWrite, closeVars, worker, errors, written>>

-----------------------------------------------------------------------------
(***************************************************************************)
(* The writer thread                                                       *)
(***************************************************************************)

Sleep ==
    /\ worker = "look"
    /\ Empty /\ ~stopped
    /\ worker' = "asleep"
    /\ UNCHANGED <<queueVars, logVars, clearVars, statusVars, nodeVars,
                   closeVars, errors, written>>

Exit ==
    /\ worker = "look"
    /\ Empty /\ stopped
    /\ worker' = "exited"
    /\ UNCHANGED <<queueVars, logVars, clearVars, statusVars, nodeVars,
                   closeVars, errors, written>>

BarrierReached == clear # NoClear /\ clear.remaining = 0

BeginClear ==
    /\ worker = "look"
    /\ BarrierReached
    /\ clear' = NoClear
    /\ doing' = clear.by
    /\ worker' = "deciding"
    /\ UNCHANGED <<jobs, stopped, dropped, offered, logVars, client,
                   cancelled, reply, mark, statusVars, nodeVars, closeVars,
                   errors, written>>

\* wait_timeout: the mutex is free for up to 100 ms, for a burst to gather.
Coalesce ==
    /\ worker = "look"
    /\ ~Empty /\ ~BarrierReached
    /\ Len(jobs) < BatchSize /\ ~stopped
    /\ worker' = "coalescing"
    /\ UNCHANGED <<queueVars, logVars, clearVars, statusVars, nodeVars,
                   closeVars, errors, written>>

Least(a, b) == IF a < b THEN a ELSE b

Count ==
    IF clear = NoClear
    THEN Least(Len(jobs), BatchSize)
    ELSE Least(clear.remaining, Least(Len(jobs), BatchSize))

\* Up to a batch of logs, not beyond the barrier, and up to a batch of
\* statuses leave the queue.
TakeBatch(taken) ==
    /\ \/ worker = "coalescing"
       \/ /\ worker = "look"
          /\ ~Empty /\ ~BarrierReached
          /\ Len(jobs) >= BatchSize \/ stopped
    /\ taken \subseteq Pending
    /\ Cardinality(taken) = Least(Cardinality(Pending), BatchSize)
    /\ jobs' = SubSeq(jobs, Count + 1, Len(jobs))
    /\ batch' = {jobs[i].id : i \in 1..Count}
    /\ clear' = IF clear = NoClear THEN clear
                ELSE [clear EXCEPT !.remaining = @ - Count]
    /\ flight' = [n \in Nodes |->
                     IF n \in taken THEN statuses[n] ELSE NoChange]
    /\ statuses' = [n \in Nodes |->
                       IF n \in taken THEN NoChange ELSE statuses[n]]
    /\ worker' = "writing"
    /\ UNCHANGED <<stopped, dropped, offered, result, table, erased,
                   clearVars, retry, latest, nodeVars, closeVars, errors,
                   written>>

\* update_passive_status on the main connection; Ok(()) as well if the
\* change is no longer the newest.
WriteStatus(n) ==
    /\ worker = "writing"
    /\ flight[n] # NoChange
    /\ row' = IF Newest(n, flight[n])
              THEN [row EXCEPT ![n] = flight[n]] ELSE row
    /\ flight' = [flight EXCEPT ![n] = NoChange]
    /\ UNCHANGED <<queueVars, logVars, clearVars, statuses, retry, latest,
                   gen, revision, probeWrite, closeVars, worker, errors,
                   written>>

Failed == errors + Cardinality({n \in Nodes : retry[n] # NoChange})

FailStatus(n) ==
    /\ worker = "writing"
    /\ flight[n] # NoChange
    /\ Failed < MaxErrors
    /\ retry' = [retry EXCEPT ![n] = flight[n]]
    /\ flight' = [flight EXCEPT ![n] = NoChange]
    /\ UNCHANGED <<queueVars, logVars, clearVars, statuses, latest, nodeVars,
                   closeVars, worker, errors, written>>

\* Mutant: no transaction, a log written before the failing one stays.
WriteLogsSingly(saved) ==
    /\ worker = "writing"
    /\ flight = Nothing
    /\ saved \/ (batch # {} /\ Failed < MaxErrors)
    /\ result' = IF saved THEN batch ELSE {}
    /\ table' = table \cup {x \in batch : saved \/ \A y \in batch : x <= y}
    /\ worker' = "settling"
    /\ UNCHANGED <<queueVars, batch, erased, clearVars, statusVars, nodeVars,
                   closeVars, errors, written>>

\* log_requests: one transaction, all of the batch or nothing.
WriteLogs(saved) ==
    /\ worker = "writing"
    /\ flight = Nothing
    /\ saved \/ (batch # {} /\ Failed < MaxErrors)
    /\ result' = IF saved THEN batch ELSE {}
    /\ table' = table \cup result'
    /\ worker' = "settling"
    /\ UNCHANGED <<queueVars, batch, erased, clearVars, statusVars, nodeVars,
                   closeVars, errors, written>>

\* Mutant: a status that could not be written is given up.
RetryNothing == statuses

\* A status that could not be written is queued again, unless something
\* newer is known of its node.
Retried ==
    [n \in Nodes |->
        IF /\ retry[n] # NoChange
           /\ ~stopped
           /\ Newest(n, retry[n])
           /\ statuses[n] = NoChange
        THEN retry[n] ELSE statuses[n]]

ErrorsOfBatch == Failed + IF result # batch THEN 1 ELSE 0

\* Mutant: a batch that could not be written is not counted.
NothingLost == 0

Lost == Cardinality(batch \ result)

Settle ==
    /\ worker = "settling"
    /\ statuses' = Retried
    /\ errors' = ErrorsOfBatch
    /\ dropped' = dropped + Lost
    /\ written' = written + Cardinality(result)
    /\ batch' = {}
    /\ result' = {}
    /\ retry' = Nothing
    /\ worker' = "look"
    /\ UNCHANGED <<jobs, clear, stopped, offered, table, erased, clearVars,
                   flight, latest, nodeVars, closeVars>>

\* The writer reads the caller's flag once, then it is committed.
Decide ==
    /\ worker = "deciding"
    /\ worker' = IF cancelled[doing] THEN "replied" ELSE "deleting"
    /\ UNCHANGED <<queueVars, logVars, clearVars, statusVars, nodeVars,
                   closeVars, errors, written>>

\* clear_traffic_logs, one transaction, and the reply.
DeleteLogs(saved) ==
    /\ worker = "deleting"
    /\ IF saved
       THEN table' = {} /\ erased' = erased \cup table
       ELSE UNCHANGED <<table, erased>>
    /\ reply' = [reply EXCEPT ![doing] =
                    IF saved THEN "cleared" ELSE "refused"]
    /\ worker' = "replied"
    /\ UNCHANGED <<queueVars, batch, result, client, cancelled, mark, doing,
                   statusVars, nodeVars, closeVars, errors, written>>

EndClear ==
    /\ worker = "replied"
    /\ doing' = NoClearer
    /\ worker' = "look"
    /\ UNCHANGED <<queueVars, logVars, client, cancelled, reply, mark,
                   statusVars, nodeVars, closeVars, errors, written>>

-----------------------------------------------------------------------------
(***************************************************************************)
(* seal_and_flush, at exit and before an update is installed               *)
(***************************************************************************)

Seal ==
    /\ closer # "flushing"
    /\ stopped' = TRUE
    /\ sealed' = [errors |-> errors,
                  logs   |-> Queued \cup batch,
                  nodes  |-> {n \in Nodes : \E change \in
                                 {statuses[n], flight[n], retry[n]} :
                                     change # NoChange}]
    /\ closer' = "flushing"
    /\ worker' = Woken
    /\ UNCHANGED <<jobs, clear, dropped, offered, logVars, clearVars,
                   statusVars, nodeVars, errors, written>>

\* Mutant: an empty queue is enough.
FlushedWhenDrained == "flushed"

Verdict == IF errors = sealed.errors THEN "flushed" ELSE "failed"

FinishFlush ==
    /\ closer = "flushing"
    /\ Drained
    /\ closer' = Verdict
    /\ UNCHANGED <<queueVars, logVars, clearVars, statusVars, nodeVars,
                   sealed, worker, errors, written>>

FlushTimesOut ==
    /\ closer = "flushing"
    /\ ~Drained
    /\ closer' = "failed"
    /\ UNCHANGED <<queueVars, logVars, clearVars, statusVars, nodeVars,
                   sealed, worker, errors, written>>

-----------------------------------------------------------------------------

Produce ==
    \E important \in BOOLEAN :
        LET log == [id |-> offered + 1, important |-> important]
        IN  Accept(log) \/ Refuse(log) \/ Evict(log)

Clearing(c) ==
    \/ RequestClear(c)
    \/ ReceiveReply(c)
    \/ TimeOut(c)
    \/ Withdraw(c)

NodeStep(n) ==
    \/ Status(n)
    \/ ReserveProbe(n)
    \/ \E saved \in BOOLEAN : PersistProbe(n, saved)
    \/ Edit(n)
    \/ Delete(n)

WriterStep ==
    \/ Sleep
    \/ Exit
    \/ BeginClear
    \/ Coalesce
    \/ \E taken \in SUBSET Nodes : TakeBatch(taken)
    \/ \E n \in Nodes : WriteStatus(n) \/ FailStatus(n)
    \/ \E saved \in BOOLEAN : WriteLogs(saved)
    \/ Settle
    \/ Decide
    \/ \E saved \in BOOLEAN : DeleteLogs(saved)
    \/ EndClear

Closing == Seal \/ FinishFlush \/ FlushTimesOut

Next ==
    \/ Produce
    \/ \E c \in Clearers : Clearing(c)
    \/ \E n \in Nodes : NodeStep(n)
    \/ WriterStep
    \/ Closing

Spec == Init /\ [][Next]_vars

(***************************************************************************)
(* Fairness: the operating system runs the writer thread, whose waits all  *)
(* end with a signal or a timeout.  A caller that got its reply returns.   *)
(***************************************************************************)
Fairness ==
    /\ WF_vars(WriterStep)
    /\ \A c \in Clearers : WF_vars(ReceiveReply(c))

FairSpec == Spec /\ Fairness

-----------------------------------------------------------------------------
(***************************************************************************)
(* Properties                                                              *)
(***************************************************************************)

\* README: a clear deletes the logs received before it, and no stream of new
\* logs makes an old one reappear: once the caller was told that the logs are
\* cleared, none of them is in the table, queued or in flight, whatever was
\* evicted, taken or failed meanwhile.
ClearedStaysCleared ==
    \A c \in Clearers :
        reply[c] = "cleared" =>
            (table \cup Queued \cup batch) \cap 1..mark[c] = {}

\* queued_clear_timeout_cancels_without_a_late_delete: a caller told that its
\* clear had not begun and is cancelled will never see it carried out.
WithdrawnNeverDeletes ==
    \A c \in Clearers :
        client[c] = "withdrawn" =>
            doing # c /\ clear.by # c /\ reply[c] # "cleared"

\* What the caller of clear_logs is told is true, whichever way it ends.
ClearsAreHonest == ClearedStaysCleared /\ WithdrawnNeverDeletes

(***************************************************************************)
(* The worker implements LogStore: between a request for a clear and its   *)
(* answer there is one moment, that of the delete, at which exactly the    *)
(* logs offered before the request go.                                     *)
(***************************************************************************)

\* A log of the batch is stored or lost as soon as the transaction is over.
Coming == Queued \cup IF worker = "settling" THEN {} ELSE batch

Fate(c) ==
    IF client[c] = "idle" THEN "none"
    ELSE IF reply[c] # "none" THEN reply[c]
    ELSE IF clear.by = c \/ (doing = c /\ worker # "replied") THEN "pending"
    ELSE "withdrawn"

Told(c) ==
    IF client[c] \in {"idle", "waiting", "giving up"}
    THEN "nothing" ELSE client[c]

Log == INSTANCE LogStore WITH
    Callers <- Clearers,
    last    <- offered,
    coming  <- Coming,
    kept    <- table,
    before  <- mark,
    fate    <- [c \in Clearers |-> Fate(c)],
    told    <- [c \in Clearers |-> Told(c)]

\* README: a clear removes the logs received before it and keeps those after
\* it.  Whatever is evicted, taken, failed, timed out or withdrawn meanwhile,
\* it does so at one moment or never, once, and its caller learns what
\* happened; and a batch of logs is stored as a whole, in order, or lost.
ClearIsAtomic == Log!StoreSpec

\* README: a bounded queue that keeps room for failures.  Regular logs never
\* take the reserve, and nothing exceeds the capacity, across evictions.
QueueBounded ==
    /\ Len(jobs) <= Capacity
    /\ Cardinality({i \in DOMAIN jobs : ~jobs[i].important})
         <= Capacity - FailureReserve

\* The statistics account for every log that was ever offered: it is queued,
\* in flight, written or dropped, and counted once.
EveryLogIsCounted ==
    offered = Len(jobs) + Cardinality(batch) + written + dropped

\* The queue keeps its bounds and loses nothing unseen.
QueueInv == TypeOK /\ QueueBounded /\ EveryLogIsCounted

\* README: a flush at exit that lost something is reported, never taken for
\* done.  After a successful one, all logs and statuses found when the queue
\* was closed are in the database or were overtaken by something newer.
SealedFlushIsDurable ==
    closer = "flushed" =>
        /\ sealed.logs \subseteq table \cup erased
        /\ \A n \in sealed.nodes :
             latest[n] = "worker" => row[n] = [gen |-> gen[n],
                                               rev |-> revision[n]]

\* A status written by the runtime is not lost to coalescing, to a database
\* error or to the race of a retry with a newer status: until a probe, an
\* edit or the shutdown takes over, the newest one is in the row or on its
\* way there; and the row never shows a status of a former configuration.
StatusOnItsWay ==
    \A n \in Nodes :
        /\ row[n].gen = gen[n]
        /\ latest[n] = "worker" /\ ~stopped =>
             LET newest == [gen |-> gen[n], rev |-> revision[n]]
             IN  newest \in {row[n], statuses[n], flight[n], retry[n]}

\* The row of a node never goes back to an older status, though two writers
\* take their revisions under one lock and write under another.
StatusNeverRegresses ==
    [][\A n \in Nodes :
         row'[n] # row[n] /\ gen'[n] = gen[n] => row'[n].rev > row[n].rev]_vars

\* Every log that was accepted leaves the queue, written, lost to a database
\* error or evicted: no signal to the writer is lost.
LogsAreTaken == \A i \in 1..MaxLogs : i \in Queued ~> i \notin Queued

\* A caller of clear_logs gets an answer, however many logs keep coming.
ClearIsAnswered ==
    \A c \in Clearers : client[c] = "waiting" ~> client[c] # "waiting"

\* The writer gets to everything it was given.
WriterKeepsUp == LogsAreTaken /\ ClearIsAnswered
=============================================================================
