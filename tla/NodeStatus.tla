----------------------------- MODULE NodeStatus -----------------------------
(***************************************************************************)
(* What is known of one node's health and who says so: the window of its   *)
(* connections (ProxyMetrics in proxy.rs), the status pushed from it to    *)
(* the row (proxy.rs:632-653, 1453-1490), the status a probe pushes        *)
(* (record_probe_observation), and the three threads that carry them to    *)
(* the table, of which the one with the newest revision writes.            *)
(*                                                                         *)
(* The recorders hold the node's status lock.  An edit writes the row      *)
(* without it and takes it only to reset the memory (commands.rs:146-164). *)
(* Nothing here depends on another node, so the module is about one.       *)
(***************************************************************************)
EXTENDS Naturals, Sequences, FiniteSets

CONSTANTS
  Attempts,      \* connections through the node
  MaxWindow,     \* MAX_METRIC_SAMPLES
  Span,          \* METRICS_WINDOW_MS
  Lessons,       \* what learning_remaining starts at
  Latencies,     \* what a connection may take, at least 1
  MaxInstant,    \* bound: the monotonic clock
  MaxRow,        \* bound: generations of the row
  MaxReserved    \* bound: status revisions

Nobody == "nobody"

ASSUME NodeStatusAssumption ==
  /\ MaxWindow \in Nat \ {0}
  /\ Span \in Nat /\ Lessons \in Nat \ {0}
  /\ Latencies \subseteq Nat \ {0}
  /\ Nobody \notin Attempts
  /\ MaxInstant \in Nat \ {0} /\ MaxRow \in Nat \ {0} /\ MaxReserved \in Nat

Verdicts == {"active", "inactive"}
NoWrite == [gen |-> 0, rev |-> 0, status |-> "unknown"]

NoStats ==
  [window |-> << >>, successes |-> 0, timeSum |-> 0, timeCount |-> 0,
   score |-> << 0, 0, 0, 0 >>]

VARIABLES
  storedRow,     \* the node in the table, as its snapshot shows it
  stats,       \* its ProxyMetrics: the window, the sums over it and the score
  learning,    \* learning_remaining
  lastSuccess, \* last_success
  pushed,      \* pushed_status
  reserved,    \* status_revisions
  waiting,     \* the status the worker has queued for the node
  inHand,      \* the status the worker is writing
  attempt,     \* connections under way
  observation, \* the probe: when it began, what it has still to write
  holder,      \* who holds the status lock
  editing,     \* an update of the node between its commit and its reset
  instant,     \* monotonic_millis
  lost         \* history: the newest status was refused by the database

metricVars == << stats, learning, lastSuccess, pushed >>

statusVars == << storedRow, metricVars, reserved, waiting, inHand, attempt,
                 observation, holder, editing, instant, lost >>

StatusInit ==
  /\ storedRow \in [gen : {1}, status : Verdicts \union {"unknown"}]
  /\ stats = NoStats /\ learning = Lessons /\ lastSuccess = 0 /\ pushed = "unknown"
  /\ reserved = 0
  /\ waiting = NoWrite /\ inHand = NoWrite
  /\ attempt = [a \in Attempts |-> [pc |-> "idle", gen |-> 0, status |-> "unknown"]]
  /\ observation = [pc |-> "idle", began |-> 0, gen |-> 0, write |-> NoWrite]
  /\ holder = Nobody
  /\ editing = FALSE
  /\ instant = 1
  /\ lost = FALSE

-----------------------------------------------------------------------------
(* ProxyMetrics. *)

Timed(sample) == sample.latency > 0
Ones(sample) == IF Timed(sample) THEN 1 ELSE 0

\* Mutant: the time of a sample that leaves stays in the sum.
WithoutOldestButItsTime(m) ==
  LET sample == Head(m.window)
  IN  [m EXCEPT !.window = Tail(@), !.successes = @ - Ones(sample),
                !.timeCount = @ - Ones(sample)]

\* remove_oldest: only a success has a time.
WithoutOldest(m) ==
  LET sample == Head(m.window)
  IN  [m EXCEPT !.window = Tail(@), !.successes = @ - Ones(sample),
                !.timeCount = @ - Ones(sample), !.timeSum = @ - sample.latency]

\* calculate_score reads nothing but the summary.
Scored(m) ==
  [m EXCEPT !.score = << m.successes, Len(m.window) - m.successes, m.timeSum, m.timeCount >>]

\* The clock only goes forward, so this many samples that head the window are too old.
TooOld(m) == Cardinality({i \in DOMAIN m.window : instant - m.window[i].at > Span})

\* m without its n oldest samples, which go one by one.
Shortened(m, n) ==
  LET shorter[i \in 0..n] == IF i = 0 THEN m ELSE WithoutOldest(shorter[i - 1])
  IN  shorter[n]

\* prune
Pruned(m) == IF TooOld(m) = 0 THEN m ELSE Scored(Shortened(m, TooOld(m)))

\* push: a latency of 0 is a failure.
Pushed(m, latency) ==
  LET sample == [at |-> instant, latency |-> latency]
      recent == Pruned(m)
      roomy == IF Len(recent.window) = MaxWindow THEN WithoutOldest(recent) ELSE recent
  IN  Scored([roomy EXCEPT
        !.window = Append(@, sample),
        !.successes = @ + Ones(sample),
        !.timeSum = @ + latency,
        !.timeCount = @ + Ones(sample)])

\* stats and the adaptive selection drop what is too old.
PruneMetric ==
  /\ stats' = Pruned(stats)
  /\ UNCHANGED << storedRow, learning, lastSuccess, pushed, reserved, waiting,
                  inHand, attempt, observation, holder, editing, instant, lost >>

-----------------------------------------------------------------------------
(* Connections. *)

StartAttempt(a) ==
  /\ attempt[a].pc = "idle"
  /\ attempt' = [attempt EXCEPT ![a] = [pc |-> "dialing", gen |-> storedRow.gen,
                                        status |-> "unknown"]]
  /\ UNCHANGED << storedRow, metricVars, reserved, waiting, inHand, observation,
                  holder, editing, instant, lost >>

\* The outcome of a former configuration is dropped (owns_current_attempt).
DropOutcome(a) ==
  /\ attempt[a].pc = "dialing"
  /\ holder = Nobody
  /\ attempt[a].gen # storedRow.gen
  /\ attempt' = [attempt EXCEPT ![a].pc = "idle"]
  /\ UNCHANGED << storedRow, metricVars, reserved, waiting, inHand, observation,
                  holder, editing, instant, lost >>

\* What is recorded under the status lock.  Only a change of the status is
\* pushed on, with the lock still held.
Settle(a, status, latency, changed) ==
  /\ attempt[a].pc = "dialing"
  /\ holder = Nobody
  /\ attempt[a].gen = storedRow.gen
  /\ stats' = Pushed(stats, latency)
  /\ pushed' = status
  /\ IF changed
     THEN /\ holder' = a
          /\ attempt' = [attempt EXCEPT ![a].pc = "pushing", ![a].status = status]
     ELSE /\ attempt' = [attempt EXCEPT ![a].pc = "idle"]
          /\ UNCHANGED holder
  /\ UNCHANGED << storedRow, reserved, waiting, inHand, observation, editing,
                  instant, lost >>

\* record_connection_success_locked: a node that was down is learnt anew.
Succeed(a) ==
  \E latency \in Latencies :
    /\ Settle(a, "active", latency, pushed # "active")
    /\ lastSuccess' = instant
    /\ learning' = IF pushed = "inactive" THEN Lessons - 1
                   ELSE IF learning = 0 THEN 0 ELSE learning - 1

\* record_breaker_failure_locked; opens: this failure opens the breaker.
Fail(a, opens) ==
  /\ Settle(a, IF opens THEN "inactive" ELSE pushed, 0, opens)
  /\ learning' = 0
  /\ UNCHANGED lastSuccess

\* apply_passive_status_locked and DatabaseWorker::status.  The generation is
\* the one of this moment, whatever the connection's was.
PushStatus(a) ==
  /\ attempt[a].pc = "pushing"
  /\ reserved < MaxReserved
  /\ reserved' = reserved + 1
  /\ waiting' = [gen |-> storedRow.gen, rev |-> reserved + 1,
                 status |-> attempt[a].status]
  /\ lost' = FALSE
  /\ attempt' = [attempt EXCEPT ![a].pc = "idle"]
  /\ holder' = Nobody
  /\ UNCHANGED << storedRow, metricVars, inHand, observation, editing, instant >>

-----------------------------------------------------------------------------
(* The worker. *)

\* What update_passive_status and persist_probe_observation compare while
\* they hold the connection.
StillNewest(write) == write.gen = storedRow.gen /\ write.rev = reserved

TakeStatus ==
  /\ waiting # NoWrite /\ inHand = NoWrite
  /\ inHand' = waiting
  /\ waiting' = NoWrite
  /\ UNCHANGED << storedRow, metricVars, reserved, attempt, observation, holder,
                  editing, instant, lost >>

WriteInHand ==
  /\ inHand # NoWrite
  /\ storedRow' = IF StillNewest(inHand)
                THEN [storedRow EXCEPT !.status = inHand.status] ELSE storedRow
  /\ inHand' = NoWrite
  /\ UNCHANGED << metricVars, reserved, waiting, attempt, observation, holder,
                  editing, instant, lost >>

\* The database refuses: the status waits again, unless a newer one does.
RefuseInHand ==
  /\ inHand # NoWrite
  /\ waiting' = IF StillNewest(inHand) /\ waiting = NoWrite THEN inHand ELSE waiting
  /\ inHand' = NoWrite
  /\ UNCHANGED << storedRow, metricVars, reserved, attempt, observation, holder,
                  editing, instant, lost >>

-----------------------------------------------------------------------------
(* A probe of a node without a policy of its own. *)

BeginObservation ==
  /\ observation.pc = "idle"
  /\ observation' = [observation EXCEPT !.pc = "testing", !.began = instant,
                                        !.gen = storedRow.gen]
  /\ UNCHANGED << storedRow, metricVars, reserved, waiting, inHand, attempt, holder,
                  editing, instant, lost >>

\* A failure does not count against connections that succeeded since the
\* probe began.
Conceded(desired) ==
  IF desired = "inactive" /\ lastSuccess > observation.began THEN "unknown"
  ELSE desired

\* record_probe_observation has nothing to say of the status, or comes for a
\* configuration that is gone.
ObserveNothing(desired) ==
  /\ observation.pc = "testing"
  /\ holder = Nobody
  /\ observation.gen # storedRow.gen \/ Conceded(desired) = "unknown"
  /\ observation' = [observation EXCEPT !.pc = "idle"]
  /\ UNCHANGED << storedRow, metricVars, reserved, waiting, inHand, attempt,
                  holder, editing, instant, lost >>

\* record_probe_observation up to its publication.
Observe(desired) ==
  /\ observation.pc = "testing"
  /\ holder = Nobody
  /\ observation.gen = storedRow.gen
  /\ Conceded(desired) = desired /\ desired \in Verdicts
  /\ reserved < MaxReserved
  /\ reserved' = reserved + 1
  /\ learning' = IF desired = "active" /\ pushed = "inactive" THEN Lessons ELSE learning
  /\ pushed' = desired
  /\ observation' = [observation EXCEPT
                       !.pc = "persisting",
                       !.write = [gen |-> observation.gen, rev |-> reserved + 1,
                                  status |-> desired]]
  /\ lost' = FALSE
  /\ UNCHANGED << storedRow, stats, lastSuccess, waiting, inHand, attempt, holder,
                  editing, instant >>

\* persist_probe_observation, on a thread of its own and without the status
\* lock.  saved: the database did not refuse.
Persist(saved) ==
  /\ observation.pc = "persisting"
  /\ observation' = [observation EXCEPT !.pc = "idle", !.write = NoWrite]
  /\ storedRow' = IF saved /\ StillNewest(observation.write)
                THEN [storedRow EXCEPT !.status = observation.write.status] ELSE storedRow
  /\ lost' = (lost \/ (~saved /\ StillNewest(observation.write)))
  /\ UNCHANGED << metricVars, reserved, waiting, inHand, attempt, holder, editing,
                  instant >>

-----------------------------------------------------------------------------
(* An update that changes what makes the node. *)

CommitEdit ==
  /\ ~editing
  /\ storedRow.gen < MaxRow
  /\ storedRow' = [gen |-> storedRow.gen + 1, status |-> "unknown"]
  /\ editing' = TRUE
  /\ UNCHANGED << metricVars, reserved, waiting, inHand, attempt, observation,
                  holder, instant, lost >>

\* Mutant: the update leaves the status in memory.
KeptStatus == pushed

\* reset_proxy_state removes the metrics of the node.
ResetStatus == "unknown"

EndEdit ==
  /\ editing
  /\ holder = Nobody
  /\ stats' = NoStats /\ learning' = Lessons /\ lastSuccess' = 0
  /\ pushed' = ResetStatus
  /\ editing' = FALSE
  /\ UNCHANGED << storedRow, reserved, waiting, inHand, attempt, observation,
                  holder, instant, lost >>

Pace ==
  /\ instant < MaxInstant
  /\ instant' = instant + 1
  /\ UNCHANGED << storedRow, metricVars, reserved, waiting, inHand, attempt,
                  observation, holder, editing, lost >>

StatusNext ==
  \/ \E a \in Attempts :
       \/ StartAttempt(a) \/ DropOutcome(a) \/ Succeed(a) \/ PushStatus(a)
       \/ \E opens \in BOOLEAN : Fail(a, opens)
  \/ PruneMetric
  \/ TakeStatus \/ WriteInHand \/ RefuseInHand
  \/ BeginObservation
  \/ \E desired \in Verdicts \union {"unknown"} : ObserveNothing(desired) \/ Observe(desired)
  \/ \E saved \in BOOLEAN : Persist(saved)
  \/ CommitEdit \/ EndEdit
  \/ Pace

StatusSpec == StatusInit /\ [][StatusNext]_statusVars

-----------------------------------------------------------------------------
Writes == [gen : 0..MaxRow, rev : 0..MaxReserved, status : Verdicts \union {"unknown"}]

StatusTypeOK ==
  /\ storedRow \in [gen : 1..MaxRow, status : Verdicts \union {"unknown"}]
  /\ learning \in 0..Lessons
  /\ lastSuccess \in 0..MaxInstant
  /\ pushed \in Verdicts \union {"unknown"}
  /\ reserved \in 0..MaxReserved
  /\ waiting \in Writes /\ inHand \in Writes
  /\ attempt \in [Attempts -> [pc : {"idle", "dialing", "pushing"}, gen : 0..MaxRow,
                               status : Verdicts \union {"unknown"}]]
  /\ observation \in [pc : {"idle", "testing", "persisting"}, began : 0..MaxInstant,
                       gen : 0..MaxRow, write : Writes]
  /\ holder \in Attempts \union {Nobody}
  /\ editing \in BOOLEAN /\ lost \in BOOLEAN
  /\ instant \in 1..MaxInstant

TotalTime(window) ==
  LET upto[i \in 0..Len(window)] == IF i = 0 THEN 0 ELSE upto[i - 1] + window[i].latency
  IN  upto[Len(window)]

TimedIn(window) == Cardinality({i \in DOMAIN window : Timed(window[i])})

(* The sums are kept by difference as samples come, age and make room, and *)
(* the score is computed from them now and then; a sum that ran off would  *)
(* rank the node by connections nobody remembers, or underflow.            *)
MetricsAddUp ==
  LET timed == TimedIn(stats.window)
      sum == TotalTime(stats.window)
  IN  /\ Len(stats.window) <= MaxWindow
      /\ << stats.successes, stats.timeSum, stats.timeCount >> = << timed, sum, timed >>
      /\ stats.score = << timed, Len(stats.window) - timed, sum, timed >>

(* The runtime writes a status only when it differs from the one it pushed *)
(* last, so the row must really have come to show that one: with nothing   *)
(* on its way any more, the row shows what the memory takes the node for,  *)
(* whichever of the connections, the probe and the worker overtook which,  *)
(* and whatever an update did in between.  The one exception is the status *)
(* of a probe that the database refused.                                   *)
RowFollowsMemory ==
  /\ pushed # "unknown"
  /\ holder = Nobody /\ ~editing /\ ~lost
  /\ waiting = NoWrite /\ inHand = NoWrite /\ observation.write = NoWrite
  => storedRow.status = pushed

(* A probe that began before a connection succeeded does not put the node  *)
(* down in the row, however long its write is under way; the moment        *)
(* between a success and the push of its status excepted.                  *)
SuccessOutlastsProbe ==
  [][ /\ storedRow'.status = "inactive" /\ storedRow.status # "inactive"
      /\ observation.write # NoWrite /\ observation'.write = NoWrite
      /\ holder = Nobody /\ ~editing
      => lastSuccess <= observation.began ]_statusVars
=============================================================================
