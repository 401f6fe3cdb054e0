------------------------------ MODULE Probing ------------------------------
(***************************************************************************)
(* The probes of state.rs: the loop that decides which nodes are due       *)
(* (run_startup_probe, run_probe_cycle), the batch it runs them in, and    *)
(* perform_proxy_probe with record_probe_observation, which a manual test  *)
(* runs as well.  A probe waits for its node's lock and for its share of   *)
(* the 64 slots, reads the row, tests it, and then has to find out whether *)
(* its result still speaks of the node: rows, generations and settings     *)
(* change all the time.                                                    *)
(*                                                                         *)
(* Every probe is a task of its own: the one a batch runs for node n is    *)
(* called n.  Whether traffic has recently succeeded through a node is an  *)
(* input of the steps that ask for it.                                     *)
(***************************************************************************)
EXTENDS ProbeHealth, FiniteSets, Sequences, FiniteSetsExt

CONSTANTS
    Nodes,
    Manual,          \* callers of test_proxy
    Required,        \* nodes with the required_probe policy
    Configs,         \* settings an enabled node may have
    Slots,           \* probe_slots
    Concurrencies,   \* values of probe_concurrency
    DownThreshold,   \* probe_failure_threshold
    Edited,          \* bound: the nodes administrators edit
    MaxGen,          \* bound: routing generations published
    MaxSettings,     \* bound: changes of probe settings or DNS mappings
    MaxTests,        \* bound: results ReadyIsEarned looks back on
    Outcomes,        \* bound: what a test may say
    NoNode           \* no node

ASSUME ProbingAssumption ==
    /\ Nodes \cap Manual = {}
    /\ IsFiniteSet(Nodes \cup Manual)
    /\ Required \subseteq Nodes
    /\ Edited \subseteq Nodes
    /\ Configs # {} /\ Configs \cap {"off", "gone"} = {}
    /\ Slots \in Nat \ {0}
    /\ Concurrencies \subseteq 1..Slots /\ Concurrencies # {}
    /\ DownThreshold \in Nat \ {0}
    /\ MaxGen \in Nat \ {0}
    /\ MaxSettings \in Nat
    /\ MaxTests \in Nat
    /\ Outcomes \subseteq Results
    /\ NoNode \notin Nodes

VARIABLES
    cfg,         \* the node's row: a config, "off" (disabled) or "gone"
    nodeGen,     \* node_generations of the snapshot; 0 = not in the snapshot
    routingGen,  \* generation of the routing snapshot
    settings,    \* probe_settings_revision
    concurrency, \* probe_concurrency
    edit,        \* the command whose row is written and whose reset is not
    entry,       \* Database::probe_health: health with the generation and
                 \* the revision it was proved for
    lapsed,      \* the last success is older than max_age_seconds
    lockOf,      \* probe_locks: the lock in the map, 0 = none
    cached,      \* probe_results
    failures,    \* probe_failures
    forced,      \* forced_probes
    overdue,     \* last_probe: no entry, or the interval has passed
    loop,        \* where the loop stands, and the rest of its batch
    task,        \* the probes
    log,         \* history: results recorded for the node as it is now
    streak,      \* history: its failed probes in a row
    untested     \* history: nodes changed since a probe last looked at them

rowVars == <<cfg, nodeGen, routingGen, settings, concurrency, edit>>
healthVars == <<entry, lapsed, log>>
countVars == <<cached, failures, streak>>
loopVars == <<forced, overdue, loop>>
vars == <<rowVars, healthVars, countVars, loopVars, lockOf, task, untested>>

Probers == Nodes \cup Manual

LockIds == 1..(Cardinality(Manual) + 2)

Enabled(n) == cfg[n] \in Configs

NoEntry == [gen |-> 0, rev |-> 0, health |-> NewHealth]
NoResult == [gen |-> 0, rev |-> 0, cfg |-> "gone"]

\* served: the result in probe_results is younger than this probe's request.
\* mark: it is to be marked inactive.  alive: traffic succeeded since the test
\* began.  owed: history, somebody else's result
\* has answered it.
NoTask == [pc |-> "idle", node |-> NoNode, lock |-> 0, weight |-> 0,
           cfg |-> "gone", rev |-> 0, gen |-> 0, result |-> "unknown",
           mark |-> FALSE, alive |-> FALSE, served |-> FALSE, owed |-> FALSE]

TaskStates == {"idle", "queued", "locked", "ready", "reading", "testing",
               "judging", "counting", "checking", "publishing", "persisting",
               "caching"}

NoEdit == [node |-> NoNode, gone |-> FALSE]

TypeOK ==
    /\ cfg \in [Nodes -> Configs \cup {"off", "gone"}]
    /\ nodeGen \in [Nodes -> 0..MaxGen]
    /\ routingGen \in 1..MaxGen
    /\ settings \in 0..MaxSettings
    /\ concurrency \in Concurrencies
    /\ edit \in [node : Nodes \cup {NoNode}, gone : BOOLEAN]
    /\ entry \in [Nodes -> [gen : 0..MaxGen, rev : 0..MaxSettings,
                            health : Healths]]
    /\ lapsed \in [Nodes -> BOOLEAN]
    /\ lockOf \in [Nodes -> {0} \cup LockIds]
    /\ cached \in [Nodes -> [gen : 0..MaxGen, rev : 0..MaxSettings,
                             cfg : Configs \cup {"off", "gone"}]]
    /\ failures \in [Nodes -> 0..DownThreshold]
    /\ forced \subseteq Nodes
    /\ overdue \in [Nodes -> BOOLEAN]
    /\ loop \in [pc    : {"startup", "idle", "listed", "batch"},
                 live  : SUBSET Nodes,
                 stale : SUBSET Nodes,
                 batch : SUBSET Nodes,
                 limit : Concurrencies,
                 first : BOOLEAN]
    /\ task \in [Probers -> [pc     : TaskStates,
                             node   : Nodes \cup {NoNode},
                             lock   : {0} \cup LockIds,
                             weight : 0..Slots,
                             cfg    : Configs \cup {"off", "gone"},
                             rev    : 0..MaxSettings,
                             gen    : 0..MaxGen,
                             result : Results,
                             mark   : BOOLEAN,
                             alive  : BOOLEAN,
                             served : BOOLEAN,
                             owed   : BOOLEAN]]
    /\ log \in [Nodes -> Seq(Results)]
    /\ streak \in [Nodes -> 0..DownThreshold]
    /\ untested \subseteq Nodes

Init ==
    /\ cfg \in [Nodes -> Configs \cup {"off"}]
    /\ \A n \in Nodes \ Edited : Enabled(n)
    /\ nodeGen = [n \in Nodes |-> IF Enabled(n) THEN 1 ELSE 0]
    /\ routingGen = 1
    /\ settings = 0
    /\ concurrency \in Concurrencies
    /\ edit = NoEdit
    /\ entry = [n \in Nodes |-> NoEntry]
    /\ lapsed = [n \in Nodes |-> FALSE]
    /\ lockOf = [n \in Nodes |-> 0]
    /\ cached = [n \in Nodes |-> NoResult]
    /\ failures = [n \in Nodes |-> 0]
    /\ forced = {}
    /\ overdue = [n \in Nodes |-> TRUE]
    /\ loop = [pc |-> "startup", live |-> {}, stale |-> {}, batch |-> {},
               limit |-> concurrency, first |-> TRUE]
    /\ task = [t \in Probers |-> NoTask]
    /\ log = [n \in Nodes |-> <<>>]
    /\ streak = [n \in Nodes |-> 0]
    /\ untested = {}

-----------------------------------------------------------------------------
(***************************************************************************)
(* Locks, slots and guards                                                 *)
(***************************************************************************)

On(n) == {t \in Probers : task[t].pc # "idle" /\ task[t].node = n}

\* Past its node's lock.
Inside(t) == task[t].pc \notin {"idle", "queued"}

\* Holds its share of probe_slots.
Holding == {t \in Probers : task[t].pc \notin {"idle", "queued", "locked"}}

\* The permits of probe_slots that are out: each share by its number.
PermitsOut == {p \in Holding \X (1..Slots) : p[2] <= task[p[1]].weight}

\* settings_update_lock, held from the end of the test to the end of the probe.
GuardFree ==
    \A t \in Probers :
        task[t].pc \notin {"counting", "checking", "publishing", "persisting",
                           "caching"}

\* Mutant: every probe takes one slot.
WeightOfOne(c) == 1

\* 64u32.div_ceil(concurrency)
Weight(c) == (Slots + c - 1) \div c

\* The probe is over: guards, permits and its reference to the lock go.
End(t) == task' = [task EXCEPT ![t] = NoTask]

\* Mutant: the lock of a disabled node is dropped while probes use it.
KeepListedLocks ==
    [n \in Nodes |-> IF nodeGen[n] # 0 THEN lockOf[n] ELSE 0]

\* probe_locks.retain: a lock stays while its node is enabled or while
\* anybody holds a reference to it.
KeepLocks ==
    [n \in Nodes |->
        IF nodeGen[n] # 0 \/ (\E t \in On(n) : task[t].lock = lockOf[n])
        THEN lockOf[n] ELSE 0]

UnusedLock(n) == Min({l \in LockIds : \A t \in On(n) : task[t].lock # l})

\* perform_proxy_probe begins: it gets a reference to the node's lock.
Begin(t, n) ==
    LET locks == KeepLocks
        lock == IF locks[n] = 0 THEN UnusedLock(n) ELSE locks[n]
    IN  /\ task[t].pc = "idle"
        /\ lockOf' = [locks EXCEPT ![n] = lock]
        /\ task' = [task EXCEPT ![t] = [NoTask EXCEPT !.pc = "queued",
                                           !.node = n, !.lock = lock]]

-----------------------------------------------------------------------------
(***************************************************************************)
(* One probe                                                               *)
(***************************************************************************)

\* test_proxy for a node that exists.
TestProxy(t, n) ==
    /\ t \in Manual
    /\ cfg[n] # "gone"
    /\ Begin(t, n)
    /\ UNCHANGED <<rowVars, healthVars, countVars, loopVars, untested>>

LockNode(t) ==
    LET n == task[t].node
    IN  /\ task[t].pc = "queued"
        /\ \A u \in On(n) : task[u].lock = task[t].lock => ~Inside(u)
        /\ task' = [task EXCEPT ![t].pc = "locked",
                                ![t].weight = Weight(concurrency)]
        /\ UNCHANGED <<rowVars, healthVars, countVars, loopVars, lockOf,
                       untested>>

TakeSlots(t) ==
    /\ task[t].pc = "locked"
    /\ Cardinality(PermitsOut) + task[t].weight <= Slots
    /\ task' = [task EXCEPT ![t].pc = "ready"]
    /\ UNCHANGED <<rowVars, healthVars, countVars, loopVars, lockOf, untested>>

\* queue_deadline: five seconds for the lock and the slots together.
QueueTimeout(t) ==
    /\ task[t].pc \in {"queued", "locked"}
    /\ End(t)
    /\ untested' = untested \ {task[t].node}
    /\ UNCHANGED <<rowVars, healthVars, countVars, loopVars, lockOf>>

\* The row and the settings as they are now.  Only a manual test looks at a
\* disabled node.
ReadRow(t) ==
    LET n == task[t].node
    IN  /\ task[t].pc = "ready"
        /\ IF cfg[n] = "gone" \/ (cfg[n] = "off" /\ t \in Nodes)
           THEN End(t)
           ELSE task' = [task EXCEPT ![t].pc = "reading", ![t].cfg = cfg[n],
                                     ![t].rev = settings]
        /\ untested' = untested \ {n}
        /\ UNCHANGED <<rowVars, healthVars, countVars, loopVars, lockOf>>

\* Mutant: a result is reused only by those who asked after it was there.
ReusableOnlyLater(t) == FALSE

\* A probe that ended after this one was asked for has answered it, if it is
\* of the same row, generation and settings.
Reusable(t) ==
    /\ task[t].served
    /\ cached[task[t].node] = [gen |-> nodeGen[task[t].node],
                               rev |-> task[t].rev, cfg |-> task[t].cfg]

ReuseResult(t) ==
    /\ task[t].pc = "reading"
    /\ Reusable(t)
    /\ End(t)
    /\ UNCHANGED <<rowVars, healthVars, countVars, loopVars, lockOf, untested>>

\* The generation is read after the row it is taken for.
StartTest(t) ==
    /\ task[t].pc = "reading"
    /\ ~Reusable(t)
    /\ task' = [task EXCEPT ![t].pc = "testing",
                            ![t].gen = nodeGen[task[t].node]]
    /\ UNCHANGED <<rowVars, healthVars, countVars, loopVars, lockOf, untested>>

\* The test address or timeout is unusable.
Misconfigured(t) ==
    /\ task[t].pc = "reading"
    /\ ~Reusable(t)
    /\ End(t)
    /\ UNCHANGED <<rowVars, healthVars, countVars, loopVars, lockOf, untested>>

\* test_proxy_mapped returns.
FinishTest(t, result) ==
    /\ task[t].pc = "testing"
    /\ result \in Outcomes
    /\ task' = [task EXCEPT ![t].pc = "judging", ![t].result = result]
    /\ UNCHANGED <<rowVars, healthVars, countVars, loopVars, lockOf, untested>>

\* With the settings guard: does the result speak of the row as it is now?
Recheck(t) ==
    /\ task[t].pc = "judging"
    /\ GuardFree
    /\ IF cfg[task[t].node] = task[t].cfg /\ settings = task[t].rev
       THEN task' = [task EXCEPT ![t].pc = "counting"]
       ELSE End(t)
    /\ UNCHANGED <<rowVars, healthVars, countVars, loopVars, lockOf, untested>>

\* should_mark_inactive: periodic probes wait for the threshold.
Periodic(t) == t \in Nodes /\ ~loop.first

Marks(t, count) == Periodic(t) => count >= DownThreshold

\* probe_failures: a failure of the proxy counts unless traffic got through
\* meanwhile; evidence that it answers clears the count.
Count(t, alive) ==
    LET n == task[t].node
        result == task[t].result
        clears == Proven(result) \/ (result = "proxyFail" /\ alive)
        counts == result = "proxyFail" /\ ~alive
        more == UpTo(DownThreshold, failures[n])
    IN  /\ task[t].pc = "counting"
        /\ failures' = [failures EXCEPT ![n] =
                           IF clears THEN 0 ELSE IF counts THEN more ELSE @]
        /\ streak' = [streak EXCEPT ![n] =
                         IF task[t].gen # nodeGen[n] THEN @
                         ELSE IF clears THEN 0
                         ELSE IF counts THEN UpTo(DownThreshold, @) ELSE @]
        /\ task' = [task EXCEPT ![t].pc = "checking",
                                ![t].mark = counts /\ Marks(t, more)]
        /\ UNCHANGED <<rowVars, healthVars, cached, loopVars, lockOf, untested>>

\* Mutant: the failures of a discarded probe stay in the count.
FailuresKept(n) == failures

FailuresWithout(n) == [failures EXCEPT ![n] = 0]

\* record_probe_observation refuses, or its write fails.
Abandon(t) ==
    /\ failures' = FailuresWithout(task[t].node)
    /\ End(t)

\* Under the status lock: the node still has the generation and the settings
\* of the test.
CheckObservation(t, alive) ==
    LET n == task[t].node
    IN  /\ task[t].pc = "checking"
        /\ IF nodeGen[n] = task[t].gen /\ settings = task[t].rev
           THEN /\ task' = [task EXCEPT ![t].pc = "publishing",
                               ![t].alive = alive,
                               ![t].mark = @ /\ (alive => n \in Required)]
                /\ UNCHANGED failures
           ELSE Abandon(t)
        /\ UNCHANGED <<rowVars, healthVars, cached, streak, loopVars, lockOf,
                       untested>>

\* Mutant: whatever is in the map is current.
CurrentOfAnyGeneration(n) == Expire(entry[n].health, lapsed[n])

\* current_probe_health: health of another generation or revision is history.
CurrentHealth(n) ==
    IF entry[n].gen = nodeGen[n] /\ entry[n].rev = settings
    THEN Expire(entry[n].health, lapsed[n])
    ELSE Invalidated(entry[n].health)

\* History of more than MaxTests results is too long to look back on.
Forgotten == [i \in 1..(MaxTests + 1) |-> "unknown"]

Recorded(results, result) ==
    IF Len(results) < MaxTests THEN Append(results, result) ELSE Forgotten

\* The entry is replaced, under selection_lock; the database follows later.
PublishObservation(t) ==
    LET n == task[t].node
    IN  /\ task[t].pc = "publishing"
        /\ entry' = [entry EXCEPT ![n] =
                        [gen |-> task[t].gen, rev |-> task[t].rev,
                         health |-> Observe(CurrentHealth(n), task[t].result,
                                            n \in Required)]]
        /\ lapsed' = [lapsed EXCEPT ![n] = @ /\ task[t].result # "success"]
        /\ log' = IF nodeGen[n] = task[t].gen /\ settings = task[t].rev
                     /\ n \in Required
                  THEN [log EXCEPT ![n] = Recorded(@, task[t].result)] ELSE log
        /\ task' = [task EXCEPT ![t].pc = "persisting"]
        /\ UNCHANGED <<rowVars, countVars, loopVars, lockOf, untested>>

\* persist_probe_observation checks once more.  ok: the database works.
PersistObservation(t, ok) ==
    LET n == task[t].node
    IN  /\ task[t].pc = "persisting"
        /\ IF /\ ok
              /\ nodeGen[n] = task[t].gen
              /\ settings = task[t].rev
              /\ cfg[n] = task[t].cfg
           THEN /\ task' = [u \in Probers |->
                     IF u = t THEN [task[u] EXCEPT !.pc = "caching"]
                     ELSE IF u \in On(n) /\ task[u].pc = "queued"
                          THEN [task[u] EXCEPT !.owed = TRUE]
                          ELSE task[u]]
                /\ UNCHANGED failures
           ELSE Abandon(t)
        /\ UNCHANGED <<rowVars, healthVars, cached, streak, loopVars, lockOf,
                       untested>>

\* Traffic that got through clears the count.  probe_results keeps the result
\* for whoever was waiting for the lock, and the probe is over.
CacheResult(t) ==
    LET n == task[t].node
    IN  /\ task[t].pc = "caching"
        /\ failures' = IF task[t].alive THEN FailuresWithout(n) ELSE failures
        /\ cached' = [m \in Nodes |->
              IF m = n THEN [gen |-> task[t].gen, rev |-> task[t].rev,
                             cfg |-> task[t].cfg]
              ELSE IF nodeGen[m] = 0 THEN NoResult ELSE cached[m]]
        /\ task' = [u \in Probers |->
              IF u = t THEN NoTask
              ELSE IF u \in On(n) THEN [task[u] EXCEPT !.served = TRUE]
              ELSE task[u]]
        /\ UNCHANGED <<rowVars, healthVars, streak, loopVars, lockOf, untested>>

ProbeStep(t) ==
    \/ LockNode(t)
    \/ TakeSlots(t)
    \/ QueueTimeout(t)
    \/ ReadRow(t)
    \/ ReuseResult(t)
    \/ StartTest(t)
    \/ Misconfigured(t)
    \/ \E result \in Results : FinishTest(t, result)
    \/ \E alive \in BOOLEAN : Count(t, alive)
    \/ \E alive \in BOOLEAN : CheckObservation(t, alive)
    \/ PublishObservation(t)
    \/ \E ok \in BOOLEAN : PersistObservation(t, ok)
    \/ CacheResult(t)

-----------------------------------------------------------------------------
(***************************************************************************)
(* The loop: periodic_proxy_tests                                          *)
(***************************************************************************)

Listed == {n \in Nodes : Enabled(n)}

\* run_startup_probe; all: startup_probe_enabled.
StartupProbe(all) ==
    LET listed == IF all THEN Listed ELSE Listed \cap Required
    IN  /\ loop.pc = "startup"
        /\ overdue' = [n \in Nodes |-> overdue[n] /\ n \notin listed]
        /\ loop' = [loop EXCEPT !.pc = "batch", !.batch = listed,
                                !.limit = concurrency]
        /\ UNCHANGED <<rowVars, healthVars, countVars, forced, lockOf,
                       task, untested>>

\* Mutant: last_probe keeps the nodes that are no longer enabled.
ListedOrNot(live) == overdue

\* last_probe.retain: a node that is not listed has never been probed.
OverdueUnless(live) == [n \in Nodes |-> n \in live => overdue[n]]

\* The loop is woken by its tick, or sooner by probe_notify, and reads the
\* enabled nodes with what is known of their health.
ListNodes ==
    /\ loop.pc = "idle"
    /\ overdue' = OverdueUnless(Listed)
    /\ loop' = [loop EXCEPT !.pc = "listed", !.live = Listed,
                            !.stale = {n \in Listed \cap Required :
                                          ~CurrentHealth(n).fresh},
                            !.limit = concurrency]
    /\ UNCHANGED <<rowVars, healthVars, countVars, forced, lockOf, task,
                   untested>>

\* The forced nodes are taken, and whoever else is due; busy: nodes with
\* recent traffic, which stands in for a heartbeat where none is required.
PlanBatch(busy) ==
    LET taken == forced \cap loop.live
        due == taken \cup {n \in loop.live \ (busy \ Required) :
                               n \in loop.stale \/ overdue[n]}
    IN  /\ loop.pc = "listed"
        /\ failures' = [n \in Nodes |-> IF n \in loop.live THEN failures[n]
                                        ELSE 0]
        /\ forced' = {}
        /\ overdue' = [n \in Nodes |-> overdue[n] /\ n \notin due]
        /\ loop' = [loop EXCEPT !.pc = IF due = {} THEN "idle" ELSE "batch",
                                !.live = {}, !.stale = {}, !.batch = due]
        /\ UNCHANGED <<rowVars, healthVars, cached, streak, lockOf,
                       task, untested>>

Running == {n \in Nodes : task[n].pc # "idle"}

\* Mutant: the last permit is never given out.
PermitFreeButOne == Cardinality(Running) + 1 < loop.limit

\* The semaphore of the batch: as many at a time as probe_concurrency was.
PermitFree == Cardinality(Running) < loop.limit

\* run_probe_batch
SpawnProbe(n) ==
    /\ loop.pc = "batch"
    /\ n \in loop.batch
    /\ PermitFree
    /\ Begin(n, n)
    /\ loop' = [loop EXCEPT !.batch = @ \ {n}]
    /\ UNCHANGED <<rowVars, healthVars, countVars, forced, overdue,
                   untested>>

\* tasks.join_next: the batch ends with its last probe.
EndBatch ==
    /\ loop.pc = "batch"
    /\ loop.batch = {}
    /\ Running = {}
    /\ loop' = [loop EXCEPT !.pc = "idle", !.first = FALSE]
    /\ UNCHANGED <<rowVars, healthVars, countVars, forced, overdue,
                   lockOf, task, untested>>

\* The interval of the node has passed.
Elapse(n) ==
    /\ ~overdue[n]
    /\ overdue' = [overdue EXCEPT ![n] = TRUE]
    /\ UNCHANGED <<rowVars, healthVars, countVars, forced, loop,
                   lockOf, task, untested>>

LoopStep ==
    \/ \E all \in BOOLEAN : StartupProbe(all)
    \/ ListNodes
    \/ \E busy \in SUBSET Nodes : PlanBatch(busy)
    \/ \E n \in Nodes : SpawnProbe(n)
    \/ EndBatch

-----------------------------------------------------------------------------
(***************************************************************************)
(* What changes meanwhile                                                  *)
(***************************************************************************)

\* Every probe of node n is on its own again.
Disowed(n) ==
    [t \in Probers |-> IF t \in On(n) THEN [task[t] EXCEPT !.owed = FALSE]
                       ELSE task[t]]

\* update_proxy or delete_proxy writes the row and publishes the snapshot.
PublishEdit(n, value) ==
    LET enabled == value \in Configs
    IN  /\ edit = NoEdit
        /\ n \in Edited
        /\ cfg[n] \notin {"gone", value}
        /\ routingGen < MaxGen
        /\ cfg' = [cfg EXCEPT ![n] = value]
        /\ routingGen' = routingGen + 1
        /\ nodeGen' = [nodeGen EXCEPT ![n] = IF enabled THEN routingGen + 1
                                             ELSE 0]
        /\ entry' = IF value = "gone" THEN [entry EXCEPT ![n] = NoEntry]
                    ELSE entry
        /\ edit' = [node |-> n, gone |-> value = "gone"]
        /\ log' = [log EXCEPT ![n] = <<>>]
        /\ streak' = [streak EXCEPT ![n] = 0]
        /\ untested' = IF enabled THEN untested \cup {n} ELSE untested \ {n}
        /\ task' = Disowed(n)
        /\ UNCHANGED <<settings, concurrency, lapsed, cached, failures,
                       loopVars, lockOf>>

\* proxy_configuration_changed, proxy_deleted: with the status lock of the
\* node, which record_probe_observation holds from its check to publication.
FinishEdit ==
    LET n == edit.node
    IN  /\ edit # NoEdit
        /\ \A t \in On(n) : task[t].pc # "publishing"
        /\ cached' = [cached EXCEPT ![n] = NoResult]
        /\ failures' = [failures EXCEPT ![n] = 0]
        /\ forced' = IF edit.gone THEN forced \ {n} ELSE forced \cup {n}
        /\ lockOf' = [lockOf EXCEPT ![n] =
                         IF edit.gone /\ ~\E t \in On(n) : task[t].lock = @
                         THEN 0 ELSE @]
        /\ edit' = NoEdit
        /\ task' = Disowed(n)
        /\ UNCHANGED <<cfg, nodeGen, routingGen, settings, concurrency,
                       healthVars, streak, overdue, loop, untested>>

\* save_settings, or refresh_dns_cache finding other mappings.
ChangeSettings ==
    /\ settings < MaxSettings
    /\ settings' = settings + 1
    /\ log' = [n \in Nodes |-> <<>>]
    /\ task' = [t \in Probers |-> [task[t] EXCEPT !.owed = FALSE]]
    /\ UNCHANGED <<cfg, nodeGen, routingGen, concurrency, edit, entry, lapsed,
                   countVars, loopVars, lockOf, untested>>

\* probe_concurrency is saved, with the settings guard.
ChangeConcurrency(c) ==
    /\ c # concurrency
    /\ GuardFree
    /\ concurrency' = c
    /\ UNCHANGED <<cfg, nodeGen, routingGen, settings, edit, healthVars,
                   countVars, forced, overdue, loop, lockOf, task, untested>>

\* probe_is_ready, for a required node of the snapshot.
Offered(n) ==
    /\ nodeGen[n] # 0
    /\ entry[n].gen = nodeGen[n]
    /\ entry[n].rev = settings
    /\ Eligible(entry[n].health, lapsed[n])

\* max_age_seconds pass without a success.
Lapse(n) ==
    /\ n \in Required
    /\ Offered(n)
    /\ lapsed' = [lapsed EXCEPT ![n] = TRUE]
    /\ log' = [log EXCEPT ![n] = <<>>]
    /\ UNCHANGED <<rowVars, entry, countVars, loopVars, lockOf, task, untested>>

Next ==
    \/ \E t \in Probers : ProbeStep(t) \/ Recheck(t)
    \/ \E t \in Manual, n \in Nodes : TestProxy(t, n)
    \/ LoopStep
    \/ \E n \in Nodes : Elapse(n) \/ Lapse(n)
    \/ \E n \in Nodes, value \in Configs \cup {"off", "gone"} :
          PublishEdit(n, value)
    \/ FinishEdit
    \/ ChangeSettings
    \/ \E c \in Concurrencies : ChangeConcurrency(c)

Spec == Init /\ [][Next]_vars

\* Tests end (every phase has a timeout), queues time out, the loop's tick
\* comes round and a command that has written goes on to its reset.  The
\* settings guard is handed over in the order in which it was asked for.
Fairness ==
    /\ \A t \in Probers : WF_vars(ProbeStep(t)) /\ SF_vars(Recheck(t))
    /\ WF_vars(LoopStep)
    /\ SF_vars(FinishEdit)

FairSpec == Spec /\ Fairness

-----------------------------------------------------------------------------
(***************************************************************************)
(* Properties                                                              *)
(***************************************************************************)

\* No node is tested twice at the same time: the lock of a node survives its
\* being disabled, edited or deleted while anybody still uses it
\* (state.rs 513-526 and 167-181).
OneTestPerNode ==
    \A t, u \in Probers :
        Inside(t) /\ Inside(u) /\ task[t].node = task[u].node => t = u

ProbingInv == TypeOK /\ OneTestPerNode

\* probe_concurrency holds for all probes together, those asked for by hand
\* included, once the probes that took their share of the slots under another
\* value have ended (state.rs 533-545).
TestsWithinConcurrency ==
    (\A t \in Holding : task[t].weight = Weight(concurrency))
        => Cardinality(Holding) <= concurrency

\* The failures after result i, up to result k, with no success among them.
FailuresIn(results, i, k) == {j \in (i + 1)..k : RemoteFailure(results[j])}

NoSuccess(results, i, k) == \A j \in (i + 1)..k : results[j] # "success"

\* The results end some time after enough successes in a row, with no series
\* of failures since that would take the node out again.
Earned(results) ==
    \E k \in RecoveryThreshold..Len(results) :
        /\ \A i \in (k - RecoveryThreshold + 1)..k : results[i] = "success"
        /\ \A i, j \in k..Len(results) :
              NoSuccess(results, i, j) =>
                  Cardinality(FailuresIn(results, i, j)) < FailureThreshold

\* A required node is offered to traffic only on the strength of enough
\* successive tests of the node as it is now: of this row, with these
\* settings, since its last proof lapsed - whatever results of earlier rows
\* arrived in between (database.rs 212-242, README.md:353).
ReadyIsEarned ==
    \A n \in Required :
        Offered(n) /\ Len(log[n]) <= MaxTests => Earned(log[n])

\* A periodic probe decides to mark a node inactive after DownThreshold failed
\* probes in a row of the node as it is now.  What a probe of an earlier row
\* added to the count is gone by then; only while a command that has published
\* a row still has to reset the count may the old count be used
\* (state.rs 648-714, README.md:329).
InactiveIsEarned ==
    [][\A n \in Nodes :
          /\ task'[n].mark /\ ~task[n].mark
          /\ ~loop.first
          /\ task[n].gen = nodeGen[n]
          => streak'[n] >= DownThreshold \/ edit.node = n]_vars

\* No edit is forgotten: a node that was changed or enabled and that no probe
\* has looked at since is in forced_probes, or overdue, or in the batch, or
\* its probe still has its row to read.  A node enabled just after the loop
\* listed the enabled nodes loses its place in forced_probes, and is due all
\* the same because last_probe forgot it (state.rs 393-404, 159-165).
EditedNodeIsDue ==
    \A n \in untested :
        \/ edit.node = n
        \/ n \in forced
        \/ overdue[n]
        \/ loop.pc = "batch" /\ n \in loop.batch
        \/ \E t \in On(n) : task[t].pc \in {"queued", "locked", "ready"}

\* Overlapping probes of an enabled node are one observation: a probe that was
\* waiting when another's result was recorded does not test the node again,
\* unless the row or the settings changed since (state.rs 556-577,
\* README.md:344).  A disabled node, which is tested by hand only, may be tested
\* again: the end of any other node's probe drops its cached result
\* (state.rs 690-693).
OverlapIsMerged ==
    \A t \in Probers :
        task[t].pc = "testing" /\ nodeGen[task[t].node] # 0 => ~task[t].owed

\* Every cycle ends, however many probes wait for one another's locks, slots
\* and settings guard: the loop comes back to wait for its next tick.
CycleEnds == loop.pc # "idle" ~> loop.pc = "idle"
=============================================================================
