------------------------- MODULE PublicationProofs --------------------------
(***************************************************************************)
(* How what the commands write reaches the connections: theorems about the *)
(* DNS cache (module Dns) and about the routing snapshot (module Routing), *)
(* for all tables, all numbers of commands and connections, any answers of *)
(* the resolver.                                                           *)
(*                                                                         *)
(*   DnsTypeCorrect     types, and the bound of concurrent resolutions     *)
(*   CacheFollowsHolds  an edit is left out of the cache only by a refresh *)
(*                      that failed or overtook another                    *)
(*   ProbeHolds         a current revision means current mappings          *)
(*   WantedHolds        an answer is stored only where it is still wanted  *)
(*   IndexIsSearch      the index finds the pool that a search of all      *)
(*                      rules finds                                        *)
(*   RoutingHolds       the snapshot follows the tables                    *)
(*   StickinessHolds    a failover sticks to its backup as long as its     *)
(*                      grounds last, and no longer                        *)
(*                                                                         *)
(* A refresh of the cache reads and swaps in two steps that nothing        *)
(* orders.  What makes the cache right at rest is that every change of the *)
(* table starts a refresh after it: as long as the cache does not show the *)
(* last change, some task still has to read the table or has read that     *)
(* change (Covered).                                                       *)
(*                                                                         *)
(* A publication of routes gathers and swaps in two steps under a guard    *)
(* of the writers.  What makes the snapshot right is that what the writer  *)
(* gathered is still what is there (TablesInv); what makes a binding right *)
(* that no snapshot names it is that a generation and a revision are never *)
(* given twice: if both are still in the snapshot, so are the grounds the  *)
(* binding was made on (Lasts, BindingOK).                                 *)
(***************************************************************************)
EXTENDS Dns, Routing, FiniteSetTheorems, WellFoundedInduction, TLAPS

-----------------------------------------------------------------------------
(*                              The DNS cache                              *)

Tasks == Callers \union {Loop}

\* Some refresh will show the last change.
Covered ==
  \E t \in Tasks : \/ task[t].pc = "refresh"
                   \/ task[t].pc = "swap" /\ task[t].at = writes

Following ==
  /\ \A t \in Tasks : task[t].pc = "swap" /\ task[t].at = writes =>
                        task[t].read = MappedBy(table)
  /\ shown = writes => cache = MappedBy(table)
  /\ ~overtaken => shown = writes \/ Covered

\* A revision stands for one content of the cache.
Revisions ==
  probe.active => /\ probe.revision <= revision
                  /\ probe.revision = revision => probe.mappings = cache

\* The loop resolves dynamic mappings that are enabled; its tasks are those of a round.
Rounds ==
  /\ IsFiniteSet(resolving)
  /\ \A seen \in pending \union resolving : seen.row.enabled /\ seen.row.dynamic
  /\ task[Loop].pc # "resolving"
  /\ \A t \in Callers : task[t].pc # "joining"

DnsInv == DnsTypeOK /\ Following /\ Revisions /\ Rounds

-----------------------------------------------------------------------------
(* What the writes do. *)

\* A task moves on and keeps what it read.
LEMMA TaskFrame ==
    ASSUME DnsTypeOK, NEW t \in Tasks, NEW s, TaskTo(t, s)
    PROVE  /\ task'[t].pc = s /\ task'[t].read = task[t].read
           /\ task'[t].at = task[t].at /\ task'[t].seen = task[t].seen
           /\ \A u \in Tasks \ {t} : task'[u] = task[u]
           /\ s \in {"idle", "resolving", "refresh", "swap", "joining", "over"} =>
                task' \in [Tasks -> TaskRecords]
  BY DEF DnsTypeOK, TaskTo, TaskRecords, Tasks

\* A task ends.
LEMMA IdleFrame ==
    ASSUME DnsTypeOK, NEW t \in Tasks, task' = [task EXCEPT ![t] = Idle]
    PROVE  /\ task'[t].pc = "idle" /\ task'[t].at = 0
           /\ \A u \in Tasks \ {t} : task'[u] = task[u]
           /\ task' \in [Tasks -> TaskRecords]
<1>1. NoneMapped \in AddressMaps
  BY DEF NoneMapped, AddressMaps
<1>2. Idle \in TaskRecords
  BY <1>1 DEF Idle, TaskRecords
<1> QED
  BY <1>2 DEF DnsTypeOK, Tasks, Idle

\* What is read off a table is a map from domains to addresses.
LEMMA MappedType ==
    ASSUME NEW t \in [Ids -> Rows \union {NoRow, Deleted}]
    PROVE  MappedBy(t) \in AddressMaps
<1>1. ASSUME NEW d \in Domains, NEW hits,
             hits = {i \in Ids : t[i].domain = d /\ t[i].enabled}, hits # {}
      PROVE  t[CHOOSE i \in hits : TRUE].ip \in Ips
  <2>1. PICK i \in hits : i = (CHOOSE j \in hits : TRUE)
    BY <1>1
  <2>2. t[i] \in Rows \union {NoRow, Deleted} /\ t[i].enabled
    BY <1>1, <2>1
  <2>3. t[i] \in Rows
    BY <2>2 DEF NoRow, Deleted
  <2> QED
    BY <2>1, <2>3 DEF Rows
<1> QED
  BY <1>1 DEF MappedBy, AddressMaps

\* A change is counted, and the row it leaves is a row or a deleted one.
LEMMA ChangeFrame ==
    ASSUME DnsTypeOK, NEW i \in Ids, NEW row \in Rows \union {Deleted}, Change(i, row)
    PROVE  /\ table' \in [Ids -> Rows \union {NoRow, Deleted}]
           /\ table' = [table EXCEPT ![i] = row]
           /\ writes' = writes + 1 /\ writes' \in 0..MaxWrites
           /\ \A t \in Tasks : task[t].at < writes'
           /\ shown < writes'
<1>1. writes \in 0..MaxWrites /\ shown \in 0..writes
  BY DEF DnsTypeOK
<1>2. \A t \in Tasks : task[t].at \in Nat /\ task[t].at <= writes
  BY DEF DnsTypeOK, Tasks, TaskRecords
<1>3. table' \in [Ids -> Rows \union {NoRow, Deleted}]
  BY DEF DnsTypeOK, Change
<1> QED
  BY <1>1, <1>2, <1>3, DnsAssumption DEF Change

\* So is an answer that is stored, and the row was as it had been read.
LEMMA AnswerFrame ==
    ASSUME DnsTypeOK, NEW seen \in Seen, NEW ip \in Answers[seen.row.domain],
           Unchanged(seen), StoreAnswer(seen, ip)
    PROVE  /\ seen.id \in Ids /\ table[seen.id] \in Rows /\ table[seen.id] = seen.row
           /\ [table[seen.id] EXCEPT !.ip = ip] \in Rows
           /\ [table[seen.id] EXCEPT !.ip = ip].ip = ip
           /\ Change(seen.id, [table[seen.id] EXCEPT !.ip = ip])
<1>1. seen.id \in Ids /\ seen.row \in Rows
  BY DEF Seen
<1>2. ip \in Ips
  BY <1>1, DnsAssumption DEF Rows
<1>3. table[seen.id] = seen.row
  BY DEF Unchanged
<1>4. [seen.row EXCEPT !.ip = ip] \in Rows /\ [seen.row EXCEPT !.ip = ip].ip = ip
  BY <1>1, <1>2 DEF Rows
<1> QED
  BY <1>1, <1>3, <1>4 DEF StoreAnswer

\* What the types say of the tasks.
LEMMA TaskTypes ==
    DnsTypeOK => /\ \A t \in Tasks : /\ task[t].seen \in SUBSET Seen
                                     /\ task[t].read \in AddressMaps
                                     /\ task[t].at \in Nat /\ task[t].at <= writes
                 /\ task \in [Tasks -> TaskRecords]
                 /\ Callers \subseteq Tasks /\ Loop \in Tasks /\ Loop \notin Callers
                 /\ shown \in Nat /\ writes \in Nat /\ shown <= writes
                 /\ revision \in Nat
  BY DnsAssumption DEF DnsTypeOK, Tasks, TaskRecords

-----------------------------------------------------------------------------
(* The cache follows the table. *)

\* A task that neither begins with nor ends at a refresh leaves the cache as right as
\* it was.
LEMMA QuietStep ==
    ASSUME DnsInv, NEW t \in Tasks, task[t].pc \notin {"refresh", "swap"},
           task'[t].pc # "swap", \A u \in Tasks \ {t} : task'[u] = task[u],
           UNCHANGED << table, writes, cache, shown, overtaken >>
    PROVE  Following'
<1>1. \A u \in Tasks : task'[u].pc = "swap" => task'[u] = task[u]
  OBVIOUS
<1>2. Covered => Covered'
  <2> SUFFICES ASSUME Covered PROVE Covered'
    OBVIOUS
  <2>1. PICK u \in Tasks : \/ task[u].pc = "refresh"
                           \/ task[u].pc = "swap" /\ task[u].at = writes
    BY DEF Covered
  <2>2. task'[u] = task[u]
    BY <2>1
  <2> QED
    BY <2>1, <2>2 DEF Covered
<1> QED
  BY <1>1, <1>2 DEF DnsInv, Following, MappedBy

\* Whoever changes the table goes on to refresh the cache.
LEMMA ChangeStep ==
    ASSUME DnsInv, NEW t \in Tasks, task'[t].pc = "refresh",
           \A u \in Tasks \ {t} : task'[u] = task[u],
           \A u \in Tasks : task[u].at < writes', shown < writes',
           UNCHANGED << cache, shown, overtaken >>
    PROVE  Following'
<1>1. Covered'
  BY DEF Covered
<1>2. \A u \in Tasks : ~(task'[u].pc = "swap" /\ task'[u].at = writes')
  <2> SUFFICES ASSUME NEW u \in Tasks, task'[u].pc = "swap", task'[u].at = writes'
               PROVE  FALSE
    OBVIOUS
  <2>1. u # t /\ task'[u] = task[u]
    OBVIOUS
  <2>2. task[u].at < task[u].at /\ task[u].at \in Nat
    BY <2>1, TaskTypes DEF DnsInv
  <2> QED
    BY <2>2
<1>3. ~(shown' = writes')
  BY TaskTypes DEF DnsInv
<1> QED
  BY <1>1, <1>2, <1>3 DEF Following

\* The table is read.
LEMMA ReadStep ==
    ASSUME DnsInv, NEW t \in Tasks, ReadTable(t)
    PROVE  DnsInv'
<1>1. /\ task' \in [Tasks -> TaskRecords]
      /\ task'[t].pc = "swap" /\ task'[t].read = MappedBy(table)
      /\ task'[t].at = writes
      /\ \A u \in Tasks \ {t} : task'[u] = task[u]
      /\ task[t].pc = "refresh"
      /\ UNCHANGED << table, cache, revision, shown, overtaken, pending, resolving,
                      probe, writes >>
  <2>1. MappedBy(table) \in AddressMaps
    BY MappedType DEF DnsInv, DnsTypeOK
  <2> QED
    BY <2>1, TaskTypes DEF DnsInv, ReadTable, cacheVars, loopVars, TaskRecords
<1>2. DnsTypeOK'
  BY <1>1, TaskTypes DEF DnsInv, DnsTypeOK, Tasks
<1>3. Following'
  <2>1. Covered'
    BY <1>1 DEF Covered
  <2> QED
    BY <1>1, <2>1 DEF DnsInv, Following, MappedBy
<1>4. Revisions'
  BY <1>1 DEF DnsInv, Revisions
<1>5. Rounds'
  BY <1>1, TaskTypes DEF DnsInv, Rounds
<1> QED
  BY <1>2, <1>3, <1>4, <1>5 DEF DnsInv

\* The cache is replaced.
LEMMA SwapStep ==
    ASSUME DnsInv, NEW t \in Tasks, SwapCache(t)
    PROVE  DnsInv'
<1>1. /\ TaskTo(t, AfterRefresh(t)) /\ task[t].pc = "swap"
      /\ cache' = task[t].read /\ shown' = task[t].at
      /\ overtaken' = (overtaken \/ task[t].at < shown)
      /\ revision' = IF cache = task[t].read THEN revision ELSE revision + 1
      /\ UNCHANGED << table, pending, resolving, probe, writes >>
  BY DEF SwapCache, Replace, loopVars
<1>2. /\ task' \in [Tasks -> TaskRecords]
      /\ task'[t].pc = AfterRefresh(t) /\ task'[t].at = task[t].at
      /\ \A u \in Tasks \ {t} : task'[u] = task[u]
  BY <1>1, TaskFrame DEF DnsInv, AfterRefresh
<1>3. DnsTypeOK'
  BY <1>1, <1>2, TaskTypes DEF DnsInv, DnsTypeOK, Tasks
<1>4. Following'
  <2>1. \A u \in Tasks : task'[u].pc = "swap" => task'[u] = task[u]
    BY <1>2 DEF AfterRefresh
  <2>2. shown' = writes' => cache' = MappedBy(table)
    BY <1>1 DEF DnsInv, Following
  <2>3. ~overtaken' => shown' = writes' \/ Covered'
    <3> SUFFICES ASSUME ~overtaken', shown' # writes' PROVE Covered'
      OBVIOUS
    <3>0. ~(task[t].at < shown) /\ ~overtaken
      BY <1>1
    <3>1. task[t].at < writes /\ ~(task[t].at < shown) /\ ~overtaken
      <4>1. task[t].at # writes
        BY <1>1
      <4> QED
        BY <3>0, <4>1, TaskTypes DEF DnsInv
    <3>2. Covered
      BY <3>1, TaskTypes DEF DnsInv, Following
    <3>3. PICK u \in Tasks : \/ task[u].pc = "refresh"
                             \/ task[u].pc = "swap" /\ task[u].at = writes
      BY <3>2 DEF Covered
    <3>4. u # t
      BY <1>1, <3>1, <3>3
    <3> QED
      BY <1>1, <1>2, <3>3, <3>4 DEF Covered
  <2> QED
    BY <1>1, <2>1, <2>2, <2>3 DEF DnsInv, Following, MappedBy
<1>5. Revisions'
  <2>1. probe.revision \in Nat
    BY DEF DnsInv, DnsTypeOK
  <2> QED
    BY <1>1, <2>1, TaskTypes DEF DnsInv, Revisions
<1>6. Rounds'
  BY <1>1, <1>2, TaskTypes DEF DnsInv, Rounds, AfterRefresh
<1> QED
  BY <1>3, <1>4, <1>5, <1>6 DEF DnsInv

\* The table cannot be read.
LEMMA FailStep ==
    ASSUME DnsInv, NEW t \in Tasks, RefreshFails(t)
    PROVE  DnsInv'
<1>1. /\ overtaken' = TRUE /\ task[t].pc = "refresh"
      /\ UNCHANGED << table, cache, revision, shown, probe, writes >>
  BY DEF RefreshFails
<1>2. /\ task' \in [Tasks -> TaskRecords]
      /\ \A u \in Tasks \ {t} : task'[u] = task[u]
      /\ task'[t].pc = IF t = Loop THEN "idle" ELSE "over"
      /\ task'[t].at \in 0..writes
  <2>1. CASE t = Loop
    BY <2>1, IdleFrame, TaskTypes DEF DnsInv, RefreshFails
  <2>2. CASE t # Loop
    BY <2>2, TaskFrame, TaskTypes DEF DnsInv, RefreshFails
  <2> QED
    BY <2>1, <2>2
<1>3. \/ pending' = {} /\ resolving' = {}
      \/ UNCHANGED << pending, resolving >>
  BY DEF RefreshFails, loopVars
<1>4. DnsTypeOK'
  <2>1. Cardinality(resolving') <= Parallel
    <3>1. CASE resolving' = {}
      BY <3>1, FS_EmptySet, DnsAssumption
    <3>2. CASE resolving' = resolving
      BY <3>2 DEF DnsInv, DnsTypeOK
    <3> QED
      BY <1>3, <3>1, <3>2
  <2>2. \A u \in Tasks : task'[u].at <= writes
    BY <1>2, TaskTypes DEF DnsInv
  <2>3. pending' \in SUBSET Seen /\ resolving' \in SUBSET Seen
    BY <1>3 DEF DnsInv, DnsTypeOK
  <2> QED
    BY <1>1, <1>2, <2>1, <2>2, <2>3 DEF DnsInv, DnsTypeOK, Tasks
<1>5. Following'
  BY <1>1, <1>2 DEF DnsInv, Following, MappedBy
<1>6. Revisions'
  BY <1>1 DEF DnsInv, Revisions
<1>7. Rounds'
  BY <1>1, <1>2, <1>3, FS_EmptySet, TaskTypes DEF DnsInv, Rounds
<1> QED
  BY <1>4, <1>5, <1>6, <1>7 DEF DnsInv

-----------------------------------------------------------------------------
(* The other steps. *)

\* A command, or the loop, has changed a row and goes on to refresh the cache.
LEMMA StoreStep ==
    ASSUME DnsInv, NEW t \in Tasks, NEW i \in Ids, NEW row \in Rows \union {Deleted},
           Change(i, row), TaskTo(t, "refresh"),
           pending' = pending, resolving' \subseteq resolving,
           UNCHANGED << cacheVars, probe >>
    PROVE  DnsInv'
<1>1. /\ table' \in [Ids -> Rows \union {NoRow, Deleted}]
      /\ writes' = writes + 1 /\ writes' \in 0..MaxWrites
      /\ \A u \in Tasks : task[u].at < writes'
      /\ shown < writes'
  BY ChangeFrame DEF DnsInv
<1>2. /\ task' \in [Tasks -> TaskRecords] /\ task'[t].pc = "refresh"
      /\ \A u \in Tasks : task'[u].at = task[u].at
      /\ \A u \in Tasks \ {t} : task'[u] = task[u]
  BY TaskFrame DEF DnsInv
<1>3. UNCHANGED << cache, revision, shown, overtaken, pending, probe >>
  BY DEF cacheVars
<1>4. IsFiniteSet(resolving') /\ Cardinality(resolving') <= Parallel
  <2>1. IsFiniteSet(resolving) /\ Cardinality(resolving) <= Parallel
    BY DEF DnsInv, DnsTypeOK, Rounds
  <2>2. /\ IsFiniteSet(resolving')
        /\ Cardinality(resolving') <= Cardinality(resolving)
        /\ Cardinality(resolving) \in Nat /\ Cardinality(resolving') \in Nat
    BY <2>1, FS_Subset, FS_CardinalityType
  <2> QED
    BY <2>1, <2>2, DnsAssumption
<1>5. DnsTypeOK'
  <2>1. \A u \in Tasks : task'[u].at <= writes'
    BY <1>1, <1>2, TaskTypes DEF DnsInv
  <2>2. shown' \in 0..writes'
    BY <1>1, <1>3, TaskTypes DEF DnsInv
  <2> QED
    BY <1>1, <1>2, <1>3, <1>4, <2>1, <2>2 DEF DnsInv, DnsTypeOK, Tasks
<1>6. Following'
  BY <1>1, <1>2, <1>3, ChangeStep
<1>7. Revisions'
  BY <1>3 DEF DnsInv, Revisions
<1>8. Rounds'
  BY <1>2, <1>3, <1>4, TaskTypes DEF DnsInv, Rounds
<1> QED
  BY <1>5, <1>6, <1>7, <1>8 DEF DnsInv

\* A step that leaves the table and the cache alone: a task that has nothing to do with
\* a refresh moves on, and the loop hands out and takes back mappings.
LEMMA OtherStep ==
    ASSUME DnsInv, NEW t \in Tasks, task[t].pc \notin {"refresh", "swap"},
           task' \in [Tasks -> TaskRecords], task'[t].at \in 0..writes,
           task'[t].pc # "swap", t = Loop => task'[t].pc # "resolving",
           t # Loop => task'[t].pc # "joining",
           \A u \in Tasks \ {t} : task'[u] = task[u],
           pending' \in SUBSET Seen, resolving' \in SUBSET Seen, IsFiniteSet(resolving'),
           Cardinality(resolving') <= Parallel,
           \A seen \in pending' \union resolving' : seen.row.enabled /\ seen.row.dynamic,
           UNCHANGED << table, cacheVars, probe, writes >>
    PROVE  DnsInv'
<1>1. UNCHANGED << table, cache, revision, shown, overtaken, probe, writes >>
  BY DEF cacheVars
<1>2. \A u \in Tasks : task'[u].at <= writes
  BY TaskTypes DEF DnsInv
<1>3. DnsTypeOK'
  BY <1>1, <1>2 DEF DnsInv, DnsTypeOK, Tasks
<1>4. Following'
  BY <1>1, QuietStep
<1>5. Revisions'
  BY <1>1 DEF DnsInv, Revisions
<1>6. Rounds'
  BY TaskTypes DEF DnsInv, Rounds
<1> QED
  BY <1>3, <1>4, <1>5, <1>6 DEF DnsInv

\* What the loop holds, when nothing of it changes.
LEMMA LoopHeld ==
    DnsInv => /\ pending \in SUBSET Seen /\ resolving \in SUBSET Seen
              /\ IsFiniteSet(resolving) /\ Cardinality(resolving) <= Parallel
              /\ \A seen \in pending \union resolving : seen.row.enabled /\ seen.row.dynamic
              /\ \A seen \in pending \union resolving : seen.id \in Ids /\ seen.row \in Rows
  BY DEF DnsInv, DnsTypeOK, Rounds, Seen

\* The commands.
LEMMA CommandStep ==
    ASSUME DnsInv, NEW t \in Callers,
           EditMapping(t) \/ BeginManual(t) \/ EndManual(t) \/ Serve(t) \/ Return(t)
    PROVE  DnsInv'
<1> t \in Tasks /\ t # Loop
  BY TaskTypes DEF DnsInv
<1>1. CASE EditMapping(t)
  <2>1. PICK i \in Ids, row \in Rows \union {Deleted} : Change(i, row)
    BY <1>1 DEF EditMapping
  <2> QED
    BY <1>1, <2>1, StoreStep DEF EditMapping, loopVars
<1>2. CASE BeginManual(t)
  <2>1. PICK i \in Ids :
          /\ table[i] \in Rows
          /\ task' = [task EXCEPT ![t].pc = "resolving",
                                  ![t].seen = {[id |-> i, row |-> table[i]]}]
    BY <1>2 DEF BeginManual
  <2>2. {[id |-> i, row |-> table[i]]} \in SUBSET Seen
    BY <2>1 DEF Seen
  <2>3. /\ task' \in [Tasks -> TaskRecords]
        /\ task'[t].pc = "resolving" /\ task'[t].at = task[t].at
        /\ \A u \in Tasks \ {t} : task'[u] = task[u]
    BY <2>1, <2>2, TaskTypes DEF DnsInv, TaskRecords
  <2>4. task[t].at \in 0..writes
    BY TaskTypes DEF DnsInv
  <2> QED
    BY <1>2, <2>3, <2>4, LoopHeld, OtherStep DEF BeginManual, loopVars
<1>3. CASE EndManual(t)
  <2>1. /\ task[t].pc = "resolving"
        /\ UNCHANGED << cacheVars, pending, resolving, probe >>
    BY <1>3 DEF EndManual, loopVars
  <2>2. CASE TaskTo(t, "over") /\ UNCHANGED << table, writes >>
    <3>1. /\ task' \in [Tasks -> TaskRecords]
          /\ task'[t].pc = "over" /\ task'[t].at \in 0..writes
          /\ \A u \in Tasks \ {t} : task'[u] = task[u]
      BY <2>2, TaskFrame, TaskTypes DEF DnsInv
    <3> QED
      BY <2>1, <2>2, <3>1, LoopHeld, OtherStep
  <2>3. CASE /\ TaskTo(t, "refresh")
             /\ \E seen \in task[t].seen : \E ip \in Answers[seen.row.domain] :
                  Unchanged(seen) /\ StoreAnswer(seen, ip)
    <3>1. PICK seen \in task[t].seen : \E ip \in Answers[seen.row.domain] :
            Unchanged(seen) /\ StoreAnswer(seen, ip)
      BY <2>3
    <3>2. seen \in Seen
      BY <3>1, TaskTypes DEF DnsInv
    <3>3. \E i \in Ids, row \in Rows : Change(i, row)
      BY <3>1, <3>2, AnswerFrame DEF DnsInv
    <3> QED
      BY <2>1, <2>3, <3>3, StoreStep
  <2> QED
    BY <1>3, <2>2, <2>3 DEF EndManual
<1>4. CASE Serve(t)
  <2>1. /\ TaskTo(t, "refresh") /\ task[t].pc = "idle"
        /\ UNCHANGED << table, cacheVars, pending, resolving, probe, writes >>
    BY <1>4 DEF Serve, loopVars
  <2>2. /\ task' \in [Tasks -> TaskRecords]
        /\ task'[t].pc = "refresh" /\ task'[t].at \in 0..writes
        /\ \A u \in Tasks \ {t} : task'[u] = task[u]
    BY <2>1, TaskFrame, TaskTypes DEF DnsInv
  <2> QED
    BY <2>1, <2>2, LoopHeld, OtherStep
<1>5. CASE Return(t)
  <2>1. /\ task' = [task EXCEPT ![t] = Idle] /\ task[t].pc = "over"
        /\ UNCHANGED << table, cacheVars, pending, resolving, probe, writes >>
    BY <1>5 DEF Return, loopVars
  <2>2. /\ task' \in [Tasks -> TaskRecords]
        /\ task'[t].pc = "idle" /\ task'[t].at \in 0..writes
        /\ \A u \in Tasks \ {t} : task'[u] = task[u]
    <3>1. t \in Tasks /\ 0 \in 0..writes
      BY TaskTypes DEF DnsInv
    <3> QED
      BY <2>1, <3>1, IdleFrame DEF DnsInv
  <2> QED
    BY <2>1, <2>2, LoopHeld, OtherStep
<1> QED
  BY <1>1, <1>2, <1>3, <1>4, <1>5

\* The loop.
LEMMA LoopStep ==
    ASSUME DnsInv, BeginRound \/ Launch \/ Join \/ EndRound
    PROVE  DnsInv'
<1>1. CASE BeginRound
  <2>1. /\ TaskTo(Loop, "joining") /\ task[Loop].pc = "idle"
        /\ UNCHANGED << table, cacheVars, resolving, probe, writes >>
    BY <1>1 DEF BeginRound
  <2>2. ASSUME NEW i \in Ids, table[i].enabled, table[i].dynamic
        PROVE  /\ [id |-> i, row |-> table[i]] \in Seen
               /\ [id |-> i, row |-> table[i]].row = table[i]
    <3>1. table[i] \in Rows \union {NoRow, Deleted}
      BY DEF DnsInv, DnsTypeOK
    <3>2. table[i] \in Rows
      BY <2>2, <3>1 DEF NoRow, Deleted
    <3> QED
      BY <3>2 DEF Seen
  <2>3. /\ pending' \in SUBSET Seen
        /\ \A seen \in pending' : seen.row.enabled /\ seen.row.dynamic
    BY <1>1, <2>2 DEF BeginRound
  <2>4. /\ task' \in [Tasks -> TaskRecords]
        /\ task'[Loop].pc = "joining" /\ task'[Loop].at \in 0..writes
        /\ \A u \in Tasks \ {Loop} : task'[u] = task[u]
    BY <2>1, TaskFrame, TaskTypes DEF DnsInv
  <2> QED
    BY <2>1, <2>3, <2>4, LoopHeld, OtherStep, TaskTypes DEF DnsInv
<1>2. CASE Launch
  <2>1. PICK seen \in pending :
          pending' = pending \ {seen} /\ resolving' = resolving \union {seen}
    BY <1>2 DEF Launch
  <2>2. /\ task[Loop].pc = "joining" /\ Cardinality(resolving) < Parallel
        /\ UNCHANGED << table, cacheVars, task, probe, writes >>
    BY <1>2 DEF Launch, MayLaunch
  <2>3. IsFiniteSet(resolving') /\ Cardinality(resolving') <= Parallel
    <3>1. IsFiniteSet(resolving) /\ Cardinality(resolving) \in Nat
      BY LoopHeld, FS_CardinalityType
    <3>2. /\ IsFiniteSet(resolving')
          /\ Cardinality(resolving') \in {Cardinality(resolving), Cardinality(resolving) + 1}
      BY <2>1, <3>1, FS_AddElement
    <3> QED
      BY <2>2, <3>1, <3>2, DnsAssumption
  <2>4. task' \in [Tasks -> TaskRecords] /\ task'[Loop].at \in 0..writes
    BY <2>2, TaskTypes DEF DnsInv
  <2> QED
    BY <2>1, <2>2, <2>3, <2>4, LoopHeld, OtherStep, TaskTypes DEF DnsInv
<1>3. CASE Join
  <2>1. PICK seen \in resolving :
          /\ resolving' = resolving \ {seen}
          /\ \/ \E ip \in Answers[seen.row.domain] :
                  /\ Unchanged(seen)
                  /\ IF ip = table[seen.id].ip
                     THEN UNCHANGED << table, writes >>
                     ELSE StoreAnswer(seen, ip)
                  /\ TaskTo(Loop, "refresh")
             \/ UNCHANGED << table, writes, task >>
    BY <1>3 DEF Join
  <2>2. /\ task[Loop].pc = "joining" /\ UNCHANGED << cacheVars, pending, probe >>
    BY <1>3 DEF Join
  <2>3. IsFiniteSet(resolving') /\ Cardinality(resolving') <= Parallel
    <3>1. /\ IsFiniteSet(resolving) /\ Cardinality(resolving) \in Nat
          /\ Cardinality(resolving) <= Parallel
      BY LoopHeld, FS_CardinalityType
    <3>2. /\ IsFiniteSet(resolving') /\ Cardinality(resolving') \in Nat
          /\ Cardinality(resolving') <= Cardinality(resolving)
      BY <2>1, <3>1, FS_Subset, FS_CardinalityType
    <3> QED
      BY <3>1, <3>2, DnsAssumption
  <2>4. seen \in Seen
    BY LoopHeld
  <2>5. CASE \E ip \in Answers[seen.row.domain] :
               Unchanged(seen) /\ StoreAnswer(seen, ip) /\ TaskTo(Loop, "refresh")
    <3>1. \E i \in Ids, row \in Rows : Change(i, row)
      BY <2>4, <2>5, AnswerFrame DEF DnsInv
    <3> QED
      BY <2>1, <2>2, <2>5, <3>1, StoreStep, TaskTypes DEF DnsInv
  <2>6. CASE TaskTo(Loop, "refresh") /\ UNCHANGED << table, writes >>
    <3>1. /\ task' \in [Tasks -> TaskRecords]
          /\ task'[Loop].pc = "refresh" /\ task'[Loop].at \in 0..writes
          /\ \A u \in Tasks \ {Loop} : task'[u] = task[u]
      BY <2>6, TaskFrame, TaskTypes DEF DnsInv
    <3> QED
      BY <2>1, <2>2, <2>3, <2>6, <3>1, LoopHeld, OtherStep, TaskTypes DEF DnsInv
  <2>7. CASE UNCHANGED << table, writes, task >>
    <3>1. task' \in [Tasks -> TaskRecords] /\ task'[Loop].at \in 0..writes
      BY <2>7, TaskTypes DEF DnsInv
    <3> QED
      BY <2>1, <2>2, <2>3, <2>7, <3>1, LoopHeld, OtherStep, TaskTypes DEF DnsInv
  <2> QED
    BY <2>1, <2>5, <2>6, <2>7
<1>4. CASE EndRound
  <2>1. /\ task' = [task EXCEPT ![Loop] = Idle] /\ task[Loop].pc = "joining"
        /\ UNCHANGED << table, cacheVars, pending, resolving, probe, writes >>
    BY <1>4 DEF EndRound, loopVars
  <2>2. /\ task' \in [Tasks -> TaskRecords]
        /\ task'[Loop].pc = "idle" /\ task'[Loop].at \in 0..writes
        /\ \A u \in Tasks \ {Loop} : task'[u] = task[u]
    <3>1. Loop \in Tasks /\ 0 \in 0..writes
      BY TaskTypes DEF DnsInv
    <3> QED
      BY <2>1, <3>1, IdleFrame DEF DnsInv
  <2> QED
    BY <2>1, <2>2, LoopHeld, OtherStep, TaskTypes DEF DnsInv
<1> QED
  BY <1>1, <1>2, <1>3, <1>4

\* The probes, and nothing at all.
LEMMA ProbeStep ==
    ASSUME DnsInv, TakeSnapshot \/ EndProbe \/ UNCHANGED dnsVars
    PROVE  DnsInv'
<1>1. UNCHANGED << table, cache, revision, shown, overtaken, pending, resolving, task,
                   writes >>
  BY DEF TakeSnapshot, EndProbe, dnsVars, cacheVars, loopVars
<1>2. /\ probe' \in [active : BOOLEAN, mappings : AddressMaps, revision : Nat]
      /\ Revisions'
  <2>1. NoneMapped \in AddressMaps
    BY DEF NoneMapped, AddressMaps
  <2>2. CASE TakeSnapshot
    BY <1>1, <2>2 DEF DnsInv, DnsTypeOK, Revisions, TakeSnapshot
  <2>3. CASE EndProbe
    BY <1>1, <2>1, <2>3 DEF DnsInv, DnsTypeOK, Revisions, EndProbe
  <2>4. CASE UNCHANGED dnsVars
    BY <1>1, <2>4 DEF DnsInv, DnsTypeOK, Revisions, dnsVars
  <2> QED
    BY <2>2, <2>3, <2>4
<1>3. DnsTypeOK'
  BY <1>1, <1>2 DEF DnsInv, DnsTypeOK
<1>4. Following' /\ Rounds'
  BY <1>1 DEF DnsInv, Following, Rounds, Covered, MappedBy
<1> QED
  BY <1>2, <1>3, <1>4 DEF DnsInv

-----------------------------------------------------------------------------
(* The theorems. *)

\* The invariant holds at the start.
LEMMA DnsInvInit == DnsInit => DnsInv
<1> SUFFICES ASSUME DnsInit PROVE DnsInv
  OBVIOUS
<1>1. table \in [Ids -> Rows \union {NoRow, Deleted}]
  BY DnsAssumption DEF DnsInit
<1>2. cache = MappedBy(table) /\ cache \in AddressMaps
  BY <1>1, MappedType DEF DnsInit
<1>3. NoneMapped \in AddressMaps
  BY DEF NoneMapped, AddressMaps
<1>4. /\ task \in [Tasks -> TaskRecords]
      /\ \A t \in Tasks : task[t].pc = "idle" /\ task[t].at = 0
  <2>1. Idle \in TaskRecords /\ Idle.pc = "idle" /\ Idle.at = 0
    BY <1>3 DEF Idle, TaskRecords
  <2> QED
    BY <2>1 DEF DnsInit, Tasks
<1>5. DnsTypeOK
  <2>1. /\ probe = [active |-> FALSE, mappings |-> NoneMapped, revision |-> 0]
        /\ probe \in [active : BOOLEAN, mappings : AddressMaps, revision : Nat]
    BY <1>3 DEF DnsInit
  <2>2. Cardinality(resolving) <= Parallel /\ resolving = {} /\ pending = {}
    BY FS_EmptySet, DnsAssumption DEF DnsInit
  <2>3. \A t \in Tasks : task[t].at <= writes
    BY <1>4 DEF DnsInit
  <2>4. writes \in 0..MaxWrites /\ shown \in 0..writes /\ revision \in Nat
    BY DnsAssumption DEF DnsInit
  <2>5. overtaken \in BOOLEAN
    BY DEF DnsInit
  <2> QED
    BY <1>1, <1>2, <1>4, <2>1, <2>2, <2>3, <2>4, <2>5 DEF DnsTypeOK, Tasks
<1>6. Following /\ Revisions
  BY <1>2, <1>4 DEF DnsInit, Following, Revisions
<1>7. Rounds
  BY <1>4, FS_EmptySet DEF DnsInit, Rounds, Tasks
<1> QED
  BY <1>5, <1>6, <1>7 DEF DnsInv

\* Every step keeps it.
LEMMA DnsInvStep == DnsInv /\ [DnsNext]_dnsVars => DnsInv'
  BY CommandStep, LoopStep, ProbeStep, ReadStep, SwapStep, FailStep
  DEF DnsNext, Refresh, Tasks

\* It always holds.
THEOREM DnsInvHolds == DnsSpec => []DnsInv
  BY DnsInvInit, DnsInvStep, PTL DEF DnsSpec

\* Every variable keeps its type, and no more than Parallel names are resolved at once.
THEOREM DnsTypeCorrect == DnsSpec => []DnsTypeOK
<1>1. DnsInv => DnsTypeOK
  BY DEF DnsInv
<1> QED
  BY <1>1, DnsInvHolds, PTL

\* At rest the dialler's cache is the table, unless a refresh failed or overtook a later
\* one between reading the table and replacing the cache (proxy.rs:459-477).
THEOREM CacheFollowsHolds == DnsSpec => []CacheFollowsTable
<1>1. DnsInv => CacheFollowsTable
  BY DEF DnsInv, Following, Covered, CacheFollowsTable, Tasks
<1> QED
  BY <1>1, DnsInvHolds, PTL

\* A probe whose revision is current has measured with the mappings of now.
THEOREM ProbeHolds == DnsSpec => []CurrentProbeUsedCurrentMappings
<1>1. DnsInv => CurrentProbeUsedCurrentMappings
  BY DEF DnsInv, Revisions, CurrentProbeUsedCurrentMappings
<1> QED
  BY <1>1, DnsInvHolds, PTL

\* A task other than the one that moves stays where it is.
LEMMA OthersStay ==
    ASSUME DnsInv, NEW t \in Callers,
           EditMapping(t) \/ BeginManual(t) \/ EndManual(t) \/ Serve(t) \/ Return(t)
    PROVE  task'[Loop] = task[Loop] /\ \A u \in Callers \ {t} : task'[u] = task[u]
  BY TaskTypes
  DEF DnsInv, EditMapping, BeginManual, EndManual, Serve, Return, TaskTo, Tasks

\* A row gets an address by the resolver only if the row, as it is then, asks for it.
LEMMA WantedStep ==
    ASSUME DnsInv, DnsNext, NEW i \in Ids, table'[i] # table[i],
           \/ task[Loop].pc = "joining" /\ task'[Loop].pc = "refresh"
           \/ \E t \in Callers : task[t].pc = "resolving" /\ task'[t].pc = "refresh"
    PROVE  /\ table[i] \in Rows
           /\ table'[i].ip \in Answers[table[i].domain]
           /\ task[Loop].pc = "joining" /\ task'[Loop].pc = "refresh" =>
                table[i].enabled /\ table[i].dynamic
<1>1. ASSUME NEW seen \in Seen, NEW ip \in Answers[seen.row.domain],
             Unchanged(seen), StoreAnswer(seen, ip)
      PROVE  /\ table[i] \in Rows /\ table[i] = seen.row
             /\ table'[i].ip \in Answers[table[i].domain]
  <2>1. /\ table[seen.id] \in Rows /\ table[seen.id] = seen.row
        /\ [table[seen.id] EXCEPT !.ip = ip].ip = ip
        /\ table' = [table EXCEPT ![seen.id] = [table[seen.id] EXCEPT !.ip = ip]]
    BY <1>1, AnswerFrame DEF DnsInv, Change
  <2>2. i = seen.id
    BY <2>1 DEF DnsInv, DnsTypeOK
  <2> QED
    BY <2>1, <2>2 DEF DnsInv, DnsTypeOK
<1>2. CASE Join
  <2>1. PICK seen \in resolving : \E ip \in Answers[seen.row.domain] :
          Unchanged(seen) /\ StoreAnswer(seen, ip)
    BY <1>2 DEF Join
  <2>2. seen \in Seen /\ seen.row.enabled /\ seen.row.dynamic
    BY <2>1, LoopHeld
  <2> QED
    BY <1>1, <2>1, <2>2
<1>3. ASSUME NEW t \in Callers, EndManual(t)
      PROVE  /\ table[i] \in Rows
             /\ table'[i].ip \in Answers[table[i].domain]
             /\ task'[Loop] = task[Loop]
  <2>1. PICK seen \in task[t].seen : \E ip \in Answers[seen.row.domain] :
          Unchanged(seen) /\ StoreAnswer(seen, ip)
    BY <1>3 DEF EndManual
  <2>2. seen \in Seen
    BY <2>1, TaskTypes DEF DnsInv
  <2> QED
    BY <1>1, <1>3, <2>1, <2>2, OthersStay
<1>4. ASSUME NEW t \in Callers, EditMapping(t) PROVE FALSE
  <2>1. task[t].pc = "idle"
    BY <1>4 DEF EditMapping
  <2> QED
    BY <1>4, <2>1, OthersStay
<1>5. CASE \/ \E t \in Callers : BeginManual(t) \/ Serve(t) \/ Return(t)
           \/ \E t \in Callers \union {Loop} : Refresh(t) \/ RefreshFails(t)
           \/ BeginRound \/ Launch \/ EndRound \/ TakeSnapshot \/ EndProbe
  BY <1>5 DEF BeginManual, Serve, Return, Refresh, ReadTable, SwapCache, RefreshFails,
              BeginRound, Launch, EndRound, TakeSnapshot, EndProbe
<1> QED
  BY <1>2, <1>3, <1>4, <1>5 DEF DnsNext

\* An answer of the resolver is stored only where it is still wanted, by a command as by
\* the loop (update_dns_ip_if_unchanged).
THEOREM WantedHolds == DnsSpec => ResolvedIsWanted
<1>1. ASSUME DnsInv, [DnsNext]_dnsVars
      PROVE  [\A i \in Ids :
                LET byLoop   == task[Loop].pc = "joining" /\ task'[Loop].pc = "refresh"
                    byManual == \E t \in Callers : task[t].pc = "resolving"
                                                    /\ task'[t].pc = "refresh"
                IN  table'[i] # table[i] /\ (byLoop \/ byManual) =>
                      /\ table[i] \in Rows
                      /\ table'[i].ip \in Answers[table[i].domain]
                      /\ byLoop => table[i].enabled /\ table[i].dynamic]_dnsVars
  BY <1>1, WantedStep
<1> QED
  BY <1>1, DnsInvHolds, PTL DEF DnsSpec, ResolvedIsWanted

\* All three together, as the run of MCRuntime checks them: what is dialled, and what
\* a probe that counts was measured with, is what the table says now.
THEOREM MappingsHold == DnsSpec => []MappingsInv
<1>1. DnsTypeOK /\ CacheFollowsTable /\ CurrentProbeUsedCurrentMappings => MappingsInv
  BY DEF MappingsInv
<1> QED
  BY <1>1, DnsTypeCorrect, CacheFollowsHolds, ProbeHolds, PTL

-----------------------------------------------------------------------------
(*                          The routing snapshot                           *)

-----------------------------------------------------------------------------
(* The index. *)

LEMMA Upto == ASSUME NEW n \in Nat PROVE IsFiniteSet(1..n) /\ Cardinality(1..n) = n
BY FS_Interval

LEMMA Least ==
  ASSUME NEW S, IsFiniteSet(S), S # {}, NEW f, \A x \in S : f[x] \in Int
  PROVE  \E x \in S : \A y \in S : f[x] <= f[y]
<1> DEFINE lower(x) == {y \in S : f[y] < f[x]}
           T == {lower(x) : x \in S}
<1>1. T # {} /\ T \subseteq FiniteSubsetsOf(S)
  <2>1. \A x \in S : lower(x) \in SUBSET S
    OBVIOUS
  <2>2. \A x \in S : IsFiniteSet(lower(x))
    BY <2>1, FS_Subset
  <2> QED BY <2>1, <2>2 DEF FiniteSubsetsOf
<1>2. PICK X \in T : \A Y \in T : << Y, X >> \notin StrictSubsetOrdering(S)
  BY <1>1, WFMin, FS_StrictSubsetOrderingWellFounded
<1>3. PICK x \in S : X = lower(x)
  BY <1>2
<1>4. ASSUME NEW y \in lower(x) PROVE FALSE
  <2>1. y \in S /\ f[y] < f[x]
    BY <1>4
  <2>2. lower(y) \subseteq lower(x)
    BY <2>1
  <2>3. y \notin lower(y)
    BY <2>1
  <2>4. lower(y) \in T /\ lower(y) # lower(x)
    BY <2>1, <2>3, <1>4
  <2>5. lower(y) \in SUBSET S /\ lower(x) \in SUBSET S
    OBVIOUS
  <2> QED BY <1>2, <1>3, <2>2, <2>4, <2>5 DEF StrictSubsetOrdering
<1>5. \A y \in S : f[x] <= f[y]
  BY <1>4
<1> QED BY <1>5

AreRuled(pools) ==
  Len(pools) \in Nat /\ \A p \in 1..Len(pools) : AreRules(pools[p].rules)

\* Of two places in the lists of rules, which one the search prefers.
Better(pools, a, b) ==
  LET length(q) == Specificity(RuleAt(pools, q))
  IN  \/ length(a) > length(b)
      \/ length(a) = length(b) /\ (a[1] < b[1] \/ (a[1] = b[1] /\ a[2] < b[2]))

LEMMA SpecificityNat ==
  ASSUME NEW rules, AreRules(rules), NEW i \in 1..Len(rules)
  PROVE  Specificity(rules[i]) \in Nat
<1>1. CASE rules[i] = AnyHost
  BY <1>1 DEF Specificity, AnyHost
<1>2. CASE IsHost(rules[i].labels) /\ rules[i] = Exact(rules[i].labels)
  <2> DEFINE h == rules[i].labels
  <2>1. Len(h) \in Nat \ {0} /\ rules[i] = Exact(h)
    BY <1>2 DEF IsHost
  <2> HIDE DEF h
  <2>2. Specificity(Exact(h)) = 2 * Len(h) - 1
    BY DEF Specificity, Exact
  <2> QED BY <2>1, <2>2
<1>3. CASE IsHost(rules[i].labels) /\ rules[i] = Under(rules[i].labels)
  <2> DEFINE h == rules[i].labels
  <2>1. Len(h) \in Nat \ {0} /\ rules[i] = Under(h)
    BY <1>3 DEF IsHost
  <2> HIDE DEF h
  <2>2. Specificity(Under(h)) = 2 * Len(h)
    BY DEF Specificity, Under
  <2> QED BY <2>1, <2>2
<1> QED BY <1>1, <1>2, <1>3 DEF AreRules

LEMMA PlaceIs ==
  ASSUME NEW pools, AreRuled(pools), NEW q \in Places(pools)
  PROVE  /\ q = << q[1], q[2] >>
         /\ q[1] \in 1..Len(pools) /\ q[2] \in 1..Len(pools[q[1]].rules)
         /\ Specificity(RuleAt(pools, q)) \in Nat
<1>1. PICK p \in 1..Len(pools) : q \in {p} \X (1..Len(pools[p].rules))
  BY DEF Places
<1>2. q = << q[1], q[2] >> /\ q[1] = p /\ q[2] \in 1..Len(pools[p].rules)
  BY <1>1
<1>3. AreRules(pools[p].rules)
  BY DEF AreRuled
<1> QED BY <1>2, <1>3, SpecificityNat DEF RuleAt

LEMMA PlaceOf ==
  ASSUME NEW pools, NEW p \in 1..Len(pools), NEW i \in 1..Len(pools[p].rules)
  PROVE  << p, i >> \in Places(pools)
BY DEF Places

LEMMA PlacesFinite ==
  ASSUME NEW pools, AreRuled(pools)
  PROVE  IsFiniteSet(Places(pools))
<1> DEFINE row(p) == {p} \X (1..Len(pools[p].rules))
           rows == {row(p) : p \in 1..Len(pools)}
           f == [p \in 1..Len(pools) |-> row(p)]
<1>1. \A p \in 1..Len(pools) : IsFiniteSet(row(p))
  <2> TAKE p \in 1..Len(pools)
  <2>1. Len(pools[p].rules) \in Nat
    BY DEF AreRuled, AreRules
  <2>2. IsFiniteSet(1..Len(pools[p].rules))
    BY <2>1, Upto
  <2>3. IsFiniteSet({p})
    BY FS_Singleton
  <2> QED BY <2>2, <2>3, FS_Product
<1>2. IsFiniteSet(1..Len(pools))
  BY Upto DEF AreRuled
<1>3. f \in Surjection(1..Len(pools), rows)
  BY DEF Surjection
<1>4. IsFiniteSet(rows)
  BY <1>2, <1>3, FS_Surjection
<1>5. \A T \in rows : IsFiniteSet(T)
  BY <1>1
<1>6. Places(pools) = UNION rows
  BY DEF Places
<1> HIDE DEF rows
<1> QED BY <1>4, <1>5, <1>6, FS_UNION

\* Rules are numbered pool by pool, and in a pool in their order.
LEMMA OrderGrows ==
  ASSUME NEW pools, AreRuled(pools), NEW a \in Places(pools), NEW b \in Places(pools)
  PROVE  /\ Rank(pools, a).order \in Nat
         /\ a[1] < b[1] \/ (a[1] = b[1] /\ a[2] < b[2])
              => Rank(pools, a).order < Rank(pools, b).order
<1> DEFINE ahead(q) == {s \in Places(pools) : s[1] < q[1]}
           row == {a[1]} \X (1..Len(pools[a[1]].rules))
<1>1. \A q \in Places(pools) : IsFiniteSet(ahead(q)) /\ Cardinality(ahead(q)) \in Nat
  BY PlacesFinite, FS_Subset, FS_CardinalityType
<1>2. /\ a[1] \in Nat /\ a[2] \in Nat \ {0} /\ b[1] \in Nat /\ b[2] \in Nat \ {0}
      /\ Len(pools[a[1]].rules) \in Nat /\ a[2] <= Len(pools[a[1]].rules)
  BY PlaceIs DEF AreRuled, AreRules
<1>3. /\ Rank(pools, a).order = a[2] + Cardinality(ahead(a))
      /\ Rank(pools, b).order = b[2] + Cardinality(ahead(b))
  BY DEF Rank
<1>7. Cardinality(ahead(a)) \in Nat /\ Cardinality(ahead(b)) \in Nat
  BY <1>1
<1>4. CASE a[1] < b[1]
  <2>1. IsFiniteSet(row) /\ Cardinality(row) = Len(pools[a[1]].rules)
    <3>1. IsFiniteSet({a[1]}) /\ Cardinality({a[1]}) = 1
      BY FS_Singleton
    <3>2. /\ IsFiniteSet(1..Len(pools[a[1]].rules))
          /\ Cardinality(1..Len(pools[a[1]].rules)) = Len(pools[a[1]].rules)
      BY <1>2, Upto
    <3> HIDE DEF ahead
    <3>3. IsFiniteSet(row) /\ Cardinality(row) = 1 * Len(pools[a[1]].rules)
      BY <3>1, <3>2, FS_Product
    <3> QED BY <3>3, <1>2
  <2>2. ahead(a) \cap row = {}
    <3> SUFFICES ASSUME NEW s \in ahead(a), s \in row PROVE FALSE
      OBVIOUS
    <3>1. s[1] < a[1] /\ s[1] = a[1]
      OBVIOUS
    <3> QED BY <3>1, <1>2
  <2>3. ahead(a) \union row \subseteq ahead(b)
    <3>1. ASSUME NEW s \in ahead(a) PROVE s \in ahead(b)
      <4>1. s \in Places(pools) /\ s[1] < a[1] /\ s[1] \in Nat
        BY PlaceIs
      <4> QED BY <4>1, <1>2, <1>4
    <3>2. ASSUME NEW s \in row PROVE s \in ahead(b)
      <4>1. s = << s[1], s[2] >> /\ s[1] = a[1] /\ s[2] \in 1..Len(pools[a[1]].rules)
        OBVIOUS
      <4>2. s \in Places(pools)
        BY <4>1, PlaceIs, PlaceOf
      <4> QED BY <4>1, <4>2, <1>4
    <3> QED BY <3>1, <3>2
  <2>4. /\ IsFiniteSet(ahead(a)) /\ IsFiniteSet(ahead(b))
        /\ Cardinality(ahead(a)) \in Nat /\ Cardinality(ahead(b)) \in Nat
    BY <1>1
  <2> HIDE DEF ahead, row
  <2>5. /\ IsFiniteSet(ahead(a) \union row)
        /\ Cardinality(ahead(a) \union row)
             = Cardinality(ahead(a)) + Cardinality(row) - Cardinality({})
    BY <2>1, <2>2, <2>4, FS_Union
  <2>6. Cardinality(ahead(a)) + Cardinality(row) <= Cardinality(ahead(b))
    <3>1. Cardinality({}) = 0
      BY FS_EmptySet
    <3>2. Cardinality(ahead(a) \union row) <= Cardinality(ahead(b))
      BY <2>3, <2>4, FS_Subset
    <3> QED BY <3>1, <3>2, <2>5, <2>1, <2>4, <1>2
  <2> DEFINE m == Cardinality(ahead(a))  n == Cardinality(ahead(b))
             l == Len(pools[a[1]].rules)
  <2>7. /\ m \in Nat /\ n \in Nat /\ l \in Nat /\ m + l <= n
        /\ a[2] \in Nat /\ a[2] <= l /\ b[2] \in Nat \ {0}
        /\ Rank(pools, a).order = a[2] + m /\ Rank(pools, b).order = b[2] + n
    BY <2>6, <2>1, <2>4, <1>2, <1>3
  <2> HIDE DEF m, n, l
  <2>8. Rank(pools, a).order \in Nat /\ Rank(pools, a).order < Rank(pools, b).order
    BY <2>7
  <2> QED BY <2>8
<1>5. CASE a[1] = b[1]
  <2>1. ahead(a) = ahead(b)
    BY <1>5
  <2> HIDE DEF ahead
  <2> QED BY <2>1, <1>7, <1>2, <1>3, <1>5
<1>6. CASE ~(a[1] < b[1]) /\ a[1] # b[1]
  <2> HIDE DEF ahead
  <2> QED BY <1>7, <1>2, <1>3, <1>6
<1> QED BY <1>4, <1>5, <1>6

LEMMA BetterOrder ==
  ASSUME NEW pools, AreRuled(pools),
         NEW a \in Places(pools), NEW b \in Places(pools), NEW c \in Places(pools)
  PROVE  /\ ~Better(pools, a, a)
         /\ a # b => Better(pools, a, b) \/ Better(pools, b, a)
         /\ Better(pools, a, b) /\ Better(pools, b, c) => Better(pools, a, c)
<1>1. \A q \in Places(pools) : /\ q = << q[1], q[2] >> /\ q[1] \in Nat /\ q[2] \in Nat
                               /\ Specificity(RuleAt(pools, q)) \in Nat
  BY PlaceIs
<1>2. a # b => a[1] # b[1] \/ a[2] # b[2]
  BY <1>1
<1>3. /\ a[1] \in Nat /\ a[2] \in Nat /\ b[1] \in Nat /\ b[2] \in Nat
      /\ c[1] \in Nat /\ c[2] \in Nat
      /\ Specificity(RuleAt(pools, a)) \in Nat /\ Specificity(RuleAt(pools, b)) \in Nat
      /\ Specificity(RuleAt(pools, c)) \in Nat
  BY <1>1
<1> QED BY <1>2, <1>3 DEF Better

\* Among several places one is best.
LEMMA BestPlace ==
  ASSUME NEW pools, AreRuled(pools), NEW H \in SUBSET Places(pools), H # {}
  PROVE  \E q \in H : \A s \in H \ {q} : Better(pools, q, s)
<1> DEFINE P == Places(pools)
           over(q) == {s \in H : Better(pools, s, q)}
           T == {over(q) : q \in H}
<1>1. T # {} /\ T \subseteq FiniteSubsetsOf(P)
  <2>1. \A q \in H : over(q) \in SUBSET P
    OBVIOUS
  <2>2. \A q \in H : IsFiniteSet(over(q))
    BY <2>1, PlacesFinite, FS_Subset
  <2> QED BY <2>1, <2>2 DEF FiniteSubsetsOf
<1>2. PICK X \in T : \A Y \in T : << Y, X >> \notin StrictSubsetOrdering(P)
  BY <1>1, WFMin, FS_StrictSubsetOrderingWellFounded
<1>3. PICK q \in H : X = over(q)
  BY <1>2
<1>4. ASSUME NEW s \in over(q) PROVE FALSE
  <2>1. s \in H /\ s \in P /\ q \in P /\ Better(pools, s, q)
    BY <1>4
  <2>2. over(s) \subseteq over(q)
    <3> SUFFICES ASSUME NEW d \in over(s) PROVE d \in over(q)
      OBVIOUS
    <3> QED BY <2>1, BetterOrder
  <2>3. s \notin over(s)
    BY <2>1, BetterOrder
  <2>4. over(s) \in T /\ over(s) # over(q)
    BY <2>1, <2>3, <1>4
  <2>5. over(s) \in SUBSET P /\ over(q) \in SUBSET P
    OBVIOUS
  <2> QED BY <1>2, <1>3, <2>2, <2>4, <2>5 DEF StrictSubsetOrdering
<1>5. \A s \in H \ {q} : Better(pools, q, s)
  <2> SUFFICES ASSUME NEW s \in H \ {q} PROVE Better(pools, q, s)
    OBVIOUS
  <2>1. ~Better(pools, s, q)
    BY <1>4
  <2>2. s \in P /\ q \in P /\ s # q
    OBVIOUS
  <2> QED BY <2>1, <2>2, BetterOrder
<1> QED BY <1>5

\* It is the one the index remembers.
LEMMA BestRank ==
  ASSUME NEW pools, AreRuled(pools), NEW H \in SUBSET Places(pools), NEW q \in H,
         \A s \in H \ {q} : Better(pools, q, s),
         NEW R, Rank(pools, q) \in R, \A r \in R : \E s \in H : r = Rank(pools, s)
  PROVE  Best(R) = Rank(pools, q)
<1> DEFINE length(s) == Specificity(RuleAt(pools, s))
           order(s) == Rank(pools, s).order
<1>1. ASSUME NEW s \in H
      PROVE  /\ Rank(pools, s) = [pool |-> s[1], specificity |-> length(s), order |-> order(s)]
             /\ length(s) \in Nat /\ order(s) \in Nat
  BY PlaceIs, OrderGrows DEF Rank
<1>2. ASSUME NEW s \in H, s # q
      PROVE  length(q) > length(s) \/ (length(q) = length(s) /\ order(q) < order(s))
  BY <1>2, OrderGrows DEF Better
<1> HIDE DEF length, order
<1>3. ASSUME NEW s \in H
      PROVE  /\ Preferred(Rank(pools, q), Rank(pools, s)) = Rank(pools, q)
             /\ s # q => Preferred(Rank(pools, s), Rank(pools, q)) # Rank(pools, s)
  <2>1. CASE s = q
    BY <2>1, <1>1 DEF Preferred
  <2>2. CASE s # q
    <3> DEFINE a == Rank(pools, q)  b == Rank(pools, s)
    <3>1. /\ a.specificity = length(q) /\ a.order = order(q)
          /\ b.specificity = length(s) /\ b.order = order(s)
      BY <1>1
    <3>2. /\ length(q) \in Nat /\ length(s) \in Nat /\ order(q) \in Nat /\ order(s) \in Nat
      BY <1>1
    <3>3. length(q) > length(s) \/ (length(q) = length(s) /\ order(q) < order(s))
      BY <1>2, <2>2
    <3> HIDE DEF a, b
    <3>4. a # b
      BY <3>1, <3>2, <3>3
    <3>5. Preferred(a, b) = a /\ Preferred(b, a) # b
      BY <3>1, <3>2, <3>3, <3>4 DEF Preferred
    <3> QED BY <3>5 DEF a, b
  <2> QED BY <2>1, <2>2
<1>4. \A r \in R : Preferred(Rank(pools, q), r) = Rank(pools, q)
  BY <1>3
<1>5. ASSUME NEW r \in R, \A t \in R : Preferred(r, t) = r PROVE r = Rank(pools, q)
  <2>1. PICK s \in H : r = Rank(pools, s)
    OBVIOUS
  <2> QED BY <2>1, <1>3, <1>5
<1> QED BY <1>4, <1>5 DEF Best

LEMMA SuffixLength ==
  ASSUME NEW h, NEW i \in 1..Len(h), IsHost(h)
  PROVE  Len(SubSeq(h, i, Len(h))) = Len(h) - i + 1
<1> DEFINE n == Len(h)
<1>1. n \in Nat /\ i \in 1..n
  BY DEF IsHost
<1> HIDE DEF n
<1>2. SubSeq(h, i, n) = [k \in 1..(n - i + 1) |-> h[k + i - 1]]
  <2>1. n - i + 1 = 1 + n - i
    BY <1>1
  <2> QED BY <1>1, <2>1 DEF SubSeq
<1>3. n - i + 1 \in Nat
  BY <1>1
<1>4. DOMAIN SubSeq(h, i, n) = 1..(n - i + 1)
  BY <1>2
<1> QED BY <1>3, <1>4 DEF Len, n

\* What is looked up is what matches.
LEMMA LookupsMatch ==
  ASSUME NEW host, IsHost(host), NEW rules, AreRules(rules), NEW i \in 1..Len(rules)
  PROVE  rules[i] \in Lookups(host) <=> Matches(host, rules[i])
<1> DEFINE n == Len(host)  l == rules[i].labels
<1>1. n \in Nat \ {0}
  BY DEF IsHost
<1>2. \A k \in 1..n : Len(SubSeq(host, k, n)) = n - k + 1
  BY SuffixLength
<1>3. CASE rules[i] = AnyHost
  BY <1>3 DEF Lookups, Matches, AnyHost
<1>4. CASE IsHost(l) /\ rules[i] = Exact(l)
  <2>1. rules[i] \in Lookups(host) <=> l = host
    BY <1>4 DEF Lookups, AnyHost, Exact, Under
  <2>2. Matches(host, Exact(l)) <=> l = host
    BY DEF Matches, Exact
  <2> QED BY <2>1, <2>2, <1>4
<1>5. CASE IsHost(l) /\ rules[i] = Under(l)
  <2>1. rules[i] \in Lookups(host) <=> \E k \in 1..n : l = SubSeq(host, k, n)
    BY <1>5 DEF Lookups, AnyHost, Exact, Under
  <2>2. Matches(host, Under(l)) <=> Len(l) <= n /\ l = SubSeq(host, n - Len(l) + 1, n)
    BY DEF Matches, Under
  <2>3. Len(l) \in Nat \ {0}
    BY <1>5 DEF IsHost
  <2>4. rules[i] = Under(l)
    BY <1>5
  <2> HIDE DEF l, n
  <2>5. ASSUME NEW k \in 1..n, l = SubSeq(host, k, n)
        PROVE  Len(l) <= n /\ l = SubSeq(host, n - Len(l) + 1, n)
    <3>1. Len(l) = n - k + 1
      BY <1>2, <2>5
    <3>2. n - Len(l) + 1 = k /\ Len(l) <= n
      BY <3>1, <1>1
    <3> QED BY <3>2, <2>5
  <2>6. Len(l) <= n => n - Len(l) + 1 \in 1..n
    BY <2>3, <1>1
  <2> QED BY <2>1, <2>2, <2>4, <2>5, <2>6
<1> QED BY <1>3, <1>4, <1>5 DEF AreRules

LEMMA DefaultIs ==
  ASSUME NEW pools, Len(pools) \in Nat
  PROVE  DefaultPool(pools) \in {NoPool} \union 1..Len(pools)
<1> DEFINE D == {p \in 1..Len(pools) : pools[p].default}
           f == [p \in D |-> 0 - p]
<1>1. DefaultPool(pools) = IF D = {} THEN NoPool ELSE CHOOSE p \in D : \A q \in D : q <= p
  BY DEF DefaultPool
<1>2. IsFiniteSet(D) /\ D \subseteq 1..Len(pools) /\ D \subseteq Nat
  BY Upto, FS_Subset
<1>3. \A p \in D : f[p] = 0 - p /\ f[p] \in Int
  BY <1>2
<1>4. D # {} => \E p \in D : \A q \in D : q <= p
  <2> HIDE DEF D, f
  <2>1. D # {} => \E p \in D : \A q \in D : f[p] <= f[q]
    BY <1>2, <1>3, Least
  <2> QED BY <2>1, <1>2, <1>3
<1> HIDE DEF D
<1> QED BY <1>1, <1>2, <1>4

\* Looking a host up is searching all rules for it.
THEOREM IndexIsSearch ==
  ASSUME NEW list, NEW pools, AreRuled(pools), NEW host, IsHost(host)
  PROVE  /\ PoolIndex(Build(list, pools), host) = LinearPool(pools, host)
         /\ LinearPool(pools, host) \in {NoPool} \union 1..Len(pools)
<1> DEFINE P == Places(pools)
           index == Build(list, pools)
           H == {q \in P : Matches(host, RuleAt(pools, q))}
           ranks(rule) == {Rank(pools, q) : q \in {q \in P : RuleAt(pools, q) = rule}}
           hits == {index.best[rule] : rule \in Lookups(host) \intersect DOMAIN index.best}
<1>1. /\ index.default = DefaultPool(pools)
      /\ DOMAIN index.best = {RuleAt(pools, q) : q \in P}
      /\ \A rule \in DOMAIN index.best : index.best[rule] = Best(ranks(rule))
  BY DEF Build
<1>2. \A q \in P : RuleAt(pools, q) \in Lookups(host) <=> q \in H
  <2> SUFFICES ASSUME NEW q \in P
               PROVE  RuleAt(pools, q) \in Lookups(host) <=> Matches(host, RuleAt(pools, q))
    OBVIOUS
  <2>1. AreRules(pools[q[1]].rules) /\ q[2] \in 1..Len(pools[q[1]].rules)
    BY PlaceIs DEF AreRuled
  <2> QED BY <2>1, LookupsMatch DEF RuleAt
<1>3. PoolIndex(index, host) = IF hits = {} THEN index.default ELSE Best(hits).pool
  BY DEF PoolIndex
<1>4. CASE H = {}
  <2>1. Lookups(host) \intersect DOMAIN index.best = {}
    BY <1>1, <1>2, <1>4
  <2>2. hits = {}
    BY <2>1
  <2>3. LinearPool(pools, host) = DefaultPool(pools)
    BY <1>4 DEF LinearPool
  <2> QED BY <2>2, <2>3, <1>1, <1>3, DefaultIs DEF AreRuled
<1>5. CASE H # {}
  <2>1. PICK q \in H : \A s \in H \ {q} : Better(pools, q, s)
    BY <1>5, BestPlace
  \* Every hit is the rank of some place that matches, and the best one's is among them.
  <2>2. ASSUME NEW rule \in Lookups(host) \intersect DOMAIN index.best
        PROVE  \E s \in H : /\ index.best[rule] = Rank(pools, s)
                            /\ RuleAt(pools, q) = rule => s = q
    <3> DEFINE K == {s \in P : RuleAt(pools, s) = rule}
    <3>1. K # {} /\ K \subseteq H
      BY <1>1, <1>2
    <3>2. PICK s \in K : \A t \in K \ {s} : Better(pools, s, t)
      BY <3>1, BestPlace
    <3>3. /\ Rank(pools, s) \in ranks(rule)
          /\ \A r \in ranks(rule) : \E t \in K : r = Rank(pools, t)
      OBVIOUS
    <3>4. K \in SUBSET Places(pools)
      OBVIOUS
    <3> HIDE DEF K
    <3>5. Best(ranks(rule)) = Rank(pools, s)
      <4> HIDE DEF ranks
      <4> QED BY <3>2, <3>3, <3>4, BestRank
    <3>6. index.best[rule] = Rank(pools, s)
      BY <3>5, <1>1
    <3>7. RuleAt(pools, q) = rule => s = q
      <4> SUFFICES ASSUME RuleAt(pools, q) = rule, s # q PROVE FALSE
        OBVIOUS
      <4>1. q \in K
        BY DEF K
      <4>2. Better(pools, s, q) /\ Better(pools, q, s)
        BY <4>1, <3>1, <3>2, <2>1
      <4>3. s \in Places(pools) /\ q \in Places(pools)
        BY <3>4
      <4> QED BY <4>2, <4>3, BetterOrder
    <3> QED BY <3>1, <3>6, <3>7
  <2>3. Rank(pools, q) \in hits /\ \A r \in hits : \E s \in H : r = Rank(pools, s)
    <3>1. RuleAt(pools, q) \in Lookups(host) \intersect DOMAIN index.best
      BY <1>1, <1>2
    <3>2. index.best[RuleAt(pools, q)] = Rank(pools, q)
      BY <3>1, <2>2
    <3>3. index.best[RuleAt(pools, q)] \in hits
      BY <3>1
    <3> QED BY <3>2, <3>3, <2>2
  <2>4. Best(hits) = Rank(pools, q)
    <3>1. H \in SUBSET Places(pools)
      OBVIOUS
    <3> HIDE DEF hits, H
    <3> QED BY <2>1, <2>3, <3>1, BestRank
  <2>5. hits # {} /\ PoolIndex(index, host) = q[1]
    BY <2>3, <2>4, <1>3 DEF Rank
  <2>6. LinearPool(pools, host) = q[1]
    <3> DEFINE length(s) == Specificity(RuleAt(pools, s))
               longest == {s \in H : \A t \in H : length(t) <= length(s)}
    <3>1. \A s \in H : /\ s = << s[1], s[2] >> /\ s[1] \in Nat /\ s[2] \in Nat
                       /\ length(s) \in Nat
      BY PlaceIs
    <3>2. \A s \in H \ {q} : \/ length(q) > length(s)
                             \/ /\ length(q) = length(s)
                                /\ q[1] < s[1] \/ (q[1] = s[1] /\ q[2] < s[2])
      BY <2>1 DEF Better
    <3>3. LinearPool(pools, host) =
            (CHOOSE s \in longest : \A t \in longest : s[1] < t[1] \/ (s[1] = t[1] /\ s[2] <= t[2]))[1]
      BY <1>5 DEF LinearPool
    <3> HIDE DEF length, H
    <3>4. q \in longest
      BY <3>1, <3>2
    <3>5. \A t \in longest : q[1] < t[1] \/ (q[1] = t[1] /\ q[2] <= t[2])
      BY <3>1, <3>2
    <3>6. ASSUME NEW s \in longest,
                 \A t \in longest : s[1] < t[1] \/ (s[1] = t[1] /\ s[2] <= t[2])
          PROVE  s = q
      BY <3>1, <3>4, <3>5, <3>6
    <3> QED BY <3>3, <3>4, <3>5, <3>6
  <2> QED BY <2>5, <2>6, PlaceIs
<1> QED BY <1>4, <1>5

-----------------------------------------------------------------------------
(* Tables in order. *)

IsOrder(R, S) ==
  /\ \A x \in S : << x, x >> \notin R
  /\ \A x, y \in S : x # y => << x, y >> \in R \/ << y, x >> \in R
  /\ \A x, y, z \in S : << x, y >> \in R /\ << y, z >> \in R => << x, z >> \in R

Enumerates(s, S) ==
  /\ s = [i \in 1..Cardinality(S) |-> s[i]]
  /\ DOMAIN s = 1..Cardinality(S) /\ Len(s) = Cardinality(S) /\ Len(s) \in Nat
  /\ \A i \in 1..Len(s) : s[i] \in S
  /\ \A x \in S : \E i \in 1..Len(s) : s[i] = x
  /\ \A i, j \in 1..Len(s) : s[i] = s[j] => i = j

LEMMA RanksEnumerate ==
  ASSUME NEW S, IsFiniteSet(S), NEW R, IsOrder(R, S)
  PROVE  Enumerates([i \in 1..Cardinality(S) |->
                       CHOOSE x \in S : Cardinality({y \in S : << y, x >> \in R}) = i - 1], S)
<1> DEFINE below(x) == {y \in S : << y, x >> \in R}
           n == Cardinality(S)
           f == [x \in S |-> Cardinality(below(x))]
           s == [i \in 1..n |-> CHOOSE x \in S : Cardinality(below(x)) = i - 1]
<1>1. n \in Nat
  BY FS_CardinalityType
<1>2. ASSUME NEW x \in S
      PROVE  /\ IsFiniteSet(below(x)) /\ Cardinality(below(x)) \in Nat
             /\ Cardinality(below(x)) < n
  <2>1. below(x) \subseteq S /\ x \notin below(x)
    BY DEF IsOrder
  <2> HIDE DEF below
  <2>2. IsFiniteSet(below(x)) /\ Cardinality(below(x)) <= n /\ Cardinality(below(x)) # n
    BY <2>1, FS_Subset
  <2>3. Cardinality(below(x)) \in Nat
    BY <2>2, FS_CardinalityType
  <2> QED BY <2>2, <2>3, <1>1
<1>3. ASSUME NEW x \in S, NEW y \in S, << x, y >> \in R
      PROVE  Cardinality(below(x)) < Cardinality(below(y))
  <2>1. below(x) \union {x} \subseteq below(y) /\ x \notin below(x)
    BY <1>3 DEF IsOrder
  <2>2. IsFiniteSet(below(x)) /\ IsFiniteSet(below(y))
        /\ Cardinality(below(x)) \in Nat /\ Cardinality(below(y)) \in Nat
    BY <1>2
  <2> HIDE DEF below
  <2>3. Cardinality(below(x) \union {x}) = Cardinality(below(x)) + 1
    BY <2>1, <2>2, FS_AddElement
  <2>4. Cardinality(below(x) \union {x}) <= Cardinality(below(y))
    BY <2>1, <2>2, FS_Subset
  <2> QED BY <2>2, <2>3, <2>4
<1>4. f \in Injection(S, 0..(n - 1))
  <2>1. f \in [S -> 0..(n - 1)]
    <3> HIDE DEF below, n
    <3> QED BY <1>1, <1>2
  <2>2. ASSUME NEW x \in S, NEW y \in S, x # y PROVE f[x] # f[y]
    <3>1. << x, y >> \in R \/ << y, x >> \in R
      BY <2>2 DEF IsOrder
    <3> HIDE DEF below
    <3> QED BY <3>1, <1>2, <1>3
  <2> HIDE DEF f, n
  <2> QED BY <2>1, <2>2 DEF Injection, IsInjective
<1>5. f \in Surjection(S, 0..(n - 1))
  <2>1. IsFiniteSet(0..(n - 1)) /\ Cardinality(0..(n - 1)) = n
    <3> HIDE DEF n
    <3> QED BY <1>1, FS_Interval
  <2> HIDE DEF f
  <2> QED BY <2>1, <1>4, FS_Injection
<1>6. ASSUME NEW i \in 1..n PROVE \E x \in S : Cardinality(below(x)) = i - 1
  <2>1. i - 1 \in 0..(n - 1)
    BY <1>1
  <2>2. \E x \in S : f[x] = i - 1
    <3> HIDE DEF f, n
    <3> QED BY <2>1, <1>5 DEF Surjection
  <2> QED BY <2>2
<1>7. ASSUME NEW i \in 1..n PROVE s[i] \in S /\ Cardinality(below(s[i])) = i - 1
  <2> HIDE DEF below
  <2> QED BY <1>6
<1>8. DOMAIN s = 1..n /\ Len(s) = n
  <2>1. DOMAIN s = 1..n
    OBVIOUS
  <2> HIDE DEF s, n
  <2> QED BY <2>1, <1>1 DEF Len
<1>9. ASSUME NEW x \in S PROVE \E i \in 1..n : s[i] = x
  <2> DEFINE i == Cardinality(below(x)) + 1
  <2>1. i \in 1..n /\ i - 1 = Cardinality(below(x))
    <3> HIDE DEF below, n
    <3> QED BY <1>1, <1>2
  <2>2. s[i] \in S /\ Cardinality(below(s[i])) = Cardinality(below(x))
    BY <2>1, <1>7
  <2>3. s[i] = x
    <3> SUFFICES ASSUME s[i] # x PROVE FALSE
      OBVIOUS
    <3> HIDE DEF s, i
    <3>1. << s[i], x >> \in R \/ << x, s[i] >> \in R
      BY <2>2 DEF IsOrder
    <3> HIDE DEF below
    <3> QED BY <3>1, <2>2, <1>2, <1>3
  <2> QED BY <2>1, <2>3
<1>10. ASSUME NEW i \in 1..n, NEW j \in 1..n, s[i] = s[j] PROVE i = j
  <2>1. Cardinality(below(s[i])) = i - 1 /\ Cardinality(below(s[j])) = j - 1
    BY <1>7
  <2> HIDE DEF s, below, n
  <2> QED BY <2>1, <1>1, <1>10
<1>11. s = [i \in 1..n |-> s[i]]
  <2> DEFINE c(i) == CHOOSE x \in S : Cardinality(below(x)) = i - 1
  <2>1. s = [i \in 1..n |-> c(i)] /\ \A i \in 1..n : s[i] = c(i)
    OBVIOUS
  <2> HIDE DEF s, c, n
  <2> QED BY <2>1
<1>12. Enumerates(s, S)
  <2> HIDE DEF s, below
  <2> QED BY <1>1, <1>7, <1>8, <1>9, <1>10, <1>11 DEF Enumerates
<1> QED BY <1>12

EnabledIn(rows, ids) == {x \in ids : rows[x].enabled}

LEMMA ListedNodes ==
  ASSUME NEW nodes, \A n \in Nodes : nodes[n].priority \in Nat
  PROVE  Enumerates(Listed(nodes), EnabledIn(nodes, Nodes))
<1> DEFINE S == EnabledIn(nodes, Nodes)
           R == {e \in Nodes \X Nodes : Before(nodes, e[1], e[2])}
<1>1. S \subseteq Nodes /\ IsFiniteSet(S) /\ S \subseteq Nat
  BY RoutingAssumption, FS_Subset DEF RoutingAssumption, EnabledIn
<1>2. IsOrder(R, S)
  BY <1>1 DEF IsOrder, Before
<1>3. Listed(nodes) = [i \in 1..Cardinality(S) |->
                         CHOOSE x \in S : Cardinality({y \in S : Before(nodes, y, x)}) = i - 1]
  BY DEF Listed, Sorted, EnabledIn
<1>4. \A x \in S : {y \in S : Before(nodes, y, x)} = {y \in S : << y, x >> \in R}
  BY <1>1
<1>5. Listed(nodes) = [i \in 1..Cardinality(S) |->
                         CHOOSE x \in S : Cardinality({y \in S : << y, x >> \in R}) = i - 1]
  <2> HIDE DEF S, R
  <2> QED BY <1>3, <1>4
<1> HIDE DEF R, S
<1>6. Enumerates(Listed(nodes), S)
  BY <1>1, <1>2, <1>5, RanksEnumerate
<1> QED BY <1>6 DEF S

LEMMA ListedPools ==
  ASSUME NEW groups
  PROVE  Enumerates(ListedGroups(groups), EnabledIn(groups, Groups))
<1> DEFINE S == EnabledIn(groups, Groups)
           R == {e \in Groups \X Groups : e[1] < e[2]}
<1>1. S \subseteq Groups /\ IsFiniteSet(S) /\ S \subseteq Nat
  BY RoutingAssumption, FS_Subset DEF RoutingAssumption, EnabledIn
<1>2. IsOrder(R, S)
  BY <1>1 DEF IsOrder
<1>3. ListedGroups(groups) = [i \in 1..Cardinality(S) |->
                         CHOOSE x \in S : Cardinality({y \in S : y < x}) = i - 1]
  BY DEF ListedGroups, Sorted, EnabledIn
<1>4. \A x \in S : {y \in S : y < x} = {y \in S : << y, x >> \in R}
  BY <1>1
<1>5. ListedGroups(groups) = [i \in 1..Cardinality(S) |->
                         CHOOSE x \in S : Cardinality({y \in S : << y, x >> \in R}) = i - 1]
  <2> HIDE DEF S, R
  <2> QED BY <1>3, <1>4
<1> HIDE DEF R, S
<1>6. Enumerates(ListedGroups(groups), S)
  BY <1>1, <1>2, <1>5, RanksEnumerate
<1> QED BY <1>6 DEF S

-----------------------------------------------------------------------------
(* What is published. *)

Exist(nodes) == {n \in Nodes : nodes[n] \in NodeRows}

\* Tables as they may be at any time.
AreTables(nodes, groups) ==
  /\ nodes \in [Nodes -> NodeRows \union {FreeNode, GoneNode}]
  /\ groups \in [Groups -> GroupRows \union {FreeGroup, GoneGroup}]
  /\ \A g \in Groups : groups[g].members \subseteq Exist(nodes)
  /\ \A f, g \in Groups : groups[f].default /\ groups[g].default => f = g

PoolRows == [id : Groups, default : BOOLEAN, rules : RuleLists \union {Bundle.group.rules},
             members : SUBSET Nodes, sticky : BOOLEAN, revision : Nat]

\* A snapshot as it may be at any time: its index is that of its rules, a node or a pool is
\* in it once, and no generation or revision is of the future.
IsSnapshot(s) ==
  /\ s.generation \in Nat
  /\ s.gens \in [Nodes -> 0..s.generation]
  /\ \A n \in Nodes : s.gens[n] = 0 => s.confs[n] = NoConf
  /\ Enumerates(s.list, {n \in Nodes : s.gens[n] # 0})
  /\ Len(s.pools) \in Nat
  /\ \A p \in 1..Len(s.pools) : /\ s.pools[p] \in PoolRows
                                /\ s.pools[p].revision <= s.generation
  /\ \A p, q \in 1..Len(s.pools) : s.pools[p].id = s.pools[q].id => p = q
  /\ s.index = Build(s.list, s.pools)

Follows(s, nodes, groups) ==
  /\ s.list = Listed(nodes)
  /\ \A n \in Nodes : s.gens[n] # 0 => s.confs[n] = nodes[n].conf
  /\ [p \in 1..Len(s.pools) |-> s.pools[p].id] = ListedGroups(groups)
  /\ \A p \in 1..Len(s.pools) : SamePool(s.pools[p], groups[s.pools[p].id])

\* A generation or revision that is not new stands for what it stood for.
Succeeds(s, old) ==
  /\ s.generation = old.generation + 1
  /\ \A n \in Nodes : /\ s.gens[n] \in {0, old.gens[n], s.generation}
                      /\ s.gens[n] = old.gens[n] => s.confs[n] = old.confs[n]
  /\ \A p \in 1..Len(s.pools) :
       \/ s.pools[p].revision = s.generation
       \/ \E q \in 1..Len(old.pools) :
            /\ old.pools[q].id = s.pools[p].id
            /\ old.pools[q].revision = s.pools[p].revision
            /\ SamePool(old.pools[q], s.pools[p])
            /\ \A n \in s.pools[p].members : old.gens[n] = s.gens[n]

LEMMA NodeRowIs ==
  ASSUME NEW nodes, NEW groups, AreTables(nodes, groups), NEW n \in Nodes
  PROVE  /\ nodes[n].enabled \in BOOLEAN /\ nodes[n].priority \in Nat
         /\ nodes[n].enabled => nodes[n] \in NodeRows /\ nodes[n].conf \in Confs
         /\ nodes[n].conf \in Confs => nodes[n] \in NodeRows
<1>1. nodes[n] \in NodeRows \/ nodes[n] = FreeNode \/ nodes[n] = GoneNode
  BY DEF AreTables
<1>2. CASE nodes[n] \in NodeRows
  BY <1>2 DEF NodeRows
<1>3. CASE nodes[n] = FreeNode \/ nodes[n] = GoneNode
  <2>1. NoConf \notin Confs
    BY RoutingAssumption DEF RoutingAssumption
  <2>2. nodes[n].enabled = FALSE /\ nodes[n].priority \in Nat /\ nodes[n].conf = NoConf
    BY <1>3 DEF FreeNode, GoneNode
  <2> QED BY <2>1, <2>2
<1> QED BY <1>1, <1>2, <1>3

LEMMA GroupRowIs ==
  ASSUME NEW nodes, NEW groups, AreTables(nodes, groups), NEW g \in Groups
  PROVE  /\ groups[g].default \in BOOLEAN /\ groups[g].enabled \in BOOLEAN
         /\ groups[g].sticky \in BOOLEAN /\ groups[g].members \in SUBSET Nodes
         /\ groups[g].enabled => groups[g] \in GroupRows
<1>1. groups[g] \in GroupRows \/ groups[g] = FreeGroup \/ groups[g] = GoneGroup
  BY DEF AreTables
<1>2. CASE groups[g] \in GroupRows
  BY <1>2 DEF GroupRows
<1>3. CASE groups[g] = FreeGroup
  BY <1>3 DEF FreeGroup
<1>4. CASE groups[g] = GoneGroup
  BY <1>4 DEF FreeGroup, GoneGroup
<1> QED BY <1>1, <1>2, <1>3, <1>4

LEMMA PoolsRuled ==
  ASSUME NEW pools, Len(pools) \in Nat, \A p \in 1..Len(pools) : pools[p] \in PoolRows
  PROVE  AreRuled(pools)
BY RoutingAssumption DEF RoutingAssumption, AreRuled, PoolRows

\* The same lists and pools have the same index.
LEMMA SameBuild ==
  ASSUME NEW list, NEW pools, NEW old, SameIndex(list, pools, old),
         Len(pools) \in Nat, old.index = Build(old.list, old.pools)
  PROVE  old.index = Build(list, pools)
<1> DEFINE n == Len(pools)
<1>1. /\ list = old.list /\ n = Len(old.pools)
      /\ \A p \in 1..n : /\ pools[p].members = old.pools[p].members
                         /\ pools[p].rules = old.pools[p].rules
                         /\ pools[p].default = old.pools[p].default
  BY DEF SameIndex
<1>2. Places(pools) = Places(old.pools)
  BY <1>1 DEF Places
<1>3. \A q \in Places(pools) : q[1] \in 1..n
  BY DEF Places
<1>4. \A q \in Places(pools) : RuleAt(pools, q) = RuleAt(old.pools, q)
  BY <1>1, <1>3 DEF RuleAt
<1>5. \A q \in Places(pools) : Rank(pools, q) = Rank(old.pools, q)
  BY <1>2, <1>4 DEF Rank
<1>6. DefaultPool(pools) = DefaultPool(old.pools)
  <2> DEFINE D == {p \in 1..n : pools[p].default}  E == {p \in 1..n : old.pools[p].default}
             last(S) == IF S = {} THEN NoPool ELSE CHOOSE p \in S : \A q \in S : q <= p
  <2>1. D = E
    BY <1>1
  <2>2. last(D) = last(E)
    <3> HIDE DEF D, E, last
    <3> QED BY <2>1
  <2>3. DefaultPool(pools) = last(D)
    BY DEF DefaultPool
  <2>4. Len(old.pools) = n
    BY <1>1
  <2>5. DefaultPool(old.pools) = last(E)
    BY <2>4 DEF DefaultPool
  <2> HIDE DEF D, E, last
  <2> QED BY <2>2, <2>3, <2>5
<1>7. {RuleAt(pools, q) : q \in Places(pools)} = {RuleAt(old.pools, q) : q \in Places(old.pools)}
  BY <1>2, <1>4
<1>8. \A rule : {Rank(pools, q) : q \in {q \in Places(pools) : RuleAt(pools, q) = rule}}
               = {Rank(old.pools, q) : q \in {q \in Places(old.pools) : RuleAt(old.pools, q) = rule}}
  BY <1>2, <1>4, <1>5
<1>9. [p \in 1..n |-> {i \in 1..Len(list) : list[i] \in pools[p].members}]
    = [p \in 1..Len(old.pools) |-> {i \in 1..Len(old.list) : old.list[i] \in old.pools[p].members}]
  BY <1>1
<1> DEFINE best(ps) ==
             [rule \in {RuleAt(ps, q) : q \in Places(ps)} |->
                Best({Rank(ps, q) : q \in {q \in Places(ps) : RuleAt(ps, q) = rule}})]
<1>10. best(pools) = best(old.pools)
  BY <1>7, <1>8
<1>11. /\ Build(list, pools)
            = [members |-> [p \in 1..n |-> {i \in 1..Len(list) : list[i] \in pools[p].members}],
               best |-> best(pools), default |-> DefaultPool(pools)]
       /\ Build(old.list, old.pools)
            = [members |-> [p \in 1..Len(old.pools) |->
                              {i \in 1..Len(old.list) : old.list[i] \in old.pools[p].members}],
               best |-> best(old.pools), default |-> DefaultPool(old.pools)]
  BY DEF Build
<1> HIDE DEF best, n
<1> QED BY <1>6, <1>9, <1>10, <1>11

LEMMA GenerationsAre ==
  ASSUME NEW nodes, NEW groups, AreTables(nodes, groups), NEW old, IsSnapshot(old),
         NEW gens, gens = Generations(nodes, old, old.generation + 1)
  PROVE  /\ gens \in [Nodes -> 0..(old.generation + 1)]
         /\ \A n \in Nodes : /\ gens[n] = 0 <=> ~nodes[n].enabled
                             /\ gens[n] \in {0, old.gens[n], old.generation + 1}
                             /\ gens[n] # 0 /\ gens[n] = old.gens[n]
                                  => old.confs[n] = nodes[n].conf
<1>1. ASSUME NEW n \in Nodes
      PROVE  /\ gens[n] \in 0..(old.generation + 1)
             /\ gens[n] = 0 <=> ~nodes[n].enabled
             /\ gens[n] \in {0, old.gens[n], old.generation + 1}
             /\ gens[n] # 0 /\ gens[n] = old.gens[n] => old.confs[n] = nodes[n].conf
  <2>1. old.generation \in Nat /\ old.gens[n] \in 0..old.generation
    BY DEF IsSnapshot
  <2>2. nodes[n].enabled \in BOOLEAN
    BY NodeRowIs
  <2>3. gens[n] = IF ~nodes[n].enabled THEN 0
                  ELSE IF old.gens[n] # 0 /\ old.confs[n] = nodes[n].conf
                       THEN old.gens[n] ELSE old.generation + 1
    BY DEF Generations
  <2>4. CASE ~nodes[n].enabled
    <3>1. gens[n] = 0
      BY <2>3, <2>4
    <3> QED BY <3>1, <2>1, <2>4
  <2>5. CASE nodes[n].enabled /\ old.gens[n] # 0 /\ old.confs[n] = nodes[n].conf
    <3>1. gens[n] = old.gens[n]
      BY <2>3, <2>5
    <3> QED BY <3>1, <2>1, <2>5
  <2>6. CASE nodes[n].enabled /\ ~(old.gens[n] # 0 /\ old.confs[n] = nodes[n].conf)
    <3>1. gens[n] = old.generation + 1
      BY <2>3, <2>6
    <3> QED BY <3>1, <2>1, <2>6
  <2> QED BY <2>2, <2>4, <2>5, <2>6
<1>2. gens = [n \in Nodes |-> gens[n]]
  BY DEF Generations
<1> QED BY <1>1, <1>2

\* The pools of a snapshot of the generation g.
ArePools(pools, groups, gens, old, g) ==
  /\ Len(pools) = Len(ListedGroups(groups)) /\ Len(pools) \in Nat
  /\ [p \in 1..Len(pools) |-> pools[p].id] = ListedGroups(groups)
  /\ \A p \in 1..Len(pools) :
       /\ pools[p] \in PoolRows /\ pools[p].revision <= g
       /\ SamePool(pools[p], groups[pools[p].id])
       /\ \/ pools[p].revision = g
          \/ \E q \in 1..Len(old.pools) :
               /\ old.pools[q].id = pools[p].id
               /\ old.pools[q].revision = pools[p].revision
               /\ SamePool(old.pools[q], pools[p])
               /\ \A n \in pools[p].members : old.gens[n] = gens[n]
  /\ \A p, q \in 1..Len(pools) : pools[p].id = pools[q].id => p = q

LEMMA PoolsAre ==
  ASSUME NEW nodes, NEW groups, AreTables(nodes, groups), NEW old, IsSnapshot(old), NEW gens
  PROVE  ArePools(Pools(groups, gens, old, old.generation + 1), groups, gens, old,
                  old.generation + 1)
<1> DEFINE pools == Pools(groups, gens, old, old.generation + 1)
<1> DEFINE ids == ListedGroups(groups)
           entry(p) == [id |-> ids[p], default |-> groups[ids[p]].default,
                        rules |-> groups[ids[p]].rules, members |-> groups[ids[p]].members,
                        sticky |-> groups[ids[p]].sticky,
                        revision |-> Revision(ids[p], groups[ids[p]], gens, old,
                                              old.generation + 1)]
<1>1. /\ DOMAIN ids = 1..Len(ids) /\ Len(ids) \in Nat
      /\ \A p \in 1..Len(ids) : ids[p] \in Groups /\ groups[ids[p]].enabled
      /\ \A p, q \in 1..Len(ids) : ids[p] = ids[q] => p = q
      /\ ids = [p \in 1..Len(ids) |-> ids[p]]
  <2>1. Enumerates(ids, EnabledIn(groups, Groups))
    BY ListedPools
  <2> HIDE DEF ids
  <2> QED BY <2>1 DEF Enumerates, EnabledIn
<1>2. pools = [p \in 1..Len(ids) |-> entry(p)]
  BY DEF Pools
<1>3. Len(pools) = Len(ids)
  <2> HIDE DEF ids, entry
  <2> QED BY <1>1, <1>2 DEF Len
<1>4. ASSUME NEW p \in 1..Len(ids)
      PROVE  LET r == Revision(ids[p], groups[ids[p]], gens, old, old.generation + 1)
             IN  /\ r \in Nat /\ r <= old.generation + 1
                 /\ \/ r = old.generation + 1
                    \/ \E q \in 1..Len(old.pools) :
                         /\ old.pools[q].id = ids[p] /\ old.pools[q].revision = r
                         /\ SamePool(old.pools[q], groups[ids[p]])
                         /\ \A n \in groups[ids[p]].members : old.gens[n] = gens[n]
  <2> DEFINE kept == {q \in 1..Len(old.pools) :
                        /\ old.pools[q].id = ids[p] /\ SamePool(old.pools[q], groups[ids[p]])
                        /\ \A n \in groups[ids[p]].members : old.gens[n] = gens[n]}
             q == CHOOSE q \in kept : TRUE
  <2>1. Revision(ids[p], groups[ids[p]], gens, old, old.generation + 1)
          = IF kept = {} THEN old.generation + 1 ELSE old.pools[q].revision
    BY DEF Revision
  <2>2. old.generation \in Nat
    BY DEF IsSnapshot
  <2>3. CASE kept = {}
    BY <2>1, <2>2, <2>3
  <2>4. CASE kept # {}
    <3>1. q \in kept
      BY <2>4
    <3>2. old.pools[q] \in PoolRows /\ old.pools[q].revision <= old.generation
      BY <3>1 DEF IsSnapshot
    <3>3. old.pools[q].revision \in Nat
      BY <3>2 DEF PoolRows
    <3> HIDE DEF q
    <3> QED BY <2>1, <2>2, <2>4, <3>1, <3>2, <3>3
  <2> QED BY <2>3, <2>4
<1>5. ASSUME NEW p \in 1..Len(ids)
      PROVE  /\ pools[p] \in PoolRows /\ pools[p].revision <= old.generation + 1
             /\ pools[p].id = ids[p]
             /\ SamePool(pools[p], groups[pools[p].id])
             /\ \/ pools[p].revision = old.generation + 1
                \/ \E q \in 1..Len(old.pools) :
                     /\ old.pools[q].id = pools[p].id
                     /\ old.pools[q].revision = pools[p].revision
                     /\ SamePool(old.pools[q], pools[p])
                     /\ \A n \in pools[p].members : old.gens[n] = gens[n]
  <2>1. pools[p] = entry(p)
    BY <1>2
  <2>2. groups[ids[p]] \in GroupRows
    BY <1>1, GroupRowIs
  <2>3. entry(p) \in PoolRows
    <3> DEFINE row == groups[ids[p]]
               r == Revision(ids[p], row, gens, old, old.generation + 1)
    <3>1. /\ row.default \in BOOLEAN /\ row.rules \in RuleLists \union {Bundle.group.rules}
          /\ row.members \in SUBSET Nodes /\ row.sticky \in BOOLEAN
      BY <2>2 DEF GroupRows
    <3>2. r \in Nat /\ ids[p] \in Groups
      BY <1>1, <1>4
    <3> HIDE DEF row, r, ids
    <3>3. [id |-> ids[p], default |-> row.default, rules |-> row.rules, members |-> row.members,
           sticky |-> row.sticky, revision |-> r] \in PoolRows
      BY <3>1, <3>2 DEF PoolRows
    <3> QED BY <3>3 DEF row, r
  <2>4. SamePool(entry(p), groups[ids[p]])
    BY DEF SamePool
  <2> HIDE DEF ids
  <2>5. /\ entry(p).id = ids[p] /\ entry(p).members = groups[ids[p]].members
        /\ entry(p).revision = Revision(ids[p], groups[ids[p]], gens, old, old.generation + 1)
    OBVIOUS
  <2>6. ASSUME NEW q, SamePool(old.pools[q], groups[ids[p]])
        PROVE  SamePool(old.pools[q], entry(p))
    BY <2>4, <2>6 DEF SamePool
  <2> DEFINE r == Revision(ids[p], groups[ids[p]], gens, old, old.generation + 1)
  <2> HIDE DEF entry
  <2>7. /\ r <= old.generation + 1
        /\ \/ r = old.generation + 1
           \/ \E q \in 1..Len(old.pools) :
                /\ old.pools[q].id = ids[p] /\ old.pools[q].revision = r
                /\ SamePool(old.pools[q], groups[ids[p]])
                /\ \A n \in groups[ids[p]].members : old.gens[n] = gens[n]
    BY <1>4
  <2> HIDE DEF r
  <2>8. pools[p].revision = r /\ pools[p].id = ids[p] /\ pools[p].members = groups[ids[p]].members
    BY <2>1, <2>5 DEF r
  <2>9. \/ pools[p].revision = old.generation + 1
        \/ \E q \in 1..Len(old.pools) :
             /\ old.pools[q].id = pools[p].id
             /\ old.pools[q].revision = pools[p].revision
             /\ SamePool(old.pools[q], pools[p])
             /\ \A n \in pools[p].members : old.gens[n] = gens[n]
    BY <2>1, <2>6, <2>7, <2>8
  <2>10. pools[p] \in PoolRows /\ SamePool(pools[p], groups[pools[p].id])
    BY <2>1, <2>3, <2>4, <2>8
  <2> QED BY <2>7, <2>8, <2>9, <2>10
<1>6. [p \in 1..Len(pools) |-> pools[p].id] = ids
  <2> HIDE DEF ids, entry
  <2> QED BY <1>1, <1>3, <1>5
<1> HIDE DEF ids, entry, pools
<1>7. \A p \in 1..Len(pools) :
        /\ pools[p] \in PoolRows /\ pools[p].revision <= old.generation + 1
        /\ SamePool(pools[p], groups[pools[p].id])
        /\ \/ pools[p].revision = old.generation + 1
           \/ \E q \in 1..Len(old.pools) :
                /\ old.pools[q].id = pools[p].id
                /\ old.pools[q].revision = pools[p].revision
                /\ SamePool(old.pools[q], pools[p])
                /\ \A n \in pools[p].members : old.gens[n] = gens[n]
  BY <1>3, <1>5
<1>8. \A p, q \in 1..Len(pools) : pools[p].id = pools[q].id => p = q
  BY <1>1, <1>3, <1>5
<1>9. /\ Len(pools) = Len(ListedGroups(groups)) /\ Len(pools) \in Nat
      /\ [p \in 1..Len(pools) |-> pools[p].id] = ListedGroups(groups)
  BY <1>1, <1>3, <1>6 DEF ids
<1> HIDE DEF pools
<1>10. ArePools(pools, groups, gens, old, old.generation + 1)
  BY <1>7, <1>8, <1>9 DEF ArePools
<1> QED BY <1>10 DEF pools

LEMMA EmptySnapshot == IsSnapshot(NoSnapshot)
<1> DEFINE s == NoSnapshot
<1>1. /\ s.generation = 0 /\ s.gens = [n \in Nodes |-> 0] /\ s.confs = [n \in Nodes |-> NoConf]
      /\ s.list = << >> /\ s.pools = << >> /\ s.index = Build(<< >>, << >>)
  BY DEF NoSnapshot
<1> HIDE DEF s
<1>2. {n \in Nodes : s.gens[n] # 0} = {} /\ Cardinality({}) = 0
  BY <1>1, FS_EmptySet
<1>3. Enumerates(<< >>, {})
  BY <1>2 DEF Enumerates
<1>4. Len(s.pools) = 0 /\ Len(s.list) = 0 /\ s.gens \in [Nodes -> 0..0]
  BY <1>1
<1>5. Enumerates(s.list, {n \in Nodes : s.gens[n] # 0}) /\ s.index = Build(s.list, s.pools)
  BY <1>1, <1>2, <1>3
<1>6. \A n \in Nodes : s.gens[n] = 0 => s.confs[n] = NoConf
  BY <1>1
<1>7. s.generation = 0 /\ Len(s.pools) = 0
  BY <1>1, <1>4
<1> HIDE DEF s
<1>8. IsSnapshot(s)
  BY <1>4, <1>5, <1>6, <1>7 DEF IsSnapshot
<1> QED BY <1>8 DEF s

\* What publish_routing makes of well-formed tables is a well-formed snapshot that says what
\* they say, and takes nothing over from the snapshot before that is no longer so.
LEMMA SnapshotIs ==
  ASSUME NEW nodes, NEW groups, AreTables(nodes, groups), NEW old, IsSnapshot(old)
  PROVE  /\ IsSnapshot(Snapshot(nodes, groups, old))
         /\ Follows(Snapshot(nodes, groups, old), nodes, groups)
         /\ Succeeds(Snapshot(nodes, groups, old), old)
<1> DEFINE s == Snapshot(nodes, groups, old)
           g == old.generation + 1
           gens == Generations(nodes, old, g)
           pools == Pools(groups, gens, old, g)
           list == Listed(nodes)
<1>1. /\ s.generation = g /\ s.list = list /\ s.gens = gens /\ s.pools = pools
      /\ s.confs = [n \in Nodes |-> IF nodes[n].enabled THEN nodes[n].conf ELSE NoConf]
      /\ s.index = IF SameIndex(list, pools, old) THEN old.index ELSE Build(list, pools)
  BY DEF Snapshot
<1>2. /\ old.generation \in Nat /\ g \in Nat /\ g = old.generation + 1
      /\ old.index = Build(old.list, old.pools)
  BY DEF IsSnapshot
<1>3. /\ gens \in [Nodes -> 0..g]
      /\ \A n \in Nodes : /\ gens[n] = 0 <=> ~nodes[n].enabled
                          /\ gens[n] \in {0, old.gens[n], g}
                          /\ gens[n] # 0 /\ gens[n] = old.gens[n]
                               => old.confs[n] = nodes[n].conf
  BY GenerationsAre
<1>4. ArePools(pools, groups, gens, old, g)
  BY PoolsAre
<1>5. \A n \in Nodes : nodes[n].priority \in Nat /\ nodes[n].enabled \in BOOLEAN
  BY NodeRowIs
<1>6. Enumerates(list, {n \in Nodes : gens[n] # 0})
  <2>1. Enumerates(list, EnabledIn(nodes, Nodes))
    BY <1>5, ListedNodes
  <2>2. EnabledIn(nodes, Nodes) = {n \in Nodes : gens[n] # 0}
    <3> HIDE DEF gens
    <3> QED BY <1>3 DEF EnabledIn
  <2> QED BY <2>1, <2>2
<1> HIDE DEF s, g, gens, pools, list
<1>7. s.index = Build(list, pools)
  BY <1>1, <1>2, <1>4, SameBuild DEF ArePools
<1>8. \A n \in Nodes : s.confs[n] = IF gens[n] # 0 THEN nodes[n].conf ELSE NoConf
  BY <1>1, <1>3
<1>9. IsSnapshot(s)
  <2>1. \A n \in Nodes : s.gens[n] = 0 => s.confs[n] = NoConf
    BY <1>1, <1>8
  <2>2. Enumerates(s.list, {n \in Nodes : s.gens[n] # 0})
    BY <1>1, <1>6
  <2>3. \A p \in 1..Len(s.pools) : s.pools[p] \in PoolRows /\ s.pools[p].revision <= s.generation
    BY <1>1, <1>4 DEF ArePools
  <2>4. \A p, q \in 1..Len(s.pools) : s.pools[p].id = s.pools[q].id => p = q
    BY <1>1, <1>4 DEF ArePools
  <2>5. /\ s.generation \in Nat /\ s.gens \in [Nodes -> 0..s.generation]
        /\ Len(s.pools) \in Nat /\ s.index = Build(s.list, s.pools)
    BY <1>1, <1>2, <1>3, <1>4, <1>7 DEF ArePools
  <2> QED BY <2>1, <2>2, <2>3, <2>4, <2>5 DEF IsSnapshot
<1>10. Follows(s, nodes, groups)
  <2>1. s.list = Listed(nodes)
    BY <1>1 DEF list
  <2>2. \A n \in Nodes : s.gens[n] # 0 => s.confs[n] = nodes[n].conf
    BY <1>1, <1>8
  <2>3. /\ [p \in 1..Len(s.pools) |-> s.pools[p].id] = ListedGroups(groups)
        /\ \A p \in 1..Len(s.pools) : SamePool(s.pools[p], groups[s.pools[p].id])
    BY <1>1, <1>4 DEF ArePools
  <2> QED BY <2>1, <2>2, <2>3 DEF Follows
<1>11. Succeeds(s, old)
  <2>1. ASSUME NEW n \in Nodes
        PROVE  /\ s.gens[n] \in {0, old.gens[n], s.generation}
               /\ s.gens[n] = old.gens[n] => s.confs[n] = old.confs[n]
    <3>1. gens[n] \in {0, old.gens[n], g}
      BY <1>3
    <3>2. CASE gens[n] = 0
      <4>1. old.gens[n] = 0 => old.confs[n] = NoConf
        BY DEF IsSnapshot
      <4> QED BY <4>1, <3>2, <1>1, <1>8
    <3>3. CASE gens[n] # 0
      BY <3>1, <3>3, <1>1, <1>3, <1>8
    <3> QED BY <3>2, <3>3
  <2>2. \A p \in 1..Len(s.pools) :
          \/ s.pools[p].revision = s.generation
          \/ \E q \in 1..Len(old.pools) :
               /\ old.pools[q].id = s.pools[p].id
               /\ old.pools[q].revision = s.pools[p].revision
               /\ SamePool(old.pools[q], s.pools[p])
               /\ \A n \in s.pools[p].members : old.gens[n] = s.gens[n]
    BY <1>1, <1>4 DEF ArePools
  <2> QED BY <1>1, <1>2, <2>1, <2>2 DEF Succeeds
<1> QED BY <1>9, <1>10, <1>11 DEF s

-----------------------------------------------------------------------------
(* The commands. *)

\* What every command does to the state: well-formed tables, and the connection is held.
Commits(w) ==
  /\ w \in Writers /\ ConnectionFree(w)
  /\ AreTables(nodeRow', groupRow')
  /\ writer' = [writer EXCEPT ![w].pc = "committed"]
  /\ edits' \in 0..MaxEdits /\ statuses' \in 0..MaxStatuses
  /\ UNCHANGED << snap, unpublished, healthVars, binding, request, clock >>

TablesOK ==
  AreTables(nodeRow, groupRow) /\ edits \in 0..MaxEdits /\ statuses \in 0..MaxStatuses

LEMMA Edited ==
  ASSUME TablesOK, NEW w \in Commands, NEW nodes, NEW groups, AreTables(nodes, groups),
         Edit(w, nodes, groups)
  PROVE  Commits(w)
<1>1. edits' \in 0..MaxEdits /\ statuses' \in 0..MaxStatuses
  BY RoutingAssumption DEF TablesOK, Edit, RoutingAssumption
<1>2. nodeRow' = nodes /\ groupRow' = groups
  BY DEF Edit, Commit
<1> QED BY <1>1, <1>2 DEF Edit, Commit, Commits, Writers

LEMMA RowKinds ==
  /\ NoConf \notin Confs /\ FreeNode \notin NodeRows /\ GoneNode \notin NodeRows
  /\ FreeGroup \notin GroupRows /\ GoneGroup \notin GroupRows
<1>1. NoConf \notin Confs
  BY RoutingAssumption DEF RoutingAssumption
<1>2. FreeNode.conf = NoConf /\ GoneNode.conf = NoConf
  BY DEF FreeNode, GoneNode
<1>3. FreeGroup.name = 0 /\ GoneGroup.name = 0
  BY DEF FreeGroup, GoneGroup
<1>4. (\A row \in NodeRows : row.conf \in Confs) /\ (\A row \in GroupRows : row.name # 0)
  BY DEF NodeRows, GroupRows
<1> QED BY <1>1, <1>2, <1>3, <1>4

LEMMA BlankGroups ==
  ASSUME NEW row, row = FreeGroup \/ row = GoneGroup
  PROVE  /\ row.default = FALSE /\ row.members = {}
         /\ [row EXCEPT !.default = FALSE] = row
         /\ \A n : row.members \ {n} = {} /\ [row EXCEPT !.members = {}] = row
<1>1. CASE row = FreeGroup
  <2>1. row.default = FALSE /\ row.members = {}
    BY <1>1 DEF FreeGroup
  <2>2. row \in [name : {0}, default : {FALSE}, enabled : {FALSE}, rules : {<< >>},
                 members : {{}}, sticky : {FALSE}]
    BY <1>1 DEF FreeGroup
  <2>3. [row EXCEPT !.default = FALSE] = row /\ [row EXCEPT !.members = {}] = row
    BY <2>1, <2>2
  <2> QED BY <2>1, <2>3
<1>2. CASE row = GoneGroup
  <2>1. row.default = FALSE /\ row.members = {}
    BY <1>2 DEF FreeGroup, GoneGroup
  <2>2. [row EXCEPT !.default = FALSE] = row
    BY <1>2 DEF FreeGroup, GoneGroup
  <2>3. [row EXCEPT !.members = {}] = row
    BY <1>2 DEF FreeGroup, GoneGroup
  <2> QED BY <2>1, <2>2, <2>3
<1> QED BY <1>1, <1>2

LEMMA OneNode ==
  ASSUME TablesOK, NEW n \in Nodes, NEW row \in NodeRows
  PROVE  AreTables([nodeRow EXCEPT ![n] = row], groupRow)
<1> DEFINE nodes == [nodeRow EXCEPT ![n] = row]
<1>1. nodes \in [Nodes -> NodeRows \union {FreeNode, GoneNode}]
  BY DEF TablesOK, AreTables
<1>2. Exist(nodeRow) \subseteq Exist(nodes)
  BY DEF TablesOK, AreTables, Exist
<1> HIDE DEF nodes
<1>3. AreTables(nodes, groupRow)
  BY <1>1, <1>2 DEF TablesOK, AreTables
<1> QED BY <1>3 DEF nodes

LEMMA CreateNodeCommits ==
  ASSUME TablesOK, NEW w \in Commands, CreateNode(w) PROVE Commits(w)
<1>1. PICK n \in Nodes, conf \in Confs, on \in BOOLEAN :
        Edit(w, [nodeRow EXCEPT ![n] = [conf |-> conf, enabled |-> on, priority |-> 2]], groupRow)
  BY DEF CreateNode
<1>2. [conf |-> conf, enabled |-> on, priority |-> 2] \in NodeRows
  BY DEF NodeRows
<1> QED BY <1>1, <1>2, OneNode, Edited

LEMMA UpdateNodeCommits ==
  ASSUME TablesOK, NEW w \in Commands, UpdateNode(w) PROVE Commits(w)
<1>1. PICK n \in Nodes, conf \in Confs, on \in BOOLEAN :
        nodeRow[n] \in NodeRows
          /\ Edit(w, [nodeRow EXCEPT ![n].conf = conf, ![n].enabled = on], groupRow)
  BY DEF UpdateNode
<1> DEFINE row == [nodeRow[n] EXCEPT !.conf = conf, !.enabled = on]
<1>2. row \in NodeRows
  BY <1>1 DEF NodeRows
<1>3. [nodeRow EXCEPT ![n].conf = conf, ![n].enabled = on] = [nodeRow EXCEPT ![n] = row]
  BY DEF TablesOK, AreTables
<1> HIDE DEF row
<1> QED BY <1>1, <1>2, <1>3, OneNode, Edited

LEMMA DeleteNodeCommits ==
  ASSUME TablesOK, NEW w \in Commands, DeleteNode(w) PROVE Commits(w)
<1>1. PICK n \in Nodes :
        Edit(w, [nodeRow EXCEPT ![n] = GoneNode],
                [g \in Groups |-> [groupRow[g] EXCEPT !.members = @ \ {n}]])
  BY DEF DeleteNode
<1> DEFINE nodes == [nodeRow EXCEPT ![n] = GoneNode]
           groups == [g \in Groups |-> [groupRow[g] EXCEPT !.members = @ \ {n}]]
<1>2. nodes \in [Nodes -> NodeRows \union {FreeNode, GoneNode}]
  BY DEF TablesOK, AreTables
<1>3. Exist(nodeRow) \ {n} \subseteq Exist(nodes)
  BY DEF TablesOK, AreTables, Exist
<1>4. ASSUME NEW g \in Groups
      PROVE  /\ groups[g] \in GroupRows \union {FreeGroup, GoneGroup}
             /\ groups[g].members = groupRow[g].members \ {n}
             /\ groups[g].default = groupRow[g].default
  <2>1. groupRow[g] \in GroupRows \/ groupRow[g] = FreeGroup \/ groupRow[g] = GoneGroup
    BY DEF TablesOK, AreTables
  <2>2. groups[g] = [groupRow[g] EXCEPT !.members = groupRow[g].members \ {n}]
    OBVIOUS
  <2> HIDE DEF groups
  <2>3. CASE groupRow[g] \in GroupRows
    BY <2>2, <2>3 DEF GroupRows
  <2>4. CASE groupRow[g] = FreeGroup \/ groupRow[g] = GoneGroup
    <3>1. groups[g] = groupRow[g] /\ groupRow[g].members \ {n} = groupRow[g].members
      BY <2>2, <2>4, BlankGroups
    <3> QED BY <3>1, <2>4
  <2> QED BY <2>1, <2>3, <2>4
<1>5. groups \in [Groups -> GroupRows \union {FreeGroup, GoneGroup}]
  BY <1>4
<1> HIDE DEF nodes, groups
<1>6. AreTables(nodes, groups)
  BY <1>2, <1>3, <1>4, <1>5 DEF TablesOK, AreTables
<1> QED BY <1>1, <1>6, Edited DEF nodes, groups

LEMMA ReorderCommits ==
  ASSUME TablesOK, NEW w \in Commands, Reorder(w) PROVE Commits(w)
<1>1. PICK S \in (SUBSET {n \in Nodes : nodeRow[n] \in NodeRows}) \ {{}}, p \in 1..2 :
        Edit(w, [n \in Nodes |-> IF n \in S THEN [nodeRow[n] EXCEPT !.priority = p]
                                 ELSE nodeRow[n]], groupRow)
  BY DEF Reorder
<1> DEFINE nodes == [n \in Nodes |-> IF n \in S THEN [nodeRow[n] EXCEPT !.priority = p]
                                     ELSE nodeRow[n]]
<1>2. ASSUME NEW n \in Nodes
      PROVE  /\ nodes[n] \in NodeRows \union {FreeNode, GoneNode}
             /\ nodeRow[n] \in NodeRows => nodes[n] \in NodeRows
  <2>1. CASE n \in S
    <3>1. nodeRow[n] \in NodeRows
      BY <2>1
    <3> QED BY <2>1, <3>1 DEF NodeRows
  <2>2. CASE n \notin S
    BY <2>2 DEF TablesOK, AreTables
  <2> QED BY <2>1, <2>2
<1>3. nodes \in [Nodes -> NodeRows \union {FreeNode, GoneNode}]
  BY <1>2
<1> HIDE DEF nodes
<1>4. Exist(nodeRow) \subseteq Exist(nodes)
  BY <1>2 DEF Exist
<1>5. AreTables(nodes, groupRow)
  BY <1>3, <1>4 DEF TablesOK, AreTables
<1> QED BY <1>1, <1>5, Edited DEF nodes

LEMMA OneGroup ==
  ASSUME TablesOK, NEW g \in Groups, NEW row \in GroupRows, row.members \subseteq Members
  PROVE  AreTables(nodeRow, WithGroup(g, row))
<1> DEFINE groups == WithGroup(g, row)
<1>1. ASSUME NEW f \in Groups
      PROVE  /\ groups[f] \in GroupRows \union {FreeGroup, GoneGroup}
             /\ groups[f].members \subseteq Exist(nodeRow)
             /\ groups[f].default = IF f = g THEN row.default
                                    ELSE groupRow[f].default /\ ~row.default
  <2>1. CASE f = g
    <3>1. groups[f] = row
      BY <2>1 DEF WithGroup, NoDefault, TablesOK, AreTables
    <3> QED BY <2>1, <3>1 DEF Members, Exist
  <2>2. CASE f # g /\ ~row.default
    <3>1. groups[f] = groupRow[f]
      BY <2>2 DEF WithGroup, TablesOK, AreTables
    <3>2. groupRow[f].default \in BOOLEAN
      BY GroupRowIs DEF TablesOK
    <3> QED BY <2>2, <3>1, <3>2 DEF TablesOK, AreTables
  <2>3. CASE f # g /\ row.default
    <3>1. groups[f] = [groupRow[f] EXCEPT !.default = FALSE]
      BY <2>3 DEF WithGroup, NoDefault, TablesOK, AreTables
    <3> HIDE DEF groups
    <3>2. groupRow[f].members \subseteq Exist(nodeRow)
      BY DEF TablesOK, AreTables
    <3>3. groupRow[f] \in GroupRows \/ groupRow[f] = FreeGroup \/ groupRow[f] = GoneGroup
      BY DEF TablesOK, AreTables
    <3>4. CASE groupRow[f] \in GroupRows
      BY <2>3, <3>1, <3>2, <3>4 DEF GroupRows
    <3>5. CASE groupRow[f] = FreeGroup \/ groupRow[f] = GoneGroup
      <4>1. groups[f] = groupRow[f] /\ groupRow[f].default = FALSE
        BY <3>1, <3>5, BlankGroups
      <4> QED BY <4>1, <2>3, <3>2, <3>5
    <3> QED BY <3>3, <3>4, <3>5
  <2>4. row.default \in BOOLEAN
    BY DEF GroupRows
  <2> QED BY <2>1, <2>2, <2>3, <2>4
<1>2. DOMAIN groups = Groups /\ groups = [f \in Groups |-> groups[f]]
  BY DEF WithGroup, NoDefault, TablesOK, AreTables
<1> HIDE DEF groups
<1>3. AreTables(nodeRow, groups)
  <2>1. groups \in [Groups -> GroupRows \union {FreeGroup, GoneGroup}]
    BY <1>1, <1>2
  <2>2. \A e, f \in Groups : groups[e].default /\ groups[f].default => e = f
    BY <1>1 DEF TablesOK, AreTables
  <2> QED BY <1>1, <2>1, <2>2 DEF TablesOK, AreTables
<1> QED BY <1>3 DEF groups

LEMMA CreateGroupCommits ==
  ASSUME TablesOK, NEW w \in Commands, CreateGroup(w) PROVE Commits(w)
<1>1. PICK g \in Groups, default \in BOOLEAN, rules \in RuleLists :
        Edit(w, nodeRow, WithGroup(g,
          [name |-> g, default |-> default, enabled |-> TRUE, rules |-> rules,
           members |-> Members, sticky |-> TRUE]))
  BY DEF CreateGroup
<1> DEFINE row == [name |-> g, default |-> default, enabled |-> TRUE, rules |-> rules,
                   members |-> Members, sticky |-> TRUE]
<1>2. Members \in SUBSET Nodes /\ g \in Nat \ {0}
  BY RoutingAssumption DEF Members, RoutingAssumption
<1>3. row \in GroupRows /\ row.members \subseteq Members
  <2> HIDE DEF Members
  <2> QED BY <1>2 DEF GroupRows
<1> HIDE DEF row
<1> QED BY <1>1, <1>3, OneGroup, Edited DEF row

LEMMA UpdateGroupCommits ==
  ASSUME TablesOK, NEW w \in Commands, UpdateGroup(w) PROVE Commits(w)
<1>1. PICK g \in Groups :
        /\ Exists(g)
        /\ \/ \E b \in BOOLEAN :
                \/ Edit(w, nodeRow, WithGroup(g, [groupRow[g] EXCEPT !.default = b]))
                \/ Edit(w, nodeRow, WithGroup(g, [groupRow[g] EXCEPT !.enabled = b]))
                \/ Edit(w, nodeRow, WithGroup(g, [groupRow[g] EXCEPT !.sticky = b]))
           \/ \E rules \in RuleLists :
                Edit(w, nodeRow, WithGroup(g, [groupRow[g] EXCEPT !.rules = rules]))
           \/ \E S \in SUBSET Members :
                Edit(w, nodeRow, WithGroup(g, [groupRow[g] EXCEPT !.members = S]))
  BY DEF UpdateGroup
<1> DEFINE row == groupRow[g]
<1>2. row \in GroupRows /\ row.members \subseteq Members /\ Members \subseteq Nodes
  BY <1>1 DEF Exists, TablesOK, AreTables, Members, Exist
<1> HIDE DEF row
<1>3. ASSUME NEW b \in BOOLEAN
      PROVE  /\ [row EXCEPT !.default = b] \in GroupRows
             /\ [row EXCEPT !.enabled = b] \in GroupRows
             /\ [row EXCEPT !.sticky = b] \in GroupRows
             /\ [row EXCEPT !.default = b].members = row.members
             /\ [row EXCEPT !.enabled = b].members = row.members
             /\ [row EXCEPT !.sticky = b].members = row.members
  BY <1>2 DEF GroupRows
<1>4. ASSUME NEW rules \in RuleLists
      PROVE  /\ [row EXCEPT !.rules = rules] \in GroupRows
             /\ [row EXCEPT !.rules = rules].members = row.members
  BY <1>2 DEF GroupRows
<1>5. ASSUME NEW S \in SUBSET Members
      PROVE  /\ [row EXCEPT !.members = S] \in GroupRows
             /\ [row EXCEPT !.members = S].members = S
  BY <1>2 DEF GroupRows
<1>6. ASSUME NEW b \in BOOLEAN,
             \/ Edit(w, nodeRow, WithGroup(g, [row EXCEPT !.default = b]))
             \/ Edit(w, nodeRow, WithGroup(g, [row EXCEPT !.enabled = b]))
             \/ Edit(w, nodeRow, WithGroup(g, [row EXCEPT !.sticky = b]))
      PROVE  Commits(w)
  BY <1>2, <1>3, <1>6, OneGroup, Edited
<1>7. ASSUME NEW rules \in RuleLists,
             Edit(w, nodeRow, WithGroup(g, [row EXCEPT !.rules = rules]))
      PROVE  Commits(w)
  BY <1>2, <1>4, <1>7, OneGroup, Edited
<1>8. ASSUME NEW S \in SUBSET Members,
             Edit(w, nodeRow, WithGroup(g, [row EXCEPT !.members = S]))
      PROVE  Commits(w)
  BY <1>2, <1>5, <1>8, OneGroup, Edited
<1> QED BY <1>1, <1>6, <1>7, <1>8 DEF row

LEMMA DeleteGroupCommits ==
  ASSUME TablesOK, NEW w \in Commands, DeleteGroup(w) PROVE Commits(w)
<1>1. PICK g \in Groups : Edit(w, nodeRow, [groupRow EXCEPT ![g] = GoneGroup])
  BY DEF DeleteGroup
<1> DEFINE groups == [groupRow EXCEPT ![g] = GoneGroup]
<1>2. GoneGroup.default = FALSE /\ GoneGroup.members = {}
  BY DEF GoneGroup, FreeGroup
<1>3. groups \in [Groups -> GroupRows \union {FreeGroup, GoneGroup}]
  BY DEF TablesOK, AreTables
<1>4. \A f \in Groups : groups[f] = IF f = g THEN GoneGroup ELSE groupRow[f]
  BY DEF TablesOK, AreTables
<1> HIDE DEF groups
<1>5. AreTables(nodeRow, groups)
  BY <1>2, <1>3, <1>4 DEF TablesOK, AreTables
<1> QED BY <1>1, <1>5, Edited DEF groups

LEMMA ImportCommits ==
  ASSUME TablesOK, NEW w \in Commands, Import(w) PROVE Commits(w)
<1>1. PICK f \in ImportNodes, g \in Groups :
        LET nodes == [n \in Nodes |->
                        IF f[n] = NoConf THEN nodeRow[n]
                        ELSE [conf |-> f[n], enabled |-> TRUE, priority |-> 2]]
            group == [name |-> Bundle.group.name,
                      default |-> KeptDefault(Bundle.group.default),
                      enabled |-> TRUE, rules |-> Bundle.group.rules,
                      members |-> {n \in Nodes : nodes[n].conf \in Bundle.group.members},
                      sticky |-> TRUE]
            known == \E h \in Groups : groupRow[h].name = Bundle.group.name
        IN  Edit(w, nodes, IF known THEN groupRow ELSE [groupRow EXCEPT ![g] = group])
  BY DEF Import
<1> DEFINE nodes == [n \in Nodes |->
                       IF f[n] = NoConf THEN nodeRow[n]
                       ELSE [conf |-> f[n], enabled |-> TRUE, priority |-> 2]]
           members == {n \in Nodes : nodes[n].conf \in Bundle.group.members}
           group == [name |-> Bundle.group.name,
                     default |-> KeptDefault(Bundle.group.default),
                     enabled |-> TRUE, rules |-> Bundle.group.rules,
                     members |-> members, sticky |-> TRUE]
           known == \E h \in Groups : groupRow[h].name = Bundle.group.name
           groups == IF known THEN groupRow ELSE [groupRow EXCEPT ![g] = group]
<1>2. Edit(w, nodes, groups)
  BY <1>1
<1>3. ASSUME NEW n \in Nodes
      PROVE  /\ nodes[n] \in NodeRows \union {FreeNode, GoneNode}
             /\ nodeRow[n] \in NodeRows => nodes[n] \in NodeRows
  <2>1. CASE f[n] = NoConf
    BY <2>1 DEF TablesOK, AreTables
  <2>2. CASE f[n] # NoConf
    <3>1. f[n] \in Confs
      BY <2>2, StoredAssumption DEF ImportNodes, StoredAssumption
    <3>2. [conf |-> f[n], enabled |-> TRUE, priority |-> 2] \in NodeRows
      BY <3>1 DEF NodeRows
    <3> QED BY <2>2, <3>2
  <2> QED BY <2>1, <2>2
<1>4. nodes \in [Nodes -> NodeRows \union {FreeNode, GoneNode}]
  BY <1>3
<1> HIDE DEF nodes
<1>5. Exist(nodeRow) \subseteq Exist(nodes)
  BY <1>3 DEF Exist
<1>6. AreTables(nodes, groupRow)
  BY <1>4, <1>5 DEF TablesOK, AreTables
<1>7. members \subseteq Exist(nodes) /\ members \in SUBSET Nodes
  <2>1. ASSUME NEW n \in members PROVE n \in Exist(nodes)
    <3>1. nodes[n].conf \in Confs
      BY <2>1, StoredAssumption DEF StoredAssumption
    <3> QED BY <3>1, <1>6, NodeRowIs DEF Exist
  <2> QED BY <2>1
<1> HIDE DEF members
<1>8. KeptDefault(Bundle.group.default) \in BOOLEAN
  BY StoredAssumption DEF StoredAssumption, KeptDefault
<1>9. group \in GroupRows /\ group.members = members
      /\ (group.default => \A e \in Groups : ~groupRow[e].default)
  <2>1. Bundle.group.name \in Nat \ {0}
    BY StoredAssumption DEF StoredAssumption
  <2>2. KeptDefault(Bundle.group.default) => \A e \in Groups : ~groupRow[e].default
    BY DEF KeptDefault
  <2> DEFINE d == KeptDefault(Bundle.group.default)
  <2> HIDE DEF d
  <2>3. [name |-> Bundle.group.name, default |-> d, enabled |-> TRUE, rules |-> Bundle.group.rules,
         members |-> members, sticky |-> TRUE] \in GroupRows
    BY <2>1, <1>7, <1>8 DEF GroupRows, d
  <2> QED BY <2>2, <2>3 DEF d
<1> HIDE DEF group
<1>10. AreTables(nodes, groups)
  <2>1. CASE known
    BY <2>1, <1>6
  <2>2. CASE ~known
    <3>1. groups = [groupRow EXCEPT ![g] = group]
      BY <2>2
    <3> HIDE DEF groups
    <3>2. groups \in [Groups -> GroupRows \union {FreeGroup, GoneGroup}]
      BY <3>1, <1>9 DEF TablesOK, AreTables
    <3>3. \A e \in Groups : groups[e] = IF e = g THEN group ELSE groupRow[e]
      BY <3>1 DEF TablesOK, AreTables
    <3>4. \A e \in Groups : groups[e].members \subseteq Exist(nodes)
      BY <3>3, <1>6, <1>7, <1>9 DEF AreTables
    <3>5. \A d, e \in Groups : groups[d].default /\ groups[e].default => d = e
      BY <3>3, <1>6, <1>9 DEF AreTables
    <3> QED BY <1>4, <3>2, <3>4, <3>5 DEF AreTables
  <2> QED BY <2>1, <2>2
<1> HIDE DEF groups
<1> QED BY <1>2, <1>10, Edited

LEMMA CommandIs ==
  ASSUME TablesOK,
         \/ \E w \in Commands :
              \/ CreateNode(w) \/ UpdateNode(w) \/ DeleteNode(w) \/ Reorder(w)
              \/ CreateGroup(w) \/ UpdateGroup(w) \/ DeleteGroup(w) \/ Import(w)
         \/ StoreStatus
  PROVE  \E w \in Writers : Commits(w)
<1>1. CASE StoreStatus
  <2>1. /\ edits' \in 0..MaxEdits /\ statuses' \in 0..MaxStatuses
        /\ Commit(StatusWriter, nodeRow, groupRow)
    BY <1>1, RoutingAssumption DEF TablesOK, StoreStatus, RoutingAssumption
  <2>2. nodeRow' = nodeRow /\ groupRow' = groupRow
    BY <2>1 DEF Commit
  <2>3. Commits(StatusWriter) /\ StatusWriter \in Writers
    BY <2>1, <2>2 DEF TablesOK, Commit, Commits, Writers
  <2> QED BY <2>3
<1>2. ASSUME NEW w \in Commands,
             \/ CreateNode(w) \/ UpdateNode(w) \/ DeleteNode(w) \/ Reorder(w)
             \/ CreateGroup(w) \/ UpdateGroup(w) \/ DeleteGroup(w) \/ Import(w)
      PROVE  Commits(w) /\ w \in Writers
  BY <1>2, CreateNodeCommits, UpdateNodeCommits, DeleteNodeCommits, ReorderCommits,
     CreateGroupCommits, UpdateGroupCommits, DeleteGroupCommits, ImportCommits DEF Commits
<1> QED BY <1>1, <1>2

-----------------------------------------------------------------------------
(* The writers. *)

Working == {"idle", "committed", "gathered"}

\* One writer at a time has the connection; what it read is what is there; and when nobody
\* has it, the snapshot says what the tables say, or a publication failed.
TablesInv ==
  /\ TablesOK /\ IsSnapshot(snap) /\ unpublished \in BOOLEAN
  /\ DOMAIN writer = Writers
  /\ \A w \in Writers : /\ writer[w] = [pc |-> writer[w].pc, read |-> writer[w].read]
                        /\ writer[w].pc \in Working
  /\ \A v, w \in Writers : writer[v].pc # "idle" /\ writer[w].pc # "idle" => v = w
  /\ \A w \in Writers :
       writer[w].pc = "gathered" =>
         writer[w].read = [nodes |-> nodeRow, groups |-> groupRow, previous |-> snap]
  /\ (\A w \in Writers : writer[w].pc = "idle") /\ ~unpublished
       => Follows(snap, nodeRow, groupRow)

LEMMA TablesBegin == ASSUME RoutingInit PROVE TablesInv
<1>1. AreTables(nodeRow, groupRow)
  <2>1. nodeRow \in [Nodes -> NodeRows \union {FreeNode, GoneNode}]
    BY StoredAssumption DEF RoutingInit, StoredAssumption
  <2>2. groupRow \in [Groups -> GroupRows \union {FreeGroup, GoneGroup}]
    BY StoredAssumption DEF RoutingInit, StoredAssumption
  <2>3. ASSUME NEW g \in Groups PROVE groupRow[g].members \subseteq Exist(nodeRow)
    <3>1. groupRow[g].members \subseteq Nodes
      BY <2>2, BlankGroups DEF GroupRows
    <3> QED BY <3>1, StoredAssumption DEF RoutingInit, StoredAssumption, Exist
  <2>4. \A f, g \in Groups : groupRow[f].default /\ groupRow[g].default => f = g
    BY StoredAssumption DEF RoutingInit, StoredAssumption
  <2> QED BY <2>1, <2>2, <2>3, <2>4 DEF AreTables
<1>2. TablesOK /\ unpublished \in BOOLEAN
  <2>1. edits = 0 /\ statuses = 0 /\ unpublished = FALSE
    BY DEF RoutingInit
  <2>2. edits \in 0..MaxEdits /\ statuses \in 0..MaxStatuses
    BY <2>1, RoutingAssumption DEF RoutingAssumption
  <2> QED BY <1>1, <2>1, <2>2 DEF TablesOK
<1>3. IsSnapshot(snap) /\ Follows(snap, nodeRow, groupRow)
  BY <1>1, EmptySnapshot, SnapshotIs DEF RoutingInit
<1>4. /\ DOMAIN writer = Writers
      /\ \A w \in Writers : writer[w] = [pc |-> "idle", read |-> NoRead]
  BY DEF RoutingInit
<1> QED BY <1>2, <1>3, <1>4 DEF TablesInv, Working

LEMMA CommitKeeps ==
  ASSUME TablesInv, NEW w \in Writers, Commits(w) PROVE TablesInv'
<1>1. TablesOK' /\ snap' = snap /\ unpublished' = unpublished
  BY DEF Commits, TablesOK
<1>2. /\ DOMAIN writer' = Writers
      /\ \A v \in Writers : writer'[v] = IF v = w THEN [pc |-> "committed", read |-> writer[v].read]
                                         ELSE writer[v]
  BY DEF Commits, TablesInv
<1>3. \A v \in Writers : writer[v].pc = "idle"
  BY DEF Commits, ConnectionFree
<1>4. \A v \in Writers : /\ writer'[v] = [pc |-> writer'[v].pc, read |-> writer'[v].read]
                         /\ writer'[v].pc \in Working
  BY <1>2 DEF TablesInv, Working
<1>5. \A v \in Writers : writer'[v].pc = IF v = w THEN "committed" ELSE "idle"
  BY <1>2, <1>3
<1> QED BY <1>1, <1>2, <1>4, <1>5 DEF TablesInv

LEMMA GatherKeeps ==
  ASSUME TablesInv, NEW w \in Writers, Gather(w) PROVE TablesInv'
<1>1. /\ nodeRow' = nodeRow /\ groupRow' = groupRow /\ edits' = edits /\ statuses' = statuses
      /\ snap' = snap /\ unpublished' = unpublished /\ writer[w].pc = "committed"
  BY DEF Gather, tableVars
<1>2. TablesOK' /\ IsSnapshot(snap')
  BY <1>1 DEF TablesInv, TablesOK
<1>3. /\ DOMAIN writer' = Writers
      /\ \A v \in Writers :
           writer'[v] = IF v = w
                        THEN [pc |-> "gathered", read |-> [nodes |-> nodeRow, groups |-> groupRow,
                                                           previous |-> snap]]
                        ELSE writer[v]
  BY DEF Gather, TablesInv
<1>4. \A v \in Writers : /\ writer'[v] = [pc |-> writer'[v].pc, read |-> writer'[v].read]
                         /\ writer'[v].pc \in Working
  BY <1>3 DEF TablesInv, Working
<1>5. \A v \in Writers : writer'[v].pc = IF v = w THEN "gathered" ELSE "idle"
  BY <1>1, <1>3 DEF TablesInv
<1>6. \A v \in Writers :
        writer'[v].pc = "gathered" =>
          writer'[v].read = [nodes |-> nodeRow', groups |-> groupRow', previous |-> snap']
  BY <1>1, <1>3, <1>5
<1> QED BY <1>1, <1>2, <1>3, <1>4, <1>5, <1>6 DEF TablesInv

LEMMA NotGatheredKeeps ==
  ASSUME TablesInv, NEW w \in Writers, NotGathered(w) PROVE TablesInv'
<1>1. /\ nodeRow' = nodeRow /\ groupRow' = groupRow /\ edits' = edits /\ statuses' = statuses
      /\ snap' = snap /\ unpublished' = TRUE /\ writer[w].pc = "committed"
  BY DEF NotGathered
<1>2. TablesOK' /\ IsSnapshot(snap')
  BY <1>1 DEF TablesInv, TablesOK
<1>3. /\ DOMAIN writer' = Writers
      /\ \A v \in Writers : writer'[v] = IF v = w THEN [pc |-> "idle", read |-> writer[v].read]
                                         ELSE writer[v]
  BY DEF NotGathered, TablesInv
<1>4. \A v \in Writers : /\ writer'[v] = [pc |-> writer'[v].pc, read |-> writer'[v].read]
                         /\ writer'[v].pc \in Working
  BY <1>3 DEF TablesInv, Working
<1>5. \A v \in Writers : writer'[v].pc = "idle"
  BY <1>1, <1>3 DEF TablesInv
<1> QED BY <1>1, <1>2, <1>3, <1>4, <1>5 DEF TablesInv

LEMMA SwapKeeps ==
  ASSUME TablesInv, NEW w \in Writers, SwapSnapshot(w)
  PROVE  TablesInv' /\ IsSnapshot(snap) /\ IsSnapshot(snap') /\ Succeeds(snap', snap)
<1>1. /\ nodeRow' = nodeRow /\ groupRow' = groupRow /\ edits' = edits /\ statuses' = statuses
      /\ unpublished' = FALSE /\ writer[w].pc = "gathered"
  BY DEF SwapSnapshot
<1>2. snap' = Snapshot(nodeRow, groupRow, snap)
  BY <1>1 DEF SwapSnapshot, TablesInv
<1>3. IsSnapshot(snap') /\ Follows(snap', nodeRow', groupRow') /\ Succeeds(snap', snap)
  BY <1>1, <1>2, SnapshotIs DEF TablesInv, TablesOK
<1>4. TablesOK'
  BY <1>1 DEF TablesInv, TablesOK
<1>5. /\ DOMAIN writer' = Writers
      /\ \A v \in Writers : writer'[v] = IF v = w THEN [pc |-> "idle", read |-> NoRead]
                                         ELSE writer[v]
  BY DEF SwapSnapshot, TablesInv
<1>6. \A v \in Writers : /\ writer'[v] = [pc |-> writer'[v].pc, read |-> writer'[v].read]
                         /\ writer'[v].pc \in Working
  BY <1>5 DEF TablesInv, Working
<1>7. \A v \in Writers : writer'[v].pc = "idle"
  BY <1>1, <1>5 DEF TablesInv
<1>8. TablesInv'
  BY <1>1, <1>3, <1>4, <1>5, <1>6, <1>7 DEF TablesInv
<1> QED BY <1>3, <1>8 DEF TablesInv

-----------------------------------------------------------------------------
(* Choosing a node. *)

LEMMA HighestIs ==
  ASSUME NEW g \in Groups, NEW h \in Hosts, NEW S \in SUBSET Nodes, S # {}
  PROVE  /\ Highest(g, h, S) \in S
         /\ \A m \in S : Affinity[g][h][m] <= Affinity[g][h][Highest(g, h, S)]
         /\ \A n \in S : (\A m \in S : Affinity[g][h][m] <= Affinity[g][h][n])
                           => n = Highest(g, h, S)
<1> DEFINE rank(n) == Affinity[g][h][n]
           f == [n \in S |-> 0 - rank(n)]
<1>1. \A n \in Nodes : rank(n) \in Nat
  BY AffinityAssumption DEF AffinityAssumption
<1>2. IsFiniteSet(S)
  BY RoutingAssumption, FS_Subset DEF RoutingAssumption
<1>3. \A n \in S : f[n] = 0 - rank(n) /\ f[n] \in Int
  BY <1>1
<1>4. PICK n \in S : \A m \in S : f[n] <= f[m]
  <2> HIDE DEF f
  <2> QED BY <1>2, <1>3, Least
<1>5. \A m \in S : rank(m) <= rank(n)
  <2> HIDE DEF f, rank
  <2> QED BY <1>1, <1>3, <1>4
<1>6. Highest(g, h, S) \in S /\ \A m \in S : rank(m) <= rank(Highest(g, h, S))
  BY <1>5 DEF Highest
<1>7. ASSUME NEW k \in S, \A m \in S : rank(m) <= rank(k) PROVE k = Highest(g, h, S)
  <2>1. Highest(g, h, S) \in S /\ rank(k) <= rank(Highest(g, h, S))
        /\ rank(Highest(g, h, S)) <= rank(k)
    BY <1>6, <1>7
  <2>2. rank(k) = rank(Highest(g, h, S))
    BY <2>1, <1>1
  <2> QED BY <2>1, <2>2, AffinityAssumption DEF AffinityAssumption
<1> QED BY <1>6, <1>7

\* A node that ranks first among many does so among fewer.
LEMMA HighestStays ==
  ASSUME NEW g \in Groups, NEW h \in Hosts, NEW S \in SUBSET Nodes, NEW T \in SUBSET S,
         Highest(g, h, S) \in T
  PROVE  Highest(g, h, T) = Highest(g, h, S)
<1> DEFINE n == Highest(g, h, S)
<1>1. n \in T /\ T \in SUBSET Nodes /\ T # {} /\ S # {}
  OBVIOUS
<1>2. \A k \in S : Affinity[g][h][k] <= Affinity[g][h][n]
  BY <1>1, HighestIs
<1> HIDE DEF n
<1> QED BY <1>1, <1>2, HighestIs DEF n

-----------------------------------------------------------------------------
(* The routes. *)

\* Where the index sends a host.
LEMMA PoolServes ==
  ASSUME IsSnapshot(snap), NEW h \in Hosts
  PROVE  LET pool == PoolIndex(snap.index, h)
         IN  /\ pool = LinearPool(snap.pools, h)
             /\ pool # NoPool =>
                  /\ pool \in 1..Len(snap.pools) /\ snap.pools[pool].id \in Groups
                  /\ snap.pools[pool] \in PoolRows
                  /\ snap.pools[pool].revision \in 0..snap.generation
                  /\ MembersOf(pool) = {n \in snap.pools[pool].members : snap.gens[n] # 0}
                  /\ MembersOf(pool) \subseteq Nodes
<1> DEFINE pool == PoolIndex(snap.index, h)
           N == {n \in Nodes : snap.gens[n] # 0}
<1>1. AreRuled(snap.pools) /\ snap.index = Build(snap.list, snap.pools)
  BY PoolsRuled DEF IsSnapshot
<1>2. pool = LinearPool(snap.pools, h) /\ pool \in {NoPool} \union 1..Len(snap.pools)
  BY <1>1, IndexIsSearch, RoutingAssumption DEF RoutingAssumption
<1> HIDE DEF pool
<1>3. ASSUME pool # NoPool
      PROVE  /\ pool \in 1..Len(snap.pools) /\ snap.pools[pool].id \in Groups
             /\ snap.pools[pool] \in PoolRows
             /\ snap.pools[pool].revision \in 0..snap.generation
             /\ MembersOf(pool) = {n \in snap.pools[pool].members : snap.gens[n] # 0}
             /\ MembersOf(pool) \subseteq Nodes
  <2>1. pool \in 1..Len(snap.pools)
    BY <1>2, <1>3
  <2>2. snap.pools[pool] \in PoolRows /\ snap.pools[pool].revision <= snap.generation
        /\ snap.generation \in Nat /\ Enumerates(snap.list, N)
    BY <2>1 DEF IsSnapshot
  <2>3. /\ snap.pools[pool].id \in Groups /\ snap.pools[pool].members \subseteq Nodes
        /\ snap.pools[pool].revision \in 0..snap.generation
    BY <2>2 DEF PoolRows
  <2>4. snap.index.members[pool]
          = {i \in 1..Len(snap.list) : snap.list[i] \in snap.pools[pool].members}
    BY <1>1, <2>1 DEF Build
  <2>5. /\ \A i \in 1..Len(snap.list) : snap.list[i] \in N
        /\ \A n \in N : \E i \in 1..Len(snap.list) : snap.list[i] = n
    BY <2>2 DEF Enumerates
  <2>6. MembersOf(pool) = {n \in snap.pools[pool].members : snap.gens[n] # 0}
    <3>1. ASSUME NEW n \in MembersOf(pool)
          PROVE  n \in snap.pools[pool].members /\ snap.gens[n] # 0
      BY <2>4, <2>5 DEF MembersOf
    <3>2. ASSUME NEW n \in snap.pools[pool].members, snap.gens[n] # 0
          PROVE  n \in MembersOf(pool)
      <4>1. PICK i \in 1..Len(snap.list) : snap.list[i] = n
        BY <2>3, <2>5, <3>2
      <4> QED BY <4>1, <2>4 DEF MembersOf
    <3> QED BY <3>1, <3>2
  <2> QED BY <2>1, <2>2, <2>3, <2>6
<1> QED BY <1>2, <1>3 DEF pool

Healths == {"active", "inactive", "open"}

RequestRows == [pc : {"idle", "dialing", "failed"}, host : Hosts \union {<< >>},
                tried : SUBSET Nodes, full : SUBSET Nodes,
                policy : [group : Nat, revision : Nat, preferred : Nat],
                node : Nat, gen : Nat]

\* Grounds, of any snapshot.
GroundsOf(s, g, n) ==
  LET pools == {p \in 1..Len(s.pools) : s.pools[p].id = g}
  IN  {<< s.confs[n], [s.pools[p] EXCEPT !.revision = 0],
          [m \in s.pools[p].members |-> s.confs[m]] >> : p \in pools}

\* A node of this generation and a pool of this revision: s has both, the pool at p.
Lasts(s, node, gen, id, rev, p) ==
  /\ p \in 1..Len(s.pools) /\ s.pools[p].id = id /\ s.pools[p].revision = rev
  /\ s.gens[node] = gen

\* What a connection carries away from the snapshot it chose by: a node and its
\* generation, and a pool and its revision.  If both are still in the snapshot, the node is
\* still a member of the pool.
RequestOK(s, q) ==
  /\ q \in RequestRows
  /\ q.pc # "idle" => q.host \in Hosts /\ q.node \in Nodes
  /\ q.pc = "dialing" => q.gen \in 1..s.generation
  /\ q.pc = "dialing" /\ q.policy # NoPolicy =>
       /\ q.policy.group \in Groups /\ q.policy.revision \in 0..s.generation
       /\ \A p : Lasts(s, q.node, q.gen, q.policy.group, q.policy.revision, p)
                   => q.node \in s.pools[p].members

\* So does a binding, and with it come the grounds it was made on.
BindingOK(s, now, k, b) ==
  /\ b.node \in Nodes /\ b.gen \in 1..s.generation /\ b.revision \in 0..s.generation
  /\ b.since \in 0..now /\ b.expires = b.since + Hold
  /\ \A p : Lasts(s, b.node, b.gen, k[1], b.revision, p)
              => b.node \in s.pools[p].members /\ b.grounds = GroundsOf(s, k[1], b.node)

Held(bindings) == {k \in DOMAIN bindings : bindings[k] # NoBinding}

RequestsOK == DOMAIN request = Requests /\ \A r \in Requests : RequestOK(snap, request[r])

BindingsOK ==
  /\ binding = [k \in Groups \X Hosts |-> binding[k]]
  /\ \A k \in Groups \X Hosts : binding[k] # NoBinding => BindingOK(snap, clock, k, binding[k])
  /\ IsFiniteSet(Held(binding)) /\ Cardinality(Held(binding)) <= MaxBindings

RoutesInv ==
  /\ health \in [Nodes -> Healths] /\ clock \in 0..MaxClock
  /\ RequestsOK /\ BindingsOK

\* The snapshot changes: what was carried away is as true as it was.
LEMMA GroundsStay ==
  ASSUME NEW s, NEW t, IsSnapshot(s), IsSnapshot(t), Succeeds(t, s),
         NEW n \in Nodes, NEW gen \in 1..s.generation, NEW g,
         NEW rev \in 0..s.generation, NEW p, Lasts(t, n, gen, g, rev, p)
  PROVE  /\ \E q : /\ Lasts(s, n, gen, g, rev, q)
                   /\ s.pools[q].members = t.pools[p].members
         /\ GroundsOf(t, g, n) = GroundsOf(s, g, n)
<1>0. /\ p \in 1..Len(t.pools) /\ t.pools[p].id = g /\ t.pools[p].revision = rev
      /\ t.gens[n] = gen
  BY DEF Lasts
<1>1. s.generation \in Nat /\ t.generation = s.generation + 1
  BY DEF IsSnapshot, Succeeds
<1>2. s.gens[n] = gen /\ t.confs[n] = s.confs[n]
  BY <1>0, <1>1 DEF Succeeds
<1>3. PICK q \in 1..Len(s.pools) :
        /\ s.pools[q].id = g /\ s.pools[q].revision = rev
        /\ SamePool(s.pools[q], t.pools[p])
        /\ \A m \in t.pools[p].members : s.gens[m] = t.gens[m]
  <2>1. t.pools[p].revision # t.generation
    BY <1>0, <1>1
  <2> QED BY <1>0, <2>1 DEF Succeeds
<1> DEFINE old == s.pools[q]  new == t.pools[p]
           ground(conf, pool, confs) ==
             << conf, [pool EXCEPT !.revision = 0], [m \in pool.members |-> confs[m]] >>
<1>4. old \in PoolRows /\ new \in PoolRows
  BY <1>0 DEF IsSnapshot
<1>5. /\ old.id = new.id /\ old.members = new.members /\ old.rules = new.rules
      /\ old.default = new.default /\ old.sticky = new.sticky
  BY <1>0, <1>3 DEF SamePool
<1>6. [old EXCEPT !.revision = 0] = [new EXCEPT !.revision = 0]
  <2> HIDE DEF old, new
  <2> QED BY <1>4, <1>5 DEF PoolRows
<1>7. [m \in old.members |-> s.confs[m]] = [m \in new.members |-> t.confs[m]]
  <2>1. new.members \subseteq Nodes
    BY <1>4 DEF PoolRows
  <2>2. \A m \in new.members : t.confs[m] = s.confs[m]
    BY <2>1, <1>3 DEF Succeeds
  <2> HIDE DEF old, new
  <2> QED BY <2>2, <1>5
<1>8. {r \in 1..Len(s.pools) : s.pools[r].id = g} = {q}
  BY <1>3 DEF IsSnapshot
<1>9. {r \in 1..Len(t.pools) : t.pools[r].id = g} = {p}
  BY <1>0 DEF IsSnapshot
<1>10. GroundsOf(s, g, n) = {ground(s.confs[n], old, s.confs)}
  BY <1>8 DEF GroundsOf
<1>11. GroundsOf(t, g, n) = {ground(t.confs[n], new, t.confs)}
  BY <1>9 DEF GroundsOf
<1>12. ground(t.confs[n], new, t.confs) = ground(s.confs[n], old, s.confs)
  <2> HIDE DEF old, new
  <2> QED BY <1>2, <1>6, <1>7
<1> HIDE DEF ground
<1> QED BY <1>2, <1>3, <1>5, <1>10, <1>11, <1>12 DEF Lasts

LEMMA SwapKeepsRoutes ==
  ASSUME RoutesInv, IsSnapshot(snap), IsSnapshot(snap'), Succeeds(snap', snap),
         UNCHANGED << health, binding, request, clock >>
  PROVE  RoutesInv'
<1>1. snap.generation \in Nat /\ snap'.generation = snap.generation + 1
  BY DEF IsSnapshot, Succeeds
<1>2. ASSUME NEW q, RequestOK(snap, q) PROVE RequestOK(snap', q)
  <2>1. q.pc = "dialing" => q.gen \in 1..snap'.generation
    BY <1>1, <1>2 DEF RequestOK
  <2>2. ASSUME q.pc = "dialing", q.policy # NoPolicy
        PROVE  q.policy.group \in Groups /\ q.policy.revision \in 0..snap'.generation
    BY <1>1, <1>2, <2>2 DEF RequestOK
  <2>3. ASSUME q.pc = "dialing", q.policy # NoPolicy, NEW p,
               Lasts(snap', q.node, q.gen, q.policy.group, q.policy.revision, p)
        PROVE  q.node \in snap'.pools[p].members
    <3>1. /\ q.node \in Nodes /\ q.gen \in 1..snap.generation
          /\ q.policy.revision \in 0..snap.generation
      BY <1>2, <2>3 DEF RequestOK
    <3>2. /\ \E s : /\ Lasts(snap, q.node, q.gen, q.policy.group, q.policy.revision, s)
                    /\ snap.pools[s].members = snap'.pools[p].members
          /\ GroundsOf(snap', q.policy.group, q.node) = GroundsOf(snap, q.policy.group, q.node)
      <4> DEFINE n == q.node  gen == q.gen  g == q.policy.group  rev == q.policy.revision
      <4>1. /\ n \in Nodes /\ gen \in 1..snap.generation /\ rev \in 0..snap.generation
            /\ Lasts(snap', n, gen, g, rev, p)
        BY <3>1, <2>3
      <4> HIDE DEF n, gen, g, rev
      <4>2. /\ \E s : /\ Lasts(snap, n, gen, g, rev, s)
                      /\ snap.pools[s].members = snap'.pools[p].members
            /\ GroundsOf(snap', g, n) = GroundsOf(snap, g, n)
        BY <4>1, GroundsStay
      <4> QED BY <4>2 DEF n, gen, g, rev
    <3> QED BY <3>2, <1>2, <2>3 DEF RequestOK
  <2>4. q.pc # "idle" => q.host \in Hosts /\ q.node \in Nodes
    BY <1>2 DEF RequestOK
  <2>5. q \in RequestRows
    BY <1>2 DEF RequestOK
  <2> QED BY <2>1, <2>2, <2>3, <2>4, <2>5 DEF RequestOK
<1>3. ASSUME NEW k, NEW b, BindingOK(snap, clock, k, b) PROVE BindingOK(snap', clock', k, b)
  <2>1. /\ b.node \in Nodes /\ b.gen \in 1..snap.generation /\ b.revision \in 0..snap.generation
        /\ b.since \in 0..clock /\ b.expires = b.since + Hold
    BY <1>3 DEF BindingOK
  <2>2. b.gen \in 1..snap'.generation /\ b.revision \in 0..snap'.generation
    BY <1>1, <2>1
  <2>3. ASSUME NEW p, Lasts(snap', b.node, b.gen, k[1], b.revision, p)
        PROVE  b.node \in snap'.pools[p].members /\ b.grounds = GroundsOf(snap', k[1], b.node)
    <3>1. /\ \E s : /\ Lasts(snap, b.node, b.gen, k[1], b.revision, s)
                    /\ snap.pools[s].members = snap'.pools[p].members
          /\ GroundsOf(snap', k[1], b.node) = GroundsOf(snap, k[1], b.node)
      BY <2>1, <2>3, GroundsStay
    <3> QED BY <3>1, <1>3 DEF BindingOK
  <2> QED BY <2>1, <2>2, <2>3 DEF BindingOK
<1>4. RequestsOK'
  BY <1>2 DEF RoutesInv, RequestsOK
<1>5. BindingsOK'
  BY <1>3 DEF RoutesInv, BindingsOK
<1> QED BY <1>4, <1>5 DEF RoutesInv

LEMMA ForemostIs ==
  ASSUME NEW g \in Groups, NEW h \in Hosts, NEW S \in SUBSET Nodes, S # {}
  PROVE  /\ Foremost(g, h, S) \in S
         /\ \A M \in SUBSET Nodes : S \subseteq M /\ Highest(g, h, M) \in Active(S)
                                      => Foremost(g, h, S) = Highest(g, h, M)
<1>1. Active(S) \in SUBSET S /\ Active(S) \in SUBSET Nodes
  BY DEF Active
<1>2. Foremost(g, h, S) \in S
  BY <1>1, HighestIs DEF Foremost
<1>3. ASSUME NEW M \in SUBSET Nodes, S \subseteq M, Highest(g, h, M) \in Active(S)
      PROVE  Foremost(g, h, S) = Highest(g, h, M)
  <2>1. Active(S) # {} /\ Active(S) \in SUBSET M
    BY <1>1, <1>3
  <2>2. Highest(g, h, Active(S)) = Highest(g, h, M)
    BY <1>3, <2>1, HighestStays
  <2> QED BY <2>1, <2>2 DEF Foremost
<1> QED BY <1>2, <1>3

LEMMA ChooseIs ==
  ASSUME NEW pool, NEW h, NEW S, NEW b, snap.pools[pool].sticky
  PROVE  LET c == Choose(pool, h, S, b)
         IN  /\ Holds(b, snap.pools[pool].revision, S) =>
                  c.binding = b /\ c.node = b.node /\ b.node \in S
             /\ ~Holds(b, snap.pools[pool].revision, S) =>
                  /\ c.binding = NoBinding
                  /\ c.node = IF S = {} THEN 0 ELSE Foremost(snap.pools[pool].id, h, S)
<1> DEFINE held == Holds(b, snap.pools[pool].revision, S)
           c == Choose(pool, h, S, b)
<1>1. c = [node |-> IF S = {} THEN 0 ELSE IF held THEN b.node
                    ELSE Foremost(snap.pools[pool].id, h, S),
           binding |-> IF ~held THEN NoBinding ELSE b]
  BY DEF Choose
<1>2. held => b.node \in S
  BY DEF Holds, Active
<1> HIDE DEF held, c
<1>3. held => c.binding = b /\ c.node = b.node /\ b.node \in S
  BY <1>1, <1>2
<1>4. ~held => c.binding = NoBinding
               /\ c.node = IF S = {} THEN 0 ELSE Foremost(snap.pools[pool].id, h, S)
  BY <1>1
<1> QED BY <1>3, <1>4 DEF held, c

\* The pool of a host, its nodes, and those of them that can be tried.
PoolFor(h) == snap.pools[PoolIndex(snap.index, h)]
NodesFor(h) == MembersOf(PoolIndex(snap.index, h))
Candidates(h, tried) == {n \in NodesFor(h) : n \notin tried /\ health[n] # "open"}
First(h) == Highest(PoolFor(h).id, h, NodesFor(h))
Remembered(h) == binding[<< PoolFor(h).id, h >>]

\* What a selection makes of the request (q) and leaves of the binding (c).
Selected(h, tried, full, q, c) ==
  LET b == Remembered(h)
      p == PoolFor(h)
      held == Holds(b, p.revision, Candidates(h, tried))
  IN  /\ full \subseteq Candidates(h, tried)
      /\ c \in {NoBinding, b}
      /\ c = NoBinding /\ held => b.node \in full
      /\ \/ q = Resting
         \/ /\ q.pc = "dialing" /\ q.host = h /\ q.tried = tried
            /\ q.full = full \intersect {First(h), b.node}
            /\ q.node \in Candidates(h, tried) /\ q.gen = snap.gens[q.node]
            /\ q.policy \in {NoPolicy, [group |-> p.id, revision |-> p.revision,
                                        preferred |-> First(h)]}
            /\ First(h) \in Active(Candidates(h, tried)) \ full
                 => q.node = First(h) \/ (held /\ q.node = b.node)
            /\ q \in RequestRows

LEMMA SelectIs ==
  ASSUME IsSnapshot(snap), NEW r, NEW h \in Hosts, NEW tried \in SUBSET Nodes,
         SelectNode(r, h, tried)
  PROVE  /\ PoolIndex(snap.index, h) # NoPool /\ PoolFor(h).sticky /\ NodesFor(h) # {}
         /\ \E full, q, c :
              /\ Selected(h, tried, full, q, c)
              /\ binding' = [binding EXCEPT ![<< PoolFor(h).id, h >>] = c]
              /\ request' = [request EXCEPT ![r] = q]
<1> DEFINE pool == PoolIndex(snap.index, h)
           p == PoolFor(h)
           S == Candidates(h, tried)
           b == Remembered(h)
           first == Choose(pool, h, S, b)
           again(full) == Choose(pool, h, S \ full, first.binding)
           chosen(full) == IF first.node \in full THEN again(full) ELSE first
           asked(full) ==
             IF chosen(full).node = 0 THEN Resting
             ELSE [pc |-> "dialing", host |-> h, tried |-> tried,
                   full |-> full \intersect {First(h), b.node},
                   policy |-> IF First(h) \in Active(S) THEN NoPolicy
                              ELSE [group |-> p.id, revision |-> p.revision,
                                    preferred |-> First(h)],
                   node |-> chosen(full).node, gen |-> snap.gens[chosen(full).node]]
<1>1. pool # NoPool /\ p.sticky /\ NodesFor(h) # {}
  BY DEF SelectNode, PoolFor, NodesFor
<1>2. PICK full \in SUBSET S :
        /\ binding' = [binding EXCEPT ![<< p.id, h >>] = chosen(full).binding]
        /\ request' = [request EXCEPT ![r] = asked(full)]
  BY DEF SelectNode, PoolFor, NodesFor, Candidates, First, Remembered
<1>3. /\ p.id \in Groups /\ p \in PoolRows /\ NodesFor(h) \in SUBSET Nodes
      /\ p.revision \in 0..snap.generation /\ snap.generation \in Nat
      /\ snap.gens \in [Nodes -> 0..snap.generation]
  BY <1>1, PoolServes DEF PoolFor, NodesFor, IsSnapshot
<1>4. S \in SUBSET NodesFor(h) /\ S \in SUBSET Nodes
  BY <1>3 DEF Candidates
<1>5. First(h) \in NodesFor(h)
  BY <1>1, <1>3, HighestIs DEF First
<1> DEFINE c1 == first  c2 == again(full)
           held == Holds(b, p.revision, S)
           heldAgain == Holds(first.binding, p.revision, S \ full)
<1>6. /\ held => c1.binding = b /\ c1.node = b.node /\ b.node \in S
      /\ ~held => c1.binding = NoBinding /\ c1.node = IF S = {} THEN 0 ELSE Foremost(p.id, h, S)
  BY <1>1, ChooseIs DEF PoolFor
<1>7. /\ heldAgain => c2.binding = c1.binding /\ c2.node = c1.binding.node
                      /\ c1.binding.node \in S \ full
      /\ ~heldAgain => c2.binding = NoBinding
                       /\ c2.node = IF S \ full = {} THEN 0 ELSE Foremost(p.id, h, S \ full)
  BY <1>1, ChooseIs DEF PoolFor
<1>8. chosen(full) = IF c1.node \in full THEN c2 ELSE c1
  OBVIOUS
<1>9. ~Holds(NoBinding, p.revision, S \ full) /\ (held => b # NoBinding)
  BY DEF Holds
<1>10. ASSUME NEW T \in SUBSET S, T # {} 
       PROVE  Foremost(p.id, h, T) \in T
              /\ (First(h) \in Active(T) => Foremost(p.id, h, T) = First(h))
  BY <1>3, <1>4, <1>10, ForemostIs DEF First
<1> DEFINE c == chosen(full)  q == asked(full)
<1>11. q = IF c.node = 0 THEN Resting
           ELSE [pc |-> "dialing", host |-> h, tried |-> tried,
                 full |-> full \intersect {First(h), b.node},
                 policy |-> IF First(h) \in Active(S) THEN NoPolicy
                            ELSE [group |-> p.id, revision |-> p.revision,
                                  preferred |-> First(h)],
                 node |-> c.node, gen |-> snap.gens[c.node]]
  OBVIOUS
<1> HIDE DEF p, S, b, c, q, c1, c2, held, heldAgain, first, chosen, again, asked
<1>12. c.binding \in {NoBinding, b}
  BY <1>6, <1>7, <1>8 DEF c
<1>13. c.binding = NoBinding /\ held => b.node \in full
  BY <1>6, <1>7, <1>8, <1>9 DEF c
<1>14. c.node = 0 \/ c.node \in S
  BY <1>6, <1>7, <1>8, <1>10 DEF c
<1>15. First(h) \in Active(S) \ full => c.node = First(h) \/ (held /\ c.node = b.node)
  <2> SUFFICES ASSUME First(h) \in Active(S) \ full
               PROVE  c.node = First(h) \/ (held /\ c.node = b.node)
    OBVIOUS
  <2>1. First(h) \in Active(S \ full) /\ S # {} /\ S \ full # {}
    BY DEF Active
  <2>2. Foremost(p.id, h, S) = First(h) /\ Foremost(p.id, h, S \ full) = First(h)
    BY <2>1, <1>10
  <2>3. CASE held
    <3>1. CASE b.node \in full
      <4>1. c1.binding = b /\ c.node = c2.node
        BY <2>3, <3>1, <1>6, <1>8 DEF c
      <4>2. ~heldAgain
        BY <4>1, <3>1, <1>7
      <4> QED BY <4>1, <4>2, <2>1, <2>2, <1>7
    <3>2. CASE b.node \notin full
      BY <2>3, <3>2, <1>6, <1>8 DEF c
    <3> QED BY <3>1, <3>2
  <2>4. CASE ~held
    BY <2>1, <2>2, <2>4, <1>6, <1>8 DEF c
  <2> QED BY <2>3, <2>4
<1>16. CASE c.node = 0
  <2>1. q = Resting
    BY <1>16, <1>11
  <2>2. Selected(h, tried, full, q, c.binding)
    BY <1>12, <1>13, <2>1 DEF Selected, p, S, b, held
  <2> QED BY <1>1, <1>2, <2>2 DEF c, q, p, pool
<1>17. CASE c.node # 0
  <2>1. c.node \in S /\ c.node \in Nodes /\ First(h) \in Nodes /\ Nodes \subseteq Nat
    BY <1>3, <1>4, <1>5, <1>14, <1>17, RoutingAssumption DEF RoutingAssumption
  <2> DEFINE policy == [group |-> p.id, revision |-> p.revision, preferred |-> First(h)]
             f == full \intersect {First(h), b.node}
  <2>2. policy \in [group : Nat, revision : Nat, preferred : Nat]
        /\ NoPolicy \in [group : Nat, revision : Nat, preferred : Nat]
    <3>1. p.id \in Nat
      BY <1>3, RoutingAssumption DEF RoutingAssumption
    <3>2. p.revision \in Nat
      BY <1>3
    <3>3. First(h) \in Nat
      BY <2>1
    <3> QED BY <3>1, <3>2, <3>3 DEF NoPolicy
  <2>3. f \in SUBSET Nodes /\ snap.gens[c.node] \in Nat
    <3>1. snap.gens[c.node] \in 0..snap.generation
      BY <1>3, <2>1
    <3>2. full \subseteq Nodes
      BY <1>4
    <3> QED BY <1>3, <3>1, <3>2
  <2>4. q = [pc |-> "dialing", host |-> h, tried |-> tried, full |-> f,
             policy |-> IF First(h) \in Active(S) THEN NoPolicy ELSE policy,
             node |-> c.node, gen |-> snap.gens[c.node]]
    BY <1>11, <1>17
  <2> HIDE DEF policy, f
  <2>5. /\ q.pc = "dialing" /\ q.host = h /\ q.tried = tried /\ q.full = f
        /\ q.policy \in {NoPolicy, policy} /\ q.node = c.node /\ q.gen = snap.gens[c.node]
    BY <2>4
  <2>6. q \in RequestRows
    BY <2>1, <2>2, <2>3, <2>4 DEF RequestRows
  <2>7. Selected(h, tried, full, q, c.binding)
    BY <1>12, <1>13, <1>15, <2>1, <2>5, <2>6 DEF Selected, p, S, b, held, policy, f
  <2> QED BY <1>1, <1>2, <2>7 DEF c, q, p, pool
<1> QED BY <1>16, <1>17

-----------------------------------------------------------------------------
(* The steps of the connections. *)

LEMMA BindingStays ==
  ASSUME NEW s, NEW now \in Nat, NEW later \in Nat, now <= later,
         NEW k, NEW b, BindingOK(s, now, k, b)
  PROVE  BindingOK(s, later, k, b)
<1>1. b.since \in 0..later
  BY DEF BindingOK
<1> QED BY <1>1 DEF BindingOK

LEMMA Forgotten ==
  ASSUME BindingsOK, snap' = snap, clock \in Nat, clock' \in Nat, clock <= clock',
         binding' = [k \in Groups \X Hosts |-> binding'[k]],
         \A k \in Groups \X Hosts : binding'[k] \in {NoBinding, binding[k]}
  PROVE  BindingsOK'
<1>1. ASSUME NEW k \in Groups \X Hosts, binding'[k] # NoBinding
      PROVE  BindingOK(snap', clock', k, binding'[k])
  <2>1. binding'[k] = binding[k]
    BY <1>1
  <2>2. BindingOK(snap, clock, k, binding[k])
    BY <1>1, <2>1 DEF BindingsOK
  <2> QED BY <2>1, <2>2, BindingStays
<1>2. DOMAIN binding = Groups \X Hosts /\ DOMAIN binding' = Groups \X Hosts
  BY DEF BindingsOK
<1>3. Held(binding') \subseteq Held(binding)
  BY <1>2 DEF Held
<1>4. IsFiniteSet(Held(binding)) /\ Cardinality(Held(binding)) <= MaxBindings
  BY DEF BindingsOK
<1>5. IsFiniteSet(Held(binding')) /\ Cardinality(Held(binding')) <= Cardinality(Held(binding))
  BY <1>3, <1>4, FS_Subset
<1>6. Cardinality(Held(binding')) <= MaxBindings
  <2>1. /\ Cardinality(Held(binding')) \in Nat /\ Cardinality(Held(binding)) \in Nat
        /\ MaxBindings \in Nat
    BY <1>4, <1>5, FS_CardinalityType, RoutingAssumption DEF RoutingAssumption
  <2> QED BY <2>1, <1>4, <1>5
<1> QED BY <1>1, <1>5, <1>6 DEF BindingsOK

LEMMA RestingOK == RequestOK(snap, Resting)
<1>1. Resting \in RequestRows
  BY DEF Resting, RequestRows, NoPolicy
<1>2. Resting.pc = "idle"
  BY DEF Resting
<1> QED BY <1>1, <1>2 DEF RequestOK

\* A request that rests or keeps its shape.
LEMMA OneRequest ==
  ASSUME RequestsOK, NEW r, NEW q, RequestOK(snap, q), snap' = snap,
         request' = [request EXCEPT ![r] = q]
  PROVE  RequestsOK'
<1>1. DOMAIN request' = Requests
      /\ \A s \in Requests : request'[s] = IF s = r THEN q ELSE request[s]
  BY DEF RequestsOK
<1>2. \A s \in Requests : RequestOK(snap', request'[s])
  BY <1>1 DEF RequestsOK
<1> QED BY <1>1, <1>2 DEF RequestsOK

LEMMA SelectKeeps ==
  ASSUME RoutesInv, IsSnapshot(snap), NEW r, NEW h \in Hosts,
         NEW tried \in SUBSET Nodes, SelectNode(r, h, tried)
  PROVE  RoutesInv'
<1>1. snap' = snap /\ clock' = clock /\ health' = health /\ clock \in Nat
  <2>1. clock \in Nat
    BY RoutingAssumption DEF RoutesInv, RoutingAssumption
  <2>2. UNCHANGED << tableVars, snap, writer, healthVars, clock >>
    BY DEF SelectNode
  <2> QED BY <2>1, <2>2 DEF healthVars
<1>2. PICK full, q, c :
        /\ Selected(h, tried, full, q, c)
        /\ binding' = [binding EXCEPT ![<< PoolFor(h).id, h >>] = c]
        /\ request' = [request EXCEPT ![r] = q]
  BY SelectIs
<1>3. BindingsOK'
  <2>1. c \in {NoBinding, binding[<< PoolFor(h).id, h >>]}
    BY <1>2 DEF Selected, Remembered
  <2>2. binding = [k \in Groups \X Hosts |-> binding[k]]
    BY DEF RoutesInv, BindingsOK
  <2>3. \A k \in Groups \X Hosts : binding'[k] \in {NoBinding, binding[k]}
    BY <1>2, <2>1, <2>2
  <2>4. binding' = [k \in Groups \X Hosts |-> binding'[k]]
    BY <1>2, <2>2
  <2> QED BY <1>1, <2>3, <2>4, Forgotten DEF RoutesInv
<1>4. RequestOK(snap, q)
  <2>1. CASE q = Resting
    BY <2>1, RestingOK
  <2>2. CASE q # Resting
    <3> DEFINE p == PoolFor(h)
    <3>1. /\ q.pc = "dialing" /\ q.host = h /\ q.node \in Candidates(h, tried)
          /\ q.gen = snap.gens[q.node] /\ q \in RequestRows
          /\ q.policy \in {NoPolicy, [group |-> p.id, revision |-> p.revision,
                                      preferred |-> First(h)]}
      BY <1>2, <2>2 DEF Selected
    <3>2. /\ p.id \in Groups /\ p.revision \in 0..snap.generation
          /\ p = snap.pools[PoolIndex(snap.index, h)]
          /\ PoolIndex(snap.index, h) \in 1..Len(snap.pools)
          /\ NodesFor(h) = {n \in p.members : snap.gens[n] # 0} /\ NodesFor(h) \subseteq Nodes
      BY SelectIs, PoolServes DEF PoolFor, NodesFor
    <3>3. q.node \in p.members /\ q.node \in Nodes /\ q.gen \in 1..snap.generation
      <4>1. q.node \in NodesFor(h) /\ snap.gens \in [Nodes -> 0..snap.generation]
            /\ snap.generation \in Nat
        BY <3>1 DEF Candidates, IsSnapshot
      <4>2. q.node \in p.members /\ q.node \in Nodes /\ snap.gens[q.node] # 0
        BY <4>1, <3>2
      <4>3. snap.gens[q.node] \in 0..snap.generation
        BY <4>1, <4>2
      <4> QED BY <4>1, <4>2, <4>3, <3>1
    <3>4. ASSUME q.policy # NoPolicy
          PROVE  /\ q.policy.group \in Groups /\ q.policy.revision \in 0..snap.generation
                 /\ \A s : Lasts(snap, q.node, q.gen, q.policy.group, q.policy.revision, s)
                             => q.node \in snap.pools[s].members
      <4>1. q.policy.group = p.id /\ q.policy.revision = p.revision
        BY <3>1, <3>4
      <4>2. \A s \in 1..Len(snap.pools) :
              snap.pools[s].id = p.id => s = PoolIndex(snap.index, h)
        BY <3>2 DEF IsSnapshot
      <4> QED BY <4>1, <4>2, <3>2, <3>3 DEF Lasts
    <3> HIDE DEF p
    <3> QED BY <3>1, <3>3, <3>4 DEF RequestOK
  <2> QED BY <2>1, <2>2
<1>5. RequestsOK'
  BY <1>1, <1>2, <1>4, OneRequest DEF RoutesInv
<1> QED BY <1>1, <1>3, <1>5 DEF RoutesInv

LEMMA RememberKeeps ==
  ASSUME RoutesInv, IsSnapshot(snap), NEW r \in Requests, request[r].pc = "dialing", Owned(r),
         Remember(r), snap' = snap, clock' = clock
  PROVE  BindingsOK'
<1> DEFINE q == request[r]
           key == << q.policy.group, q.host >>
           pools == {p \in 1..Len(snap.pools) : /\ snap.pools[p].id = q.policy.group
                                               /\ snap.pools[p].revision = q.policy.revision}
           live == [k \in DOMAIN binding |->
                      IF binding[k].expires > clock THEN binding[k] ELSE NoBinding]
           new == [node |-> q.node, gen |-> q.gen, revision |-> q.policy.revision,
                   expires |-> clock + Hold, since |-> clock,
                   grounds |-> Grounds(q.policy.group, q.node)]
<1>1. /\ clock \in Nat /\ Hold \in Nat \ {0} /\ MaxBindings \in Nat \ {0}
      /\ snap.generation \in Nat
  BY RoutingAssumption DEF RoutesInv, RoutingAssumption, IsSnapshot
<1>2. /\ binding = [k \in Groups \X Hosts |-> binding[k]]
      /\ DOMAIN binding = Groups \X Hosts
      /\ \A k \in Groups \X Hosts : binding[k] # NoBinding => BindingOK(snap, clock, k, binding[k])
      /\ IsFiniteSet(Held(binding)) /\ Cardinality(Held(binding)) <= MaxBindings
  BY DEF RoutesInv, BindingsOK
<1>3. \/ binding' = binding
      \/ /\ q.policy # NoPolicy /\ pools # {}
         /\ binding' = [MakeRoom(live) EXCEPT ![key] = new]
  BY DEF Remember
<1>4. CASE binding' = binding
  BY <1>4, <1>1, <1>2, Forgotten DEF RoutesInv
<1>5. CASE /\ q.policy # NoPolicy /\ pools # {}
           /\ binding' = [MakeRoom(live) EXCEPT ![key] = new]
  <2>1. /\ q.node \in Nodes /\ q.host \in Hosts /\ q.gen \in 1..snap.generation
        /\ q.policy.group \in Groups /\ q.policy.revision \in 0..snap.generation
        /\ \A p : Lasts(snap, q.node, q.gen, q.policy.group, q.policy.revision, p)
                    => q.node \in snap.pools[p].members
    BY <1>5 DEF RoutesInv, RequestsOK, RequestOK
  <2>2. key \in Groups \X Hosts
    BY <2>1
  <2>3. BindingOK(snap, clock, key, new)
    <3>1. /\ new.node = q.node /\ new.gen = q.gen /\ new.revision = q.policy.revision
          /\ new.since = clock /\ new.expires = clock + Hold
          /\ new.grounds = GroundsOf(snap, q.policy.group, q.node) /\ key[1] = q.policy.group
      BY DEF Grounds, GroundsOf
    <3> HIDE DEF new, key, q
    <3>2. new.since \in 0..clock /\ new.expires = new.since + Hold
      BY <3>1, <1>1
    <3> QED BY <3>1, <3>2, <2>1 DEF BindingOK
  \* What is left of the others, and that there is room for the new one.
  <2> DEFINE held == Held(live)
             oldest == CHOOSE k \in held : \A l \in held : live[k].expires <= live[l].expires
             room == MakeRoom(live)
  <2>4. /\ DOMAIN live = Groups \X Hosts /\ live = [k \in Groups \X Hosts |-> live[k]]
        /\ \A k \in Groups \X Hosts : live[k] \in {NoBinding, binding[k]}
    BY <1>2
  <2>5. held \subseteq Held(binding)
    BY <1>2, <2>4 DEF Held
  <2>6. /\ IsFiniteSet(held) /\ Cardinality(held) \in Nat /\ Cardinality(held) <= MaxBindings
    <3> HIDE DEF held
    <3>1. /\ IsFiniteSet(held) /\ Cardinality(held) <= Cardinality(Held(binding))
          /\ Cardinality(held) \in Nat /\ Cardinality(Held(binding)) \in Nat
      BY <1>2, <2>5, FS_Subset, FS_CardinalityType
    <3> QED BY <3>1, <1>1, <1>2
  <2>7. room = IF Cardinality(held) < MaxBindings THEN live ELSE [live EXCEPT ![oldest] = NoBinding]
    BY DEF MakeRoom, Held
  <2> HIDE DEF live, new, key
  <2>8. /\ room = [k \in Groups \X Hosts |-> room[k]] /\ DOMAIN room = Groups \X Hosts
        /\ \A k \in Groups \X Hosts : room[k] \in {NoBinding, live[k]}
    <3> HIDE DEF room, held, oldest
    <3> QED BY <2>4, <2>7
  <2>9. /\ IsFiniteSet(Held(room)) /\ Cardinality(Held(room)) \in Nat
        /\ Cardinality(Held(room)) < MaxBindings
    <3>1. CASE Cardinality(held) < MaxBindings
      BY <3>1, <2>6, <2>7
    <3>2. CASE ~(Cardinality(held) < MaxBindings)
      <4>1. held # {}
        BY <3>2, <1>1, FS_EmptySet
      <4>2. \A k \in held : live[k].expires \in Nat
        <5> SUFFICES ASSUME NEW k \in held PROVE live[k].expires \in Nat
          OBVIOUS
        <5>1. k \in Groups \X Hosts /\ live[k] = binding[k] /\ binding[k] # NoBinding
          BY <2>4 DEF Held
        <5>2. BindingOK(snap, clock, k, binding[k])
          BY <5>1, <1>2
        <5>3. binding[k].since \in Nat /\ binding[k].expires = binding[k].since + Hold
          BY <5>2, <1>1 DEF BindingOK
        <5> QED BY <5>1, <5>3, <1>1
      <4> DEFINE f == [k \in held |-> live[k].expires]
      <4>3. \E k \in held : \A l \in held : live[k].expires <= live[l].expires
        <5>1. \A k \in held : f[k] \in Int /\ f[k] = live[k].expires
          BY <4>2
        <5> HIDE DEF f, held
        <5>2. \E k \in held : \A l \in held : f[k] <= f[l]
          BY <4>1, <5>1, <2>6, Least
        <5> QED BY <5>1, <5>2
      <4>4. oldest \in held
        BY <4>3
      <4>5. Held(room) \subseteq held \ {oldest}
        <5>1. room = [live EXCEPT ![oldest] = NoBinding]
          BY <2>7, <3>2
        <5> HIDE DEF room, oldest
        <5> QED BY <5>1, <2>4, <2>8, <4>4 DEF Held
      <4> HIDE DEF held, room, oldest
      <4>6. IsFiniteSet(held \ {oldest}) /\ Cardinality(held \ {oldest}) = Cardinality(held) - 1
        BY <4>4, <2>6, FS_RemoveElement
      <4>7. /\ IsFiniteSet(Held(room)) /\ Cardinality(Held(room)) \in Nat
            /\ Cardinality(Held(room)) <= Cardinality(held \ {oldest})
        BY <4>5, <4>6, FS_Subset, FS_CardinalityType
      <4> QED BY <4>6, <4>7, <2>6, <1>1
    <3> QED BY <3>1, <3>2
  <2> HIDE DEF room, held, oldest
  <2>10. /\ binding' = [k \in Groups \X Hosts |-> binding'[k]]
         /\ DOMAIN binding' = Groups \X Hosts
         /\ \A k \in Groups \X Hosts : binding'[k] = IF k = key THEN new ELSE room[k]
    BY <1>5, <2>8 DEF room
  <2>11. ASSUME NEW k \in Groups \X Hosts, binding'[k] # NoBinding
         PROVE  BindingOK(snap', clock', k, binding'[k])
    <3>1. binding'[k] = IF k = key THEN new ELSE binding[k]
      BY <2>4, <2>8, <2>10, <2>11
    <3> QED BY <3>1, <1>2, <2>3, <2>11
  <2>12. Held(binding') \subseteq Held(room) \union {key}
    BY <2>8, <2>10 DEF Held
  <2>13. IsFiniteSet(Held(binding')) /\ Cardinality(Held(binding')) <= MaxBindings
    <3>1. /\ IsFiniteSet(Held(room) \union {key})
          /\ Cardinality(Held(room) \union {key}) <= Cardinality(Held(room)) + 1
      <4>1. CASE key \in Held(room)
        <5>1. Held(room) \union {key} = Held(room)
          BY <4>1
        <5>2. Cardinality(Held(room)) <= Cardinality(Held(room)) + 1
          BY <2>9
        <5> QED BY <5>1, <5>2, <2>9
      <4>2. CASE key \notin Held(room)
        <5>1. IsFiniteSet(Held(room) \union {key})
              /\ Cardinality(Held(room) \union {key}) = Cardinality(Held(room)) + 1
          BY <4>2, <2>9, FS_AddElement
        <5> QED BY <5>1, <2>9
      <4> QED BY <4>1, <4>2
    <3>2. /\ IsFiniteSet(Held(binding')) /\ Cardinality(Held(binding')) \in Nat
          /\ Cardinality(Held(binding')) <= Cardinality(Held(room) \union {key})
          /\ Cardinality(Held(room) \union {key}) \in Nat
      BY <3>1, <2>12, FS_Subset, FS_CardinalityType
    <3> QED BY <3>1, <3>2, <2>9, <1>1
  <2> QED BY <2>10, <2>11, <2>13 DEF BindingsOK
<1> QED BY <1>3, <1>4, <1>5

LEMMA DialFailsKeeps ==
  ASSUME RoutesInv, NEW r \in Requests, DialFails(r) PROVE RoutesInv'
<1>1. /\ snap' = snap /\ binding' = binding /\ clock' = clock /\ request[r].pc = "dialing"
      /\ request' = [request EXCEPT ![r].pc = "failed", ![r].full = {}]
  BY DEF DialFails
<1>2. health' \in [Nodes -> Healths]
  <2>1. CASE UNCHANGED healthVars
    BY <2>1 DEF RoutesInv, healthVars
  <2>2. CASE \E h \in {"inactive", "open"} : health' = [health EXCEPT ![request[r].node] = h]
    BY <2>2 DEF RoutesInv, Healths
  <2> QED BY <2>1, <2>2 DEF DialFails
<1> DEFINE q == [request[r] EXCEPT !.pc = "failed", !.full = {}]
<1>3. RequestOK(snap, q)
  <2>1. request[r] \in RequestRows /\ request[r].host \in Hosts /\ request[r].node \in Nodes
    BY <1>1 DEF RoutesInv, RequestsOK, RequestOK
  <2>2. q \in RequestRows /\ q.pc = "failed" /\ q.host = request[r].host /\ q.node = request[r].node
    BY <2>1 DEF RequestRows
  <2> HIDE DEF q
  <2> QED BY <2>1, <2>2 DEF RequestOK
<1>4. request' = [request EXCEPT ![r] = q]
  BY <1>1 DEF RoutesInv, RequestsOK
<1> HIDE DEF q
<1>5. RequestsOK'
  BY <1>1, <1>3, <1>4, OneRequest DEF RoutesInv
<1> QED BY <1>1, <1>2, <1>5 DEF RoutesInv, BindingsOK

LEMMA VerifiedKeeps ==
  ASSUME RoutesInv, IsSnapshot(snap), NEW r \in Requests, Verified(r) PROVE RoutesInv'
<1>1. /\ snap' = snap /\ clock' = clock /\ request[r].pc = "dialing" /\ Owned(r) /\ Remember(r)
      /\ health' = [health EXCEPT ![request[r].node] = "active"]
      /\ request' = [request EXCEPT ![r] = Resting]
  BY DEF Verified
<1>2. health' \in [Nodes -> Healths]
  BY <1>1 DEF RoutesInv, Healths
<1>3. RequestsOK'
  BY <1>1, RestingOK, OneRequest DEF RoutesInv
<1>4. BindingsOK'
  BY <1>1, RememberKeeps
<1> QED BY <1>1, <1>2, <1>3, <1>4 DEF RoutesInv

LEMMA GiveUpKeeps ==
  ASSUME RoutesInv, NEW r \in Requests, GiveUpConnecting(r) PROVE RoutesInv'
<1>1. /\ UNCHANGED << snap, healthVars, binding, clock >>
      /\ request' = [request EXCEPT ![r] = Resting]
  BY DEF GiveUpConnecting
<1>2. RequestsOK'
  BY <1>1, RestingOK, OneRequest DEF RoutesInv
<1> QED BY <1>1, <1>2 DEF RoutesInv, BindingsOK, healthVars

LEMMA OthersKeep ==
  ASSUME RoutesInv, (\E n \in Nodes : Recover(n)) \/ SetAlgorithm \/ Tick PROVE RoutesInv'
<1>1. clock \in Nat /\ MaxClock \in Nat
  BY RoutingAssumption DEF RoutesInv, RoutingAssumption
<1>2. ASSUME NEW n \in Nodes, Recover(n) PROVE RoutesInv'
  <2>1. UNCHANGED << snap, binding, request, clock >> /\ health' = [health EXCEPT ![n] = "active"]
    BY <1>2 DEF Recover
  <2>2. health' \in [Nodes -> Healths]
    BY <2>1 DEF RoutesInv, Healths
  <2> QED BY <2>1, <2>2 DEF RoutesInv, RequestsOK, BindingsOK
<1>3. CASE SetAlgorithm
  <2>1. /\ UNCHANGED << snap, health, request, clock >>
        /\ binding' = [k \in DOMAIN binding |-> NoBinding]
    BY <1>3 DEF SetAlgorithm, healthVars
  <2>2. DOMAIN binding = Groups \X Hosts
    BY DEF RoutesInv, BindingsOK
  <2>3. /\ binding' = [k \in Groups \X Hosts |-> binding'[k]]
        /\ \A k \in Groups \X Hosts : binding'[k] \in {NoBinding, binding[k]}
    BY <2>1, <2>2
  <2>4. BindingsOK'
    BY <1>1, <2>1, <2>3, Forgotten DEF RoutesInv
  <2> QED BY <2>1, <2>4 DEF RoutesInv, RequestsOK
<1>4. CASE Tick
  <2>1. /\ UNCHANGED << snap, health, binding, request >>
        /\ clock' = clock + 1 /\ clock < MaxClock
    BY <1>4 DEF Tick, healthVars
  <2>2. clock' \in 0..MaxClock /\ clock' \in Nat /\ clock <= clock'
    BY <1>1, <2>1
  <2>3. BindingsOK'
    BY <1>1, <2>1, <2>2, Forgotten DEF RoutesInv, BindingsOK
  <2> QED BY <2>1, <2>2, <2>3 DEF RoutesInv, RequestsOK
<1> QED BY <1>2, <1>3, <1>4

LEMMA TryAgainSelects ==
  ASSUME RoutesInv, NEW r \in Requests, TryAgain(r)
  PROVE  \E h \in Hosts, tried \in SUBSET Nodes : SelectNode(r, h, tried)
<1> DEFINE q == request[r]
<1>1. q.pc = "failed" /\ SelectNode(r, q.host, q.tried \union {q.node})
  BY DEF TryAgain
<1>2. q \in RequestRows /\ q.host \in Hosts /\ q.node \in Nodes
  BY <1>1 DEF RoutesInv, RequestsOK, RequestOK
<1> HIDE DEF q
<1>3. q.tried \in SUBSET Nodes
  BY <1>2 DEF RequestRows
<1>4. q.tried \union {q.node} \in SUBSET Nodes
  BY <1>2, <1>3
<1> QED BY <1>1, <1>2, <1>4

LEMMA RoutesKeep ==
  ASSUME RoutesInv, IsSnapshot(snap), RoutesNext
  PROVE  RoutesInv' /\ UNCHANGED << tableVars, snap, writer >>
<1>1. ASSUME NEW r \in Requests, NEW h \in Hosts, NEW tried \in SUBSET Nodes,
             SelectNode(r, h, tried)
      PROVE  RoutesInv' /\ UNCHANGED << tableVars, snap, writer >>
  <2>1. RoutesInv'
    BY <1>1, SelectKeeps
  <2>2. UNCHANGED << tableVars, snap, writer, healthVars, clock >>
    BY <1>1 DEF SelectNode
  <2> QED BY <2>1, <2>2
<1>2. ASSUME NEW r \in Requests, Connect(r)
      PROVE  RoutesInv' /\ UNCHANGED << tableVars, snap, writer >>
  <2>1. PICK h \in Hosts : SelectNode(r, h, {})
    BY <1>2 DEF Connect
  <2> QED BY <2>1, <1>1
<1>3. ASSUME NEW r \in Requests, TryAgain(r)
      PROVE  RoutesInv' /\ UNCHANGED << tableVars, snap, writer >>
  BY <1>1, <1>3, TryAgainSelects
<1>4. ASSUME NEW r \in Requests, GiveUpConnecting(r) \/ Verified(r) \/ DialFails(r)
      PROVE  RoutesInv' /\ UNCHANGED << tableVars, snap, writer >>
  <2>1. RoutesInv'
    BY <1>4, GiveUpKeeps, VerifiedKeeps, DialFailsKeeps
  <2>2. UNCHANGED << tableVars, snap, writer >>
    BY <1>4 DEF GiveUpConnecting, Verified, DialFails
  <2> QED BY <2>1, <2>2
<1>5. CASE (\E n \in Nodes : Recover(n)) \/ SetAlgorithm \/ Tick
  <2>1. RoutesInv'
    BY <1>5, OthersKeep
  <2>2. UNCHANGED << tableVars, snap, writer >>
    BY <1>5 DEF Recover, SetAlgorithm, Tick
  <2> QED BY <2>1, <2>2
<1> QED BY <1>2, <1>3, <1>4, <1>5 DEF RoutesNext

LEMMA RoutesRest ==
  ASSUME RoutesInv, UNCHANGED << snap, health, binding, request, clock >> PROVE RoutesInv'
BY DEF RoutesInv, RequestsOK, BindingsOK

-----------------------------------------------------------------------------
(* The theorems. *)

RoutingIInv == TablesInv /\ RoutesInv

LEMMA RoutingBegins == ASSUME RoutingInit PROVE RoutingIInv
<1>1. /\ health = [n \in Nodes |-> "active"] /\ clock = 0
      /\ binding = [k \in Groups \X Hosts |-> NoBinding]
      /\ request = [r \in Requests |-> Resting]
  BY DEF RoutingInit
<1>2. health \in [Nodes -> Healths] /\ clock \in 0..MaxClock
  BY <1>1, RoutingAssumption DEF Healths, RoutingAssumption
<1>3. RequestsOK
  BY <1>1, RestingOK DEF RequestsOK
<1>4. Held(binding) = {}
  BY <1>1 DEF Held
<1>5. IsFiniteSet({}) /\ Cardinality({}) = 0 /\ 0 <= MaxBindings
  BY FS_EmptySet, RoutingAssumption DEF RoutingAssumption
<1>6. binding = [k \in Groups \X Hosts |-> binding[k]]
      /\ \A k \in Groups \X Hosts : binding[k] = NoBinding
  BY <1>1
<1>7. BindingsOK
  BY <1>4, <1>5, <1>6 DEF BindingsOK
<1> QED BY <1>2, <1>3, <1>7, TablesBegin DEF RoutingIInv, RoutesInv

LEMMA TablesStep ==
  ASSUME RoutingIInv, TablesNext PROVE RoutingIInv' /\ request' = request /\ binding' = binding
<1>1. ASSUME NEW w \in Writers, Commits(w) PROVE RoutingIInv' /\ request' = request /\ binding' = binding
  <2>1. UNCHANGED << snap, health, binding, request, clock >>
    BY <1>1 DEF Commits, healthVars
  <2> QED BY <1>1, <2>1, CommitKeeps, RoutesRest DEF RoutingIInv
<1>2. ASSUME NEW w \in Writers, Gather(w) \/ NotGathered(w)
      PROVE  RoutingIInv' /\ request' = request /\ binding' = binding
  <2>1. UNCHANGED << snap, health, binding, request, clock >>
    BY <1>2 DEF Gather, NotGathered, healthVars
  <2> QED BY <1>2, <2>1, GatherKeeps, NotGatheredKeeps, RoutesRest DEF RoutingIInv
<1>3. ASSUME NEW w \in Writers, SwapSnapshot(w)
      PROVE  RoutingIInv' /\ request' = request /\ binding' = binding
  <2>1. UNCHANGED << health, binding, request, clock >>
    BY <1>3 DEF SwapSnapshot, healthVars
  <2> QED BY <1>3, <2>1, SwapKeeps, SwapKeepsRoutes DEF RoutingIInv
<1>4. TablesOK
  BY DEF RoutingIInv, TablesInv
<1>5. CASE \/ \E w \in Commands :
                \/ CreateNode(w) \/ UpdateNode(w) \/ DeleteNode(w) \/ Reorder(w)
                \/ CreateGroup(w) \/ UpdateGroup(w) \/ DeleteGroup(w) \/ Import(w)
           \/ StoreStatus
  BY <1>1, <1>4, <1>5, CommandIs
<1> QED BY <1>2, <1>3, <1>5 DEF TablesNext

LEMMA RoutingStep ==
  ASSUME RoutingIInv, [RoutingNext]_routingVars PROVE RoutingIInv'
<1>1. CASE TablesNext
  BY <1>1, TablesStep
<1>2. CASE RoutesNext
  <2>1. RoutesInv' /\ UNCHANGED << tableVars, snap, writer >>
    BY <1>2, RoutesKeep DEF RoutingIInv, TablesInv
  <2>2. TablesInv'
    BY <2>1 DEF RoutingIInv, TablesInv, TablesOK, tableVars
  <2> QED BY <2>1, <2>2 DEF RoutingIInv
<1>3. CASE UNCHANGED routingVars
  <2>1. UNCHANGED << tableVars, snap, writer, health, binding, request, clock >>
    BY <1>3 DEF routingVars, healthVars
  <2>2. TablesInv'
    BY <2>1 DEF RoutingIInv, TablesInv, TablesOK, tableVars
  <2> QED BY <2>1, <2>2, RoutesRest DEF RoutingIInv
<1> QED BY <1>1, <1>2, <1>3 DEF RoutingNext

LEMMA RoutingIs == ASSUME RoutingIInv PROVE RoutingInv
<1>1. /\ TablesOK /\ IsSnapshot(snap) /\ RequestsOK /\ BindingsOK
      /\ health \in [Nodes -> Healths] /\ clock \in 0..MaxClock
  BY DEF RoutingIInv, TablesInv, RoutesInv
<1>2. RoutingTypeOK
  <2>1. \A g \in Groups : groupRow[g].members \subseteq Members
    BY <1>1 DEF TablesOK, AreTables, Members, Exist
  <2>2. ASSUME NEW k \in DOMAIN binding
        PROVE  \/ binding[k] = NoBinding
               \/ binding[k].node \in Nodes /\ binding[k].expires \in 0..(MaxClock + Hold)
    <3>1. k \in Groups \X Hosts
      BY <1>1 DEF BindingsOK
    <3> SUFFICES ASSUME binding[k] # NoBinding
                 PROVE  binding[k].node \in Nodes /\ binding[k].expires \in 0..(MaxClock + Hold)
      OBVIOUS
    <3>2. /\ binding[k].node \in Nodes /\ binding[k].since \in 0..clock
          /\ binding[k].expires = binding[k].since + Hold
      BY <3>1, <1>1 DEF BindingsOK, BindingOK
    <3>3. Hold \in Nat /\ MaxClock \in Nat
      BY RoutingAssumption DEF RoutingAssumption
    <3> QED BY <1>1, <3>2, <3>3
  <2>3. ASSUME NEW r \in Requests PROVE request[r].pc \in {"idle", "dialing", "failed"}
    BY <1>1 DEF RequestsOK, RequestOK, RequestRows
  <2>4. unpublished \in BOOLEAN /\ \A w \in Writers : writer[w].pc \in Working
    BY DEF RoutingIInv, TablesInv
  <2>5. snap.gens \in [Nodes -> 0..snap.generation]
    BY <1>1 DEF IsSnapshot
  <2> QED BY <1>1, <2>1, <2>2, <2>3, <2>4, <2>5
          DEF RoutingTypeOK, TablesOK, AreTables, Working, Healths
<1>3. OneDefault
  <2> DEFINE D == {g \in Groups : groupRow[g].default}
  <2>1. \A f, g \in D : f = g
    BY <1>1 DEF TablesOK, AreTables
  <2> HIDE DEF D
  <2>2. CASE D = {}
    BY <2>2, FS_EmptySet DEF OneDefault, D
  <2>3. CASE D # {}
    <3>1. PICK g : D = {g}
      BY <2>1, <2>3
    <3>2. Cardinality(D) = 1
      BY <3>1, FS_Singleton
    <3> QED BY <3>2 DEF OneDefault, D
  <2> QED BY <2>2, <2>3
<1>4. SnapshotFollowsTables
  BY DEF RoutingIInv, TablesInv, SnapshotFollowsTables, Follows
<1>5. IndexAgreesWithRules
  BY <1>1, PoolServes DEF IndexAgreesWithRules
<1>6. BindingsBounded
  BY <1>1 DEF BindingsOK, BindingsBounded, Held
<1> QED BY <1>2, <1>3, <1>4, <1>5, <1>6 DEF RoutingInv

\* Whatever commands, imports, statuses and failed publications overlap, connections are
\* routed by the tables, the index says what the rules say, there is one default group at
\* most, and no more bindings are kept than may be.
THEOREM RoutingHolds == RoutingSpec => []RoutingInv
<1>1. RoutingInit => RoutingIInv
  BY RoutingBegins
<1>2. RoutingIInv /\ [RoutingNext]_routingVars => RoutingIInv'
  BY RoutingStep
<1>3. RoutingIInv => RoutingInv
  BY RoutingIs
<1> QED BY <1>1, <1>2, <1>3, PTL DEF RoutingSpec

\* A connection begins to dial only by asking for a node.
LEMMA DialingSelects ==
  ASSUME RoutingIInv, [RoutingNext]_routingVars, NEW r \in Requests,
         request[r].pc # "dialing", request'[r].pc = "dialing"
  PROVE  \E h \in Hosts, tried \in SUBSET Nodes : SelectNode(r, h, tried)
<1>1. request' # request
  OBVIOUS
<1>2. RoutesNext
  BY <1>1, TablesStep DEF RoutingNext, routingVars
<1>3. DOMAIN request = Requests
  BY DEF RoutingIInv, RoutesInv, RequestsOK
<1>4. ASSUME NEW s \in Requests, NEW q, request' = [request EXCEPT ![s] = q],
             q.pc # "dialing"
      PROVE  FALSE
  BY <1>3, <1>4
<1>5. Resting.pc = "idle"
  BY DEF Resting
<1>6. ASSUME NEW s \in Requests, GiveUpConnecting(s) \/ Verified(s) PROVE FALSE
  BY <1>4, <1>5, <1>6 DEF GiveUpConnecting, Verified
<1>7. ASSUME NEW s \in Requests, DialFails(s) PROVE FALSE
  <2>1. request' = [request EXCEPT ![s].pc = "failed", ![s].full = {}]
    BY <1>7 DEF DialFails
  <2>2. request[s] \in RequestRows
    BY DEF RoutingIInv, RoutesInv, RequestsOK, RequestOK
  <2>3. request'[s].pc = "failed" /\ (s # r => request'[r] = request[r])
    BY <2>1, <2>2, <1>3 DEF RequestRows
  <2> QED BY <2>3
<1>8. ASSUME (\E n \in Nodes : Recover(n)) \/ SetAlgorithm \/ Tick PROVE FALSE
  BY <1>1, <1>8 DEF Recover, SetAlgorithm, Tick
<1>9. ASSUME NEW s \in Requests, NEW h \in Hosts, NEW tried \in SUBSET Nodes,
             SelectNode(s, h, tried)
      PROVE  s = r
  <2>1. PICK q : request' = [request EXCEPT ![s] = q]
    BY <1>9 DEF SelectNode
  <2> QED BY <2>1, <1>3
<1>10. ASSUME NEW s \in Requests, Connect(s) \/ TryAgain(s)
       PROVE  \E h \in Hosts, tried \in SUBSET Nodes : SelectNode(s, h, tried)
  <2>1. CASE Connect(s)
    <3>1. PICK h \in Hosts : SelectNode(s, h, {})
      BY <2>1 DEF Connect
    <3>2. {} \in SUBSET Nodes
      OBVIOUS
    <3> QED BY <3>1, <3>2
  <2>2. CASE TryAgain(s)
    BY <2>2, TryAgainSelects DEF RoutingIInv
  <2> QED BY <1>10, <2>1, <2>2
<1> QED BY <1>2, <1>6, <1>7, <1>8, <1>9, <1>10 DEF RoutesNext

\* If a binding holds, its revision and generation are those of the pool and node of now, so
\* its grounds are what is there now.
LEMMA HeldIs ==
  ASSUME RoutingIInv, NEW h \in Hosts, PoolIndex(snap.index, h) # NoPool,
         Remembered(h) # NoBinding,
         Remembered(h).revision = PoolFor(h).revision,
         snap.gens[Remembered(h).node] = Remembered(h).gen
  PROVE  /\ Remembered(h).expires = Remembered(h).since + Hold
         /\ Remembered(h).grounds = Grounds(PoolFor(h).id, Remembered(h).node)
         /\ Remembered(h).node \in NodesFor(h)
<1> DEFINE p == PoolFor(h)  b == Remembered(h)  k == << p.id, h >>
<1>1. /\ p.id \in Groups /\ p = snap.pools[PoolIndex(snap.index, h)]
      /\ PoolIndex(snap.index, h) \in 1..Len(snap.pools)
      /\ NodesFor(h) = {n \in p.members : snap.gens[n] # 0}
  BY PoolServes DEF RoutingIInv, TablesInv, PoolFor, NodesFor
<1>2. k \in Groups \X Hosts /\ b = binding[k] /\ k[1] = p.id
  BY <1>1 DEF Remembered
<1>3. BindingOK(snap, clock, k, b)
  BY <1>2 DEF RoutingIInv, RoutesInv, BindingsOK
<1>4. Lasts(snap, b.node, b.gen, k[1], b.revision, PoolIndex(snap.index, h))
  BY <1>1, <1>2 DEF Lasts
<1>5. Grounds(p.id, b.node) = GroundsOf(snap, p.id, b.node)
  BY DEF Grounds, GroundsOf
<1> HIDE DEF p, b, k
<1>6. /\ b.expires = b.since + Hold /\ b.grounds = GroundsOf(snap, k[1], b.node)
      /\ b.node \in p.members /\ b.gen \in 1..snap.generation
  BY <1>1, <1>3, <1>4 DEF BindingOK
<1>7. b.gen # 0
  BY <1>6
<1>8. b.node \in NodesFor(h)
  BY <1>1, <1>6, <1>7 DEF b
<1> QED BY <1>2, <1>5, <1>6, <1>8 DEF p, b

LEMMA DetoursHeld ==
  ASSUME RoutingIInv, [RoutingNext]_routingVars PROVE DetourIsHeld
<1> SUFFICES ASSUME NEW r \in Requests, request[r].pc # "dialing", request'[r].pc = "dialing"
             PROVE  LET q == request'[r]
                        pool == PoolIndex(snap.index, q.host)
                        id == snap.pools[pool].id
                        first == Highest(id, q.host, MembersOf(pool))
                    IN  \/ q.node = first \/ first \in q.full \union q.tried
                        \/ health[first] # "active"
                        \/ /\ binding[<< id, q.host >>].node = q.node
                           /\ binding[<< id, q.host >>].grounds = Grounds(id, q.node)
                           /\ binding[<< id, q.host >>].since + Hold > clock
  BY DEF DetourIsHeld
<1>1. PICK h \in Hosts, tried \in SUBSET Nodes : SelectNode(r, h, tried)
  BY DialingSelects
<1>2. IsSnapshot(snap) /\ DOMAIN request = Requests
  BY DEF RoutingIInv, TablesInv, RoutesInv, RequestsOK
<1>3. PICK full, q, c : /\ Selected(h, tried, full, q, c)
                        /\ request' = [request EXCEPT ![r] = q]
  BY <1>1, <1>2, SelectIs
<1>4. request'[r] = q /\ q.pc = "dialing" /\ q # Resting
  BY <1>2, <1>3 DEF Resting
<1> DEFINE b == Remembered(h)
<1>5. /\ q.host = h /\ q.tried = tried /\ q.full = full \intersect {First(h), b.node}
      /\ First(h) \in Active(Candidates(h, tried)) \ full
           => \/ q.node = First(h)
              \/ Holds(b, PoolFor(h).revision, Candidates(h, tried)) /\ q.node = b.node
  BY <1>3, <1>4 DEF Selected
<1>6. /\ PoolIndex(snap.index, h) # NoPool /\ NodesFor(h) # {}
      /\ PoolFor(h).id \in Groups /\ NodesFor(h) \subseteq Nodes
  BY <1>1, <1>2, SelectIs, PoolServes DEF PoolFor, NodesFor
<1>7. First(h) \in NodesFor(h)
  BY <1>6, HighestIs DEF First
<1>8. \/ q.node = First(h) \/ First(h) \in q.full \union q.tried \/ health[First(h)] # "active"
      \/ /\ b.node = q.node /\ b.grounds = Grounds(PoolFor(h).id, q.node)
         /\ b.since + Hold > clock
  <2> SUFFICES ASSUME q.node # First(h), First(h) \notin q.full, First(h) \notin q.tried,
                      health[First(h)] = "active"
               PROVE  /\ b.node = q.node /\ b.grounds = Grounds(PoolFor(h).id, q.node)
                      /\ b.since + Hold > clock
    OBVIOUS
  <2>1. First(h) \in Active(Candidates(h, tried)) \ full
    BY <1>5, <1>7 DEF Active, Candidates
  <2>2. Holds(b, PoolFor(h).revision, Candidates(h, tried)) /\ q.node = b.node
    BY <2>1, <1>5
  <2>3. /\ b # NoBinding /\ b.expires > clock /\ b.revision = PoolFor(h).revision
        /\ snap.gens[b.node] = b.gen
    BY <2>2 DEF Holds
  <2>4. b.expires = b.since + Hold /\ b.grounds = Grounds(PoolFor(h).id, b.node)
    BY <2>3, <1>6, HeldIs
  <2> QED BY <2>2, <2>3, <2>4
<1> QED BY <1>4, <1>5, <1>8 DEF PoolFor, NodesFor, First, Remembered

LEMMA HoldsKept ==
  ASSUME RoutingIInv, [RoutingNext]_routingVars PROVE HoldIsKept
<1> SUFFICES ASSUME NEW k \in Groups \X Hosts, NEW r \in Requests,
                    binding[k] # NoBinding, binding'[k] = NoBinding,
                    request[r].pc # "dialing", request'[r].pc = "dialing"
             PROVE  \/ binding[k].expires <= clock
                    \/ health[binding[k].node] # "active"
                    \/ binding[k].gen # snap.gens[binding[k].node]
                    \/ ~\E p \in 1..Len(snap.pools) :
                           snap.pools[p].id = k[1] /\ snap.pools[p].revision = binding[k].revision
                    \/ binding[k].node \in request'[r].tried \union request'[r].full
  BY DEF HoldIsKept
<1>1. PICK h \in Hosts, tried \in SUBSET Nodes : SelectNode(r, h, tried)
  BY DialingSelects
<1>2. IsSnapshot(snap) /\ DOMAIN request = Requests /\ clock \in Nat
      /\ binding = [l \in Groups \X Hosts |-> binding[l]]
  BY RoutingAssumption DEF RoutingIInv, TablesInv, RoutesInv, RequestsOK, BindingsOK, RoutingAssumption
<1>3. PICK full, q, c : /\ Selected(h, tried, full, q, c)
                        /\ binding' = [binding EXCEPT ![<< PoolFor(h).id, h >>] = c]
                        /\ request' = [request EXCEPT ![r] = q]
  <2>1. IsSnapshot(snap)
    BY <1>2
  <2> QED BY <1>1, <2>1, SelectIs
<1>4. request'[r] = q /\ q.pc = "dialing" /\ q # Resting
  BY <1>2, <1>3 DEF Resting
<1> DEFINE b == Remembered(h)
<1>5. /\ q.tried = tried /\ q.full = full \intersect {First(h), b.node}
      /\ c = NoBinding /\ Holds(b, PoolFor(h).revision, Candidates(h, tried)) => b.node \in full
  BY <1>3, <1>4 DEF Selected
<1>6. k = << PoolFor(h).id, h >> /\ c = NoBinding /\ binding[k] = b /\ k[1] = PoolFor(h).id
  BY <1>2, <1>3 DEF Remembered
<1>7. PoolIndex(snap.index, h) # NoPool /\ PoolIndex(snap.index, h) \in 1..Len(snap.pools)
  BY <1>1, <1>2, SelectIs, PoolServes
<1>8. BindingOK(snap, clock, k, b)
  BY <1>6 DEF RoutingIInv, RoutesInv, BindingsOK
<1> SUFFICES ASSUME ~(b.expires <= clock), health[b.node] = "active",
                    b.gen = snap.gens[b.node],
                    NEW p \in 1..Len(snap.pools),
                    snap.pools[p].id = k[1], snap.pools[p].revision = b.revision
             PROVE  b.node \in q.tried \union q.full
  BY <1>4, <1>6
<1>9. b.revision = PoolFor(h).revision
  <2>1. p = PoolIndex(snap.index, h)
    BY <1>2, <1>6, <1>7 DEF IsSnapshot, PoolFor
  <2> QED BY <2>1 DEF PoolFor
<1>10. b.node \in NodesFor(h)
  BY <1>6, <1>7, <1>9, HeldIs
<1>11. b.expires > clock
  <2>1. b.expires = b.since + Hold /\ b.since \in 0..clock /\ Hold \in Nat
    BY <1>8, RoutingAssumption DEF BindingOK, RoutingAssumption
  <2> QED BY <2>1, <1>2
<1> HIDE DEF b
<1>12. CASE b.node \notin tried
  <2>1. b.node \in Active(Candidates(h, tried))
    BY <1>10, <1>12 DEF Active, Candidates
  <2>2. Holds(b, PoolFor(h).revision, Candidates(h, tried))
    BY <2>1, <1>6, <1>9, <1>11 DEF Holds
  <2> QED BY <2>2, <1>5, <1>6
<1>13. CASE b.node \in tried
  BY <1>13, <1>5
<1> QED BY <1>12, <1>13

\* A failover sticks to its backup as long as its grounds last, and no longer.
THEOREM StickinessHolds == RoutingSpec => StickinessIsKept
<1>1. RoutingInit => RoutingIInv
  BY RoutingBegins
<1>2. RoutingIInv /\ [RoutingNext]_routingVars => RoutingIInv'
  BY RoutingStep
<1>3. RoutingIInv /\ [RoutingNext]_routingVars => [DetourIsHeld /\ HoldIsKept]_routingVars
  BY DetoursHeld, HoldsKept
<1> QED BY <1>1, <1>2, <1>3, PTL DEF RoutingSpec, StickinessIsKept
=============================================================================
