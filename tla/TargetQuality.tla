--------------------------- MODULE TargetQuality ---------------------------
(***************************************************************************)
(* What was measured of targets behind nodes (proxy/target_quality.rs) and *)
(* its use by proxy.rs:479-494, 921-935, 1027-1047 and 1175-1191: one      *)
(* bounded map of samples for the whole process, with a second map of the  *)
(* same samples in the order in which they expire.                         *)
(*                                                                         *)
(* The numbers of a sample only rank candidates and are left out; here are *)
(* the life of samples, the two maps, the mode that turns them on and off, *)
(* and the rule that a slow target is tried again only now and then.       *)
(***************************************************************************)
EXTENDS Naturals, FiniteSets

CONSTANTS
  Keys,             \* Key: node, its generation, target, kind of measurement
  MaxSamples,       \* MAX_ENTRIES
  Ttl,              \* TTL_MS
  Interval,         \* what exploration_due waits for
  Recorders,        \* connections that record an outcome
  MaxRecords,       \* bound: outcomes recorded
  MaxMoment         \* bound: the monotonic clock

ASSUME QualityAssumption ==
  /\ MaxSamples \in Nat \ {0}
  /\ Ttl \in Nat \ {0} /\ Interval \in Nat \ {0}
  /\ MaxRecords \in Nat /\ MaxMoment \in Nat

Modes == {"off", "observe", "adaptive"}
Orders == [moment : 0..MaxMoment, sequence : 1..MaxRecords]
NoSample == [observed |-> 0, explored |-> 0, order |-> [moment |-> 0, sequence |-> 0]]
Samples == [observed : 0..MaxMoment, explored : 0..MaxMoment, order : Orders]
NoKey == "none"

VARIABLES
  samples,   \* entries
  expiry,    \* expiry: the orders and the keys they stand for
  sequence,
  mode,      \* runtime_settings.target_quality_mode
  recorder,  \* connections that hold the settings' read lock: the key, or NoKey
  moment,    \* monotonic_millis
  tried      \* history: when a key was last explored, MaxMoment + 1 if never

qualityVars == << samples, expiry, sequence, mode, recorder, moment, tried >>

QualityInit ==
  /\ samples = [k \in Keys |-> NoSample]
  /\ expiry = {}
  /\ sequence = 0
  /\ mode \in Modes
  /\ recorder = [r \in Recorders |-> NoKey]
  /\ moment = 0
  /\ tried = [k \in Keys |-> MaxMoment + 1]

-----------------------------------------------------------------------------
Present(entries) == {k \in Keys : entries[k] # NoSample}
Without(entries, S) == [k \in Keys |-> IF k \in S THEN NoSample ELSE entries[k]]
KeysIn(index) == {e.key : e \in index}

Earlier(a, b) ==
  \/ a.moment < b.moment
  \/ a.moment = b.moment /\ a.sequence < b.sequence

\* The first n of the index, as pop_first takes them.
FirstOf(index, n) ==
  {e \in index : Cardinality({f \in index : Earlier(f.order, e.order)}) < n}

\* prune: the index is in the order of observation, so what has expired is its head.
Expired == {e \in expiry : moment - e.order.moment >= Ttl}

\* Mutant: the place a sample had in the index stays.
IndexWithoutNothing(index, sample) == index

\* expiry.remove(&sample.order)
IndexWithout(index, sample) == {e \in index : e.order # sample.order}

\* Mutant: the newest makes room.
OverflowOfNewest(entries, index) ==
  IF Cardinality(Present(entries)) < MaxSamples THEN {}
  ELSE index \ FirstOf(index, Cardinality(index) - 1)

\* What is popped until there is room for one more.
Overflow(entries, index) ==
  LET enough(n) ==
        Cardinality(Present(Without(entries, KeysIn(FirstOf(index, n))))) < MaxSamples
  IN  FirstOf(index, CHOOSE n \in 0..Cardinality(index) :
                        enough(n) /\ \A i \in 0..(n - 1) : ~enough(i))

\* TargetQuality::record.
Record(k) ==
  LET order == [moment |-> moment, sequence |-> sequence + 1]
      kept  == Without(samples, KeysIn(Expired))
      old   == IF kept[k] = NoSample
               THEN [observed |-> moment, explored |-> moment, order |-> order]
               ELSE kept[k]
      others == Without(kept, {k})
      index  == IndexWithout(expiry \ Expired, old)
      popped == Overflow(others, index)
  IN  /\ samples' = [Without(others, KeysIn(popped)) EXCEPT
                       ![k] = [old EXCEPT !.observed = moment, !.order = order]]
      /\ expiry' = (index \ popped) \union {[order |-> order, key |-> k]}
      /\ sequence' = sequence + 1

\* record_target_quality: the settings stay locked for reading until the end.
BeginRecord(r, k) ==
  /\ recorder[r] = NoKey /\ mode # "off"
  /\ sequence < MaxRecords
  /\ recorder' = [recorder EXCEPT ![r] = k]
  /\ UNCHANGED << samples, expiry, sequence, mode, moment, tried >>

EndRecord(r) ==
  /\ recorder[r] # NoKey /\ sequence < MaxRecords
  /\ Record(recorder[r])
  /\ recorder' = [recorder EXCEPT ![r] = NoKey]
  /\ UNCHANGED << mode, moment, tried >>

\* Mutant: the mode is read without keeping the lock.
NobodyReads == TRUE

SettingsFree == \A r \in Recorders : recorder[r] = NoKey

\* update_advanced_config.
SetMode(next) ==
  /\ SettingsFree
  /\ mode' = next
  /\ IF next = "off"
     THEN samples' = [k \in Keys |-> NoSample] /\ expiry' = {}
     ELSE UNCHANGED << samples, expiry >>
  /\ UNCHANGED << sequence, recorder, moment, tried >>

\* Mutant: what was chosen is not noted.
ReservedNothing(k) == UNCHANGED samples

\* reserved: whenever a node is taken for the target, for whatever reason.
Reserved(k) ==
  samples' = IF samples[k] = NoSample THEN samples
             ELSE [samples EXCEPT ![k].explored = moment]

ExplorationDue(k) ==
  /\ samples[k] # NoSample
  /\ moment - samples[k].observed >= Interval
  /\ moment - samples[k].explored >= Interval

\* A node is taken for a target, by its rank or, in a learning turn, because it is due.
TakeForTarget(k) ==
  /\ mode = "adaptive"
  /\ Reserved(k)
  /\ \/ UNCHANGED tried
     \/ ExplorationDue(k) /\ tried' = [tried EXCEPT ![k] = moment]
  /\ UNCHANGED << expiry, sequence, mode, recorder, moment >>

Pass ==
  /\ moment < MaxMoment /\ moment' = moment + 1
  /\ UNCHANGED << samples, expiry, sequence, mode, recorder, tried >>

QualityNext ==
  \/ \E r \in Recorders : EndRecord(r) \/ \E k \in Keys : BeginRecord(r, k)
  \/ \E next \in Modes \ {mode} : SetMode(next)
  \/ \E k \in Keys : TakeForTarget(k)
  \/ Pass

QualitySpec == QualityInit /\ [][QualityNext]_qualityVars

-----------------------------------------------------------------------------
\* The two maps hold the same samples, each once, however they are replaced, expire and
\* make room: if they did not, the pop of an eviction would find nothing (the unwraps of
\* target_quality.rs:74 and 110) or take a sample that was just renewed.
IndexHoldsSamples ==
  expiry = {[order |-> samples[k].order, key |-> k] : k \in Present(samples)}

\* Once the mode is off nothing is left, and nothing comes back from a connection that
\* had read the mode before (README.md:378).
OffIsEmpty == mode = "off" => Present(samples) = {} /\ expiry = {}

QualityInv == IndexHoldsSamples /\ OffIsEmpty

\* A sample that has not expired makes room for another only when MaxSamples are held, and
\* then none that stays was observed before it.
OldestMakesRoom ==
  \A k \in Present(samples) :
    samples'[k] = NoSample /\ moment - samples[k].observed < Ttl /\ mode' # "off" =>
      /\ Cardinality(Present(samples)) = MaxSamples
      /\ \A l \in Present(samples') :
           l \in Present(samples) /\ samples'[l] = samples[l] =>
             Earlier(samples[k].order, samples[l].order)

\* A target that does badly is tried again, for the sake of learning, at most once in an
\* interval, even if its sample expired or was evicted and made anew (README.md:378).
ExploredNowAndThen ==
  \A k \in Keys :
    tried'[k] # tried[k] /\ tried[k] <= MaxMoment => moment - tried[k] >= Interval

\* What was learnt of a target goes with its age only, and is not paid for again at once.
LessonsAreKept == [][OldestMakesRoom /\ ExploredNowAndThen]_qualityVars
=============================================================================
