-------------------------- MODULE SelectionProofs ---------------------------
(***************************************************************************)
(* What the choice among a pool's nodes is made from: theorems about the   *)
(* statistics of targets (TargetQuality), the circuits of targets          *)
(* (TargetCircuits) and the turns of the nodes (Balancing), for all nodes, *)
(* targets, bounds and settings.                                           *)
(*                                                                         *)
(*   QualityHolds      the two maps of the statistics agree and stay small *)
(*   LessonsHold       what was learnt is lost only where the code gives it up *)
(*   CircuitsHold      the circuits of targets stay few, none that is needed *)
(*                     goes, and each runs by the settings                 *)
(*   TurnsAreFairHolds no node and no pool starves, whatever the ranking   *)
(*                                                                         *)
(* The index of samples and the map agree because each step takes the same *)
(* sample out of both, and orders are never given twice (QualityIInv).     *)
(*                                                                         *)
(* Room for a circuit is made by taking out those that lapsed and, when that *)
(* is not enough, one more: that the map stays small needs that one more is *)
(* taken out exactly when it is full (CircuitIInv), and that none that is  *)
(* still needed goes, what makes a circuit lapse, under settings that change *)
(* between a dial's reading them and its writing them (raced).             *)
(*                                                                         *)
(* A node that waits is behind the cursor by fewer and fewer nodes: each turn *)
(* puts one more node between it and the end of the ring.  How many turns it *)
(* has waited is therefore bounded by the number of nodes that come after it, *)
(* seen from the cursor (Waited).                                          *)
(***************************************************************************)
EXTENDS Balancing, TargetQuality, TargetCircuits, Integers, FiniteSetTheorems,
        WellFoundedInduction, TLAPS

-----------------------------------------------------------------------------
(* The statistics of targets. *)

\* The entries of the index that stand for the samples in entries.
EntryOf(entries, k) == [order |-> entries[k].order, key |-> k]
IndexOf(entries) == {EntryOf(entries, k) : k \in Present(entries)}

QualityTypes ==
  /\ samples \in [Keys -> Samples \union {NoSample}]
  /\ sequence \in 0..MaxRecords
  /\ mode \in Modes
  /\ recorder \in [Recorders -> Keys \union {NoKey}]
  /\ moment \in 0..MaxMoment
  /\ tried \in [Keys -> 0..(MaxMoment + 1)]

\* Samples as they may be at a moment, after so many outcomes: none is of the future, and
\* no two have the same place.
Ordered(entries, now, last) ==
  /\ \A k \in Present(entries) :
       /\ entries[k] \in Samples
       /\ entries[k].order.moment = entries[k].observed
       /\ entries[k].observed <= now /\ entries[k].explored <= now
       /\ entries[k].order.sequence <= last
  /\ \A k, l \in Present(entries) :
       entries[k].order.sequence = entries[l].order.sequence => k = l

Bounded(entries) ==
  IsFiniteSet(Present(entries)) /\ Cardinality(Present(entries)) <= MaxSamples

\* What was explored left its mark on the sample, or the sample is of later.
Marked(entries, marks, now) ==
  \A k \in Keys :
    marks[k] <= MaxMoment =>
      marks[k] <= now /\ (k \in Present(entries) => marks[k] <= entries[k].explored)

QualityIInv ==
  /\ QualityTypes /\ QualityInv
  /\ Ordered(samples, moment, sequence) /\ Bounded(samples)
  /\ Marked(samples, tried, moment)
  /\ mode = "off" => SettingsFree

-----------------------------------------------------------------------------
(* The index. *)

\* Of some numbers one is the least.
LEMMA LeastNat ==
  ASSUME NEW S \in SUBSET Nat, S # {}
  PROVE  \E n \in S : \A m \in S : n <= m
<1>1. IsWellFoundedOn(OpToRel(<, Nat), Nat)
  BY NatLessThanWellFounded
<1>2. PICK n \in S : \A m \in S : << m, n >> \notin OpToRel(<, Nat)
  BY <1>1, WFMin
<1>3. \A m \in S : ~(m < n)
  BY <1>2 DEF OpToRel
<1> QED BY <1>3

LEMMA EarlierOrders ==
  ASSUME NEW a \in Orders, NEW b \in Orders, NEW c \in Orders, QualityAssumption
  PROVE  /\ ~Earlier(a, a)
         /\ Earlier(a, b) /\ Earlier(b, c) => Earlier(a, c)
         /\ a.sequence # b.sequence => Earlier(a, b) \/ Earlier(b, a)
<1>1. /\ a.moment \in Nat /\ a.sequence \in Nat
      /\ b.moment \in Nat /\ b.sequence \in Nat
      /\ c.moment \in Nat /\ c.sequence \in Nat
  BY DEF Orders, QualityAssumption
<1> QED BY <1>1 DEF Earlier

\* Taking entries off the index is taking their samples out of the map.
LEMMA IndexMinus ==
  ASSUME NEW entries, NEW P \in SUBSET IndexOf(entries)
  PROVE  /\ IndexOf(entries) \ P = IndexOf(Without(entries, KeysIn(P)))
         /\ Present(Without(entries, KeysIn(P))) = Present(entries) \ KeysIn(P)
         /\ \A k \in Present(entries) : k \in KeysIn(P) <=> EntryOf(entries, k) \in P
<1> DEFINE rest == Without(entries, KeysIn(P))
<1>1. Present(rest) = Present(entries) \ KeysIn(P)
  BY DEF Present, Without
<1>2. \A k \in Present(entries) : k \in KeysIn(P) <=> EntryOf(entries, k) \in P
  BY DEF KeysIn, IndexOf, EntryOf
<1>3. \A k \in Present(rest) : EntryOf(rest, k) = EntryOf(entries, k)
  BY <1>1 DEF EntryOf, Without, Present
<1>4. IndexOf(rest) = {EntryOf(entries, k) : k \in Present(rest)}
  BY <1>3 DEF IndexOf
<1> HIDE DEF rest
<1>5. IndexOf(entries) \ P = IndexOf(rest)
  BY <1>1, <1>2, <1>4 DEF IndexOf
<1> QED BY <1>1, <1>2, <1>5 DEF rest

LEMMA IndexFinite ==
  ASSUME NEW entries, IsFiniteSet(Present(entries))
  PROVE  IsFiniteSet(IndexOf(entries)) /\ KeysIn(IndexOf(entries)) = Present(entries)
<1> DEFINE f == [k \in Present(entries) |-> EntryOf(entries, k)]
<1>1. IsFiniteSet(IndexOf(entries))
  <2>1. f \in Surjection(Present(entries), IndexOf(entries))
    BY DEF Surjection, IndexOf
  <2> HIDE DEF f
  <2> QED BY <2>1, FS_Surjection
<1>2. \A k \in Present(entries) : EntryOf(entries, k).key = k
  BY DEF EntryOf
<1>3. KeysIn(IndexOf(entries)) = {EntryOf(entries, k).key : k \in Present(entries)}
  BY DEF KeysIn, IndexOf
<1> QED BY <1>1, <1>2, <1>3

\* What is popped off an index: its head, and no more than there is.
LEMMA HeadIs ==
  ASSUME QualityAssumption, NEW index, IsFiniteSet(index),
         \A e \in index : e.order \in Orders
  PROVE  /\ FirstOf(index, 0) = {}
         /\ FirstOf(index, Cardinality(index)) = index
         /\ \A n \in Nat : \A e \in FirstOf(index, n), f \in index \ FirstOf(index, n) :
              ~Earlier(f.order, e.order)
<1> DEFINE before(e) == {f \in index : Earlier(f.order, e.order)}
<1>1. ASSUME NEW e \in index
      PROVE  /\ IsFiniteSet(before(e)) /\ Cardinality(before(e)) \in Nat
             /\ Cardinality(before(e)) < Cardinality(index)
  <2>1. before(e) \in SUBSET index /\ before(e) # index
    BY EarlierOrders
  <2>2. /\ IsFiniteSet(before(e)) /\ Cardinality(before(e)) <= Cardinality(index)
        /\ (Cardinality(index) = Cardinality(before(e)) => index = before(e))
    BY <2>1, FS_Subset
  <2> HIDE DEF before
  <2> QED BY <2>1, <2>2, FS_CardinalityType
<1>2. \A n : FirstOf(index, n) = {e \in index : Cardinality(before(e)) < n}
  BY DEF FirstOf
<1>3. ASSUME NEW e \in index, NEW f \in index, Earlier(f.order, e.order)
      PROVE  Cardinality(before(f)) <= Cardinality(before(e))
  <2>1. before(f) \subseteq before(e)
    BY <1>3, EarlierOrders
  <2>2. IsFiniteSet(before(e))
    BY <1>1
  <2> HIDE DEF before
  <2> QED BY <2>1, <2>2, FS_Subset
<1> HIDE DEF before
<1>4. FirstOf(index, 0) = {}
  BY <1>1, <1>2
<1>5. FirstOf(index, Cardinality(index)) = index
  BY <1>1, <1>2
<1>6. ASSUME NEW n \in Nat, NEW e \in FirstOf(index, n), NEW f \in index \ FirstOf(index, n),
             Earlier(f.order, e.order)
      PROVE  FALSE
  <2>1. e \in index /\ Cardinality(before(e)) < n /\ ~(Cardinality(before(f)) < n)
    BY <1>2
  <2>2. Cardinality(before(f)) \in Nat /\ Cardinality(before(e)) \in Nat
    BY <1>1, <2>1
  <2> QED BY <1>3, <1>6, <2>1, <2>2
<1> QED BY <1>4, <1>5, <1>6

\* Room is made by taking the head, nothing where there is room, and there is room then.
LEMMA OverflowIs ==
  ASSUME QualityAssumption, NEW entries, IsFiniteSet(Present(entries)),
         \A k \in Present(entries) : entries[k].order \in Orders
  PROVE  LET index  == IndexOf(entries)
             popped == Overflow(entries, index)
             left   == Present(Without(entries, KeysIn(popped)))
         IN  /\ popped \subseteq index
             /\ Cardinality(left) < MaxSamples
             /\ popped # {} => Cardinality(Present(entries)) >= MaxSamples
             /\ \A e \in popped, f \in index \ popped : ~Earlier(f.order, e.order)
<1> DEFINE index == IndexOf(entries)
           size(n) == Cardinality(Present(Without(entries, KeysIn(FirstOf(index, n)))))
           N == {n \in 0..Cardinality(index) : size(n) < MaxSamples}
<1>1. IsFiniteSet(index) /\ Cardinality(index) \in Nat /\ KeysIn(index) = Present(entries)
  BY IndexFinite, FS_CardinalityType
<1>2. \A e \in index : e.order \in Orders
  BY DEF IndexOf, EntryOf
<1>3. /\ FirstOf(index, 0) = {} /\ FirstOf(index, Cardinality(index)) = index
      /\ \A n \in Nat : \A e \in FirstOf(index, n), f \in index \ FirstOf(index, n) :
           ~Earlier(f.order, e.order)
  BY <1>1, <1>2, HeadIs
<1>4. \A n : FirstOf(index, n) \in SUBSET index
  BY DEF FirstOf
<1>5. Cardinality(index) \in N
  <2>1. Present(Without(entries, KeysIn(index))) = {}
    BY <1>1, IndexMinus
  <2>2. size(Cardinality(index)) = 0
    BY <2>1, <1>3, FS_EmptySet
  <2>3. 0 < MaxSamples
    BY DEF QualityAssumption
  <2> HIDE DEF size
  <2> QED BY <2>2, <2>3, <1>1
<1>6. PICK n \in N : \A m \in N : n <= m
  <2>1. N \in SUBSET Nat /\ N # {}
    BY <1>5, <1>1
  <2> HIDE DEF N
  <2> QED BY <2>1, LeastNat
<1>7. Overflow(entries, index) =
        FirstOf(index, CHOOSE i \in 0..Cardinality(index) :
                         size(i) < MaxSamples /\ \A j \in 0..(i - 1) : ~(size(j) < MaxSamples))
  BY DEF Overflow
<1>8. n \in 0..Cardinality(index) /\ size(n) < MaxSamples
  BY <1>6
<1> HIDE DEF size
<1>9. \A j \in 0..(n - 1) : ~(size(j) < MaxSamples)
  BY <1>6, <1>8, <1>1
<1>10. PICK i \in 0..Cardinality(index) :
         /\ Overflow(entries, index) = FirstOf(index, i)
         /\ size(i) < MaxSamples /\ \A j \in 0..(i - 1) : ~(size(j) < MaxSamples)
  BY <1>7, <1>8, <1>9
<1>11. /\ Overflow(entries, index) \subseteq index
       /\ Cardinality(Present(Without(entries, KeysIn(Overflow(entries, index))))) < MaxSamples
  BY <1>4, <1>10 DEF size
<1>12. ASSUME Overflow(entries, index) # {}
       PROVE  Cardinality(Present(entries)) >= MaxSamples
  <2>1. i # 0
    BY <1>10, <1>12, <1>3
  <2>2. ~(size(0) < MaxSamples)
    BY <1>10, <2>1, <1>1
  <2>3. size(0) = Cardinality(Present(entries))
    <3>1. Present(Without(entries, KeysIn({}))) = Present(entries) \ KeysIn({})
      BY IndexMinus
    <3>2. KeysIn({}) = {}
      BY DEF KeysIn
    <3> QED BY <3>1, <3>2, <1>3 DEF size
  <2>4. Cardinality(Present(entries)) \in Nat /\ MaxSamples \in Nat
    BY FS_CardinalityType DEF QualityAssumption
  <2> QED BY <2>2, <2>3, <2>4
<1>13. \A e \in Overflow(entries, index), f \in index \ Overflow(entries, index) :
         ~Earlier(f.order, e.order)
  <2>1. i \in Nat
    BY <1>1
  <2> QED BY <2>1, <1>3, <1>10
<1> QED BY <1>11, <1>12, <1>13

-----------------------------------------------------------------------------
(* What an outcome does. *)

\* The sample that follows one of entries, at a moment: never without a place of its own.
LEMMA SampleKinds ==
  ASSUME QualityAssumption, NEW s \in Samples
  PROVE  /\ s # NoSample /\ s.order \in Orders /\ s.order.sequence \in Nat \ {0}
         /\ s.observed \in 0..MaxMoment /\ s.explored \in 0..MaxMoment
         /\ s = [observed |-> s.observed, explored |-> s.explored, order |-> s.order]
<1>1. s.order \in Orders /\ s.order.sequence \in 1..MaxRecords
  BY DEF Samples, Orders
<1>2. s.order.sequence \in Nat \ {0}
  BY <1>1 DEF QualityAssumption
<1>3. NoSample.order.sequence = 0
  BY DEF NoSample
<1> QED BY <1>1, <1>2, <1>3 DEF Samples

LEMMA Renewed ==
  ASSUME NEW s \in Samples, NEW now, NEW place
  PROVE  [s EXCEPT !.observed = now, !.order = place]
           = [observed |-> now, explored |-> s.explored, order |-> place]
<1> DEFINE t == [s EXCEPT !.observed = now, !.order = place]
<1>1. t \in [observed : {now}, explored : {s.explored}, order : {place}]
  BY DEF Samples
<1> HIDE DEF t
<1>2. t = [observed |-> now, explored |-> s.explored, order |-> place]
  BY <1>1
<1> QED BY <1>2 DEF t

\* The outcome of k gets the last place. What has expired goes, and what is popped to
\* make room: the rest stays as it is.
LEMMA RecordIs ==
  ASSUME QualityAssumption, QualityIInv, NEW k \in Keys, sequence < MaxRecords, Record(k)
  PROVE  /\ samples' \in [Keys -> Samples \union {NoSample}]
         /\ expiry' = IndexOf(samples') /\ sequence' = sequence + 1
         /\ k \in Present(samples')
         /\ samples'[k].order = [moment |-> moment, sequence |-> sequence + 1]
         /\ samples'[k].observed = moment
         /\ samples'[k].explored = IF k \in Present(samples) /\ moment - samples[k].observed < Ttl
                                   THEN samples[k].explored ELSE moment
         /\ \A l \in Keys \ {k} : samples'[l] = samples[l] \/ samples'[l] = NoSample
         /\ Bounded(samples')
         /\ \A j \in Present(samples) \ {k} :
              samples'[j] = NoSample /\ moment - samples[j].observed < Ttl =>
                /\ Cardinality(Present(samples)) = MaxSamples
                /\ \A l \in Present(samples') \ {k} : Earlier(samples[j].order, samples[l].order)
<1> DEFINE order == [moment |-> moment, sequence |-> sequence + 1]
           kept == Without(samples, KeysIn(Expired))
           old == IF kept[k] = NoSample
                  THEN [observed |-> moment, explored |-> moment, order |-> order]
                  ELSE kept[k]
           others == Without(kept, {k})
           index == IndexWithout(expiry \ Expired, old)
           popped == Overflow(others, index)
           rest == Without(others, KeysIn(popped))
           new == [old EXCEPT !.observed = moment, !.order = order]
<1>1. /\ samples' = [rest EXCEPT ![k] = new]
      /\ expiry' = (index \ popped) \union {[order |-> order, key |-> k]}
      /\ sequence' = sequence + 1
  BY DEF Record
<1>2. /\ expiry = IndexOf(samples) /\ Ordered(samples, moment, sequence) /\ Bounded(samples)
      /\ moment \in 0..MaxMoment /\ sequence \in 0..MaxRecords /\ moment \in Nat
      /\ sequence \in Nat
      /\ samples \in [Keys -> Samples \union {NoSample}]
  BY DEF QualityIInv, QualityInv, IndexHoldsSamples, QualityTypes, IndexOf, EntryOf,
         QualityAssumption
<1>3. \A l \in Present(samples) :
        /\ l \in Keys /\ samples[l] \in Samples /\ samples[l].order.moment = samples[l].observed
        /\ samples[l].order.sequence <= sequence /\ samples[l].observed <= moment
  BY <1>2 DEF Ordered, Present
\* What has expired goes.
<1>4. /\ Expired \in SUBSET IndexOf(samples)
      /\ \A l \in Present(samples) :
           EntryOf(samples, l) \in Expired <=> moment - samples[l].observed >= Ttl
  BY <1>2, <1>3 DEF Expired, IndexOf, EntryOf
<1>5. /\ expiry \ Expired = IndexOf(kept)
      /\ Present(kept) = {l \in Present(samples) : moment - samples[l].observed < Ttl}
  <2>1. /\ IndexOf(samples) \ Expired = IndexOf(kept)
        /\ Present(kept) = Present(samples) \ KeysIn(Expired)
        /\ \A l \in Present(samples) : l \in KeysIn(Expired) <=> EntryOf(samples, l) \in Expired
    BY <1>4, IndexMinus
  <2>2. \A l \in Present(samples) : moment - samples[l].observed \in Int /\ Ttl \in Int
    <3>1. \A l \in Present(samples) : samples[l].observed \in 0..MaxMoment
      BY <1>3, SampleKinds
    <3> QED BY <3>1, <1>2 DEF QualityAssumption
  <2> HIDE DEF kept
  <2> QED BY <2>1, <2>2, <1>2, <1>4
<1>6. kept = [l \in Keys |-> IF l \in Present(kept) THEN samples[l] ELSE NoSample]
  <2>1. \A l \in Keys : l \notin Present(kept) => kept[l] = NoSample
    BY DEF Present
  <2>2. \A l \in Present(kept) : kept[l] = samples[l]
    BY DEF Present, Without
  <2>3. kept = [l \in Keys |-> kept[l]]
    BY DEF Without
  <2> HIDE DEF kept
  <2> QED BY <2>1, <2>2, <2>3
<1> HIDE DEF kept
<1>7. /\ Present(others) = Present(kept) \ {k}
      /\ others = [l \in Keys |-> IF l \in Present(others) THEN samples[l] ELSE NoSample]
  <2>1. others = [l \in Keys |-> IF l = k THEN NoSample ELSE kept[l]]
    BY DEF Without
  <2>2. Present(others) = Present(kept) \ {k}
    BY <2>1 DEF Present
  <2> HIDE DEF others
  <2>3. \A l \in Keys : others[l] = IF l \in Present(others) THEN samples[l] ELSE NoSample
    BY <2>1, <2>2, <1>6
  <2> QED BY <2>1, <2>2, <2>3
<1>8. /\ kept[k] = IF k \in Present(kept) THEN samples[k] ELSE NoSample
      /\ k \in Present(kept) => samples[k] # NoSample
  BY <1>5, <1>6 DEF Present
<1>9. /\ old = IF k \in Present(kept) THEN samples[k]
               ELSE [observed |-> moment, explored |-> moment, order |-> order]
      /\ order \in Orders /\ old \in Samples
  <2>1. order \in Orders
    BY <1>2 DEF Orders, QualityAssumption
  <2>2. old = IF k \in Present(kept) THEN samples[k]
              ELSE [observed |-> moment, explored |-> moment, order |-> order]
    BY <1>8
  <2> HIDE DEF old, order
  <2> QED BY <2>1, <2>2, <1>2, <1>3, <1>5 DEF Samples
<1> HIDE DEF others
\* The place of k goes.
<1>10. index = IndexOf(others)
  <2>1. \A l \in Present(others) : EntryOf(others, l) = EntryOf(kept, l)
    BY <1>6, <1>7 DEF EntryOf, Present
  <2>2. \A l \in Present(kept) : EntryOf(kept, l).order # old.order <=> l # k
    <3>1. ASSUME NEW l \in Present(kept)
          PROVE  l \in Present(samples) /\ EntryOf(kept, l).order = samples[l].order
      BY <1>5, <1>6 DEF EntryOf, Present
    <3>2. CASE k \in Present(kept)
      <4>1. old = samples[k] /\ k \in Present(samples)
        BY <3>2, <1>9, <1>5
      <4> HIDE DEF old
      <4> QED BY <4>1, <3>1, <1>2 DEF Ordered
    <3>3. CASE k \notin Present(kept)
      <4>1. old.order.sequence = sequence + 1
        BY <3>3, <1>9
      <4> HIDE DEF old
      <4>2. \A l \in Present(kept) : EntryOf(kept, l).order.sequence <= sequence
                                      /\ EntryOf(kept, l).order.sequence \in Nat
        BY <3>1, <1>3, SampleKinds
      <4> QED BY <4>1, <4>2, <3>3, <1>2
    <3> QED BY <3>2, <3>3
  <2> HIDE DEF old
  <2>3. IndexWithout(IndexOf(kept), old)
          = {e \in {EntryOf(kept, l) : l \in Present(kept)} : e.order # old.order}
    BY DEF IndexWithout, IndexOf
  <2>4. IndexWithout(IndexOf(kept), old)
          = {EntryOf(kept, l) : l \in Present(kept) \ {k}}
    BY <2>2, <2>3
  <2>5. IndexOf(others) = {EntryOf(kept, l) : l \in Present(kept) \ {k}}
    BY <2>1, <1>7 DEF IndexOf
  <2> QED BY <2>4, <2>5, <1>5
<1> HIDE DEF old, order, index
\* Room is made.
<1>11. \A l \in Present(others) :
         /\ l \in Present(samples) /\ l # k /\ others[l] = samples[l]
         /\ others[l].order \in Orders
  BY <1>3, <1>5, <1>7, SampleKinds
<1>12. /\ IsFiniteSet(Present(samples)) /\ IsFiniteSet(Present(others))
       /\ Cardinality(Present(samples)) \in Nat /\ Cardinality(Present(samples)) <= MaxSamples
       /\ Cardinality(Present(others)) \in Nat
       /\ Cardinality(Present(others)) >= Cardinality(Present(samples))
            => Present(others) = Present(samples)
  <2>1. Present(others) \subseteq Present(samples)
    BY <1>11
  <2>2. IsFiniteSet(Present(samples)) /\ Cardinality(Present(samples)) <= MaxSamples
    BY <1>2 DEF Bounded
  <2>3. /\ IsFiniteSet(Present(others))
        /\ Cardinality(Present(others)) <= Cardinality(Present(samples))
        /\ Cardinality(Present(samples)) = Cardinality(Present(others))
             => Present(samples) = Present(others)
    BY <2>1, <2>2, FS_Subset
  <2> QED BY <2>2, <2>3, FS_CardinalityType
<1>13. /\ popped \in SUBSET IndexOf(others)
       /\ Cardinality(Present(rest)) < MaxSamples
       /\ popped # {} => Cardinality(Present(others)) >= MaxSamples
       /\ \A e \in popped, f \in IndexOf(others) \ popped : ~Earlier(f.order, e.order)
  BY <1>10, <1>11, <1>12, OverflowIs
<1>14. /\ IndexOf(others) \ popped = IndexOf(rest)
       /\ Present(rest) = Present(others) \ KeysIn(popped)
       /\ \A l \in Present(others) : l \in KeysIn(popped) <=> EntryOf(others, l) \in popped
  BY <1>13, IndexMinus
<1> HIDE DEF popped
<1>15. rest = [l \in Keys |-> IF l \in Present(rest) THEN samples[l] ELSE NoSample]
  <2>1. \A l \in Keys : l \notin Present(rest) => rest[l] = NoSample
    BY DEF Present
  <2>2. \A l \in Present(rest) : rest[l] = samples[l]
    BY <1>11, <1>14 DEF Present, Without
  <2>3. rest = [l \in Keys |-> rest[l]]
    BY DEF Without
  <2> HIDE DEF rest
  <2> QED BY <2>1, <2>2, <2>3
<1> HIDE DEF rest
\* The new sample comes in.
<1>16. /\ new \in Samples /\ new # NoSample /\ new.order = order /\ new.observed = moment
       /\ new.explored = old.explored
  <2>1. /\ old = [observed |-> old.observed, explored |-> old.explored, order |-> old.order]
        /\ old.explored \in 0..MaxMoment
    BY <1>9, SampleKinds
  <2>2. new = [observed |-> moment, explored |-> old.explored, order |-> order]
    BY <1>9, Renewed
  <2>3. [observed |-> moment, explored |-> old.explored, order |-> order] \in Samples
    BY <2>1, <1>2, <1>9 DEF Samples
  <2> HIDE DEF new
  <2> QED BY <2>2, <2>3, SampleKinds
<1> HIDE DEF new
<1>17. /\ samples' = [l \in Keys |-> IF l = k THEN new
                                     ELSE IF l \in Present(rest) THEN samples[l] ELSE NoSample]
       /\ Present(samples') = Present(rest) \union {k}
       /\ k \notin Present(rest)
       /\ \A l \in Present(rest) : l \in Present(samples) /\ l \in Present(others)
  <2>1. samples' = [l \in Keys |-> IF l = k THEN new
                                   ELSE IF l \in Present(rest) THEN samples[l] ELSE NoSample]
    BY <1>1, <1>15
  <2>2. k \notin Present(rest) /\ \A l \in Present(rest) : l \in Present(samples)
                                                              /\ l \in Present(others)
    BY <1>11, <1>14
  <2>3. Present(samples') = {l \in Keys : samples'[l] # NoSample}
    BY DEF Present
  <2>4. \A l \in Present(samples) : samples[l] # NoSample /\ l \in Keys
    BY DEF Present
  <2> QED BY <2>1, <2>2, <2>3, <2>4, <1>16
<1>18. samples' \in [Keys -> Samples \union {NoSample}]
  BY <1>2, <1>16, <1>17
<1>19. expiry' = IndexOf(samples')
  <2>1. \A l \in Present(rest) : EntryOf(samples', l) = EntryOf(rest, l)
    BY <1>15, <1>17 DEF EntryOf, Present
  <2>2. EntryOf(samples', k) = [order |-> order, key |-> k]
    BY <1>16, <1>17 DEF EntryOf
  <2>3. IndexOf(samples') = IndexOf(rest) \union {[order |-> order, key |-> k]}
    BY <2>1, <2>2, <1>17 DEF IndexOf
  <2> QED BY <2>3, <1>1, <1>10, <1>14
<1>20. Bounded(samples')
  <2>1. Present(rest) \subseteq Present(others)
    BY <1>14
  <2>2. IsFiniteSet(Present(rest))
    BY <2>1, <1>12, FS_Subset
  <2>3. Cardinality(Present(rest)) \in Nat
    BY <2>2, FS_CardinalityType
  <2>4. /\ IsFiniteSet(Present(rest) \union {k})
        /\ Cardinality(Present(rest) \union {k}) = Cardinality(Present(rest)) + 1
    BY <2>2, <1>17, FS_AddElement
  <2>5. MaxSamples \in Nat
    BY DEF QualityAssumption
  <2>6. Cardinality(Present(rest)) + 1 <= MaxSamples
    BY <2>3, <2>5, <1>13
  <2>7. Present(samples') = Present(rest) \union {k}
    BY <1>17
  <2>8. IsFiniteSet(Present(samples')) /\ Cardinality(Present(samples')) <= MaxSamples
    BY <2>4, <2>6, <2>7
  <2> QED BY <2>8 DEF Bounded
<1>21. /\ k \in Present(samples') /\ samples'[k].order = order
       /\ samples'[k].observed = moment
       /\ \A l \in Keys \ {k} : samples'[l] = samples[l] \/ samples'[l] = NoSample
  BY <1>16, <1>17
<1>22. samples'[k].explored = IF k \in Present(samples) /\ moment - samples[k].observed < Ttl
                              THEN samples[k].explored ELSE moment
  BY <1>5, <1>9, <1>16, <1>17
<1>23. ASSUME NEW j \in Present(samples) \ {k}, samples'[j] = NoSample,
              moment - samples[j].observed < Ttl
       PROVE  /\ Cardinality(Present(samples)) = MaxSamples
              /\ \A l \in Present(samples') \ {k} : Earlier(samples[j].order, samples[l].order)
  <2>1. j \in Present(others) /\ j \notin Present(rest)
    <3>1. j \in Present(others)
      BY <1>23, <1>5, <1>7
    <3>2. samples[j] # NoSample /\ j \in Keys
      BY DEF Present
    <3> QED BY <3>1, <3>2, <1>17, <1>23
  <2>2. EntryOf(others, j) \in popped
    BY <2>1, <1>14
  <2>3. Cardinality(Present(samples)) = MaxSamples
    <3>1. Cardinality(Present(others)) >= MaxSamples /\ MaxSamples \in Nat
      BY <2>2, <1>13 DEF QualityAssumption
    <3>2. Cardinality(Present(others)) >= Cardinality(Present(samples))
      BY <3>1, <1>12
    <3> QED BY <3>1, <3>2, <1>12
  <2>4. ASSUME NEW l \in Present(samples') \ {k}
        PROVE  Earlier(samples[j].order, samples[l].order)
    <3>1. l \in Present(rest) /\ l \in Present(others) /\ l # j
      BY <1>17, <2>1
    <3>2. EntryOf(others, l) \in IndexOf(others) \ popped
      BY <3>1, <1>14 DEF IndexOf
    <3>3. ~Earlier(EntryOf(others, l).order, EntryOf(others, j).order)
      BY <3>2, <2>2, <1>13
    <3>4. /\ EntryOf(others, l).order = samples[l].order
          /\ EntryOf(others, j).order = samples[j].order
      BY <3>1, <2>1, <1>11 DEF EntryOf
    <3>5. l \in Present(samples) /\ j \in Present(samples)
      BY <3>1, <1>11
    <3>6. samples[l].order.sequence # samples[j].order.sequence
      BY <3>1, <3>5, <1>2 DEF Ordered
    <3>7. samples[l].order \in Orders /\ samples[j].order \in Orders
      BY <3>5, <1>3, SampleKinds
    <3> QED BY <3>3, <3>4, <3>6, <3>7, EarlierOrders
  <2> QED BY <2>3, <2>4
<1> QED BY <1>1, <1>18, <1>19, <1>20, <1>21, <1>22, <1>23 DEF order

-----------------------------------------------------------------------------
(* Steps. *)

LEMMA NoneHeld ==
  ASSUME QualityAssumption, NEW now, NEW last
  PROVE  LET none == [k \in Keys |-> NoSample]
         IN  /\ none \in [Keys -> Samples \union {NoSample}]
             /\ Present(none) = {} /\ IndexOf(none) = {}
             /\ Ordered(none, now, last) /\ Bounded(none)
<1> DEFINE none == [k \in Keys |-> NoSample]
<1>1. Present(none) = {}
  BY DEF Present
<1>2. none \in [Keys -> Samples \union {NoSample}]
  OBVIOUS
<1> HIDE DEF none
<1>3. IndexOf(none) = {} /\ Ordered(none, now, last)
  BY <1>1 DEF IndexOf, Ordered
<1>4. IsFiniteSet({}) /\ Cardinality({}) = 0 /\ 0 <= MaxSamples
  BY FS_EmptySet DEF QualityAssumption
<1>5. Bounded(none)
  BY <1>1, <1>4 DEF Bounded
<1> QED BY <1>1, <1>2, <1>3, <1>5 DEF none

LEMMA QualityBegins == ASSUME QualityAssumption, QualityInit PROVE QualityIInv
<1>1. /\ samples = [k \in Keys |-> NoSample] /\ expiry = {} /\ sequence = 0
      /\ mode \in Modes /\ recorder = [r \in Recorders |-> NoKey] /\ moment = 0
      /\ tried = [k \in Keys |-> MaxMoment + 1]
  BY DEF QualityInit
<1>2. /\ samples \in [Keys -> Samples \union {NoSample}]
      /\ Present(samples) = {} /\ IndexOf(samples) = {}
      /\ Ordered(samples, moment, sequence) /\ Bounded(samples)
  BY <1>1, NoneHeld
<1>3. QualityTypes
  BY <1>1, <1>2 DEF QualityTypes, QualityAssumption
<1>4. QualityInv
  BY <1>1, <1>2 DEF QualityInv, IndexHoldsSamples, OffIsEmpty, IndexOf, EntryOf
<1>5. Marked(samples, tried, moment)
  BY <1>1 DEF Marked, QualityAssumption
<1>6. SettingsFree
  BY <1>1 DEF SettingsFree
<1> QED BY <1>2, <1>3, <1>4, <1>5, <1>6 DEF QualityIInv

LEMMA BeginRecordKeeps ==
  ASSUME QualityAssumption, QualityIInv, NEW r \in Recorders, NEW k \in Keys, BeginRecord(r, k)
  PROVE  QualityIInv'
<1>1. /\ recorder' = [recorder EXCEPT ![r] = k] /\ mode # "off"
      /\ UNCHANGED << samples, expiry, sequence, mode, moment, tried >>
  BY DEF BeginRecord
<1>2. QualityTypes'
  BY <1>1 DEF QualityIInv, QualityTypes
<1>3. QualityInv'
  BY <1>1 DEF QualityIInv, QualityInv, IndexHoldsSamples, OffIsEmpty, Present
<1>4. Ordered(samples', moment', sequence') /\ Bounded(samples')
      /\ Marked(samples', tried', moment')
  BY <1>1 DEF QualityIInv
<1> QED BY <1>1, <1>2, <1>3, <1>4 DEF QualityIInv

LEMMA EndRecordKeeps ==
  ASSUME QualityAssumption, QualityIInv, NEW r \in Recorders, EndRecord(r)
  PROVE  QualityIInv'
<1> DEFINE k == recorder[r]
<1>1. /\ k # NoKey /\ sequence < MaxRecords /\ Record(k)
      /\ recorder' = [recorder EXCEPT ![r] = NoKey]
      /\ UNCHANGED << mode, moment, tried >>
  BY DEF EndRecord
<1>2. /\ k \in Keys /\ sequence \in 0..MaxRecords /\ moment \in 0..MaxMoment
      /\ MaxRecords \in Nat /\ MaxMoment \in Nat
      /\ samples \in [Keys -> Samples \union {NoSample}]
      /\ tried \in [Keys -> 0..(MaxMoment + 1)]
  BY <1>1 DEF QualityIInv, QualityTypes, QualityAssumption
<1>3. mode # "off"
  BY <1>1 DEF QualityIInv, SettingsFree
<1>4. recorder' \in [Recorders -> Keys \union {NoKey}]
  BY <1>1 DEF QualityIInv, QualityTypes
<1> HIDE DEF k
<1>5. /\ samples' \in [Keys -> Samples \union {NoSample}]
      /\ expiry' = IndexOf(samples') /\ sequence' = sequence + 1
      /\ k \in Present(samples')
      /\ samples'[k].order = [moment |-> moment, sequence |-> sequence + 1]
      /\ samples'[k].observed = moment
      /\ samples'[k].explored = IF k \in Present(samples) /\ moment - samples[k].observed < Ttl
                                THEN samples[k].explored ELSE moment
      /\ \A l \in Keys \ {k} : samples'[l] = samples[l] \/ samples'[l] = NoSample
      /\ Bounded(samples')
  BY <1>1, <1>2, RecordIs
<1>6. \A l \in Present(samples') \ {k} :
        l \in Present(samples) /\ samples'[l] = samples[l]
  BY <1>5 DEF Present
<1>7. Ordered(samples, moment, sequence) /\ Marked(samples, tried, moment)
  BY DEF QualityIInv
<1>8. QualityTypes'
  BY <1>1, <1>2, <1>4, <1>5 DEF QualityIInv, QualityTypes
<1>9. QualityInv'
  BY <1>1, <1>3, <1>5 DEF QualityInv, IndexHoldsSamples, OffIsEmpty, IndexOf, EntryOf, Present
<1>10. samples'[k].explored <= moment
  <2>1. CASE k \in Present(samples)
    BY <2>1, <1>2, <1>5, <1>7 DEF Ordered
  <2>2. CASE k \notin Present(samples)
    BY <2>2, <1>2, <1>5
  <2> QED BY <2>1, <2>2
<1>11. Ordered(samples', moment, sequence + 1)
  <2>1. ASSUME NEW l \in Present(samples')
        PROVE  /\ samples'[l] \in Samples
               /\ samples'[l].order.moment = samples'[l].observed
               /\ samples'[l].observed <= moment /\ samples'[l].explored <= moment
               /\ samples'[l].order.sequence <= sequence + 1
               /\ l # k => samples'[l].order.sequence <= sequence
    <3>1. samples'[l] \in Samples
      BY <1>5 DEF Present
    <3>2. CASE l = k
      BY <3>1, <3>2, <1>2, <1>5, <1>10
    <3>3. CASE l # k
      <4>1. samples'[l].order.sequence \in Nat
        BY <3>1, SampleKinds
      <4> QED BY <3>1, <3>3, <4>1, <1>2, <1>6, <1>7 DEF Ordered
    <3> QED BY <3>2, <3>3
  <2>2. ASSUME NEW l \in Present(samples'), NEW m \in Present(samples'),
               samples'[l].order.sequence = samples'[m].order.sequence
        PROVE  l = m
    <3>1. CASE l # k /\ m # k
      BY <3>1, <2>2, <1>6, <1>7 DEF Ordered
    <3>2. \A x \in Present(samples') \ {k} : samples'[x].order.sequence # sequence + 1
      BY <2>1, <1>2
    <3> QED BY <3>1, <3>2, <2>2, <1>5
  <2> QED BY <2>1, <2>2 DEF Ordered
<1>12. Marked(samples', tried, moment)
  <2> SUFFICES ASSUME NEW l \in Keys, tried[l] <= MaxMoment
               PROVE  /\ tried[l] <= moment
                      /\ l \in Present(samples') => tried[l] <= samples'[l].explored
    BY DEF Marked
  <2>1. /\ tried[l] <= moment
        /\ l \in Present(samples) => tried[l] <= samples[l].explored
    BY <1>7 DEF Marked
  <2> QED BY <2>1, <1>5, <1>6
<1> QED BY <1>1, <1>3, <1>5, <1>8, <1>9, <1>11, <1>12 DEF QualityIInv

LEMMA SetModeKeeps ==
  ASSUME QualityAssumption, QualityIInv, NEW next \in Modes \ {mode}, SetMode(next)
  PROVE  QualityIInv'
<1>1. /\ SettingsFree /\ mode' = next
      /\ UNCHANGED << sequence, recorder, moment, tried >>
  BY DEF SetMode
<1>2. SettingsFree'
  BY <1>1 DEF SettingsFree
<1>3. CASE next = "off"
  <2>1. samples' = [k \in Keys |-> NoSample] /\ expiry' = {}
    BY <1>3 DEF SetMode
  <2>2. /\ samples' \in [Keys -> Samples \union {NoSample}]
        /\ Present(samples') = {} /\ IndexOf(samples') = {}
        /\ Ordered(samples', moment', sequence') /\ Bounded(samples')
    BY <2>1, NoneHeld
  <2>3. QualityTypes'
    BY <2>2, <1>1 DEF QualityIInv, QualityTypes
  <2>4. QualityInv'
    BY <2>1, <2>2 DEF QualityInv, IndexHoldsSamples, OffIsEmpty, IndexOf, EntryOf, Present
  <2>5. Marked(samples', tried', moment')
    BY <2>2, <1>1 DEF QualityIInv, Marked
  <2> QED BY <2>2, <2>3, <2>4, <2>5, <1>2 DEF QualityIInv
<1>4. CASE next # "off"
  <2>1. UNCHANGED << samples, expiry >>
    BY <1>4 DEF SetMode
  <2>2. QualityTypes'
    BY <2>1, <1>1 DEF QualityIInv, QualityTypes
  <2>3. QualityInv'
    BY <2>1, <1>1, <1>4 DEF QualityIInv, QualityInv, IndexHoldsSamples, OffIsEmpty, Present
  <2>4. Ordered(samples', moment', sequence') /\ Bounded(samples')
        /\ Marked(samples', tried', moment')
    BY <2>1, <1>1 DEF QualityIInv
  <2> QED BY <2>2, <2>3, <2>4, <1>2 DEF QualityIInv
<1> QED BY <1>3, <1>4

LEMMA TakeKeeps ==
  ASSUME QualityAssumption, QualityIInv, NEW k \in Keys, TakeForTarget(k)
  PROVE  QualityIInv'
<1>1. /\ mode = "adaptive" /\ Reserved(k)
      /\ tried' = tried \/ tried' = [tried EXCEPT ![k] = moment]
      /\ UNCHANGED << expiry, sequence, mode, recorder, moment >>
  BY DEF TakeForTarget
<1>2. /\ samples \in [Keys -> Samples \union {NoSample}]
      /\ moment \in 0..MaxMoment /\ MaxMoment \in Nat
      /\ tried \in [Keys -> 0..(MaxMoment + 1)]
      /\ Ordered(samples, moment, sequence) /\ Bounded(samples)
      /\ Marked(samples, tried, moment) /\ IndexHoldsSamples
  BY DEF QualityIInv, QualityTypes, QualityAssumption, QualityInv
\* Only the moment of its exploration changes, and that of k alone.
<1>3. /\ samples' \in [Keys -> Samples \union {NoSample}]
      /\ Present(samples') = Present(samples)
      /\ \A l \in Present(samples) :
           /\ samples'[l].order = samples[l].order /\ samples'[l].observed = samples[l].observed
           /\ samples'[l].explored = IF l = k THEN moment ELSE samples[l].explored
           /\ samples'[l] \in Samples
  <2>1. CASE samples[k] = NoSample
    <3>1. samples' = samples /\ k \notin Present(samples)
      BY <2>1, <1>1 DEF Reserved, Present
    <3>2. \A l \in Present(samples) : samples[l] \in Samples
      BY <1>2 DEF Ordered
    <3> QED BY <3>1, <3>2, <1>2
  <2>2. CASE samples[k] # NoSample
    <3>1. samples' = [samples EXCEPT ![k].explored = moment]
      BY <2>2, <1>1 DEF Reserved
    <3>2. samples[k] \in Samples
      BY <2>2, <1>2
    <3>3. /\ [samples[k] EXCEPT !.explored = moment] \in Samples
          /\ [samples[k] EXCEPT !.explored = moment].order = samples[k].order
          /\ [samples[k] EXCEPT !.explored = moment].observed = samples[k].observed
          /\ [samples[k] EXCEPT !.explored = moment].explored = moment
      BY <3>2, <1>2 DEF Samples
    <3>4. [samples[k] EXCEPT !.explored = moment] # NoSample
      BY <3>3, SampleKinds
    <3>5. samples' = [samples EXCEPT ![k] = [samples[k] EXCEPT !.explored = moment]]
      BY <3>1, <1>2
    <3> DEFINE s == [samples[k] EXCEPT !.explored = moment]
    <3>6. \A l \in Present(samples) : samples[l] \in Samples /\ l \in Keys
      BY <1>2 DEF Ordered, Present
    <3> HIDE DEF s
    <3>7. samples' = [samples EXCEPT ![k] = s]
      BY <3>5 DEF s
    <3>8. Present(samples') = Present(samples)
      BY <3>4, <3>7, <2>2, <1>2 DEF Present, s
    <3>9. samples' \in [Keys -> Samples \union {NoSample}]
      BY <3>3, <3>7, <1>2 DEF s
    <3>10. /\ s.order = samples[k].order /\ s.observed = samples[k].observed
           /\ s.explored = moment /\ s \in Samples
      BY <3>3 DEF s
    <3> QED BY <3>6, <3>7, <3>8, <3>9, <3>10, <1>2
  <2> QED BY <2>1, <2>2
<1>4. QualityTypes'
  <2>1. tried' \in [Keys -> 0..(MaxMoment + 1)]
    BY <1>1, <1>2
  <2> QED BY <2>1, <1>1, <1>3 DEF QualityIInv, QualityTypes
<1>5. expiry' = {[order |-> samples'[l].order, key |-> l] : l \in Present(samples')}
  BY <1>1, <1>2, <1>3 DEF IndexHoldsSamples
<1>6. QualityInv'
  BY <1>1, <1>5 DEF QualityInv, IndexHoldsSamples, OffIsEmpty, Present
<1>7. Ordered(samples', moment', sequence')
  BY <1>1, <1>2, <1>3 DEF Ordered
<1>8. Bounded(samples')
  BY <1>2, <1>3 DEF Bounded
<1>9. Marked(samples', tried', moment')
  <2> SUFFICES ASSUME NEW l \in Keys, tried'[l] <= MaxMoment
               PROVE  /\ tried'[l] <= moment
                      /\ l \in Present(samples) => tried'[l] <= samples'[l].explored
    BY <1>1, <1>3 DEF Marked
  <2>1. CASE tried'[l] = moment
    <3>1. l # k => tried'[l] = tried[l]
      BY <1>1, <1>2
    <3> QED BY <2>1, <3>1, <1>2, <1>3 DEF Marked
  <2>2. CASE tried'[l] = tried[l]
    BY <2>2, <1>2, <1>3 DEF Marked
  <2> QED BY <2>1, <2>2, <1>1, <1>2
<1> QED BY <1>1, <1>4, <1>6, <1>7, <1>8, <1>9 DEF QualityIInv

LEMMA PassKeeps ==
  ASSUME QualityAssumption, QualityIInv, Pass PROVE QualityIInv'
<1>1. /\ moment < MaxMoment /\ moment' = moment + 1
      /\ UNCHANGED << samples, expiry, sequence, mode, recorder, tried >>
  BY DEF Pass
<1>2. QualityTypes' /\ moment \in Nat
  BY <1>1 DEF QualityIInv, QualityTypes, QualityAssumption
<1>3. QualityInv'
  BY <1>1 DEF QualityIInv, QualityInv, IndexHoldsSamples, OffIsEmpty, Present
<1>4. Ordered(samples', moment', sequence')
  <2>1. \A k \in Present(samples) :
          /\ samples[k] \in Samples
          /\ samples[k].observed <= moment /\ samples[k].explored <= moment
          /\ samples[k].observed \in Nat /\ samples[k].explored \in Nat
    BY SampleKinds DEF QualityIInv, Ordered, QualityAssumption
  <2>2. \A k \in Present(samples) : samples[k].observed <= moment + 1
                                     /\ samples[k].explored <= moment + 1
    BY <2>1, <1>2
  <2> QED BY <2>2, <1>1 DEF QualityIInv, Ordered
<1>5. Bounded(samples')
  BY <1>1 DEF QualityIInv, Bounded
<1>6. Marked(samples', tried', moment')
  <2>1. \A k \in Keys : tried[k] \in Nat
    BY DEF QualityIInv, QualityTypes, QualityAssumption
  <2> QED BY <2>1, <1>1, <1>2 DEF QualityIInv, Marked
<1>7. (mode = "off" => SettingsFree)'
  BY <1>1 DEF QualityIInv, SettingsFree
<1> QED BY <1>2, <1>3, <1>4, <1>5, <1>6, <1>7 DEF QualityIInv

LEMMA QualityStep ==
  ASSUME QualityAssumption, QualityIInv, [QualityNext]_qualityVars PROVE QualityIInv'
<1>1. CASE \E r \in Recorders : EndRecord(r) \/ \E k \in Keys : BeginRecord(r, k)
  BY <1>1, EndRecordKeeps, BeginRecordKeeps
<1>2. CASE \E next \in Modes \ {mode} : SetMode(next)
  BY <1>2, SetModeKeeps
<1>3. CASE \E k \in Keys : TakeForTarget(k)
  BY <1>3, TakeKeeps
<1>4. CASE Pass
  BY <1>4, PassKeeps
<1>5. CASE UNCHANGED qualityVars
  BY <1>5 DEF qualityVars, QualityIInv, QualityTypes, QualityInv, IndexHoldsSamples, OffIsEmpty,
              Present, Ordered, Bounded, Marked, SettingsFree
<1> QED BY <1>1, <1>2, <1>3, <1>4, <1>5 DEF QualityNext

\* However samples are renewed, expire, make room and are thrown away with the mode, the
\* two maps of target_quality.rs hold the same ones, and none when it is off.
THEOREM QualityHolds == QualitySpec => []QualityInv
<1>1. QualityInit => QualityIInv
  BY QualityBegins, QualityAssumption
<1>2. QualityIInv /\ [QualityNext]_qualityVars => QualityIInv'
  BY QualityStep, QualityAssumption
<1>3. QualityIInv => QualityInv
  BY DEF QualityIInv
<1> QED BY <1>1, <1>2, <1>3, PTL DEF QualitySpec

\* A sample goes by its age or as the oldest of a full map; and a node that does badly is
\* explored once in an interval, whatever becomes of its sample meanwhile.
LEMMA LessonsStay ==
  ASSUME QualityAssumption, QualityIInv, [QualityNext]_qualityVars
  PROVE  [OldestMakesRoom /\ ExploredNowAndThen]_qualityVars
<1> SUFFICES ASSUME QualityNext PROVE OldestMakesRoom /\ ExploredNowAndThen
  BY DEF qualityVars
<1>1. /\ samples \in [Keys -> Samples \union {NoSample}]
      /\ moment \in 0..MaxMoment /\ MaxMoment \in Nat
      /\ tried \in [Keys -> 0..(MaxMoment + 1)]
      /\ Ordered(samples, moment, sequence) /\ Marked(samples, tried, moment)
  BY DEF QualityIInv, QualityTypes, QualityAssumption
<1>2. ASSUME NEW k \in Present(samples), samples'[k] = NoSample,
             moment - samples[k].observed < Ttl, mode' # "off",
             NEW r \in Recorders, EndRecord(r)
      PROVE  /\ Cardinality(Present(samples)) = MaxSamples
             /\ \A l \in Present(samples') :
                  l \in Present(samples) /\ samples'[l] = samples[l] =>
                    Earlier(samples[k].order, samples[l].order)
  <2>1. recorder[r] \in Keys /\ Record(recorder[r]) /\ sequence < MaxRecords
        /\ sequence \in Nat
    BY <1>2 DEF EndRecord, QualityIInv, QualityTypes, QualityAssumption
  <2>2. /\ recorder[r] \in Present(samples')
        /\ samples'[recorder[r]].order.sequence = sequence + 1
        /\ \A j \in Present(samples) \ {recorder[r]} :
             samples'[j] = NoSample /\ moment - samples[j].observed < Ttl =>
               /\ Cardinality(Present(samples)) = MaxSamples
               /\ \A l \in Present(samples') \ {recorder[r]} :
                    Earlier(samples[j].order, samples[l].order)
    BY <2>1, RecordIs
  <2>3. k # recorder[r]
    BY <2>2, <1>2 DEF Present
  <2>4. \A l \in Present(samples) : samples[l].order.sequence # sequence + 1
    <3>1. \A l \in Present(samples) : samples[l].order.sequence <= sequence
                                       /\ samples[l].order.sequence \in Nat
      BY <1>1, SampleKinds DEF Ordered
    <3> QED BY <3>1, <2>1
  <2> QED BY <2>2, <2>3, <2>4, <1>2
<1>3. ASSUME NEW k \in Present(samples), samples'[k] = NoSample, mode' # "off"
      PROVE  \E r \in Recorders : EndRecord(r)
  <2>1. samples[k] # NoSample
    BY DEF Present
  <2>2. ASSUME NEW l \in Keys, TakeForTarget(l) PROVE FALSE
    <3>1. CASE samples[l] = NoSample
      BY <3>1, <2>1, <2>2, <1>3 DEF TakeForTarget, Reserved
    <3>2. CASE samples[l] # NoSample
      <4>1. samples[l] \in Samples
        BY <3>2, <1>1
      <4>2. [samples[l] EXCEPT !.explored = moment] \in Samples
        BY <4>1, <1>1 DEF Samples
      <4>3. samples' = [samples EXCEPT ![l] = [samples[l] EXCEPT !.explored = moment]]
        BY <3>2, <2>2, <1>1 DEF TakeForTarget, Reserved
      <4>4. [samples[l] EXCEPT !.explored = moment] # NoSample
        BY <4>2, SampleKinds
      <4> DEFINE s == [samples[l] EXCEPT !.explored = moment]
      <4> HIDE DEF s
      <4>5. samples' = [samples EXCEPT ![l] = s] /\ s # NoSample
        BY <4>3, <4>4 DEF s
      <4>6. k \in Keys
        BY DEF Present
      <4> QED BY <4>5, <4>6, <2>1, <1>3, <1>1
    <3> QED BY <3>1, <3>2
  <2>3. ASSUME NEW next \in Modes \ {mode}, SetMode(next) PROVE FALSE
    BY <2>1, <2>3, <1>3 DEF SetMode
  <2>4. ~Pass /\ \A r \in Recorders : ~(\E l \in Keys : BeginRecord(r, l))
    BY <2>1, <1>3 DEF Pass, BeginRecord
  <2> QED BY <2>2, <2>3, <2>4 DEF QualityNext
<1>4. OldestMakesRoom
  BY <1>2, <1>3 DEF OldestMakesRoom
<1>5. ASSUME NEW k \in Keys, tried'[k] # tried[k], tried[k] <= MaxMoment
      PROVE  moment - tried[k] >= Interval
  <2>1. ASSUME NEW l \in Keys, TakeForTarget(l)
        PROVE  ExplorationDue(k)
    <3>1. tried' = [tried EXCEPT ![l] = moment] /\ ExplorationDue(l)
      BY <2>1, <1>5 DEF TakeForTarget
    <3> QED BY <3>1, <1>5, <1>1
  <2>2. \E l \in Keys : TakeForTarget(l)
    BY <1>5 DEF QualityNext, EndRecord, BeginRecord, SetMode, Pass
  <2>3. /\ samples[k] # NoSample /\ moment - samples[k].explored >= Interval
        /\ k \in Present(samples)
    BY <2>1, <2>2 DEF ExplorationDue, Present
  <2>4. tried[k] <= samples[k].explored /\ samples[k].explored \in 0..MaxMoment
    BY <2>3, <1>5, <1>1, SampleKinds DEF Marked
  <2>5. Interval \in Nat /\ tried[k] \in Nat /\ moment \in Nat
    BY <1>1 DEF QualityAssumption
  <2> QED BY <2>3, <2>4, <2>5
<1> QED BY <1>4, <1>5 DEF ExploredNowAndThen

THEOREM LessonsHold == QualitySpec => LessonsAreKept
<1>1. QualityInit => QualityIInv
  BY QualityBegins, QualityAssumption
<1>2. QualityIInv /\ [QualityNext]_qualityVars => QualityIInv'
  BY QualityStep, QualityAssumption
<1>3. QualityIInv /\ [QualityNext]_qualityVars
        => [OldestMakesRoom /\ ExploredNowAndThen]_qualityVars
  BY LessonsStay, QualityAssumption
<1> QED BY <1>1, <1>2, <1>3, PTL DEF QualitySpec, LessonsAreKept

-----------------------------------------------------------------------------
(* The circuits of targets. *)

Circuits == [breaker : Breaker!Breakers, next : Int, timeout : Timeouts, last : 0..MaxTime]

DialRecords ==
  [pc : {"idle", "dialing", "recording"}, route : Routes \union {NoRoute},
   timeout : Timeouts \union {0}]

\* A dial knows its route, and what it writes, the settings to write it with.
DialsOK(dials) ==
  /\ dials \in [Dials -> DialRecords]
  /\ \A d \in Dials : /\ dials[d].pc # "idle" => dials[d].route \in Routes
                      /\ dials[d].pc = "recording" => dials[d].timeout \in Timeouts

CircuitTypes ==
  /\ circuits \in [Routes -> Circuits \union {NoCircuit}]
  /\ timeout \in Timeouts /\ admin \in {"idle", "applying"} /\ time \in 0..MaxTime
  /\ DialsOK(dial)

HeldIn(map) == {k \in Routes : map[k] # NoCircuit}

CircuitIInv ==
  /\ CircuitTypes
  /\ IsFiniteSet(Entries) /\ CircuitsBounded
  /\ TimedBySettings

-----------------------------------------------------------------------------
(* What a circuit becomes. *)

LEMMA CircuitIs ==
  ASSUME CircuitAssumption, NEW c \in Circuits
  PROVE  /\ c # NoCircuit /\ c.breaker \in Breaker!Breakers /\ c.next \in Int
         /\ c.timeout \in Timeouts /\ c.timeout \in Nat
         /\ c.last \in 0..MaxTime /\ c.last \in Nat
<1>1. NoCircuit.timeout = 0
  BY DEF NoCircuit
<1>2. /\ c.breaker \in Breaker!Breakers /\ c.next \in Int /\ c.timeout \in Timeouts
      /\ c.last \in 0..MaxTime
  BY DEF Circuits
<1>3. c.timeout \in Nat \ {0}
  BY <1>2 DEF CircuitAssumption
<1>4. c.last \in Nat
  BY <1>2 DEF CircuitAssumption
<1> QED BY <1>1, <1>2, <1>3, <1>4

LEMMA BreakersStay ==
  ASSUME CircuitAssumption, NEW b \in Breaker!Breakers, NEW d \in Dials
  PROVE  /\ Breaker!Forget(b, d) \in Breaker!Breakers
         /\ Breaker!TryBeginAttempt(b, d) \in Breaker!Breakers
         /\ Breaker!RecordFailure(b, Threshold) \in Breaker!Breakers
         /\ Breaker!CancelHalfOpen(b) \in Breaker!Breakers
         /\ Breaker!NewBreaker \in Breaker!Breakers
<1>1. Breaker!Forget(b, d) \in Breaker!Breakers
  BY DEF Breaker!Forget, Breaker!Breakers, Breaker!Tokens
<1>2. Breaker!TryBeginAttempt(b, d) \in Breaker!Breakers
  BY DEF Breaker!TryBeginAttempt, Breaker!Breakers, Breaker!Tokens
<1>3. Breaker!RecordFailure(b, Threshold) \in Breaker!Breakers
  BY DEF Breaker!RecordFailure, Breaker!Breakers, Breaker!Tokens, CircuitAssumption
<1>4. Breaker!CancelHalfOpen(b) \in Breaker!Breakers
  BY DEF Breaker!CancelHalfOpen, Breaker!Breakers, Breaker!Tokens
<1>5. Breaker!NewBreaker \in Breaker!Breakers
  BY DEF Breaker!NewBreaker, Breaker!Breakers, Breaker!Tokens, CircuitAssumption
<1> QED BY <1>1, <1>2, <1>3, <1>4, <1>5

LEMMA BreakerSet ==
  ASSUME NEW c \in Circuits, NEW b \in Breaker!Breakers
  PROVE  /\ [c EXCEPT !.breaker = b] \in Circuits
         /\ [c EXCEPT !.breaker = b].timeout = c.timeout
  BY DEF Circuits

LEMMA OpenedIs ==
  ASSUME CircuitTypes, CircuitAssumption, NEW c \in Circuits, NEW b \in Breaker!Breakers
  PROVE  Opened(c, b) \in Circuits /\ Opened(c, b).timeout = c.timeout
<1>1. time \in Int /\ c.timeout \in Int /\ c.next \in Int
  BY CircuitIs DEF CircuitTypes, CircuitAssumption
<1>2. (IF b.state = "OPEN" THEN time + c.timeout ELSE c.next) \in Int
  BY <1>1
<1>3. \A next \in Int : [c EXCEPT !.breaker = b, !.next = next]
                          \in [breaker : Breaker!Breakers, next : Int,
                               timeout : {c.timeout}, last : 0..MaxTime]
  BY DEF Circuits
<1>4. Opened(c, b) = [c EXCEPT !.breaker = b,
                               !.next = IF b.state = "OPEN" THEN time + c.timeout ELSE c.next]
  BY DEF Opened, Circuits
<1>5. Opened(c, b) \in [breaker : Breaker!Breakers, next : Int,
                        timeout : {c.timeout}, last : 0..MaxTime]
  BY <1>2, <1>3, <1>4
<1>6. c.timeout \in Timeouts
  BY DEF Circuits
<1> QED BY <1>5, <1>6 DEF Circuits

LEMMA AppliedIs ==
  ASSUME CircuitTypes, CircuitAssumption, NEW c \in Circuits, NEW t \in Timeouts
  PROVE  Applied(c, t) \in Circuits /\ Applied(c, t).timeout = t
<1>1. t \in Int /\ c.timeout \in Int /\ c.next \in Int
  BY CircuitIs DEF CircuitAssumption
<1>2. (IF c.breaker.state = "OPEN" THEN c.next - c.timeout + t ELSE c.next) \in Int
  BY <1>1
<1>3. \A next \in Int : [c EXCEPT !.timeout = t, !.next = next]
                          \in [breaker : Breaker!Breakers, next : Int,
                               timeout : {t}, last : 0..MaxTime]
  BY DEF Circuits
<1>4. Applied(c, t)
        = [c EXCEPT !.timeout = t,
                    !.next = IF c.breaker.state = "OPEN" THEN c.next - c.timeout + t
                                                         ELSE c.next]
  BY DEF Applied, Circuits
<1>5. Applied(c, t) \in [breaker : Breaker!Breakers, next : Int,
                         timeout : {t}, last : 0..MaxTime]
  BY <1>2, <1>3, <1>4
<1> QED BY <1>5 DEF Circuits

\* The circuits that a failure makes or renews.
LEMMA FailedIs ==
  ASSUME CircuitTypes, CircuitAssumption, NEW old \in Circuits, NEW t \in Timeouts,
         NEW c, c = [Applied(old, t) EXCEPT !.last = time]
  PROVE  LET failed == Opened(c, Breaker!RecordFailure(c.breaker, Threshold))
         IN  failed \in Circuits /\ failed.timeout = t
<1>1. Applied(old, t) \in Circuits /\ Applied(old, t).timeout = t
  BY AppliedIs
<1>2. time \in 0..MaxTime
  BY DEF CircuitTypes
<1>3. \A a \in Circuits : [a EXCEPT !.last = time] \in Circuits
                           /\ [a EXCEPT !.last = time].timeout = a.timeout
  BY <1>2 DEF Circuits
<1>4. c \in Circuits /\ c.timeout = t
  BY <1>1, <1>3
<1>5. \A b \in Breaker!Breakers : Breaker!RecordFailure(b, Threshold) \in Breaker!Breakers
  BY DEF Breaker!RecordFailure, Breaker!Breakers, Breaker!Tokens, CircuitAssumption
<1>6. Breaker!RecordFailure(c.breaker, Threshold) \in Breaker!Breakers
  BY <1>4, <1>5, CircuitIs
<1> QED BY <1>4, <1>6, OpenedIs

LEMMA FirstCircuit ==
  ASSUME CircuitAssumption, NEW t \in Timeouts
  PROVE  [NoCircuit EXCEPT !.timeout = t] \in Circuits
<1>1. Breaker!NewBreaker \in Breaker!Breakers
  BY DEF Breaker!NewBreaker, Breaker!Breakers, Breaker!Tokens, CircuitAssumption
<1>2. 0 \in Int /\ 0 \in 0..MaxTime
  BY DEF CircuitAssumption
<1> QED BY <1>1, <1>2 DEF NoCircuit, Circuits

-----------------------------------------------------------------------------
(* Steps.                                                                    *)

\* Circuits that stay, go or come, as far as the invariant asks.
Survive(map, rcd, S) ==
  /\ map \in [Routes -> Circuits \union {NoCircuit}]
  /\ HeldIn(map) \subseteq S
  /\ \A k \in HeldIn(map) \ rcd :
       admin = "idle" => map[k].timeout = timeout

LEMMA SurviveKeeps ==
  ASSUME CircuitAssumption, CircuitIInv,
         NEW S, IsFiniteSet(S), Cardinality(S) <= MaxCircuits,
         Survive(circuits', raced', S), CircuitTypes',
         timeout' = timeout, admin' = admin
  PROVE  CircuitIInv'
<1>1. Entries' = HeldIn(circuits') /\ HeldIn(circuits') \subseteq S
  BY DEF Entries, HeldIn, Survive
<1>2. IsFiniteSet(Entries') /\ Cardinality(Entries') <= Cardinality(S)
  BY <1>1, FS_Subset
<1>3. Cardinality(Entries') \in Nat /\ Cardinality(S) \in Nat /\ MaxCircuits \in Nat
  BY <1>2, FS_CardinalityType DEF CircuitAssumption
<1>4. Cardinality(Entries') <= MaxCircuits
  BY <1>2, <1>3
<1>5. IsFiniteSet(Entries)'
  BY <1>2
<1>6. CircuitsBounded'
  BY <1>4 DEF CircuitsBounded
<1>7. TimedBySettings'
  BY <1>1 DEF TimedBySettings, Survive
<1> QED BY <1>5, <1>6, <1>7 DEF CircuitIInv

\* What a dial becomes.
LEMMA DialsStay ==
  ASSUME CircuitAssumption, CircuitTypes, NEW d \in Dials, NEW k \in Routes
  PROVE  /\ EndDial(d) => DialsOK(dial')
         /\ dial' = [dial EXCEPT ![d] = [pc |-> "dialing", route |-> k, timeout |-> 0]]
              => DialsOK(dial')
         /\ dial[d].pc = "dialing"
            /\ dial' = [dial EXCEPT ![d].pc = "recording", ![d].timeout = timeout]
              => DialsOK(dial')
<1>2. IdleDial \in DialRecords /\ IdleDial.pc = "idle"
  BY DEF IdleDial, DialRecords
<1>3. ASSUME EndDial(d) PROVE DialsOK(dial')
  BY <1>2, <1>3 DEF EndDial, DialsOK, CircuitTypes
<1>4. ASSUME NEW r, r \in DialRecords, dial' = [dial EXCEPT ![d] = r],
             r.pc # "idle" => r.route \in Routes,
             r.pc = "recording" => r.timeout \in Timeouts
      PROVE  DialsOK(dial')
  BY <1>4 DEF DialsOK, CircuitTypes
<1>5. ASSUME dial' = [dial EXCEPT ![d] = [pc |-> "dialing", route |-> k, timeout |-> 0]]
      PROVE  DialsOK(dial')
  <2>1. [pc |-> "dialing", route |-> k, timeout |-> 0] \in DialRecords
    BY DEF DialRecords
  <2> QED BY <2>1, <1>4, <1>5
<1>6. ASSUME dial[d].pc = "dialing",
             dial' = [dial EXCEPT ![d].pc = "recording", ![d].timeout = timeout]
      PROVE  DialsOK(dial')
  <2> DEFINE r == [dial[d] EXCEPT !.pc = "recording", !.timeout = timeout]
  <2>1. dial[d] \in DialRecords /\ dial[d].route \in Routes /\ timeout \in Timeouts
    BY <1>6 DEF CircuitTypes, DialsOK
  <2>2. r \in [pc : {"recording"}, route : {dial[d].route}, timeout : {timeout}]
    BY <2>1 DEF DialRecords
  <2>3. dial' = [dial EXCEPT ![d] = r]
    BY <1>6, <2>1 DEF CircuitTypes, DialsOK
  <2> HIDE DEF r
  <2>4. r \in DialRecords /\ r.route \in Routes /\ r.timeout \in Timeouts
    BY <2>1, <2>2 DEF DialRecords
  <2> QED BY <2>3, <2>4, <1>4
<1> QED BY <1>3, <1>5, <1>6

\* One circuit changes and is timed as before.
LEMMA OneEntry ==
  ASSUME CircuitAssumption, CircuitIInv, NEW k \in Entries, NEW c \in Circuits,
         c.timeout = circuits[k].timeout,
         circuits' = [circuits EXCEPT ![k] = c], raced' = raced
  PROVE  Survive(circuits', raced', Entries)
<1>1. k \in Routes /\ circuits \in [Routes -> Circuits \union {NoCircuit}]
  BY DEF Entries, CircuitIInv, CircuitTypes
<1>2. circuits' \in [Routes -> Circuits \union {NoCircuit}]
  BY <1>1
<1>3. HeldIn(circuits') \subseteq Entries
  BY <1>1 DEF HeldIn, Entries
<1>4. \A l \in Entries : circuits'[l].timeout = circuits[l].timeout
  BY <1>1 DEF Entries
<1>5. admin = "idle" => \A l \in Entries \ raced : circuits[l].timeout = timeout
  BY DEF CircuitIInv, TimedBySettings
<1> QED BY <1>2, <1>3, <1>4, <1>5 DEF Survive

\* Some circuits go.
LEMMA FewerEntries ==
  ASSUME CircuitAssumption, CircuitIInv, NEW gone,
         circuits' = [l \in Routes |-> IF l \in gone THEN NoCircuit ELSE circuits[l]],
         raced \ gone \subseteq raced'
  PROVE  Survive(circuits', raced', Entries)
<1>1. circuits \in [Routes -> Circuits \union {NoCircuit}]
  BY DEF CircuitIInv, CircuitTypes
<1>2. circuits' \in [Routes -> Circuits \union {NoCircuit}]
  BY <1>1
<1>3. HeldIn(circuits') = Entries \ gone
  BY DEF HeldIn, Entries
<1>4. \A l \in Entries \ gone : circuits'[l] = circuits[l]
  BY DEF Entries
<1>5. admin = "idle" => \A l \in Entries \ raced : circuits[l].timeout = timeout
  BY DEF CircuitIInv, TimedBySettings
<1> QED BY <1>2, <1>3, <1>4, <1>5 DEF Survive

\* The lease of a dial is dropped.
LEMMA ForgottenIs ==
  ASSUME CircuitAssumption, CircuitIInv, NEW d \in Dials,
         circuits' = Forgotten(d, circuits), raced' = raced
  PROVE  /\ Survive(circuits', raced', Entries)
         /\ \A k \in Entries : circuits'[k] # NoCircuit
<1>1. circuits \in [Routes -> Circuits \union {NoCircuit}]
  BY DEF CircuitIInv, CircuitTypes
<1> DEFINE kept(k) == [circuits[k] EXCEPT !.breaker = Breaker!Forget(@, d)]
<1>2. ASSUME NEW k \in Entries
      PROVE  kept(k) \in Circuits /\ kept(k).timeout = circuits[k].timeout
  <2>1. circuits[k] \in Circuits
    BY <1>1 DEF Entries
  <2>2. Breaker!Forget(circuits[k].breaker, d) \in Breaker!Breakers
    BY <2>1, BreakersStay, CircuitIs
  <2>3. kept(k) = [circuits[k] EXCEPT !.breaker = Breaker!Forget(circuits[k].breaker, d)]
    BY <2>1 DEF Circuits
  <2> HIDE DEF kept
  <2> QED BY <2>1, <2>2, <2>3, BreakerSet
<1>3. circuits' = [k \in Routes |-> IF circuits[k] = NoCircuit THEN NoCircuit ELSE kept(k)]
  BY DEF Forgotten
<1> HIDE DEF kept
<1>4. \A k \in Entries : kept(k) # NoCircuit
  BY <1>2, CircuitIs
<1>5. circuits' \in [Routes -> Circuits \union {NoCircuit}]
  BY <1>2, <1>3 DEF Entries
<1>6. HeldIn(circuits') \subseteq Entries
  BY <1>3 DEF HeldIn, Entries
<1>7. \A k \in Entries : circuits'[k] = kept(k)
  BY <1>3 DEF Entries
<1>8. admin = "idle" => \A l \in Entries \ raced : circuits[l].timeout = timeout
  BY DEF CircuitIInv, TimedBySettings
<1>9. Survive(circuits', raced', Entries)
  BY <1>2, <1>5, <1>6, <1>7, <1>8 DEF Survive
<1> QED BY <1>4, <1>7, <1>9

\* Entries change as said, and nothing else but the dial.
LEMMA OutcomeKeeps ==
  ASSUME CircuitAssumption, CircuitIInv, Survive(circuits', raced', Entries), DialsOK(dial'),
         UNCHANGED << timeout, admin, time >>
  PROVE  CircuitIInv'
<1>1. CircuitTypes'
  BY DEF CircuitIInv, CircuitTypes, Survive
<1> QED BY <1>1, SurviveKeeps DEF CircuitIInv, CircuitsBounded

LEMMA SameEntries ==
  ASSUME CircuitAssumption, CircuitIInv, circuits' = circuits, raced' = raced
  PROVE  Survive(circuits', raced', Entries)
BY DEF CircuitIInv, CircuitTypes, Survive, HeldIn, Entries, TimedBySettings

\* The route of a dial that is not idle.
LEMMA RouteOf ==
  ASSUME CircuitIInv, NEW d \in Dials, dial[d].pc # "idle"
  PROVE  dial[d].route \in Routes
BY DEF CircuitIInv, CircuitTypes, DialsOK

LEMMA BeginDialKeeps ==
  ASSUME CircuitAssumption, CircuitIInv, NEW d \in Dials, NEW k \in Routes, BeginDial(d, k)
  PROVE  CircuitIInv' /\ \A l \in Entries : circuits'[l] # NoCircuit
<1>1. /\ circuits' = IF k \notin Entries THEN circuits
                     ELSE [circuits EXCEPT ![k].breaker = Breaker!TryBeginAttempt(@, d)]
      /\ dial' = [dial EXCEPT ![d] = [pc |-> "dialing", route |-> k, timeout |-> 0]]
      /\ UNCHANGED << timeout, admin, time, raced >>
  BY DEF BeginDial
<1>2. DialsOK(dial')
  BY <1>1, DialsStay DEF CircuitIInv
<1>3. CASE k \notin Entries
  BY <1>1, <1>2, <1>3, SameEntries, OutcomeKeeps DEF Entries
<1>4. CASE k \in Entries
  <2> DEFINE c == [circuits[k] EXCEPT
                     !.breaker = Breaker!TryBeginAttempt(circuits[k].breaker, d)]
  <2>1. circuits \in [Routes -> Circuits \union {NoCircuit}] /\ circuits[k] \in Circuits
    BY <1>4 DEF CircuitIInv, CircuitTypes, Entries
  <2>2. c \in Circuits /\ c.timeout = circuits[k].timeout
    BY <2>1, BreakersStay, CircuitIs, BreakerSet
  <2>3. circuits' = [circuits EXCEPT ![k] = c]
    BY <1>1, <1>4, <2>1 DEF Circuits
  <2> HIDE DEF c
  <2>4. Survive(circuits', raced', Entries)
    BY <1>1, <1>4, <2>2, <2>3, OneEntry
  <2>5. \A l \in Entries : circuits'[l] # NoCircuit
    BY <2>1, <2>2, <2>3, CircuitIs DEF Entries
  <2> QED BY <1>1, <1>2, <2>4, <2>5, OutcomeKeeps
<1> QED BY <1>3, <1>4

LEMMA LoseDialKeeps ==
  ASSUME CircuitAssumption, CircuitIInv, NEW d \in Dials, LoseDial(d)
  PROVE  CircuitIInv' /\ \A l \in Entries : circuits'[l] # NoCircuit
<1>1. /\ dial[d].pc = "dialing" /\ circuits' = Forgotten(d, circuits) /\ EndDial(d)
      /\ UNCHANGED << timeout, admin, time, raced >>
  BY DEF LoseDial
<1>2. DialsOK(dial')
  <2>1. dial[d].route \in Routes
    BY <1>1, RouteOf
  <2> QED BY <1>1, <2>1, DialsStay DEF CircuitIInv
<1> QED BY <1>1, <1>2, ForgottenIs, OutcomeKeeps

LEMMA TargetAnswersKeeps ==
  ASSUME CircuitAssumption, CircuitIInv, NEW d \in Dials, TargetAnswers(d)
  PROVE  /\ CircuitIInv'
         /\ \A l \in Entries : circuits'[l] = NoCircuit => l = dial[d].route
<1>1. /\ dial[d].pc = "dialing" /\ circuits' = [circuits EXCEPT ![dial[d].route] = NoCircuit]
      /\ EndDial(d) /\ raced' = raced \ {dial[d].route}
      /\ UNCHANGED << timeout, admin, time >>
  BY DEF TargetAnswers, Outcome
<1>2. dial[d].route \in Routes
  BY <1>1, RouteOf
<1>3. DialsOK(dial')
  BY <1>1, <1>2, DialsStay DEF CircuitIInv
<1>4. circuits' = [l \in Routes |-> IF l \in {dial[d].route} THEN NoCircuit ELSE circuits[l]]
  BY <1>1 DEF CircuitIInv, CircuitTypes
<1>5. Survive(circuits', raced', Entries)
  BY <1>1, <1>4, FewerEntries
<1>6. \A l \in Entries : circuits'[l] = NoCircuit => l = dial[d].route
  BY <1>4 DEF Entries
<1> QED BY <1>1, <1>3, <1>5, <1>6, OutcomeKeeps

LEMMA NodeFailsKeeps ==
  ASSUME CircuitAssumption, CircuitIInv, NEW d \in Dials, NodeFails(d)
  PROVE  CircuitIInv' /\ \A l \in Entries : circuits'[l] # NoCircuit
<1> DEFINE k == dial[d].route
           c == Opened(circuits[k], Breaker!CancelHalfOpen(circuits[k].breaker))
<1>1. /\ dial[d].pc = "dialing" /\ EndDial(d)
      /\ circuits' = IF k \in Entries /\ circuits[k].breaker.state = "HALF_OPEN"
                     THEN [circuits EXCEPT ![k] = c] ELSE circuits
      /\ UNCHANGED << timeout, admin, time, raced >>
  BY DEF NodeFails, Outcome
<1>2. k \in Routes
  BY <1>1, RouteOf
<1>3. DialsOK(dial')
  BY <1>1, <1>2, DialsStay DEF CircuitIInv
<1>4. CASE circuits' = circuits
  BY <1>1, <1>3, <1>4, SameEntries, OutcomeKeeps DEF Entries
<1>5. CASE k \in Entries /\ circuits' = [circuits EXCEPT ![k] = c]
  <2>1. circuits \in [Routes -> Circuits \union {NoCircuit}] /\ circuits[k] \in Circuits
    BY <1>5 DEF CircuitIInv, CircuitTypes, Entries
  <2>2. Breaker!CancelHalfOpen(circuits[k].breaker) \in Breaker!Breakers
    BY <2>1, BreakersStay, CircuitIs
  <2>3. c \in Circuits /\ c.timeout = circuits[k].timeout
    BY <2>1, <2>2, OpenedIs DEF CircuitIInv
  <2> HIDE DEF c, k
  <2>4. Survive(circuits', raced', Entries)
    BY <1>1, <1>5, <2>3, OneEntry
  <2>5. \A l \in Entries : circuits'[l] # NoCircuit
    BY <1>5, <2>1, <2>3, CircuitIs DEF Entries
  <2> QED BY <1>1, <1>3, <2>4, <2>5, OutcomeKeeps
<1> QED BY <1>1, <1>4, <1>5

LEMMA TargetFailsKeeps ==
  ASSUME CircuitAssumption, CircuitIInv, NEW d \in Dials, TargetFails(d)
  PROVE  CircuitIInv' /\ circuits' = circuits
<1>1. /\ dial[d].pc = "dialing"
      /\ dial' = [dial EXCEPT ![d].pc = "recording", ![d].timeout = timeout]
      /\ UNCHANGED << circuits, timeout, admin, time, raced >>
  BY DEF TargetFails, Outcome
<1>2. dial[d].route \in Routes
  BY <1>1, RouteOf
<1>3. DialsOK(dial')
  BY <1>1, <1>2, DialsStay DEF CircuitIInv
<1> QED BY <1>1, <1>3, SameEntries, OutcomeKeeps

-----------------------------------------------------------------------------
(* Making room. *)

\* Counting the entries that are there, and those that stay.
LEMMA EntryCounts ==
  ASSUME CircuitAssumption, CircuitIInv, NEW S \in SUBSET Entries
  PROVE  /\ IsFiniteSet(S) /\ Cardinality(S) \in Nat /\ Cardinality(S) <= MaxCircuits
         /\ Cardinality(S) <= Cardinality(Entries)
         /\ Cardinality(Entries) \in Nat /\ MaxCircuits \in Nat
<1>1. IsFiniteSet(Entries) /\ Cardinality(Entries) <= MaxCircuits
  BY DEF CircuitIInv, CircuitsBounded
<1>2. IsFiniteSet(S) /\ Cardinality(S) <= Cardinality(Entries)
  BY <1>1, FS_Subset
<1>3. Cardinality(S) \in Nat /\ Cardinality(Entries) \in Nat /\ MaxCircuits \in Nat
  BY <1>1, <1>2, FS_CardinalityType DEF CircuitAssumption
<1> QED BY <1>1, <1>2, <1>3

\* What goes to let k in leaves room for it. Nothing goes that is tried; what goes had
\* not failed for long, or was the oldest of as many as there may be.
LEMMA RemovalsAre ==
  ASSUME CircuitAssumption, CircuitIInv, NEW k \in Routes, NEW gone \in Removals(k)
  PROVE  /\ gone \subseteq Entries \ {k}
         /\ IsFiniteSet((Entries \ gone) \union {k})
         /\ Cardinality((Entries \ gone) \union {k}) <= MaxCircuits
         /\ \A l \in gone : ~InTrial(l)
         /\ \A l \in gone : ~Lapsed(l) =>
              Cardinality({m \in Entries : InTrial(m) \/ circuits[m].last >= circuits[l].last})
                = MaxCircuits
<1> DEFINE lapsed == {l \in Entries : Lapsed(l)}
           kept == Entries \ lapsed
<1>1. CASE k \in Entries
  <2>1. gone = {} /\ (Entries \ gone) \union {k} = Entries
    BY <1>1 DEF Removals
  <2>2. IsFiniteSet(Entries) /\ Cardinality(Entries) <= MaxCircuits
    BY DEF CircuitIInv, CircuitsBounded
  <2> QED BY <2>1, <2>2
<1>2. CASE k \notin Entries
  <2>1. /\ gone = lapsed /\ Cardinality(kept) < MaxCircuits
        \/ \E l \in Evictable(kept) : /\ gone = lapsed \union {l}
                                      /\ ~(Cardinality(kept) < MaxCircuits)
    BY <1>2 DEF Removals
  <2>2. kept \in SUBSET Entries /\ lapsed \in SUBSET Entries
    OBVIOUS
  <2>3. /\ IsFiniteSet(kept) /\ Cardinality(kept) \in Nat /\ MaxCircuits \in Nat
        /\ Cardinality(kept) <= MaxCircuits
    BY <2>2, EntryCounts
  <2>4. \A l \in lapsed : ~InTrial(l) /\ Lapsed(l)
    BY DEF Lapsed
  <2> HIDE DEF lapsed
  <2>5. CASE gone = lapsed /\ Cardinality(kept) < MaxCircuits
    <3>1. Entries \ gone = kept /\ k \notin kept
      BY <2>5, <1>2
    <3> HIDE DEF kept
    <3>2. /\ IsFiniteSet(kept \union {k})
          /\ Cardinality(kept \union {k}) = Cardinality(kept) + 1
      BY <2>3, <3>1, FS_AddElement
    <3>3. Cardinality(kept) + 1 <= MaxCircuits
      BY <2>3, <2>5
    <3> QED BY <2>2, <2>4, <2>5, <3>1, <3>2, <3>3, <1>2
  <2>6. ASSUME NEW l \in Evictable(kept), gone = lapsed \union {l},
               ~(Cardinality(kept) < MaxCircuits)
        PROVE  /\ gone \subseteq Entries \ {k}
               /\ IsFiniteSet((Entries \ gone) \union {k})
               /\ Cardinality((Entries \ gone) \union {k}) <= MaxCircuits
               /\ \A m \in gone : ~InTrial(m)
               /\ \A m \in gone : ~Lapsed(m) =>
                    Cardinality({n \in Entries : InTrial(n) \/ circuits[n].last >= circuits[m].last})
                      = MaxCircuits
    <3>1. /\ l \in kept /\ ~InTrial(l)
          /\ \A m \in kept : ~InTrial(m) => circuits[l].last <= circuits[m].last
      BY <2>6 DEF Evictable
    <3>2. Entries \ gone = kept \ {l} /\ k \notin kept
      BY <2>6, <1>2
    <3>3. IsFiniteSet(kept \ {l}) /\ Cardinality(kept \ {l}) = Cardinality(kept) - 1
      BY <3>1, <2>3, FS_RemoveElement
    <3>4. /\ IsFiniteSet((kept \ {l}) \union {k})
          /\ Cardinality((kept \ {l}) \union {k}) = Cardinality(kept \ {l}) + 1
      BY <3>2, <3>3, FS_AddElement
    <3>5. Cardinality((kept \ {l}) \union {k}) <= MaxCircuits
      BY <3>3, <3>4, <2>3
    <3>6. gone \subseteq Entries \ {k}
      BY <2>2, <2>6, <3>1, <1>2
    <3>7. \A m \in gone : ~InTrial(m) /\ (~Lapsed(m) => m = l)
      BY <2>4, <2>6, <3>1
    <3> DEFINE Others == {n \in Entries : InTrial(n) \/ circuits[n].last >= circuits[l].last}
    <3>8. kept \subseteq Others
      <4>1. \A m \in Entries : circuits[m].last \in Nat
        BY CircuitIs DEF CircuitIInv, CircuitTypes, Entries
      <4>2. l \in Entries
        BY <3>1
      <4> SUFFICES ASSUME NEW m \in kept, ~InTrial(m)
                   PROVE  circuits[m].last >= circuits[l].last
        BY <2>2
      <4> QED BY <3>1, <4>1, <4>2
    <3>9. Others \in SUBSET Entries
      OBVIOUS
    <3> HIDE DEF Others, kept
    <3>10. IsFiniteSet(Others) /\ Cardinality(Others) <= MaxCircuits /\ Cardinality(Others) \in Nat
      BY <3>9, EntryCounts
    <3>11. Cardinality(kept) <= Cardinality(Others)
      BY <3>8, <3>10, FS_Subset
    <3>12. Cardinality(Others) = MaxCircuits
      BY <2>3, <2>6, <3>10, <3>11
    <3> QED BY <3>2, <3>4, <3>5, <3>6, <3>7, <3>12 DEF Others
  <2> QED BY <2>1, <2>5, <2>6
<1> QED BY <1>1, <1>2

\* A failure is written: what goes makes room, and the circuit that failed is there.
LEMMA RecordFailureIs ==
  ASSUME CircuitAssumption, CircuitIInv, NEW d \in Dials, RecordTargetFailure(d)
  PROVE  /\ CircuitIInv'
         /\ \A l \in Entries : circuits'[l] = NoCircuit =>
              /\ ~InTrial(l)
              /\ \/ Lapsed(l)
                 \/ Cardinality({m \in Entries :
                                   InTrial(m) \/ circuits[m].last >= circuits[l].last})
                      = MaxCircuits
<1> DEFINE k == dial[d].route
           t == dial[d].timeout
           new == [NoCircuit EXCEPT !.timeout = t]
           old == IF k \in Entries THEN circuits[k] ELSE new
           c == [Applied(old, t) EXCEPT !.last = time]
           failed == Opened(c, Breaker!RecordFailure(c.breaker, Threshold))
           left(gone) == [l \in Routes |-> IF l \in gone THEN NoCircuit ELSE circuits[l]]
<1>1. /\ dial[d].pc = "recording" /\ EndDial(d) /\ UNCHANGED << timeout, admin, time >>
      /\ \/ /\ circuits' = [l \in Routes |-> IF Lapsed(l) THEN NoCircuit ELSE circuits[l]]
            /\ raced' = raced \ {l \in Routes : Lapsed(l)}
         \/ \E gone \in Removals(k) :
              /\ circuits' = [left(gone) EXCEPT ![k] = failed]
              /\ raced' = IF t # timeout THEN (raced \ gone) \union {k}
                                         ELSE raced \ (gone \union {k})
  BY DEF RecordTargetFailure
<1>2. k \in Routes /\ t \in Timeouts
  BY <1>1 DEF CircuitIInv, CircuitTypes, DialsOK
<1>3. DialsOK(dial')
  BY <1>1, <1>2, DialsStay DEF CircuitIInv
<1>4. circuits \in [Routes -> Circuits \union {NoCircuit}]
  BY DEF CircuitIInv, CircuitTypes
<1>5. failed \in Circuits /\ failed.timeout = t
  <2>1. old \in Circuits
    BY <1>2, <1>4, FirstCircuit DEF Entries
  <2> HIDE DEF old
  <2> QED BY <2>1, <1>2, FailedIs DEF CircuitIInv
<1> HIDE DEF failed, t, k
<1>6. CASE /\ circuits' = [l \in Routes |-> IF Lapsed(l) THEN NoCircuit ELSE circuits[l]]
           /\ raced' = raced \ {l \in Routes : Lapsed(l)}
  <2> DEFINE gone == {l \in Routes : Lapsed(l)}
  <2>1. circuits' = [l \in Routes |-> IF l \in gone THEN NoCircuit ELSE circuits[l]]
    BY <1>6
  <2>2. raced \ gone \subseteq raced'
    BY <1>6
  <2>3. \A l \in Entries : circuits'[l] = NoCircuit => Lapsed(l) /\ ~InTrial(l)
    BY <2>1 DEF Entries, Lapsed
  <2> HIDE DEF gone
  <2>4. Survive(circuits', raced', Entries)
    BY <2>1, <2>2, FewerEntries
  <2> QED BY <2>3, <2>4, <1>1, <1>3, OutcomeKeeps
<1>7. ASSUME NEW gone \in Removals(k),
             circuits' = [left(gone) EXCEPT ![k] = failed],
             raced' = IF t # timeout THEN (raced \ gone) \union {k}
                                     ELSE raced \ (gone \union {k})
      PROVE  /\ CircuitIInv'
             /\ \A l \in Entries : circuits'[l] = NoCircuit =>
                  /\ ~InTrial(l)
                  /\ \/ Lapsed(l)
                     \/ Cardinality({m \in Entries :
                                       InTrial(m) \/ circuits[m].last >= circuits[l].last})
                          = MaxCircuits
  <2>1. /\ gone \subseteq Entries \ {k}
        /\ IsFiniteSet((Entries \ gone) \union {k})
        /\ Cardinality((Entries \ gone) \union {k}) <= MaxCircuits
        /\ \A l \in gone : ~InTrial(l)
        /\ \A l \in gone : ~Lapsed(l) =>
             Cardinality({m \in Entries : InTrial(m) \/ circuits[m].last >= circuits[l].last})
               = MaxCircuits
    BY <1>2, RemovalsAre
  <2>2. circuits' = [l \in Routes |-> IF l = k THEN failed
                                      ELSE IF l \in gone THEN NoCircuit ELSE circuits[l]]
    BY <1>2, <1>7
  <2>3. circuits' \in [Routes -> Circuits \union {NoCircuit}]
    BY <2>2, <1>4, <1>5
  <2>4. HeldIn(circuits') \subseteq (Entries \ gone) \union {k}
    BY <2>2 DEF HeldIn, Entries
  <2>5. ASSUME NEW l \in HeldIn(circuits') \ raced', admin = "idle"
        PROVE  circuits'[l].timeout = timeout
    <3>1. CASE l = k
      <4>1. t = timeout
        BY <2>5, <3>1, <1>7
      <4> QED BY <3>1, <4>1, <2>2, <1>5, <1>2
    <3>2. CASE l # k
      <4>1. l \in Entries /\ l \notin gone /\ circuits'[l] = circuits[l]
        BY <3>2, <2>2, <2>4 DEF HeldIn
      <4>2. l \notin raced
        BY <3>2, <4>1, <2>5, <1>7
      <4> QED BY <4>1, <4>2, <2>5 DEF CircuitIInv, TimedBySettings
    <3> QED BY <3>1, <3>2
  <2>6. Survive(circuits', raced', (Entries \ gone) \union {k})
    BY <2>3, <2>4, <2>5 DEF Survive
  <2>7. CircuitTypes'
    BY <2>3, <1>1, <1>3 DEF CircuitIInv, CircuitTypes
  <2>8. CircuitIInv'
    BY <2>1, <2>6, <2>7, <1>1, SurviveKeeps
  <2>9. \A l \in Entries : circuits'[l] = NoCircuit => l \in gone
    <3>1. failed # NoCircuit
      BY <1>5, CircuitIs
    <3> QED BY <3>1, <2>2 DEF Entries
  <2> QED BY <2>1, <2>8, <2>9
<1> QED BY <1>1, <1>6, <1>7

LEMMA ResetNodeKeeps ==
  ASSUME CircuitAssumption, CircuitIInv, NEW n, ResetNode(n)
  PROVE  CircuitIInv' /\ dial' = dial
<1> DEFINE gone == {k \in Routes \union raced : Node(k) = n}
<1>1. /\ circuits' = [k \in Routes |-> IF k \in gone THEN NoCircuit ELSE circuits[k]]
      /\ raced \ gone \subseteq raced' /\ UNCHANGED << timeout, admin, dial, time >>
  BY DEF ResetNode
<1> HIDE DEF gone
<1>2. Survive(circuits', raced', Entries)
  BY <1>1, FewerEntries
<1>3. DialsOK(dial')
  BY <1>1 DEF CircuitIInv, CircuitTypes
<1> QED BY <1>1, <1>2, <1>3, OutcomeKeeps

\* The settings are replaced: until they are applied nothing is said of the circuits.
LEMMA SetTimeoutKeeps ==
  ASSUME CircuitAssumption, CircuitIInv, NEW value \in Timeouts, SetTimeout(value)
  PROVE  CircuitIInv' /\ circuits' = circuits
<1>1. /\ timeout' = value /\ admin' = "applying"
      /\ UNCHANGED << circuits, dial, time, raced >>
  BY DEF SetTimeout
<1>2. CircuitTypes'
  BY <1>1 DEF CircuitIInv, CircuitTypes
<1>3. (IsFiniteSet(Entries) /\ CircuitsBounded)'
  BY <1>1 DEF CircuitIInv, CircuitsBounded, Entries
<1>4. TimedBySettings'
  BY <1>1 DEF TimedBySettings
<1> QED BY <1>1, <1>2, <1>3, <1>4 DEF CircuitIInv

LEMMA ApplySettingsKeeps ==
  ASSUME CircuitAssumption, CircuitIInv, ApplySettings
  PROVE  CircuitIInv' /\ \A k \in Entries : circuits'[k] # NoCircuit
<1>1. /\ admin' = "idle" /\ UNCHANGED << timeout, dial, time >>
      /\ circuits' = [k \in Routes |-> IF k \in Entries THEN Applied(circuits[k], timeout)
                                                        ELSE NoCircuit]
  BY DEF ApplySettings, ApplyToAll
<1>2. circuits \in [Routes -> Circuits \union {NoCircuit}] /\ timeout \in Timeouts
  BY DEF CircuitIInv, CircuitTypes
<1>3. \A k \in Entries : /\ Applied(circuits[k], timeout) \in Circuits
                         /\ Applied(circuits[k], timeout).timeout = timeout
  BY <1>2, AppliedIs DEF CircuitIInv, Entries
<1>4. \A k \in Entries : Applied(circuits[k], timeout) # NoCircuit
  BY <1>3, CircuitIs
<1>5. circuits' \in [Routes -> Circuits \union {NoCircuit}]
  BY <1>1, <1>3
<1>6. Entries' = Entries
  BY <1>1, <1>4 DEF Entries
<1>7. \A k \in Entries : circuits'[k] = Applied(circuits[k], timeout)
  BY <1>1 DEF Entries
<1>8. CircuitTypes'
  BY <1>1, <1>5 DEF CircuitIInv, CircuitTypes
<1>9. (IsFiniteSet(Entries) /\ CircuitsBounded)'
  BY <1>6 DEF CircuitIInv, CircuitsBounded
<1>10. TimedBySettings'
  BY <1>1, <1>3, <1>6, <1>7 DEF TimedBySettings
<1> QED BY <1>4, <1>7, <1>8, <1>9, <1>10 DEF CircuitIInv

LEMMA TickKeeps ==
  ASSUME CircuitAssumption, CircuitIInv, CircuitTick
  PROVE  CircuitIInv' /\ circuits' = circuits
<1>1. /\ time < MaxTime /\ time' = time + 1
      /\ UNCHANGED << circuits, timeout, admin, dial, raced >>
  BY DEF CircuitTick
<1>2. time' \in 0..MaxTime
  BY <1>1 DEF CircuitIInv, CircuitTypes, CircuitAssumption
<1>3. CircuitTypes'
  BY <1>1, <1>2 DEF CircuitIInv, CircuitTypes
<1>4. (IsFiniteSet(Entries) /\ CircuitsBounded /\ TimedBySettings)'
  BY <1>1 DEF CircuitIInv, CircuitsBounded, Entries, TimedBySettings
<1> QED BY <1>1, <1>3, <1>4 DEF CircuitIInv

-----------------------------------------------------------------------------
(* The theorem. *)

LEMMA CircuitsBegin == ASSUME CircuitAssumption, CircuitInit PROVE CircuitIInv
<1>1. /\ circuits = [k \in Routes |-> NoCircuit] /\ timeout \in Timeouts /\ admin = "idle"
      /\ dial = [d \in Dials |-> IdleDial] /\ time = 0
  BY DEF CircuitInit
<1>2. IdleDial \in DialRecords /\ IdleDial.pc = "idle"
  BY DEF IdleDial, DialRecords
<1>3. DialsOK(dial)
  BY <1>1, <1>2 DEF DialsOK
<1>4. Entries = {}
  BY <1>1 DEF Entries
<1>5. IsFiniteSet({}) /\ Cardinality({}) = 0 /\ 0 <= MaxCircuits
  BY FS_EmptySet DEF CircuitAssumption
<1>6. CircuitTypes
  BY <1>1, <1>3 DEF CircuitTypes, CircuitAssumption
<1> QED BY <1>4, <1>5, <1>6 DEF CircuitIInv, CircuitsBounded, TimedBySettings

\* What a circuit goes for.
LEMMA CircuitStep ==
  ASSUME CircuitAssumption, CircuitIInv, [CircuitNext]_circuitVars
  PROVE  /\ CircuitIInv'
         /\ \A k \in Entries : circuits'[k] = NoCircuit =>
              \/ dial' = dial
              \/ \E d \in Dials : TargetAnswers(d) /\ k = dial[d].route
              \/ /\ ~InTrial(k)
                 /\ \/ Lapsed(k)
                    \/ Cardinality({m \in Entries :
                                      InTrial(m) \/ circuits[m].last >= circuits[k].last})
                         = MaxCircuits
<1>1. ASSUME NEW d \in Dials, TargetAnswers(d)
      PROVE  /\ CircuitIInv'
             /\ \A k \in Entries : circuits'[k] = NoCircuit => k = dial[d].route
  BY <1>1, TargetAnswersKeeps
<1>2. ASSUME NEW d \in Dials, RecordTargetFailure(d)
      PROVE  /\ CircuitIInv'
             /\ \A k \in Entries : circuits'[k] = NoCircuit =>
                  /\ ~InTrial(k)
                  /\ \/ Lapsed(k)
                     \/ Cardinality({m \in Entries :
                                       InTrial(m) \/ circuits[m].last >= circuits[k].last})
                          = MaxCircuits
  BY <1>2, RecordFailureIs
<1>3. ASSUME NEW k \in Routes, ResetNode(Node(k)) PROVE CircuitIInv' /\ dial' = dial
  BY <1>3, ResetNodeKeeps
<1>4. ASSUME \/ \E d \in Dials : \/ \E k \in Routes : BeginDial(d, k)
                                 \/ LoseDial(d) \/ NodeFails(d)
             \/ ApplySettings
      PROVE  CircuitIInv' /\ \A k \in Entries : circuits'[k] # NoCircuit
  BY <1>4, BeginDialKeeps, LoseDialKeeps, NodeFailsKeeps, ApplySettingsKeeps
<1>5. ASSUME \/ \E d \in Dials : TargetFails(d)
             \/ \E value \in Timeouts \ {timeout} : SetTimeout(value)
             \/ CircuitTick
      PROVE  CircuitIInv' /\ circuits' = circuits
  BY <1>5, TargetFailsKeeps, SetTimeoutKeeps, TickKeeps
<1>6. CASE UNCHANGED circuitVars
  BY <1>6 DEF circuitVars, CircuitIInv, CircuitTypes, CircuitsBounded, Entries, TimedBySettings
<1>7. \A k \in Entries : circuits[k] # NoCircuit
  BY DEF Entries
<1>8. CASE CircuitNext
  <2>1. \/ \E d \in Dials : TargetAnswers(d) \/ RecordTargetFailure(d)
        \/ \E k \in Routes : ResetNode(Node(k))
        \/ \E d \in Dials : \/ \E k \in Routes : BeginDial(d, k)
                            \/ LoseDial(d) \/ NodeFails(d)
        \/ ApplySettings
        \/ \E d \in Dials : TargetFails(d)
        \/ \E value \in Timeouts \ {timeout} : SetTimeout(value)
        \/ CircuitTick
    BY <1>8 DEF CircuitNext
  <2> QED BY <2>1, <1>1, <1>2, <1>3, <1>4, <1>5, <1>7
<1> QED BY <1>6, <1>7, <1>8

\* A circuit goes for one of the reasons it may go for.
LEMMA CircuitsStay ==
  ASSUME CircuitAssumption, CircuitIInv, [CircuitNext]_circuitVars
  PROVE  [/\ CoolingIsKept /\ TrialKeepsCircuit
          /\ CircuitsBounded' /\ TimedBySettings']_circuitVars
<1>1. CircuitsBounded' /\ TimedBySettings'
  BY CircuitStep DEF CircuitIInv
<1>2. circuits \in [Routes -> Circuits \union {NoCircuit}] /\ time \in Nat
  BY DEF CircuitIInv, CircuitTypes, CircuitAssumption
<1>3. ASSUME NEW k \in Entries, circuits'[k] = NoCircuit
      PROVE  \/ dial' = dial
             \/ \E d \in Dials : TargetAnswers(d) /\ k = dial[d].route
             \/ /\ ~InTrial(k)
                /\ \/ Lapsed(k)
                   \/ Cardinality({m \in Entries :
                                     InTrial(m) \/ circuits[m].last >= circuits[k].last})
                        = MaxCircuits
  BY <1>3, CircuitStep
<1>4. ASSUME NEW d \in Dials, TargetAnswers(d)
      PROVE  dial[d].pc = "dialing" /\ OwnsOutcome(d) /\ dial'[d] = IdleDial
  BY <1>4 DEF TargetAnswers, Outcome, EndDial, CircuitIInv, CircuitTypes, DialsOK
<1>5. CoolingIsKept
  <2> SUFFICES ASSUME NEW k \in Entries, circuits[k].next > time, circuits'[k] = NoCircuit
               PROVE  \/ \E d \in Dials : dial[d].route = k /\ dial[d].pc = "dialing"
                                            /\ dial'[d].pc = "idle"
                      \/ dial' = dial
                      \/ circuits[k].next > circuits[k].last + circuits[k].timeout
                         /\ time - circuits[k].last >= Window
                      \/ Cardinality({l \in Entries :
                                        InTrial(l) \/ circuits[l].last >= circuits[k].last})
                           = MaxCircuits
    BY DEF CoolingIsKept
  <2>1. CASE \E d \in Dials : TargetAnswers(d) /\ k = dial[d].route
    BY <2>1, <1>4 DEF IdleDial
  <2>2. CASE Lapsed(k)
    <3>1. circuits[k] \in Circuits
      BY <1>2 DEF Entries
    <3>2. circuits[k].next \in Int /\ circuits[k].last \in Nat /\ circuits[k].timeout \in Nat
      BY <3>1, CircuitIs
    <3>3. time - circuits[k].last >= Window /\ time - circuits[k].last >= circuits[k].timeout
      BY <2>2 DEF Lapsed
    <3> QED BY <3>2, <3>3, <1>2
  <2> QED BY <2>1, <2>2, <1>3
<1>6. TrialKeepsCircuit
  <2> SUFFICES ASSUME NEW k \in Entries, InTrial(k), circuits'[k] = NoCircuit
               PROVE  dial' = dial \/ dial'[circuits[k].breaker.attempt] = IdleDial
    BY DEF TrialKeepsCircuit
  <2>1. ASSUME NEW d \in Dials, TargetAnswers(d), k = dial[d].route
        PROVE  dial'[circuits[k].breaker.attempt] = IdleDial
    <3>1. circuits[k].breaker.attempt \in {"none", d} /\ dial'[d] = IdleDial
      BY <2>1, <1>4 DEF OwnsOutcome, Breaker!OwnsAttempt
    <3>2. circuits[k].breaker.attempt \in Dials
      BY DEF InTrial, Breaker!OwnedHalfOpen
    <3>3. "none" \notin Dials
      BY DEF CircuitAssumption
    <3> QED BY <3>1, <3>2, <3>3
  <2> QED BY <2>1, <1>3
<1> QED BY <1>1, <1>5, <1>6

\* However many targets fail, as settings are replaced and nodes are edited, the map of
\* their circuits stays small, gives up none that is still needed, and runs by the settings.
THEOREM CircuitsHold == CircuitSpec => CircuitsAreKept
<1>1. CircuitInit => CircuitIInv
  BY CircuitsBegin, CircuitAssumption
<1>2. CircuitIInv /\ [CircuitNext]_circuitVars => CircuitIInv'
  BY CircuitStep, CircuitAssumption
<1>3. CircuitIInv /\ [CircuitNext]_circuitVars
        => [/\ CoolingIsKept /\ TrialKeepsCircuit
            /\ CircuitsBounded' /\ TimedBySettings']_circuitVars
  BY CircuitsStay, CircuitAssumption
<1> QED BY <1>1, <1>2, <1>3, PTL DEF CircuitSpec, CircuitsAreKept

-----------------------------------------------------------------------------
(* The turns of nodes and pools. *)

USE BalancingAssumption DEF BalancingAssumption

\* The nodes that come after n in the ring of pool p.
After(p, n) == {m \in Upstreams \ {n} : RingBefore(cursor[p], n, m)}

Waited ==
  \A p \in PoolIds, n \in Upstreams : passedOver[p][n] <= Cardinality(After(p, n))

Taught == \A p \in PoolIds : untaught[p] = count[p]

BalancingInv == BalancingTypeOK /\ Waited /\ Taught

-----------------------------------------------------------------------------
(* The ring. *)

LEMMA CursorNat == ASSUME NEW c \in Upstreams \union {0} PROVE c \in Nat
<1>1. CASE c = 0
  BY <1>1
<1>2. CASE c \in Upstreams
  BY <1>2 DEF BalancingAssumption
<1> QED BY <1>1, <1>2

LEMMA RingOrder ==
  ASSUME NEW c \in Nat, NEW a \in Nat, NEW b \in Nat, NEW d \in Nat
  PROVE  /\ ~RingBefore(c, a, a)
         /\ a # b => RingBefore(c, a, b) \/ RingBefore(c, b, a)
         /\ ~(RingBefore(c, a, b) /\ RingBefore(c, b, a))
         /\ RingBefore(c, a, b) /\ RingBefore(c, b, d) => RingBefore(c, a, d)
  BY DEF RingBefore

\* The cursor moves on to b: what came after n still does, and b is last.
LEMMA RingTurns ==
  ASSUME NEW c \in Nat, NEW n \in Nat, NEW b \in Nat, NEW d \in Nat,
         RingBefore(c, b, n)
  PROVE  /\ RingBefore(b, n, b)
         /\ RingBefore(c, n, d) => RingBefore(b, n, d)
  BY DEF RingBefore

\* Of several nodes one comes first.
LEMMA FirstInLine ==
  ASSUME NEW c \in Nat, NEW S \in SUBSET Upstreams, S # {}
  PROVE  /\ NextAfter(c, S) \in S
         /\ \A m \in S \ {NextAfter(c, S)} : RingBefore(c, NextAfter(c, S), m)
<1> DEFINE Lower(n) == {m \in S : RingBefore(c, m, n)}
           T == {Lower(n) : n \in S}
<1>1. T # {} /\ T \subseteq FiniteSubsetsOf(Upstreams)
  <2>1. \A n \in S : Lower(n) \in SUBSET Upstreams
    OBVIOUS
  <2>2. \A n \in S : IsFiniteSet(Lower(n))
    BY <2>1, FS_Subset
  <2> QED BY <2>1, <2>2 DEF FiniteSubsetsOf
<1>2. PICK X \in T : \A Y \in T : <<Y, X>> \notin StrictSubsetOrdering(Upstreams)
  BY <1>1, WFMin, FS_StrictSubsetOrderingWellFounded
<1>3. PICK n \in S : X = Lower(n)
  BY <1>2
<1>4. ASSUME NEW m \in Lower(n) PROVE FALSE
  <2>1. m \in S /\ n \in S /\ S \subseteq Nat /\ RingBefore(c, m, n)
    BY <1>4
  <2>2. Lower(m) \subseteq Lower(n)
    <3> SUFFICES ASSUME NEW d \in Lower(m) PROVE d \in Lower(n)
      OBVIOUS
    <3> QED BY <2>1, RingOrder
  <2>3. m \notin Lower(m)
    BY <2>1, RingOrder
  <2>4. Lower(m) \in T /\ Lower(m) # Lower(n)
    BY <2>1, <2>3, <1>4
  <2>5. Lower(m) \in SUBSET Upstreams /\ Lower(n) \in SUBSET Upstreams
    OBVIOUS
  <2> QED BY <1>2, <1>3, <2>2, <2>4, <2>5 DEF StrictSubsetOrdering
<1>5. \A m \in S \ {n} : RingBefore(c, n, m)
  <2> SUFFICES ASSUME NEW m \in S \ {n} PROVE RingBefore(c, n, m)
    OBVIOUS
  <2>1. ~RingBefore(c, m, n)
    BY <1>4
  <2>2. m \in Nat /\ n \in Nat /\ m # n
    OBVIOUS
  <2> QED BY <2>1, <2>2, RingOrder
<1> QED BY <1>5 DEF NextAfter

LEMMA AfterFinite ==
  ASSUME NEW p, NEW n
  PROVE  /\ IsFiniteSet(After(p, n))
         /\ Cardinality(After(p, n)) \in Nat
         /\ n \in Upstreams => Cardinality(After(p, n)) < Cardinality(Upstreams)
<1>1. After(p, n) \in SUBSET Upstreams
  BY DEF After
<1>2. IsFiniteSet(After(p, n)) /\ Cardinality(After(p, n)) <= Cardinality(Upstreams)
      /\ (Cardinality(Upstreams) = Cardinality(After(p, n)) => Upstreams = After(p, n))
  BY <1>1, FS_Subset
<1>3. Cardinality(After(p, n)) \in Nat /\ Cardinality(Upstreams) \in Nat
  BY <1>2, FS_CardinalityType
<1>4. n \notin After(p, n)
  BY DEF After
<1> QED BY <1>2, <1>3, <1>4

-----------------------------------------------------------------------------
(* A turn. *)

LEMMA TurnKeeps ==
  ASSUME BalancingTypeOK, Waited,
         NEW p \in PoolIds, NEW listed \in SUBSET PoolIds, p \in listed,
         NEW inLine \in SUBSET Upstreams, inLine # {},
         Turn(p, inLine, listed)
  PROVE  /\ cursor' \in [PoolIds -> Upstreams \union {0}]
         /\ passedOver' \in [PoolIds -> [Upstreams -> Nat]]
         /\ Waited'
         /\ \E n \in inLine : load' = [load EXCEPT ![n] = @ + 1]
<1> DEFINE n == NextAfter(cursor[p], inLine)
<1>1. cursor[p] \in Nat
  <2>1. cursor[p] \in Upstreams \union {0}
    BY DEF BalancingTypeOK
  <2> QED BY <2>1, CursorNat
<1>2. n \in inLine /\ \A m \in inLine \ {n} : RingBefore(cursor[p], n, m)
  BY <1>1, FirstInLine
<1> HIDE DEF n
<1>3. /\ cursor' = [q \in PoolIds |-> IF q = p THEN n
                                      ELSE IF q \in listed THEN cursor[q] ELSE 0]
      /\ load' = [load EXCEPT ![n] = @ + 1]
      /\ passedOver' =
           [q \in PoolIds |-> [m \in Upstreams |->
              IF q \notin listed THEN 0
              ELSE IF q # p THEN passedOver[q][m]
              ELSE IF m \in inLine \ {n} THEN passedOver[p][m] + 1 ELSE 0]]
  BY DEF Turn, CursorAt, CursorsOf, n
<1>4. cursor' \in [PoolIds -> Upstreams \union {0}]
  BY <1>2, <1>3 DEF BalancingTypeOK
<1>5. passedOver' \in [PoolIds -> [Upstreams -> Nat]]
  BY <1>3 DEF BalancingTypeOK
<1>6. ASSUME NEW q \in PoolIds, NEW m \in Upstreams
      PROVE  passedOver'[q][m] <= Cardinality(After(q, m)')
  <2>1. IsFiniteSet(After(q, m)') /\ Cardinality(After(q, m)') \in Nat
    <3>1. After(q, m)' \in SUBSET Upstreams
      BY DEF After
    <3> QED BY <3>1, FS_Subset, FS_CardinalityType
  <2>2. CASE passedOver'[q][m] = 0
    BY <2>1, <2>2
  <2>3. CASE q \in listed /\ q # p
    <3>1. cursor'[q] = cursor[q] /\ passedOver'[q][m] = passedOver[q][m]
      BY <1>3, <2>3
    <3>2. After(q, m)' = After(q, m)
      BY <3>1 DEF After
    <3> QED BY <3>1, <3>2 DEF Waited
  <2>4. CASE q = p /\ m \in inLine \ {n}
    <3>1. cursor'[p] = n /\ passedOver'[p][m] = passedOver[p][m] + 1
      BY <1>3, <2>4
    <3>2. RingBefore(cursor[p], n, m) /\ m \in Nat /\ n \in Nat /\ m # n /\ n \in Upstreams
      BY <1>2, <2>4
    <3>3. n \notin After(p, m)
      BY <3>2, <1>1, RingOrder DEF After
    <3>4. After(p, m) \union {n} \in SUBSET (After(p, m)')
      <4>1. RingBefore(n, m, n)
        BY <1>1, <3>2, RingTurns
      <4>2. \A d \in Upstreams : RingBefore(cursor[p], m, d) => RingBefore(n, m, d)
        BY <1>1, <3>2, RingTurns
      <4> QED BY <3>1, <3>2, <4>1, <4>2 DEF After
    <3>5. IsFiniteSet(After(p, m)) /\ Cardinality(After(p, m)) \in Nat
      BY AfterFinite
    <3>6. Cardinality(After(p, m) \union {n}) = Cardinality(After(p, m)) + 1
      BY <3>3, <3>5, FS_AddElement
    <3>7. Cardinality(After(p, m) \union {n}) <= Cardinality(After(p, m)')
      BY <2>1, <2>4, <3>4, FS_Subset
    <3>8. passedOver[p][m] <= Cardinality(After(p, m)) /\ passedOver[p][m] \in Nat
      BY DEF Waited, BalancingTypeOK
    <3> QED BY <2>1, <2>4, <3>1, <3>5, <3>6, <3>7, <3>8
  <2> QED BY <1>3, <2>2, <2>3, <2>4
<1>7. Waited'
  BY <1>6 DEF Waited
<1> QED BY <1>2, <1>3, <1>4, <1>5, <1>7

LEMMA OffTurnKeeps ==
  ASSUME BalancingTypeOK, Waited,
         NEW p \in PoolIds, NEW listed \in SUBSET PoolIds,
         NEW preferred \in SUBSET Upstreams,
         OffTurn(p, preferred, listed)
  PROVE  /\ cursor' \in [PoolIds -> Upstreams \union {0}]
         /\ passedOver' \in [PoolIds -> [Upstreams -> Nat]]
         /\ Waited'
         /\ \E n \in preferred : load' = [load EXCEPT ![n] = @ + 1]
<1>1. /\ cursor' = [q \in PoolIds |-> IF q \in listed THEN cursor[q] ELSE 0]
      /\ passedOver' = [q \in PoolIds |-> IF q \in listed THEN passedOver[q]
                                          ELSE [m \in Upstreams |-> 0]]
      /\ \E n \in preferred : load' = [load EXCEPT ![n] = @ + 1]
  BY DEF OffTurn, CursorsOf
<1>2. /\ cursor' \in [PoolIds -> Upstreams \union {0}]
      /\ passedOver' \in [PoolIds -> [Upstreams -> Nat]]
  BY <1>1 DEF BalancingTypeOK
<1>3. ASSUME NEW q \in PoolIds, NEW m \in Upstreams
      PROVE  passedOver'[q][m] <= Cardinality(After(q, m)')
  <2>1. CASE q \in listed
    <3>1. After(q, m)' = After(q, m)
      BY <1>1, <2>1 DEF After
    <3> QED BY <1>1, <2>1, <3>1 DEF Waited
  <2>2. CASE q \notin listed
    <3>1. After(q, m)' \in SUBSET Upstreams
      BY DEF After
    <3>2. Cardinality(After(q, m)') \in Nat
      BY <3>1, FS_Subset, FS_CardinalityType
    <3> QED BY <1>1, <2>2, <3>2
  <2> QED BY <2>1, <2>2
<1> QED BY <1>1, <1>2, <1>3 DEF Waited

-----------------------------------------------------------------------------
(* The steps. *)

LEMMA PreferredSome ==
  ASSUME NEW candidates \in SUBSET Upstreams, candidates # {}, NEW down
  PROVE  PreferredOf(candidates, down) \subseteq candidates
         /\ PreferredOf(candidates, down) # {}
  BY DEF PreferredOf

\* One of the least loaded there is: loads are natural numbers.
LEMMA LeastLoadedSome ==
  ASSUME BalancingTypeOK, NEW S \in SUBSET Upstreams, S # {}
  PROVE  LeastLoaded(S) \subseteq S /\ LeastLoaded(S) # {}
<1> DEFINE Lower(n) == {m \in S : load[m] < load[n]}
           T == {Lower(n) : n \in S}
<1>1. T # {} /\ T \subseteq FiniteSubsetsOf(Upstreams)
  <2>1. \A n \in S : Lower(n) \in SUBSET Upstreams
    OBVIOUS
  <2>2. \A n \in S : IsFiniteSet(Lower(n))
    BY <2>1, FS_Subset
  <2> QED BY <2>1, <2>2 DEF FiniteSubsetsOf
<1>2. PICK X \in T : \A Y \in T : <<Y, X>> \notin StrictSubsetOrdering(Upstreams)
  BY <1>1, WFMin, FS_StrictSubsetOrderingWellFounded
<1>3. PICK n \in S : X = Lower(n)
  BY <1>2
<1>4. \A m \in S : load[m] \in Nat
  BY DEF BalancingTypeOK
<1>5. ASSUME NEW m \in Lower(n) PROVE FALSE
  <2>1. m \in S /\ load[m] < load[n]
    BY <1>5
  <2>2. Lower(m) \subseteq Lower(n) /\ m \notin Lower(m)
    <3>1. load[m] \in Nat /\ load[n] \in Nat
      BY <1>4, <2>1
    <3>2. \A d \in S : load[d] < load[m] => load[d] < load[n]
      BY <1>4, <2>1, <3>1
    <3>3. ~(load[m] < load[m])
      BY <3>1
    <3> QED BY <3>2, <3>3
  <2>3. Lower(m) \in T /\ Lower(m) # Lower(n)
    BY <2>1, <2>2, <1>5
  <2>4. Lower(m) \in SUBSET Upstreams /\ Lower(n) \in SUBSET Upstreams
    OBVIOUS
  <2> QED BY <1>2, <1>3, <2>2, <2>3, <2>4 DEF StrictSubsetOrdering
<1>6. \A m \in S : load[n] <= load[m]
  <2> SUFFICES ASSUME NEW m \in S PROVE load[n] <= load[m]
    OBVIOUS
  <2>1. ~(load[m] < load[n])
    BY <1>5
  <2> QED BY <1>4, <2>1
<1> QED BY <1>6 DEF LeastLoaded

LEMMA CountedKeeps ==
  ASSUME BalancingTypeOK, Taught,
         NEW p \in PoolIds, NEW listed \in SUBSET PoolIds, p \in listed,
         count' = Counted(p, listed),
         \/ /\ ~LearningTurn(p)
            /\ untaught' = [q \in PoolIds |-> IF q \notin listed THEN 0
                                 ELSE untaught[q] + (IF q = p THEN 1 ELSE 0)]
         \/ /\ LearningTurn(p)
            /\ untaught' = [q \in PoolIds |-> IF q \notin listed \/ q = p THEN 0
                                              ELSE untaught[q]]
  PROVE  /\ count' \in [PoolIds -> 0..(Period - 1)]
         /\ untaught' \in [PoolIds -> Nat]
         /\ Taught'
  BY DEF BalancingTypeOK, Taught, Counted, LearningTurn

LEMMA PickKeeps ==
  ASSUME BalancingInv,
         NEW p \in PoolIds, NEW listed \in SUBSET PoolIds, p \in listed,
         NEW candidates \in SUBSET Upstreams, candidates # {},
         \A n \in candidates : load[n] < MaxLoad,
         NEW down \in SUBSET candidates,
         Pick(p, candidates, down, listed)
  PROVE  BalancingInv'
<1> DEFINE preferred == PreferredOf(candidates, down)
<1>1. preferred \subseteq candidates /\ preferred # {}
  BY PreferredSome
<1> HIDE DEF preferred
<1>2. BalancingTypeOK /\ Waited /\ Taught
  BY DEF BalancingInv
<1>3. ASSUME \E n \in candidates : load' = [load EXCEPT ![n] = @ + 1]
      PROVE  load' \in [Upstreams -> 0..MaxLoad]
  BY <1>2, <1>3 DEF BalancingTypeOK
<1>4. ASSUME NEW inLine \in SUBSET candidates, inLine # {}, Turn(p, inLine, listed),
             count' \in [PoolIds -> 0..(Period - 1)], untaught' \in [PoolIds -> Nat],
             Taught'
      PROVE  BalancingInv'
  <2>1. /\ cursor' \in [PoolIds -> Upstreams \union {0}]
        /\ passedOver' \in [PoolIds -> [Upstreams -> Nat]]
        /\ Waited'
        /\ \E n \in inLine : load' = [load EXCEPT ![n] = @ + 1]
    BY <1>2, <1>4, TurnKeeps
  <2>2. load' \in [Upstreams -> 0..MaxLoad]
    BY <1>3, <1>4, <2>1
  <2> QED BY <1>4, <2>1, <2>2 DEF BalancingInv, BalancingTypeOK
<1>5. ASSUME OffTurn(p, preferred, listed),
             count' \in [PoolIds -> 0..(Period - 1)], untaught' \in [PoolIds -> Nat],
             Taught'
      PROVE  BalancingInv'
  <2>1. /\ cursor' \in [PoolIds -> Upstreams \union {0}]
        /\ passedOver' \in [PoolIds -> [Upstreams -> Nat]]
        /\ Waited'
        /\ \E n \in preferred : load' = [load EXCEPT ![n] = @ + 1]
    BY <1>1, <1>2, <1>5, OffTurnKeeps
  <2>2. load' \in [Upstreams -> 0..MaxLoad]
    BY <1>1, <1>3, <2>1
  <2> QED BY <1>5, <2>1, <2>2 DEF BalancingInv, BalancingTypeOK
<1>6. ASSUME Uncounted
      PROVE  /\ count' \in [PoolIds -> 0..(Period - 1)]
             /\ untaught' \in [PoolIds -> Nat]
             /\ Taught'
  BY <1>2, <1>6 DEF Uncounted, BalancingTypeOK, Taught
<1>7. CASE RoundRobin(p, preferred, listed)
  BY <1>1, <1>4, <1>6, <1>7 DEF RoundRobin
<1>8. CASE LeastConnections(p, preferred, listed)
  <2>1. LeastLoaded(preferred) \subseteq candidates /\ LeastLoaded(preferred) # {}
    BY <1>1, <1>2, LeastLoadedSome
  <2> QED BY <1>4, <1>6, <1>8, <2>1 DEF LeastConnections
<1>9. CASE StickyHost(p, preferred, listed)
  BY <1>5, <1>6, <1>9 DEF StickyHost
<1>10. CASE AdaptiveBest(p, preferred, listed)
  <2>1. /\ count' \in [PoolIds -> 0..(Period - 1)]
        /\ untaught' \in [PoolIds -> Nat]
        /\ Taught'
    BY <1>2, <1>10, CountedKeeps DEF AdaptiveBest
  <2> QED BY <1>5, <1>10, <2>1 DEF AdaptiveBest
<1>11. ASSUME NEW learners \in SUBSET (candidates \ down),
              AdaptiveLearns(p, preferred, learners, listed)
       PROVE  BalancingInv'
  <2>1. /\ count' \in [PoolIds -> 0..(Period - 1)]
        /\ untaught' \in [PoolIds -> Nat]
        /\ Taught'
    BY <1>2, <1>11, CountedKeeps DEF AdaptiveLearns
  <2>2. CASE learners # {}
    BY <1>4, <1>11, <2>1, <2>2 DEF AdaptiveLearns
  <2>3. CASE learners = {}
    <3>1. PICK best \in preferred : Turn(p, {best}, listed)
      BY <1>11, <2>3 DEF AdaptiveLearns
    <3>2. {best} \in SUBSET candidates /\ {best} # {}
      BY <1>1
    <3> QED BY <1>4, <2>1, <3>1, <3>2
  <2> QED BY <2>2, <2>3
<1> QED BY <1>7, <1>8, <1>9, <1>10, <1>11 DEF Pick, preferred

(* The three parts of the invariant hold in every reachable state.         *)
THEOREM BalancingInvHolds == BalancingSpec => []BalancingInv
<1>1. Balances => BalancingInv
  <2> SUFFICES ASSUME Balances PROVE BalancingInv
    OBVIOUS
  <2>1. BalancingTypeOK
    BY DEF Balances, BalancingTypeOK
  <2>2. Waited
    <3> SUFFICES ASSUME NEW p \in PoolIds, NEW n \in Upstreams
                 PROVE  passedOver[p][n] <= Cardinality(After(p, n))
      BY DEF Waited
    <3> QED BY AfterFinite DEF Balances
  <2> QED BY <2>1, <2>2 DEF Balances, BalancingInv, Taught
<1>2. BalancingInv /\ [BalancingNext]_balancingVars => BalancingInv'
  <2> SUFFICES ASSUME BalancingInv, [BalancingNext]_balancingVars PROVE BalancingInv'
    OBVIOUS
  <2>1. CASE UNCHANGED balancingVars
    <3>1. \A p, n : After(p, n)' = After(p, n)
      BY <2>1 DEF balancingVars, After
    <3> QED BY <2>1, <3>1 DEF balancingVars, BalancingInv, BalancingTypeOK, Waited, Taught
  <2>2. ASSUME NEW p \in PoolIds, NEW listed \in SUBSET PoolIds,
               NEW candidates \in SUBSET Upstreams, {p, 0} \subseteq listed,
               candidates # {}, \A n \in candidates : load[n] < MaxLoad,
               NEW down \in SUBSET candidates, Pick(p, candidates, down, listed)
        PROVE  BalancingInv'
    BY <2>2, PickKeeps
  <2>3. ASSUME NEW n \in Upstreams, Release(n)
        PROVE  BalancingInv'
    <3>1. \A p, m : After(p, m)' = After(p, m)
      BY <2>3 DEF Release, After
    <3>2. load' \in [Upstreams -> 0..MaxLoad]
      BY <2>3 DEF Release, BalancingInv, BalancingTypeOK
    <3> QED BY <2>3, <3>1, <3>2 DEF Release, BalancingInv, BalancingTypeOK, Waited, Taught
  <2> QED BY <2>1, <2>2, <2>3 DEF BalancingNext
<1> QED BY <1>1, <1>2, PTL DEF BalancingSpec

(* Type correctness.                                                       *)
THEOREM BalancingTypeCorrect == BalancingSpec => []BalancingTypeOK
<1>1. BalancingInv => BalancingTypeOK
  BY DEF BalancingInv
<1> QED BY <1>1, BalancingInvHolds, PTL

(* Every node that stays in line is picked before any other one is for the *)
(* second time.                                                            *)
THEOREM TurnComesRoundHolds == BalancingSpec => []TurnComesRound
<1>1. BalancingInv => TurnComesRound
  <2> SUFFICES ASSUME BalancingInv, NEW p \in PoolIds, NEW n \in Upstreams
               PROVE  passedOver[p][n] < Cardinality(Upstreams)
    BY DEF TurnComesRound
  <2>1. passedOver[p][n] <= Cardinality(After(p, n)) /\ passedOver[p][n] \in Nat
    BY DEF BalancingInv, Waited, BalancingTypeOK
  <2>2. /\ Cardinality(After(p, n)) \in Nat /\ Cardinality(Upstreams) \in Nat
        /\ Cardinality(After(p, n)) < Cardinality(Upstreams)
    BY AfterFinite, FS_CardinalityType
  <2> QED BY <2>1, <2>2
<1> QED BY <1>1, BalancingInvHolds, PTL

(* Every pool learns once in Period of its own adaptive selections.        *)
THEOREM LearningComesRoundHolds == BalancingSpec => []LearningComesRound
<1>1. BalancingInv => LearningComesRound
  BY DEF BalancingInv, BalancingTypeOK, Taught, LearningComesRound
<1> QED BY <1>1, BalancingInvHolds, PTL

(* Both turns together: no node and no pool starves, whatever the ranking. *)
THEOREM TurnsAreFairHolds == BalancingSpec => []TurnsAreFair
<1>1. TurnComesRound /\ LearningComesRound => TurnsAreFair
  BY DEF TurnsAreFair
<1> QED BY <1>1, TurnComesRoundHolds, LearningComesRoundHolds, PTL
=============================================================================
