--------------------------- MODULE RuntimeProofs ---------------------------
(***************************************************************************)
(* Theorems about what the runtime keeps and shows: a node's status and its *)
(* metrics (NodeStatus), the settings (Settings), the log page of the window *)
(* (TrafficView).                                                          *)
(*                                                                         *)
(* For every number of connections and every bound, a node's row comes to  *)
(* show what the memory takes the node for, and a connection that succeeded *)
(* outlasts the probe it overtook.                                         *)
(*                                                                         *)
(* For every number of commands and every set of values, no save undoes    *)
(* another, what is in force is what is stored, and a restart that is due  *)
(* was announced.                                                          *)
(*                                                                         *)
(* For every capacity of the window of samples, the sums of the metrics,   *)
(* which are kept by difference, are those of the window (MetricsHold).    *)
(*                                                                         *)
(* For every table, page size and capacity of the channel, the pages turned *)
(* are pages of one log (PagesHold), since every page shown has the rows of *)
(* its places in one snapshot (Honest); and the screen catches up with the *)
(* table (LogsHold), since an event is always somewhere on its way from the *)
(* channel over the timer and the call to the screen (Awaited).            *)
(***************************************************************************)
EXTENDS NodeStatus, Settings, TrafficView, FiniteSetTheorems, SequenceTheorems,
        WellFoundedInduction, TLAPS

-----------------------------------------------------------------------------
(* A node's status. *)

Statuses == Verdicts \union {"unknown"}

(* The lock: whoever pushes a status holds it, and what he pushes is what   *)
(* the memory says.                                                         *)
Locked ==
  \A a \in Attempts : attempt[a].pc = "pushing" =>
    holder = a /\ attempt[a].status = pushed
LockUsed ==
  holder # Nobody => holder \in Attempts /\ attempt[holder].pc = "pushing"

(* The writes: none has a revision that was not given out, the worker's     *)
(* queue is in their order, and a probe that is not persisting has none.    *)
Ordered ==
  /\ waiting.rev <= reserved /\ inHand.rev <= reserved
  /\ observation.write.rev <= reserved
  /\ waiting # NoWrite /\ inHand # NoWrite => inHand.rev < waiting.rev
  /\ observation.pc # "persisting" => observation.write = NoWrite

Settled == holder = Nobody /\ ~editing

(* Nothing that is still to be written contradicts the memory. *)
Agrees(write) ==
  StillNewest(write) /\ Settled /\ pushed # "unknown" => write.status = pushed
Agreement == Agrees(waiting) /\ Agrees(inHand) /\ Agrees(observation.write)

(* What the memory says is in the row, on its way, or was refused. *)
Arriving ==
  Settled /\ ~lost /\ pushed # "unknown" =>
    \/ storedRow.status = pushed
    \/ StillNewest(waiting) \/ StillNewest(inHand) \/ StillNewest(observation.write)

(* A probe that can still put the node down saw no success since it began. *)
Outlasting ==
  StillNewest(observation.write) /\ observation.write.status = "inactive" /\ Settled
    => lastSuccess <= observation.began

StatusInv ==
  /\ StatusTypeOK /\ Locked /\ LockUsed /\ Ordered
  /\ Agreement /\ Arriving /\ Outlasting

-----------------------------------------------------------------------------
LEMMA StatusInitially == StatusInit => StatusInv
<1> SUFFICES ASSUME StatusInit PROVE StatusInv
  OBVIOUS
<1> USE NodeStatusAssumption DEF NodeStatusAssumption, StatusInit
<1>1. StatusTypeOK
  <2>1. NoWrite \in Writes
    BY DEF NoWrite, Writes
  <2>2. storedRow \in [gen : 1..MaxRow, status : Statuses]
    BY DEF Statuses
  <2>3. attempt \in [Attempts -> [pc : {"idle", "dialing", "pushing"}, gen : 0..MaxRow,
                                  status : Statuses]]
    BY DEF Statuses
  <2>4. observation \in [pc : {"idle", "testing", "persisting"}, began : 0..MaxInstant,
                          gen : 0..MaxRow, write : Writes]
    BY <2>1
  <2>5. learning \in 0..Lessons /\ lastSuccess \in 0..MaxInstant
        /\ reserved \in 0..MaxReserved /\ instant \in 1..MaxInstant
    OBVIOUS
  <2>6. pushed \in Statuses /\ holder \in Attempts \union {Nobody}
    BY DEF Statuses
  <2>7. editing \in BOOLEAN /\ lost \in BOOLEAN
    OBVIOUS
  <2>8. waiting \in Writes /\ inHand \in Writes
    BY <2>1
  <2> HIDE DEF StatusInit
  <2> QED
    BY <2>2, <2>3, <2>4, <2>5, <2>6, <2>7, <2>8 DEF StatusTypeOK, Statuses
<1>2. Locked /\ LockUsed /\ Ordered
  BY DEF Locked, LockUsed, Ordered, NoWrite
<1>3. Agreement /\ Arriving /\ Outlasting
  BY DEF Agreement, Agrees, Arriving, Outlasting, StillNewest, NoWrite
<1> QED
  BY <1>1, <1>2, <1>3 DEF StatusInv

LEMMA StatusStep == StatusInv /\ [StatusNext]_statusVars => StatusInv'
<1> SUFFICES ASSUME StatusInv, [StatusNext]_statusVars PROVE StatusInv'
  OBVIOUS
<1> USE NodeStatusAssumption DEF NodeStatusAssumption, StatusInv, metricVars
<1>1. ASSUME PruneMetric PROVE StatusInv'
  <2>1. StatusTypeOK'
    BY <1>1 DEF PruneMetric, StatusTypeOK, Writes, NoWrite, Verdicts
  <2>2. Locked' /\ LockUsed'
    BY <1>1 DEF PruneMetric, StatusTypeOK, Locked, LockUsed, NoWrite
  <2>3. Ordered'
    BY <1>1 DEF PruneMetric, StatusTypeOK, Writes, Ordered, NoWrite, StillNewest
  <2>4. Agreement'
    BY <1>1 DEF PruneMetric, StatusTypeOK, Writes, Locked, LockUsed, Ordered, Settled, NoWrite, Agreement, Agrees, StillNewest
  <2>5. Arriving'
    BY <1>1 DEF PruneMetric, StatusTypeOK, Writes, Locked, LockUsed, Ordered, Settled, NoWrite, Agreement, Agrees, Arriving, StillNewest
  <2>6. Outlasting'
    BY <1>1 DEF PruneMetric, StatusTypeOK, Writes, Locked, LockUsed, Ordered, Settled, NoWrite, Agreement, Agrees, Outlasting, StillNewest, Verdicts
  <2> QED
    BY <2>1, <2>2, <2>3, <2>4, <2>5, <2>6
<1>2. ASSUME NEW a \in Attempts, StartAttempt(a) PROVE StatusInv'
  <2>1. StatusTypeOK'
    BY <1>2 DEF StartAttempt, StatusTypeOK, Writes, NoWrite, Verdicts
  <2>2. Locked' /\ LockUsed'
    BY <1>2 DEF StartAttempt, StatusTypeOK, Locked, LockUsed, NoWrite
  <2>3. Ordered'
    BY <1>2 DEF StartAttempt, StatusTypeOK, Writes, Ordered, NoWrite, StillNewest
  <2>4. Agreement'
    BY <1>2 DEF StartAttempt, StatusTypeOK, Writes, Locked, LockUsed, Ordered, Settled, NoWrite, Agreement, Agrees, StillNewest
  <2>5. Arriving'
    BY <1>2 DEF StartAttempt, StatusTypeOK, Writes, Locked, LockUsed, Ordered, Settled, NoWrite, Agreement, Agrees, Arriving, StillNewest
  <2>6. Outlasting'
    BY <1>2 DEF StartAttempt, StatusTypeOK, Writes, Locked, LockUsed, Ordered, Settled, NoWrite, Agreement, Agrees, Outlasting, StillNewest, Verdicts
  <2> QED
    BY <2>1, <2>2, <2>3, <2>4, <2>5, <2>6
<1>3. ASSUME NEW a \in Attempts, DropOutcome(a) PROVE StatusInv'
  <2>1. StatusTypeOK'
    BY <1>3 DEF DropOutcome, StatusTypeOK, Writes, NoWrite, Verdicts
  <2>2. Locked' /\ LockUsed'
    BY <1>3 DEF DropOutcome, StatusTypeOK, Locked, LockUsed, NoWrite
  <2>3. Ordered'
    BY <1>3 DEF DropOutcome, StatusTypeOK, Writes, Ordered, NoWrite, StillNewest
  <2>4. Agreement'
    BY <1>3 DEF DropOutcome, StatusTypeOK, Writes, Locked, LockUsed, Ordered, Settled, NoWrite, Agreement, Agrees, StillNewest
  <2>5. Arriving'
    BY <1>3 DEF DropOutcome, StatusTypeOK, Writes, Locked, LockUsed, Ordered, Settled, NoWrite, Agreement, Agrees, Arriving, StillNewest
  <2>6. Outlasting'
    BY <1>3 DEF DropOutcome, StatusTypeOK, Writes, Locked, LockUsed, Ordered, Settled, NoWrite, Agreement, Agrees, Outlasting, StillNewest, Verdicts
  <2> QED
    BY <2>1, <2>2, <2>3, <2>4, <2>5, <2>6
<1>4. ASSUME NEW a \in Attempts, Succeed(a) PROVE StatusInv'
  <2>1. StatusTypeOK'
    <3>1. attempt' \in [Attempts -> [pc : {"idle", "dialing", "pushing"}, gen : 0..MaxRow,
                                   status : Statuses]]
      BY <1>4 DEF Succeed, Settle, StatusTypeOK, Statuses, Verdicts
    <3>2. learning' \in 0..Lessons
      BY <1>4 DEF Succeed, StatusTypeOK
    <3>3. lastSuccess' \in 0..MaxInstant /\ pushed' \in Statuses
      BY <1>4 DEF Succeed, Settle, StatusTypeOK, Statuses, Verdicts
    <3> QED
      BY <1>4, <3>1, <3>2, <3>3 DEF Succeed, Settle, StatusTypeOK, Statuses
  <2>2. Locked' /\ LockUsed'
    BY <1>4 DEF Succeed, Settle, StatusTypeOK, Locked, LockUsed, NoWrite
  <2>3. Ordered'
    BY <1>4 DEF Succeed, Settle, StatusTypeOK, Writes, Ordered, NoWrite, StillNewest
  <2>4. Agreement'
    BY <1>4 DEF Succeed, Settle, StatusTypeOK, Writes, Locked, LockUsed, Ordered, Settled, NoWrite, Agreement, Agrees, StillNewest
  <2>5. Arriving'
    BY <1>4 DEF Succeed, Settle, StatusTypeOK, Writes, Locked, LockUsed, Ordered, Settled, NoWrite, Agreement, Agrees, Arriving, StillNewest
  <2>6. Outlasting'
    BY <1>4 DEF Succeed, Settle, StatusTypeOK, Writes, Locked, LockUsed, Ordered, Settled, NoWrite, Agreement, Agrees, Outlasting, StillNewest, Verdicts
  <2> QED
    BY <2>1, <2>2, <2>3, <2>4, <2>5, <2>6
<1>5. ASSUME NEW a \in Attempts, NEW opens \in BOOLEAN, Fail(a, opens) PROVE StatusInv'
  <2>1. StatusTypeOK'
    BY <1>5 DEF Fail, Settle, StatusTypeOK, Writes, NoWrite, Verdicts
  <2>2. Locked' /\ LockUsed'
    BY <1>5 DEF Fail, Settle, StatusTypeOK, Locked, LockUsed, NoWrite
  <2>3. Ordered'
    BY <1>5 DEF Fail, Settle, StatusTypeOK, Writes, Ordered, NoWrite, StillNewest
  <2>4. Agreement'
    BY <1>5 DEF Fail, Settle, StatusTypeOK, Writes, Locked, LockUsed, Ordered, Settled, NoWrite, Agreement, Agrees, StillNewest
  <2>5. Arriving'
    BY <1>5 DEF Fail, Settle, StatusTypeOK, Writes, Locked, LockUsed, Ordered, Settled, NoWrite, Agreement, Agrees, Arriving, StillNewest
  <2>6. Outlasting'
    BY <1>5 DEF Fail, Settle, StatusTypeOK, Writes, Locked, LockUsed, Ordered, Settled, NoWrite, Agreement, Agrees, Outlasting, StillNewest, Verdicts
  <2> QED
    BY <2>1, <2>2, <2>3, <2>4, <2>5, <2>6
<1>6. ASSUME NEW a \in Attempts, PushStatus(a) PROVE StatusInv'
  <2>1. StatusTypeOK'
    <3>1. attempt' \in [Attempts -> [pc : {"idle", "dialing", "pushing"}, gen : 0..MaxRow,
                                   status : Statuses]]
      BY <1>6 DEF PushStatus, StatusTypeOK, Statuses
    <3>2. waiting' \in Writes
      <4>1. attempt[a].status \in Statuses
        BY DEF StatusTypeOK, Statuses
      <4> QED
        BY <1>6, <4>1 DEF PushStatus, StatusTypeOK, Writes, Statuses
    <3>3. reserved' \in 0..MaxReserved
      BY <1>6 DEF PushStatus, StatusTypeOK
    <3> QED
      BY <1>6, <3>1, <3>2, <3>3 DEF PushStatus, StatusTypeOK, Statuses
  <2>2. Locked' /\ LockUsed'
    BY <1>6 DEF PushStatus, StatusTypeOK, Locked, LockUsed, NoWrite
  <2>3. Ordered'
    BY <1>6 DEF PushStatus, StatusTypeOK, Writes, Ordered, NoWrite, StillNewest
  <2>4. Agreement'
    BY <1>6 DEF PushStatus, StatusTypeOK, Writes, Locked, LockUsed, Ordered, Settled, NoWrite, Agreement, Agrees, StillNewest
  <2>5. Arriving'
    BY <1>6 DEF PushStatus, StatusTypeOK, Writes, Locked, LockUsed, Ordered, Settled, NoWrite, Agreement, Agrees, Arriving, StillNewest
  <2>6. Outlasting'
    BY <1>6 DEF PushStatus, StatusTypeOK, Writes, Locked, LockUsed, Ordered, Settled, NoWrite, Agreement, Agrees, Outlasting, StillNewest, Verdicts
  <2> QED
    BY <2>1, <2>2, <2>3, <2>4, <2>5, <2>6
<1>7. ASSUME TakeStatus PROVE StatusInv'
  <2>1. StatusTypeOK'
    BY <1>7 DEF TakeStatus, StatusTypeOK, Writes, NoWrite, Verdicts
  <2>2. Locked' /\ LockUsed'
    BY <1>7 DEF TakeStatus, StatusTypeOK, Locked, LockUsed, NoWrite
  <2>3. Ordered'
    BY <1>7 DEF TakeStatus, StatusTypeOK, Writes, Ordered, NoWrite, StillNewest
  <2>4. Agreement'
    BY <1>7 DEF TakeStatus, StatusTypeOK, Writes, Locked, LockUsed, Ordered, Settled, NoWrite, Agreement, Agrees, StillNewest
  <2>5. Arriving'
    BY <1>7 DEF TakeStatus, StatusTypeOK, Writes, Locked, LockUsed, Ordered, Settled, NoWrite, Agreement, Agrees, Arriving, StillNewest
  <2>6. Outlasting'
    BY <1>7 DEF TakeStatus, StatusTypeOK, Writes, Locked, LockUsed, Ordered, Settled, NoWrite, Agreement, Agrees, Outlasting, StillNewest, Verdicts
  <2> QED
    BY <2>1, <2>2, <2>3, <2>4, <2>5, <2>6
<1>8. ASSUME WriteInHand PROVE StatusInv'
  <2>1. StatusTypeOK'
    BY <1>8 DEF WriteInHand, StatusTypeOK, Writes, NoWrite, Verdicts
  <2>2. Locked' /\ LockUsed'
    BY <1>8 DEF WriteInHand, StatusTypeOK, Locked, LockUsed, NoWrite
  <2>3. Ordered'
    BY <1>8 DEF WriteInHand, StatusTypeOK, Writes, Ordered, NoWrite, StillNewest
  <2>4. Agreement'
    BY <1>8 DEF WriteInHand, StatusTypeOK, Writes, Locked, LockUsed, Ordered, Settled, NoWrite, Agreement, Agrees, StillNewest
  <2>5. Arriving'
    BY <1>8 DEF WriteInHand, StatusTypeOK, Writes, Locked, LockUsed, Ordered, Settled, NoWrite, Agreement, Agrees, Arriving, StillNewest
  <2>6. Outlasting'
    BY <1>8 DEF WriteInHand, StatusTypeOK, Writes, Locked, LockUsed, Ordered, Settled, NoWrite, Agreement, Agrees, Outlasting, StillNewest, Verdicts
  <2> QED
    BY <2>1, <2>2, <2>3, <2>4, <2>5, <2>6
<1>9. ASSUME RefuseInHand PROVE StatusInv'
  <2>1. StatusTypeOK'
    BY <1>9 DEF RefuseInHand, StatusTypeOK, Writes, NoWrite, Verdicts
  <2>2. Locked' /\ LockUsed'
    BY <1>9 DEF RefuseInHand, StatusTypeOK, Locked, LockUsed, NoWrite
  <2>3. Ordered'
    BY <1>9 DEF RefuseInHand, StatusTypeOK, Writes, Ordered, NoWrite, StillNewest
  <2>4. Agreement'
    BY <1>9 DEF RefuseInHand, StatusTypeOK, Writes, Locked, LockUsed, Ordered, Settled, NoWrite, Agreement, Agrees, StillNewest
  <2>5. Arriving'
    BY <1>9 DEF RefuseInHand, StatusTypeOK, Writes, Locked, LockUsed, Ordered, Settled, NoWrite, Agreement, Agrees, Arriving, StillNewest
  <2>6. Outlasting'
    BY <1>9 DEF RefuseInHand, StatusTypeOK, Writes, Locked, LockUsed, Ordered, Settled, NoWrite, Agreement, Agrees, Outlasting, StillNewest, Verdicts
  <2> QED
    BY <2>1, <2>2, <2>3, <2>4, <2>5, <2>6
<1>10. ASSUME BeginObservation PROVE StatusInv'
  <2>1. StatusTypeOK'
    <3>1. observation' \in [pc : {"idle", "testing", "persisting"}, began : 0..MaxInstant,
                           gen : 0..MaxRow, write : Writes]
      <4>1. storedRow.gen \in 0..MaxRow /\ instant \in 0..MaxInstant
        BY DEF StatusTypeOK
      <4>2. observation \in [pc : {"idle", "testing", "persisting"}, began : 0..MaxInstant,
                              gen : 0..MaxRow, write : Writes]
        BY DEF StatusTypeOK
      <4> HIDE DEF StatusInv
      <4> QED
        BY <1>10, <4>1, <4>2 DEF BeginObservation
    <3> QED
      BY <1>10, <3>1 DEF BeginObservation, StatusTypeOK
  <2>2. Locked' /\ LockUsed'
    BY <1>10 DEF BeginObservation, StatusTypeOK, Locked, LockUsed, NoWrite
  <2>3. Ordered'
    BY <1>10 DEF BeginObservation, StatusTypeOK, Writes, Ordered, NoWrite, StillNewest
  <2>4. Agreement'
    BY <1>10 DEF BeginObservation, StatusTypeOK, Writes, Locked, LockUsed, Ordered, Settled, NoWrite, Agreement, Agrees, StillNewest
  <2>5. Arriving'
    BY <1>10 DEF BeginObservation, StatusTypeOK, Writes, Locked, LockUsed, Ordered, Settled, NoWrite, Agreement, Agrees, Arriving, StillNewest
  <2>6. Outlasting'
    BY <1>10 DEF BeginObservation, StatusTypeOK, Writes, Locked, LockUsed, Ordered, Settled, NoWrite, Agreement, Agrees, Outlasting, StillNewest, Verdicts
  <2> QED
    BY <2>1, <2>2, <2>3, <2>4, <2>5, <2>6
<1>11. ASSUME NEW desired, ObserveNothing(desired) PROVE StatusInv'
  <2>1. StatusTypeOK'
    BY <1>11 DEF ObserveNothing, StatusTypeOK, Writes, NoWrite, Verdicts
  <2>2. Locked' /\ LockUsed'
    BY <1>11 DEF ObserveNothing, StatusTypeOK, Locked, LockUsed, NoWrite
  <2>3. Ordered'
    BY <1>11 DEF ObserveNothing, StatusTypeOK, Writes, Ordered, NoWrite, StillNewest
  <2>4. Agreement'
    BY <1>11 DEF ObserveNothing, StatusTypeOK, Writes, Locked, LockUsed, Ordered, Settled, NoWrite, Agreement, Agrees, StillNewest
  <2>5. Arriving'
    BY <1>11 DEF ObserveNothing, StatusTypeOK, Writes, Locked, LockUsed, Ordered, Settled, NoWrite, Agreement, Agrees, Arriving, StillNewest
  <2>6. Outlasting'
    BY <1>11 DEF ObserveNothing, StatusTypeOK, Writes, Locked, LockUsed, Ordered, Settled, NoWrite, Agreement, Agrees, Outlasting, StillNewest, Verdicts
  <2> QED
    BY <2>1, <2>2, <2>3, <2>4, <2>5, <2>6
<1>12. ASSUME NEW desired, Observe(desired) PROVE StatusInv'
  <2>1. StatusTypeOK'
    <3>1. reserved' \in 0..MaxReserved /\ learning' \in 0..Lessons
      BY <1>12 DEF Observe, StatusTypeOK
    <3>2. observation'.write \in Writes
      BY <1>12, <3>1 DEF Observe, StatusTypeOK, Writes
    <3>3. observation' \in [pc : {"idle", "testing", "persisting"}, began : 0..MaxInstant,
                           gen : 0..MaxRow, write : Writes]
      BY <1>12, <3>2 DEF Observe, StatusTypeOK
    <3> QED
      BY <1>12, <3>1, <3>3 DEF Observe, StatusTypeOK
  <2>2. Locked' /\ LockUsed'
    BY <1>12 DEF Observe, Conceded, StatusTypeOK, Locked, LockUsed, NoWrite
  <2>3. Ordered'
    BY <1>12 DEF Observe, Conceded, StatusTypeOK, Writes, Ordered, NoWrite, StillNewest
  <2>4. Agreement'
    BY <1>12 DEF Observe, Conceded, StatusTypeOK, Writes, Locked, LockUsed, Ordered, Settled, NoWrite, Agreement, Agrees, StillNewest
  <2>5. Arriving'
    BY <1>12 DEF Observe, Conceded, StatusTypeOK, Writes, Locked, LockUsed, Ordered, Settled, NoWrite, Agreement, Agrees, Arriving, StillNewest
  <2>6. Outlasting'
    BY <1>12 DEF Observe, Conceded, StatusTypeOK, Writes, Locked, LockUsed, Ordered, Settled, NoWrite, Agreement, Agrees, Outlasting, StillNewest, Verdicts
  <2> QED
    BY <2>1, <2>2, <2>3, <2>4, <2>5, <2>6
<1>13. ASSUME NEW saved \in BOOLEAN, Persist(saved) PROVE StatusInv'
  <2>1. StatusTypeOK'
    <3>1. NoWrite \in Writes
      BY DEF NoWrite, Writes
    <3>2. observation' \in [pc : {"idle", "testing", "persisting"}, began : 0..MaxInstant,
                           gen : 0..MaxRow, write : Writes]
      BY <1>13, <3>1 DEF Persist, StatusTypeOK
    <3>3. storedRow' \in [gen : 1..MaxRow, status : Statuses]
      BY <1>13 DEF Persist, StatusTypeOK, Writes, Statuses
    <3> QED
      BY <1>13, <3>2, <3>3 DEF Persist, StatusTypeOK, Statuses
  <2>2. Locked' /\ LockUsed'
    BY <1>13 DEF Persist, StatusTypeOK, Locked, LockUsed, NoWrite
  <2>3. Ordered'
    BY <1>13 DEF Persist, StatusTypeOK, Writes, Ordered, NoWrite, StillNewest
  <2>4. Agreement'
    BY <1>13 DEF Persist, StatusTypeOK, Writes, Locked, LockUsed, Ordered, Settled, NoWrite, Agreement, Agrees, StillNewest
  <2>5. Arriving'
    BY <1>13 DEF Persist, StatusTypeOK, Writes, Locked, LockUsed, Ordered, Settled, NoWrite, Agreement, Agrees, Arriving, StillNewest
  <2>6. Outlasting'
    BY <1>13 DEF Persist, StatusTypeOK, Writes, Locked, LockUsed, Ordered, Settled, NoWrite, Agreement, Agrees, Outlasting, StillNewest, Verdicts
  <2> QED
    BY <2>1, <2>2, <2>3, <2>4, <2>5, <2>6
<1>14. ASSUME CommitEdit PROVE StatusInv'
  <2>1. StatusTypeOK'
    BY <1>14 DEF CommitEdit, StatusTypeOK, Writes, NoWrite, Verdicts
  <2>2. Locked' /\ LockUsed'
    BY <1>14 DEF CommitEdit, StatusTypeOK, Locked, LockUsed, NoWrite
  <2>3. Ordered'
    BY <1>14 DEF CommitEdit, StatusTypeOK, Writes, Ordered, NoWrite, StillNewest
  <2>4. Agreement'
    BY <1>14 DEF CommitEdit, StatusTypeOK, Writes, Locked, LockUsed, Ordered, Settled, NoWrite, Agreement, Agrees, StillNewest
  <2>5. Arriving'
    BY <1>14 DEF CommitEdit, StatusTypeOK, Writes, Locked, LockUsed, Ordered, Settled, NoWrite, Agreement, Agrees, Arriving, StillNewest
  <2>6. Outlasting'
    BY <1>14 DEF CommitEdit, StatusTypeOK, Writes, Locked, LockUsed, Ordered, Settled, NoWrite, Agreement, Agrees, Outlasting, StillNewest, Verdicts
  <2> QED
    BY <2>1, <2>2, <2>3, <2>4, <2>5, <2>6
<1>15. ASSUME EndEdit PROVE StatusInv'
  <2>1. StatusTypeOK'
    <3>1. learning' \in 0..Lessons /\ lastSuccess' \in 0..MaxInstant
      BY <1>15 DEF EndEdit, StatusTypeOK
    <3> QED
      BY <1>15, <3>1 DEF EndEdit, ResetStatus, StatusTypeOK
  <2>2. Locked' /\ LockUsed'
    BY <1>15 DEF EndEdit, ResetStatus, StatusTypeOK, Locked, LockUsed, NoWrite
  <2>3. Ordered'
    BY <1>15 DEF EndEdit, ResetStatus, StatusTypeOK, Writes, Ordered, NoWrite, StillNewest
  <2>4. Agreement'
    BY <1>15 DEF EndEdit, ResetStatus, StatusTypeOK, Writes, Locked, LockUsed, Ordered, Settled, NoWrite, Agreement, Agrees, StillNewest
  <2>5. Arriving'
    BY <1>15 DEF EndEdit, ResetStatus, StatusTypeOK, Writes, Locked, LockUsed, Ordered, Settled, NoWrite, Agreement, Agrees, Arriving, StillNewest
  <2>6. Outlasting'
    BY <1>15 DEF EndEdit, ResetStatus, StatusTypeOK, Writes, Locked, LockUsed, Ordered, Settled, NoWrite, Agreement, Agrees, Outlasting, StillNewest, Verdicts
  <2> QED
    BY <2>1, <2>2, <2>3, <2>4, <2>5, <2>6
<1>16. ASSUME Pace PROVE StatusInv'
  <2>1. StatusTypeOK'
    BY <1>16 DEF Pace, StatusTypeOK, Writes, NoWrite, Verdicts
  <2>2. Locked' /\ LockUsed'
    BY <1>16 DEF Pace, StatusTypeOK, Locked, LockUsed, NoWrite
  <2>3. Ordered'
    BY <1>16 DEF Pace, StatusTypeOK, Writes, Ordered, NoWrite, StillNewest
  <2>4. Agreement'
    BY <1>16 DEF Pace, StatusTypeOK, Writes, Locked, LockUsed, Ordered, Settled, NoWrite, Agreement, Agrees, StillNewest
  <2>5. Arriving'
    BY <1>16 DEF Pace, StatusTypeOK, Writes, Locked, LockUsed, Ordered, Settled, NoWrite, Agreement, Agrees, Arriving, StillNewest
  <2>6. Outlasting'
    BY <1>16 DEF Pace, StatusTypeOK, Writes, Locked, LockUsed, Ordered, Settled, NoWrite, Agreement, Agrees, Outlasting, StillNewest, Verdicts
  <2> QED
    BY <2>1, <2>2, <2>3, <2>4, <2>5, <2>6
<1>17. CASE UNCHANGED statusVars
  BY <1>17 DEF statusVars, StatusTypeOK, Writes, Locked, LockUsed, Ordered, Settled,
     Agreement, Agrees, Arriving, Outlasting, StillNewest
<1> QED
  BY <1>1, <1>2, <1>3, <1>4, <1>5, <1>6, <1>7, <1>8, <1>9, <1>10, <1>11, <1>12, <1>13, <1>14, <1>15, <1>16, <1>17 DEF StatusNext

-----------------------------------------------------------------------------
(* The theorems. *)

\* The invariant of every behaviour of one node's status.
THEOREM StatusInvHolds == StatusSpec => []StatusInv
  BY StatusInitially, StatusStep, PTL DEF StatusSpec

\* Type correctness.
THEOREM StatusTypeCorrect == StatusSpec => []StatusTypeOK
<1>1. StatusInv => StatusTypeOK
  BY DEF StatusInv
<1> QED
  BY <1>1, StatusInvHolds, PTL

\* With nothing on its way any more the row shows what the memory takes the
\* node for (record_connection_success_locked pushes only a change).
THEOREM RowFollowsHolds == StatusSpec => []RowFollowsMemory
<1>1. ASSUME StatusInv PROVE RowFollowsMemory
  <2>1. ~StillNewest(NoWrite)
    BY <1>1 DEF StatusInv, StatusTypeOK, StillNewest, NoWrite
  <2> QED
    BY <1>1, <2>1 DEF StatusInv, Arriving, Settled, RowFollowsMemory
<1> QED
  BY <1>1, StatusInvHolds, PTL

\* A probe that began before a connection succeeded does not put the node down
\* (record_probe_observation and the revision it reserves).
THEOREM SuccessOutlastsHolds == StatusSpec => SuccessOutlastsProbe
<1> DEFINE Outlasts ==
      /\ storedRow'.status = "inactive" /\ storedRow.status # "inactive"
      /\ observation.write # NoWrite /\ observation'.write = NoWrite
      /\ holder = Nobody /\ ~editing
      => lastSuccess <= observation.began
<1>1. ASSUME StatusInv, [StatusNext]_statusVars PROVE Outlasts
  <2> SUFFICES ASSUME observation.write # NoWrite, observation'.write = NoWrite
               PROVE Outlasts
    OBVIOUS
  <2>1. observation.pc = "persisting" /\ observation' # observation
    BY <1>1 DEF StatusInv, Ordered
  <2>2. PICK saved \in BOOLEAN : Persist(saved)
    BY <1>1, <2>1 DEF StatusNext, statusVars, metricVars, StartAttempt, DropOutcome,
       Succeed, Fail, Settle, PushStatus, PruneMetric, TakeStatus, WriteInHand,
       RefuseInHand, BeginObservation, ObserveNothing, Observe, CommitEdit, EndEdit, Pace
  <2> QED
    BY <1>1, <2>2 DEF Persist, StatusInv, StatusTypeOK, Outlasting, Settled
<1>2. StatusInv /\ [StatusNext]_statusVars => [Outlasts]_statusVars
  BY <1>1
<1> QED
  BY <1>2, StatusInvHolds, PTL DEF StatusSpec, SuccessOutlastsProbe

-----------------------------------------------------------------------------
(* The settings. *)

Commands ==
  [pc : {"idle", "called", "writing", "applying", "answering"},
   kind : {"load", "save", "reset"},
   patch : [SettingKeys -> Values \union {Unset}],
   current : [SettingKeys -> Values]]

(* The guard is held from the read of the settings to the answer. *)
Guarded ==
  \A c \in Clients :
    guard = c <=> command[c].pc \in {"writing", "applying", "answering"}

(* A patch names only keys of its kind. *)
PatchesFit ==
  \A c \in Clients, k \in SettingKeys :
    /\ command[c].kind = "load" /\ k \notin LoadKeys => command[c].patch[k] = Unset
    /\ command[c].kind = "save" /\ k \notin AdvancedKeys => command[c].patch[k] = Unset

(* What a command read is what its transaction finds. *)
ReadsCurrent ==
  \A c \in Clients : command[c].pc = "writing" => command[c].current = stored

(* What is about to be applied is what was stored. *)
GivesStored ==
  \A c \in Clients : command[c].pc = "applying" =>
    \A k \in KeysOf(command[c].kind) : Given(c)[k] = stored[k]

(* What is stored is in force, or the command under way will apply it. *)
InForce ==
  torn \/ \A k \in SettingKeys \ BootKeys :
    \/ effective[k] = stored[k]
    \/ \E c \in Clients : guard = c /\ command[c].pc = "applying"
                          /\ k \in KeysOf(command[c].kind)

(* What waits for a restart was announced, or the command under way will. *)
Telling ==
  torn \/ restartTold
    \/ (\A k \in BootKeys : effective[k] = stored[k])
    \/ \E c \in Clients : /\ guard = c /\ command[c].pc \in {"applying", "answering"}
                          /\ command[c].kind # "load" /\ ChangedAtBoot(c)

SettingsInv ==
  /\ SettingsTypeOK /\ Guarded /\ PatchesFit /\ ReadsCurrent
  /\ NoSettingLost /\ GivesStored /\ InForce /\ Telling

-----------------------------------------------------------------------------
(* Patches. *)

\* A patch over settings gives settings.
LEMMA PatchedType ==
  ASSUME NEW settings \in [SettingKeys -> Values],
         NEW patch \in [SettingKeys -> Values \union {Unset}]
  PROVE  Patched(settings, patch) \in [SettingKeys -> Values]
  BY DEF Patched

\* The settings a reset leaves.
LEMMA ResetType ==
  ASSUME NEW settings \in [SettingKeys -> Values]
  PROVE  Reset(settings) \in [SettingKeys -> Values]
  BY SettingsAssumption DEF Reset

\* What a command leaves in the table are settings.
LEMMA WrittenType ==
  ASSUME SettingsTypeOK, NEW c \in Clients
  PROVE  Written(c) \in [SettingKeys -> Values]
<1>1. command[c] \in Commands
  BY DEF SettingsTypeOK, Commands
<1>2. Patched(command[c].current, command[c].patch) \in [SettingKeys -> Values]
  BY <1>1, PatchedType DEF Commands
<1>3. Patched(stored, command[c].patch) \in [SettingKeys -> Values]
  BY <1>1, PatchedType DEF Commands, SettingsTypeOK
<1>4. Reset(stored) \in [SettingKeys -> Values]
  BY ResetType DEF SettingsTypeOK
<1>5. CASE command[c].kind = "load"
  BY <1>3, <1>5 DEF Written
<1>6. CASE command[c].kind = "save"
  <2>1. Written(c) = [k \in SettingKeys |-> IF k \in AdvancedKeys
                        THEN Patched(command[c].current, command[c].patch)[k]
                        ELSE stored[k]]
    BY <1>6 DEF Written
  <2> QED
    BY <1>2, <2>1 DEF SettingsTypeOK
<1>7. CASE command[c].kind = "reset"
  BY <1>4, <1>7 DEF Written
<1> QED
  BY <1>1, <1>5, <1>6, <1>7 DEF Commands

\* What a command gives the runtime are settings.
LEMMA GivenType ==
  ASSUME SettingsTypeOK, NEW c \in Clients
  PROVE  Given(c) \in [SettingKeys -> Values]
  BY PatchedType DEF Given, SettingsTypeOK

\* With the guard held the table is what the command read: what it writes is
\* its patch over the table.
LEMMA WrittenIsPatch ==
  ASSUME SettingsTypeOK, PatchesFit, ReadsCurrent,
         NEW c \in Clients, command[c].pc = "writing", command[c].kind # "reset"
  PROVE  Written(c) = Patched(stored, command[c].patch)
<1>1. command[c] \in Commands /\ command[c].current = stored
  BY DEF SettingsTypeOK, Commands, ReadsCurrent
<1>2. CASE command[c].kind = "load"
  BY <1>2 DEF Written
<1>3. CASE command[c].kind = "save"
  <2>1. Written(c) = [k \in SettingKeys |-> IF k \in AdvancedKeys
                        THEN Patched(stored, command[c].patch)[k] ELSE stored[k]]
    BY <1>1, <1>3 DEF Written
  <2>2. \A k \in SettingKeys \ AdvancedKeys :
          Patched(stored, command[c].patch)[k] = stored[k]
    BY <1>3 DEF PatchesFit, Patched
  <2>3. Patched(stored, command[c].patch)
          = [k \in SettingKeys |-> Patched(stored, command[c].patch)[k]]
    BY DEF Patched
  <2> QED
    BY <2>1, <2>2, <2>3
<1> QED
  BY <1>1, <1>2, <1>3 DEF Commands

-----------------------------------------------------------------------------
LEMMA SettingsInitially == SettingsInit => SettingsInv
<1> SUFFICES ASSUME SettingsInit PROVE SettingsInv
  OBVIOUS
<1> USE SettingsAssumption DEF SettingsInit, NoCommand
<1>1. SettingsTypeOK
  <2>1. [k \in SettingKeys |-> Default] \in [SettingKeys -> Values]
    OBVIOUS
  <2>2. [k \in SettingKeys |-> Unset] \in [SettingKeys -> Values \union {Unset}]
    OBVIOUS
  <2>3. NoCommand \in Commands
    BY <2>1, <2>2 DEF Commands
  <2>4. command \in [Clients -> Commands]
    BY <2>3
  <2>5. stored \in [SettingKeys -> Values]
    BY <2>1
  <2>6. effective = stored /\ wanted = stored
    OBVIOUS
  <2>7. guard \in Clients \union {Unheld} /\ issued \in 0..MaxCommands
    OBVIOUS
  <2>8. restartTold \in BOOLEAN /\ torn \in BOOLEAN
    OBVIOUS
  <2> HIDE DEF SettingsInit
  <2> QED
    BY <2>4, <2>5, <2>6, <2>7, <2>8 DEF SettingsTypeOK, Commands
<1>2. Guarded /\ PatchesFit /\ ReadsCurrent /\ GivesStored
  BY DEF Guarded, PatchesFit, ReadsCurrent, GivesStored
<1>3. NoSettingLost /\ InForce /\ Telling
  BY DEF NoSettingLost, InForce, Telling, SettingKeys, BootKeys, LoadKeys,
     AdvancedKeys, PolicyKeys
<1> QED
  BY <1>1, <1>2, <1>3 DEF SettingsInv

\* Every step keeps the types.
LEMMA TypeStep ==
  ASSUME SettingsTypeOK, SettingsNext PROVE SettingsTypeOK'
<1> USE SettingsAssumption DEF SettingsTypeOK
<1>1. ASSUME NEW c \in Clients, Issue(c) PROVE SettingsTypeOK'
  <2>1. command \in [Clients -> Commands]
    BY DEF Commands
  <2>2. command'[c] \in Commands
    BY <1>1, <2>1 DEF Issue, Patches, Commands
  <2>3. command' = [command EXCEPT ![c] = command'[c]]
    BY <1>1 DEF Issue
  <2>4. command' \in [Clients -> Commands]
    <3> HIDE DEF SettingsTypeOK
    <3> QED
      BY <2>1, <2>2, <2>3
  <2> QED
    BY <1>1, <2>4 DEF Issue, historyVars, Commands
<1>2. ASSUME NEW c \in Clients, Take(c) PROVE SettingsTypeOK'
  <2>1. command \in [Clients -> Commands]
    BY DEF Commands
  <2>2. [command[c] EXCEPT !.pc = "writing", !.current = stored] \in Commands
    BY <2>1 DEF Commands
  <2>3. command' \in [Clients -> Commands]
    <3>1. command' = [command EXCEPT ![c].pc = "writing", ![c].current = stored]
      BY <1>2 DEF Take
    <3> HIDE DEF SettingsTypeOK
    <3> QED
      BY <2>1, <2>2, <3>1
  <2> QED
    BY <1>2, <2>3 DEF Take, historyVars, Commands
<1>3. ASSUME NEW c \in Clients, GiveBack(c) PROVE SettingsTypeOK'
  BY <1>3 DEF GiveBack, historyVars, NoCommand
<1>4. ASSUME NEW c \in Clients, Write(c) PROVE SettingsTypeOK'
  <2>1. stored' \in [SettingKeys -> Values]
    BY <1>4, WrittenType DEF Write
  <2>2. wanted' \in [SettingKeys -> Values]
    BY <1>4, PatchedType, ResetType DEF Write
  <2> QED
    BY <1>4, <2>1, <2>2 DEF Write
<1>5. ASSUME NEW c \in Clients, FailToReload(c) PROVE SettingsTypeOK'
  BY <1>5 DEF FailToReload, NoCommand
<1>6. ASSUME NEW c \in Clients, Apply(c) PROVE SettingsTypeOK'
  <2>1. Given(c) \in [SettingKeys -> Values]
    BY <1>6, GivenType
  <2>2. effective' \in [SettingKeys -> Values]
    BY <1>6, <2>1 DEF Apply
  <2> QED
    BY <1>6, <2>2 DEF Apply, historyVars
<1>7. ASSUME NEW c \in Clients, Answer(c) PROVE SettingsTypeOK'
  BY <1>7 DEF Answer, NoCommand, RestartRequired, ChangedAtBoot
<1>8. CASE Restart
  BY <1>8 DEF Restart, NoCommand
<1> QED
  BY <1>1, <1>2, <1>3, <1>4, <1>5, <1>6, <1>7, <1>8 DEF SettingsNext

-----------------------------------------------------------------------------
\* Every step keeps the invariant.
LEMMA SettingsStep == SettingsInv /\ [SettingsNext]_settingsVars => SettingsInv'
<1> SUFFICES ASSUME SettingsInv, [SettingsNext]_settingsVars PROVE SettingsInv'
  OBVIOUS
<1> USE SettingsAssumption DEF SettingsInv
<1>1. ASSUME NEW c \in Clients, Issue(c) PROVE SettingsInv'
  <2>1. SettingsTypeOK'
    BY <1>1, TypeStep DEF SettingsNext
  <2>2. /\ command[c].pc = "idle" /\ command'[c].pc = "called"
        /\ \A d \in Clients \ {c} : command'[d] = command[d]
    BY <1>1 DEF Issue, SettingsTypeOK
  <2>3. Guarded' /\ ReadsCurrent'
    BY <1>1, <2>2 DEF Issue, Guarded, ReadsCurrent
  <2>4. PatchesFit'
    <3>1. SUFFICES ASSUME NEW d \in Clients, NEW k \in SettingKeys
                   PROVE  PatchesFit!(d, k)'
      BY DEF PatchesFit
    <3>2. CASE d # c
      BY <2>2, <3>2 DEF PatchesFit
    <3>3. CASE d = c
      <4>1. command[c] \in Commands /\ command \in [Clients -> Commands]
        BY DEF SettingsTypeOK, Commands
      <4>2. \/ command'[c].kind = "load" /\ command'[c].patch \in Patches(LoadKeys)
            \/ command'[c].kind = "save" /\ command'[c].patch \in Patches(AdvancedKeys)
            \/ command'[c].kind = "reset"
        BY <1>1, <4>1 DEF Issue, Commands
      <4> QED
        BY <3>3, <4>2 DEF Patches
    <3> QED
      BY <3>2, <3>3
  <2>5. GivesStored'
    BY <1>1, <2>2 DEF Issue, GivesStored, Given
  <2>6. InForce' /\ Telling' /\ NoSettingLost'
    BY <1>1, <2>2 DEF Issue, historyVars, InForce, Telling, ChangedAtBoot,
       NoSettingLost
  <2> QED
    BY <2>1, <2>3, <2>4, <2>5, <2>6
<1>2. ASSUME NEW c \in Clients, Take(c) PROVE SettingsInv'
  <2>1. SettingsTypeOK'
    BY <1>2, TypeStep DEF SettingsNext
  <2>2. /\ guard = Unheld /\ guard' = c
        /\ command[c].pc = "called" /\ command'[c].pc = "writing"
        /\ command'[c].current = stored
        /\ command'[c].kind = command[c].kind /\ command'[c].patch = command[c].patch
        /\ \A d \in Clients \ {c} : command'[d] = command[d]
    BY <1>2 DEF Take, GuardFree, SettingsTypeOK
  <2>3. \A d \in Clients : command[d].pc \notin {"writing", "applying", "answering"}
    BY <2>2 DEF Guarded
  <2>4. Guarded'
    BY <2>2, <2>3 DEF Guarded
  <2>6. ReadsCurrent'
    <3>1. stored' = stored
      BY <1>2 DEF Take
    <3> QED
      BY <2>2, <2>3, <3>1 DEF ReadsCurrent
  <2>8. PatchesFit'
    BY <2>2 DEF PatchesFit
  <2>7. GivesStored'
    BY <2>2, <2>3 DEF GivesStored
  <2>5. InForce' /\ Telling' /\ NoSettingLost'
    BY <1>2, <2>2 DEF Take, historyVars, InForce, Telling, ChangedAtBoot, NoSettingLost
  <2> QED
    BY <2>1, <2>4, <2>5, <2>6, <2>7, <2>8
<1>3. ASSUME NEW c \in Clients, GiveBack(c) PROVE SettingsInv'
  <2>1. SettingsTypeOK'
    BY <1>3, TypeStep DEF SettingsNext
  <2>2. /\ guard = c /\ guard' = Unheld
        /\ command[c].pc = "writing" /\ command'[c] = NoCommand
        /\ \A d \in Clients \ {c} : command'[d] = command[d]
    BY <1>3 DEF GiveBack, Guarded, SettingsTypeOK
  <2>3. Guarded' /\ ReadsCurrent' /\ PatchesFit'
    BY <1>3, <2>2 DEF GiveBack, Guarded, ReadsCurrent, PatchesFit, NoCommand
  <2>4. GivesStored'
    BY <1>3, <2>2 DEF GiveBack, GivesStored, Given, NoCommand
  <2>5. InForce' /\ Telling' /\ NoSettingLost'
    BY <1>3, <2>2 DEF GiveBack, historyVars, InForce, Telling, ChangedAtBoot,
       NoSettingLost
  <2> QED
    BY <2>1, <2>3, <2>4, <2>5
<1>4. ASSUME NEW c \in Clients, Write(c) PROVE SettingsInv'
  <2>1. SettingsTypeOK'
    BY <1>4, TypeStep DEF SettingsNext
  <2>2. /\ guard = c /\ guard' = c
        /\ command[c].pc = "writing" /\ command'[c].pc = "applying"
        /\ command'[c].current = command[c].current /\ command[c].current = stored
        /\ command'[c].kind = command[c].kind /\ command'[c].patch = command[c].patch
        /\ \A d \in Clients \ {c} : command'[d] = command[d]
        /\ stored' = Written(c) /\ UNCHANGED << effective, restartTold, torn >>
    BY <1>4 DEF Write, Guarded, ReadsCurrent, SettingsTypeOK
  <2>3. Guarded' /\ ReadsCurrent' /\ PatchesFit'
    BY <1>4, <2>2 DEF Write, Guarded, ReadsCurrent, PatchesFit
  <2>4. NoSettingLost'
    <3>1. CASE command[c].kind = "reset"
      BY <1>4, <3>1 DEF Write, Written, NoSettingLost
    <3>2. CASE command[c].kind # "reset"
      BY <1>4, <2>2, <3>2, WrittenIsPatch DEF Write, NoSettingLost
    <3> QED
      BY <3>1, <3>2
  <2>5. GivesStored'
    <3>1. \A d \in Clients \ {c} : command[d].pc # "applying"
      BY <2>2 DEF Guarded
    <3>2. Given(c)' = stored'
      <4>1. CASE command[c].kind = "reset"
        BY <2>2, <4>1 DEF Given
      <4>2. CASE command[c].kind # "reset"
        BY <2>2, <4>2, WrittenIsPatch DEF Given
      <4> QED
        BY <4>1, <4>2
    <3> QED
      BY <2>2, <3>1, <3>2 DEF GivesStored
  <2>6. InForce'
    <3> SUFFICES ASSUME ~torn, NEW k \in SettingKeys \ BootKeys
                 PROVE  effective[k] = stored'[k] \/ k \in KeysOf(command[c].kind)
      BY <2>2 DEF InForce
    <3>1. effective[k] = stored[k]
      BY <2>2 DEF InForce
    <3>2. CASE command[c].kind = "reset"
      BY <2>2, <3>1, <3>2 DEF Written, Reset, KeysOf, SettingKeys, BootKeys, LoadKeys,
         AdvancedKeys, PolicyKeys
    <3>3. CASE command[c].kind # "reset"
      <4>1. stored' = Patched(stored, command[c].patch)
        BY <2>2, <3>3, WrittenIsPatch
      <4>2. command[c].kind \in {"load", "save"}
        BY <3>3 DEF SettingsTypeOK
      <4>3. k \notin KeysOf(command[c].kind) => command[c].patch[k] = Unset
        BY <4>2 DEF PatchesFit, KeysOf, SettingKeys, BootKeys, LoadKeys, AdvancedKeys,
           PolicyKeys
      <4> QED
        BY <3>1, <4>1, <4>3 DEF Patched
    <3> QED
      BY <3>2, <3>3
  <2>7. Telling'
    <3> SUFFICES ASSUME ~torn, ~restartTold,
                        NEW k \in BootKeys, effective[k] # stored'[k]
                 PROVE  command[c].kind # "load" /\ \E b \in BootKeys : stored[b] # stored'[b]
      BY <2>2 DEF Telling, ChangedAtBoot
    <3>1. effective[k] = stored[k]
      BY <2>2 DEF Telling
    <3>2. command[c].kind # "load"
      <4> SUFFICES ASSUME command[c].kind = "load" PROVE FALSE
        OBVIOUS
      <4>1. stored' = Patched(stored, command[c].patch)
        BY <2>2 DEF Written
      <4>2. k \in SettingKeys /\ k \notin LoadKeys
        BY DEF SettingKeys, BootKeys, LoadKeys, AdvancedKeys
      <4>3. stored'[k] = stored[k]
        BY <4>1, <4>2 DEF PatchesFit, Patched
      <4> QED
        BY <3>1, <4>3
    <3> QED
      BY <3>1, <3>2
  <2> QED
    BY <2>1, <2>3, <2>4, <2>5, <2>6, <2>7
<1>5. ASSUME NEW c \in Clients, FailToReload(c) PROVE SettingsInv'
  <2>1. SettingsTypeOK'
    BY <1>5, TypeStep DEF SettingsNext
  <2>2. /\ guard = c /\ guard' = Unheld
        /\ command[c].pc = "applying" /\ command'[c] = NoCommand
        /\ \A d \in Clients \ {c} : command'[d] = command[d]
    BY <1>5 DEF FailToReload, Guarded, SettingsTypeOK
  <2>3. Guarded' /\ ReadsCurrent' /\ PatchesFit'
    BY <1>5, <2>2 DEF FailToReload, Guarded, ReadsCurrent, PatchesFit, NoCommand
  <2>4. GivesStored'
    BY <1>5, <2>2 DEF FailToReload, GivesStored, Given, NoCommand
  <2>5. InForce' /\ Telling' /\ NoSettingLost'
    BY <1>5 DEF FailToReload, InForce, Telling, NoSettingLost
  <2> QED
    BY <2>1, <2>3, <2>4, <2>5
<1>6. ASSUME NEW c \in Clients, Apply(c) PROVE SettingsInv'
  <2>1. SettingsTypeOK'
    BY <1>6, TypeStep DEF SettingsNext
  <2>2. /\ guard = c /\ guard' = c
        /\ command[c].pc = "applying" /\ command'[c].pc = "answering"
        /\ command'[c].current = command[c].current
        /\ command'[c].kind = command[c].kind /\ command'[c].patch = command[c].patch
        /\ \A d \in Clients \ {c} : command'[d] = command[d]
        /\ UNCHANGED << stored, wanted, restartTold, torn >>
    BY <1>6 DEF Apply, historyVars, Guarded, SettingsTypeOK
  <2>3. \A k \in SettingKeys :
          effective'[k] = IF k \in KeysOf(command[c].kind) THEN stored[k] ELSE effective[k]
    BY <1>6, <2>2 DEF Apply, GivesStored
  <2>4. Guarded' /\ ReadsCurrent' /\ PatchesFit' /\ NoSettingLost'
    BY <2>2 DEF Guarded, ReadsCurrent, PatchesFit, NoSettingLost
  <2>5. GivesStored'
    <3>1. \A d \in Clients : command'[d].pc # "applying"
      BY <2>2 DEF Guarded
    <3> QED
      BY <3>1 DEF GivesStored
  <2>6. InForce'
    <3> SUFFICES ASSUME ~torn, NEW k \in SettingKeys \ BootKeys
                 PROVE  effective'[k] = stored[k]
      BY <2>2 DEF InForce
    <3>1. effective[k] = stored[k] \/ k \in KeysOf(command[c].kind)
      BY <2>2 DEF InForce
    <3> QED
      BY <2>3, <3>1
  <2>7. Telling'
    <3>1. \A k \in BootKeys : effective'[k] = effective[k]
      BY <2>3 DEF KeysOf, BootKeys, LoadKeys, PolicyKeys, SettingKeys, AdvancedKeys
    <3> QED
      BY <2>2, <3>1 DEF Telling, ChangedAtBoot
  <2> QED
    BY <2>1, <2>4, <2>5, <2>6, <2>7
<1>7. ASSUME NEW c \in Clients, Answer(c) PROVE SettingsInv'
  <2>1. SettingsTypeOK'
    BY <1>7, TypeStep DEF SettingsNext
  <2>2. /\ guard = c /\ guard' = Unheld
        /\ command[c].pc = "answering" /\ command'[c] = NoCommand
        /\ \A d \in Clients \ {c} : command'[d] = command[d]
        /\ UNCHANGED << stored, effective, wanted, torn >>
    BY <1>7 DEF Answer, Guarded, SettingsTypeOK
  <2>3. Guarded' /\ ReadsCurrent' /\ PatchesFit'
    BY <2>2 DEF Guarded, ReadsCurrent, PatchesFit, NoCommand
  <2>4. GivesStored'
    BY <2>2 DEF GivesStored, Given, NoCommand
  <2>5. InForce' /\ NoSettingLost'
    <3>1. torn \/ \A k \in SettingKeys \ BootKeys : effective[k] = stored[k]
      BY <2>2 DEF InForce
    <3> QED
      BY <2>2, <3>1 DEF InForce, NoSettingLost
  <2>6. Telling'
    <3>1. CASE torn \/ restartTold
      <4>1. restartTold => restartTold'
        BY <1>7 DEF Answer
      <4> QED
        BY <2>2, <3>1, <4>1 DEF Telling
    <3>2. CASE \A k \in BootKeys : effective[k] = stored[k]
      BY <2>2, <3>2 DEF Telling
    <3>3. CASE command[c].kind # "load" /\ ChangedAtBoot(c)
      BY <1>7, <3>3 DEF Answer, RestartRequired, Telling
    <3> QED
      BY <2>2, <3>1, <3>2, <3>3 DEF Telling
  <2> QED
    BY <2>1, <2>3, <2>4, <2>5, <2>6
<1>8. CASE Restart
  <2>1. SettingsTypeOK'
    BY <1>8, TypeStep DEF SettingsNext
  <2>2. Guarded' /\ ReadsCurrent' /\ PatchesFit' /\ GivesStored'
    BY <1>8 DEF Restart, NoCommand, Guarded, ReadsCurrent, PatchesFit, GivesStored
  <2>3. InForce' /\ Telling' /\ NoSettingLost'
    BY <1>8 DEF Restart, InForce, Telling, NoSettingLost
  <2> QED
    BY <2>1, <2>2, <2>3
<1>9. CASE UNCHANGED settingsVars
  BY <1>9 DEF settingsVars, historyVars, SettingsTypeOK, Guarded, PatchesFit,
     ReadsCurrent, NoSettingLost, GivesStored, Given, InForce, Telling, ChangedAtBoot
<1> QED
  BY <1>1, <1>2, <1>3, <1>4, <1>5, <1>6, <1>7, <1>8, <1>9 DEF SettingsNext

-----------------------------------------------------------------------------
(* The theorems. *)

\* The invariant of every behaviour of the settings.
THEOREM SettingsInvHolds == SettingsSpec => []SettingsInv
  BY SettingsInitially, SettingsStep, PTL DEF SettingsSpec

\* Type correctness.
THEOREM SettingsTypeCorrect == SettingsSpec => []SettingsTypeOK
<1>1. SettingsInv => SettingsTypeOK
  BY DEF SettingsInv
<1> QED
  BY <1>1, SettingsInvHolds, PTL

\* No save undoes what another one set (save_advanced_config reads all
\* settings and writes all of them, under settings_update_lock).
THEOREM NoSettingLostHolds == SettingsSpec => []NoSettingLost
<1>1. SettingsInv => NoSettingLost
  BY DEF SettingsInv
<1> QED
  BY <1>1, SettingsInvHolds, PTL

\* With no save under way what is in force is what is stored
\* (update_load_settings, update_advanced_config).
THEOREM EffectiveFollowsHolds == SettingsSpec => []EffectiveFollowsStored
<1>1. ASSUME SettingsInv PROVE EffectiveFollowsStored
  <2>1. guard = Unheld => \A c \in Clients : guard # c
    BY SettingsAssumption
  <2> QED
    BY <1>1, <2>1 DEF SettingsInv, InForce, EffectiveFollowsStored
<1> QED
  BY <1>1, SettingsInvHolds, PTL

\* A restart that is due was announced (restart_required).
THEOREM RestartIsToldHolds == SettingsSpec => []RestartIsTold
<1>1. ASSUME SettingsInv PROVE RestartIsTold
  <2>1. guard = Unheld => \A c \in Clients : guard # c
    BY SettingsAssumption
  <2> QED
    BY <1>1, <2>1 DEF SettingsInv, Telling, RestartIsTold
<1> QED
  BY <1>1, SettingsInvHolds, PTL

\* What the user set is stored, and in force or announced as waiting
\* (commands.rs:255-531).
THEOREM SettingsAreKeptHolds == SettingsSpec => []SettingsAreKept
<1>1. NoSettingLost /\ EffectiveFollowsStored /\ RestartIsTold => SettingsAreKept
  BY DEF SettingsAreKept
<1> QED
  BY <1>1, NoSettingLostHolds, EffectiveFollowsHolds, RestartIsToldHolds, PTL

-----------------------------------------------------------------------------
(* Recursion over the first numbers. *)

\* Of some numbers one is the least.
LEMMA LeastNumber ==
  ASSUME NEW S \in SUBSET Nat, S # {}
  PROVE  \E n \in S : \A m \in S : n <= m
<1>1. IsWellFoundedOn(OpToRel(<, Nat), Nat)
  BY NatLessThanWellFounded
<1>2. PICK n \in S : \A m \in S : << m, n >> \notin OpToRel(<, Nat)
  BY <1>1, WFMin
<1>3. \A m \in S : ~(m < n)
  BY <1>2 DEF OpToRel
<1> QED BY <1>3

\* What holds at 0, and at a number if it does at the one before, holds up to n.
LEMMA Stepwise ==
  ASSUME NEW n \in Nat, NEW T, 0 \in T, \A i \in 1..n : i - 1 \in T => i \in T
  PROVE  0..n \subseteq T
<1> SUFFICES ASSUME (0..n) \ T # {} PROVE FALSE
  OBVIOUS
<1>1. PICK i \in (0..n) \ T : \A j \in (0..n) \ T : i <= j
  <2>1. (0..n) \ T \in SUBSET Nat
    OBVIOUS
  <2> QED BY <2>1, LeastNumber
<1>2. i # 0 /\ i \in 1..n /\ i - 1 \in 0..n /\ ~(i <= i - 1)
  BY <1>1
<1> QED BY <1>1, <1>2

\* The functions whose values a step makes, one from the other.
Made(n, S, a, G) ==
  {g \in [0..n -> S] : g[0] = a /\ \A i \in 1..n : g[i] = G[<< i, g[i - 1] >>]}

\* There is one.
LEMMA Recursion ==
  ASSUME NEW n \in Nat, NEW S, NEW a \in S, NEW G \in [(1..n) \X S -> S]
  PROVE  Made(n, S, a, G) # {}
<1> DEFINE Good(m, g) == g[0] = a /\ \A i \in 1..m : g[i] = G[<< i, g[i - 1] >>]
           T == {m \in 0..n : \E g \in [0..m -> S] : Good(m, g)}
<1>1. 0 \in T
  <2> DEFINE g == [i \in 0..0 |-> a]
  <2>1. g \in [0..0 -> S] /\ Good(0, g)
    OBVIOUS
  <2> HIDE DEF Good, g
  <2> QED BY <2>1
<1>2. ASSUME NEW m \in 1..n, m - 1 \in T PROVE m \in T
  <2>1. PICK g \in [0..(m - 1) -> S] : Good(m - 1, g)
    BY <1>2
  <2> DEFINE h == [i \in 0..m |-> IF i = m THEN G[<< m, g[m - 1] >>] ELSE g[i]]
  <2>2. G[<< m, g[m - 1] >>] \in S
    BY <2>1
  <2>3. h \in [0..m -> S]
    BY <2>2, <2>1
  <2>4. h[m] = G[<< m, g[m - 1] >>] /\ \A i \in 0..(m - 1) : h[i] = g[i]
    OBVIOUS
  <2> HIDE DEF h
  <2>5. ASSUME NEW i \in 1..m PROVE h[i] = G[<< i, h[i - 1] >>]
    <3>1. i - 1 \in 0..(m - 1) /\ h[i - 1] = g[i - 1]
      BY <2>4
    <3>2. CASE i = m
      BY <3>1, <3>2, <2>4
    <3>3. CASE i # m
      BY <3>1, <3>3, <2>1, <2>4
    <3> QED BY <3>2, <3>3
  <2>6. h[0] = a
    BY <2>1, <2>4
  <2> QED BY <2>3, <2>5, <2>6
<1> HIDE DEF T
<1>3. n \in T
  <2>1. 0..n \subseteq T
    BY <1>1, <1>2, Stepwise
  <2> QED BY <2>1
<1> QED BY <1>3 DEF T, Made

-----------------------------------------------------------------------------
(* The sums over a window. *)

WindowSamples == [at : Nat, latency : Nat]

LEMMA WindowIs ==
  ASSUME NEW w \in Seq(WindowSamples)
  PROVE  /\ Len(w) \in Nat /\ DOMAIN w = 1..Len(w)
         /\ \A i \in 1..Len(w) : w[i] \in WindowSamples /\ w[i].latency \in Nat
<1>1. /\ Len(w) \in Nat /\ DOMAIN w = 1..Len(w)
      /\ \A i \in 1..Len(w) : w[i] \in WindowSamples
  OBVIOUS
<1> QED BY <1>1 DEF WindowSamples

\* Whatever adds up step by step is the total.
LEMMA TotalIs ==
  ASSUME NEW w \in Seq(WindowSamples), NEW g,
         g = [i \in 0..Len(w) |-> g[i]],
         g[0] = 0, \A i \in 1..Len(w) : g[i] = g[i - 1] + w[i].latency
  PROVE  TotalTime(w) = g[Len(w)]
<1> DEFINE Sums(h) == h = [i \in 0..Len(w) |-> IF i = 0 THEN 0 ELSE h[i - 1] + w[i].latency]
           f == CHOOSE h : Sums(h)
<1>3. Len(w) \in Nat
  OBVIOUS
<1>1. Sums(g)
  <2>1. ASSUME NEW i \in 0..Len(w)
        PROVE  g[i] = IF i = 0 THEN 0 ELSE g[i - 1] + w[i].latency
    <3>1. i = 0 \/ i \in 1..Len(w)
      BY <1>3
    <3> QED BY <3>1
  <2> QED BY <2>1
<1>2. Sums(f)
  BY <1>1
<1> HIDE DEF f
<1>4. f[0] = g[0]
  BY <1>2, <1>3
<1>5. ASSUME NEW i \in 1..Len(w), f[i - 1] = g[i - 1] PROVE f[i] = g[i]
  <2>1. i \in 0..Len(w) /\ i # 0
    BY <1>3
  <2>2. f[i] = f[i - 1] + w[i].latency
    BY <1>2, <2>1
  <2> QED BY <2>2, <1>5
<1> DEFINE T == {i \in 0..Len(w) : f[i] = g[i]}
<1>6. 0 \in T /\ \A i \in 1..Len(w) : i - 1 \in T => i \in T
  BY <1>3, <1>4, <1>5
<1> HIDE DEF T
<1>7. Len(w) \in T
  <2>1. 0..Len(w) \subseteq T
    BY <1>3, <1>6, Stepwise
  <2> QED BY <2>1, <1>3
<1>8. TotalTime(w) = f[Len(w)]
  BY DEF TotalTime, f
<1> QED BY <1>7, <1>8 DEF T

LEMMA TotalOf ==
  ASSUME NEW w \in Seq(WindowSamples)
  PROVE  \E g \in [0..Len(w) -> Nat] :
           /\ g[0] = 0 /\ \A i \in 1..Len(w) : g[i] = g[i - 1] + w[i].latency
           /\ TotalTime(w) = g[Len(w)]
<1> DEFINE n == Len(w)
           G == [p \in (1..n) \X Nat |-> p[2] + w[p[1]].latency]
<1>1. n \in Nat /\ \A i \in 1..n : w[i].latency \in Nat
  BY WindowIs
<1>2. G \in [(1..n) \X Nat -> Nat]
  BY <1>1
<1> HIDE DEF n, G
<1>3. PICK g \in [0..n -> Nat] : g[0] = 0 /\ \A i \in 1..n : g[i] = G[<< i, g[i - 1] >>]
  <2>1. Made(n, Nat, 0, G) # {}
    BY <1>1, <1>2, Recursion
  <2> QED BY <2>1 DEF Made
<1>4. ASSUME NEW i \in 1..n PROVE g[i] = g[i - 1] + w[i].latency
  <2>1. << i, g[i - 1] >> \in (1..n) \X Nat
    BY <1>1, <1>3
  <2>2. G[<< i, g[i - 1] >>] = g[i - 1] + w[i].latency
    BY <2>1 DEF G
  <2> QED BY <2>2, <1>3
<1>5. TotalTime(w) = g[n]
  BY <1>3, <1>4, TotalIs DEF n
<1> QED BY <1>3, <1>4, <1>5 DEF n

LEMMA TotalOfNone == TotalTime(<< >>) = 0
<1>1. << >> \in Seq(WindowSamples) /\ Len(<< >>) = 0
  OBVIOUS
<1> QED BY <1>1, TotalOf

LEMMA TotalAppended ==
  ASSUME NEW w \in Seq(WindowSamples), NEW s \in WindowSamples
  PROVE  TotalTime(Append(w, s)) = TotalTime(w) + s.latency /\ TotalTime(w) \in Nat
<1> DEFINE v == Append(w, s)
           n == Len(w)
<1>1. v \in Seq(WindowSamples) /\ Len(v) = n + 1 /\ n \in Nat /\ v[n + 1] = s
      /\ \A i \in 1..n : v[i] = w[i]
  OBVIOUS
<1>2. PICK g \in [0..n -> Nat] : /\ g[0] = 0 /\ \A i \in 1..n : g[i] = g[i - 1] + w[i].latency
                                 /\ TotalTime(w) = g[n]
  BY TotalOf
<1> DEFINE h == [i \in 0..(n + 1) |-> IF i = n + 1 THEN g[n] + s.latency ELSE g[i]]
<1> HIDE DEF v, n
<1>3. /\ h[0] = 0 /\ h = [i \in 0..(n + 1) |-> h[i]]
      /\ \A i \in 1..(n + 1) : h[i] = h[i - 1] + v[i].latency
  BY <1>1, <1>2
<1>4. h[n + 1] = g[n] + s.latency
  BY <1>1
<1> HIDE DEF h
<1>5. TotalTime(v) = h[n + 1]
  BY <1>1, <1>3, TotalIs
<1> QED BY <1>1, <1>2, <1>4, <1>5 DEF v

LEMMA TotalOfTail ==
  ASSUME NEW w \in Seq(WindowSamples), w # << >>
  PROVE  /\ TotalTime(w) = Head(w).latency + TotalTime(Tail(w))
         /\ TotalTime(Tail(w)) \in Nat /\ Head(w).latency \in Nat
<1> DEFINE v == Tail(w)
           n == Len(v)
<1>1. /\ v \in Seq(WindowSamples) /\ Len(w) = n + 1 /\ n \in Nat /\ w[1] = Head(w)
      /\ \A i \in 1..n : v[i] = w[i + 1]
      /\ Head(w).latency \in Nat
  <2>1. /\ v \in Seq(WindowSamples) /\ Len(w) = n + 1 /\ n \in Nat /\ w[1] = Head(w)
        /\ \A i \in 1..n : v[i] = w[i + 1]
    OBVIOUS
  <2> HIDE DEF n, v
  <2> QED BY <2>1, WindowIs
<1>2. PICK g \in [0..n -> Nat] : /\ g[0] = 0 /\ \A i \in 1..n : g[i] = g[i - 1] + v[i].latency
                                 /\ TotalTime(v) = g[n]
  BY <1>1, TotalOf
<1> DEFINE h == [i \in 0..(n + 1) |-> IF i = 0 THEN 0 ELSE Head(w).latency + g[i - 1]]
<1> HIDE DEF v, n
<1>3. /\ h[0] = 0 /\ h = [i \in 0..(n + 1) |-> h[i]]
      /\ \A i \in 1..(n + 1) : h[i] = h[i - 1] + w[i].latency
  <2>1. ASSUME NEW i \in 2..(n + 1) PROVE h[i] = h[i - 1] + w[i].latency
    <3>1. i - 1 \in 1..n /\ i - 2 \in 0..n /\ (i - 1) - 1 = i - 2 /\ (i - 1) + 1 = i
      BY <1>1
    <3>2. g[i - 1] = g[i - 2] + v[i - 1].latency /\ v[i - 1].latency = w[i].latency
      BY <1>1, <1>2, <3>1
    <3>3. g[i - 2] \in Nat /\ v[i - 1].latency \in Nat
      <4>1. n = Len(v)
        BY DEF n
      <4> QED BY <1>1, <1>2, <3>1, <4>1, WindowIs
    <3>4. h[i] = Head(w).latency + g[i - 1] /\ h[i - 1] = Head(w).latency + g[i - 2]
      <4>1. i # 0 /\ i - 1 # 0 /\ i \in 0..(n + 1) /\ i - 1 \in 0..(n + 1)
        BY <1>1
      <4>2. h[i] = Head(w).latency + g[i - 1]
        BY <4>1
      <4>3. h[i - 1] = Head(w).latency + g[(i - 1) - 1]
        BY <4>1
      <4> QED BY <3>1, <4>2, <4>3
    <3>5. Head(w).latency \in Nat
      BY <1>1
    <3> HIDE DEF h
    <3> DEFINE first == Head(w).latency
               x == g[i - 2]
               y == v[i - 1].latency
    <3>6. h[i] = first + (x + y) /\ h[i - 1] = first + x /\ w[i].latency = y
      BY <3>2, <3>4
    <3>7. first \in Nat /\ x \in Nat /\ y \in Nat
      BY <3>3, <3>5
    <3> HIDE DEF first, x, y
    <3> QED BY <3>6, <3>7
  <2>2. h[0] = 0 /\ h[1] = h[0] + w[1].latency
    BY <1>1, <1>2
  <2>3. h = [i \in 0..(n + 1) |-> h[i]]
    OBVIOUS
  <2> HIDE DEF h
  <2>4. ASSUME NEW i \in 1..(n + 1) PROVE h[i] = h[i - 1] + w[i].latency
    <3>1. i = 1 \/ i \in 2..(n + 1)
      BY <1>1
    <3>2. CASE i = 1
      BY <3>2, <2>2
    <3> QED BY <3>1, <3>2, <2>1
  <2> QED BY <2>2, <2>3, <2>4
<1>4. h[n + 1] = Head(w).latency + g[n]
  BY <1>1
<1> HIDE DEF h
<1>5. TotalTime(w) = h[n + 1]
  BY <1>1, <1>3, TotalIs
<1> QED BY <1>1, <1>2, <1>4, <1>5 DEF v

-----------------------------------------------------------------------------
(* The samples that took time. *)

TimedAt(w) == {i \in 1..Len(w) : w[i].latency > 0}

LEMMA TimedIs ==
  ASSUME NEW w \in Seq(WindowSamples)
  PROVE  /\ TimedIn(w) = Cardinality(TimedAt(w))
         /\ IsFiniteSet(TimedAt(w))
         /\ TimedIn(w) \in Nat /\ TimedIn(w) <= Len(w)
<1>1. Len(w) \in Nat /\ DOMAIN w = 1..Len(w)
  BY WindowIs
<1>2. TimedIn(w) = Cardinality(TimedAt(w))
  BY <1>1 DEF TimedIn, TimedAt, Timed
<1>3. TimedAt(w) \subseteq 1..Len(w)
  BY DEF TimedAt
<1>4. IsFiniteSet(1..Len(w)) /\ Cardinality(1..Len(w)) = Len(w)
  BY <1>1, FS_Interval
<1>5. IsFiniteSet(TimedAt(w)) /\ Cardinality(TimedAt(w)) <= Len(w)
  BY <1>3, <1>4, FS_Subset
<1> QED BY <1>1, <1>2, <1>5, FS_CardinalityType

LEMMA TimedOfNone == TimedIn(<< >>) = 0
<1> DEFINE none == << >>
<1>1. none \in Seq(WindowSamples) /\ Len(none) = 0
  OBVIOUS
<1> HIDE DEF none
<1>2. TimedIn(none) \in Nat /\ TimedIn(none) <= 0
  BY <1>1, TimedIs
<1> QED BY <1>2 DEF none

LEMMA TimedAppended ==
  ASSUME NEW w \in Seq(WindowSamples), NEW s \in WindowSamples
  PROVE  TimedIn(Append(w, s)) = TimedIn(w) + Ones(s)
<1> DEFINE v == Append(w, s)
           n == Len(w)
<1>1. v \in Seq(WindowSamples) /\ Len(v) = n + 1 /\ n \in Nat /\ v[n + 1] = s
      /\ \A i \in 1..n : v[i] = w[i]
  OBVIOUS
<1>2. /\ TimedAt(v) = {i \in 1..(n + 1) : v[i].latency > 0}
      /\ TimedAt(w) = {i \in 1..n : w[i].latency > 0}
  BY <1>1 DEF TimedAt
<1>3. /\ TimedIn(v) = Cardinality(TimedAt(v)) /\ TimedIn(w) = Cardinality(TimedAt(w))
      /\ IsFiniteSet(TimedAt(w)) /\ TimedIn(w) \in Nat
  <2> HIDE DEF v, n
  <2> QED BY <1>1, TimedIs
<1> HIDE DEF v, n
<1>4. CASE s.latency > 0
  <2>1. TimedAt(v) = TimedAt(w) \union {n + 1} /\ n + 1 \notin TimedAt(w)
    BY <1>1, <1>2, <1>4
  <2>2. Cardinality(TimedAt(v)) = Cardinality(TimedAt(w)) + 1
    BY <1>3, <2>1, FS_AddElement
  <2> QED BY <1>3, <1>4, <2>2 DEF Ones, Timed, v
<1>5. CASE ~(s.latency > 0)
  <2>1. TimedAt(v) = TimedAt(w)
    BY <1>1, <1>2, <1>5
  <2> QED BY <1>3, <1>5, <2>1 DEF Ones, Timed, v
<1> QED BY <1>4, <1>5

LEMMA TimedOfTail ==
  ASSUME NEW w \in Seq(WindowSamples), w # << >>
  PROVE  TimedIn(w) = Ones(Head(w)) + TimedIn(Tail(w))
<1> DEFINE v == Tail(w)
           n == Len(v)
<1>1. /\ v \in Seq(WindowSamples) /\ Len(w) = n + 1 /\ n \in Nat /\ w[1] = Head(w)
      /\ \A i \in 1..n : v[i] = w[i + 1]
  OBVIOUS
<1>2. /\ TimedAt(w) = {i \in 1..(n + 1) : w[i].latency > 0}
      /\ TimedAt(v) = {i \in 1..n : v[i].latency > 0}
  BY <1>1 DEF TimedAt
<1>3. /\ TimedIn(v) = Cardinality(TimedAt(v)) /\ TimedIn(w) = Cardinality(TimedAt(w))
      /\ IsFiniteSet(TimedAt(w)) /\ IsFiniteSet(TimedAt(v)) /\ TimedIn(v) \in Nat
  <2> HIDE DEF v, n
  <2> QED BY <1>1, TimedIs
<1> HIDE DEF v, n
<1> DEFINE later == TimedAt(w) \ {1}
           f == [i \in TimedAt(v) |-> i + 1]
<1>4. f \in Bijection(TimedAt(v), later)
  <2>1. \A i \in TimedAt(v) : i \in 1..n /\ i + 1 \in later
    BY <1>1, <1>2
  <2>2. \A j \in later : j - 1 \in TimedAt(v) /\ (j - 1) + 1 = j
    BY <1>1, <1>2
  <2>3. f \in [TimedAt(v) -> later]
    BY <2>1
  <2>4. \A i, j \in TimedAt(v) : f[i] = f[j] => i = j
    BY <2>1
  <2>5. \A j \in later : \E i \in TimedAt(v) : f[i] = j
    BY <2>2
  <2> HIDE DEF f, later
  <2> QED BY <2>3, <2>4, <2>5 DEF Bijection, Injection, Surjection, IsInjective
<1>5. IsFiniteSet(later) /\ Cardinality(later) = TimedIn(v)
  <2>1. IsFiniteSet(later)
    BY <1>3, FS_Subset
  <2> HIDE DEF f, later
  <2>2. ExistsBijection(TimedAt(v), later)
    BY <1>4 DEF ExistsBijection
  <2>3. Cardinality(later) = Cardinality(TimedAt(v))
    BY <1>3, <2>2, FS_Bijection
  <2> QED BY <2>1, <2>3, <1>3
<1>6. CASE Head(w).latency > 0
  <2>1. TimedAt(w) = later \union {1} /\ 1 \notin later
    BY <1>1, <1>2, <1>6
  <2> HIDE DEF later
  <2>2. Cardinality(TimedAt(w)) = Cardinality(later) + 1
    BY <1>5, <2>1, FS_AddElement
  <2> QED BY <1>3, <1>5, <1>6, <2>2 DEF Ones, Timed, v
<1>7. CASE ~(Head(w).latency > 0)
  <2>1. TimedAt(w) = later
    BY <1>1, <1>2, <1>7
  <2> HIDE DEF later
  <2> QED BY <1>3, <1>5, <1>7, <2>1 DEF Ones, Timed, v
<1> QED BY <1>6, <1>7

-----------------------------------------------------------------------------
(* The statistics of a node. *)

Metrics ==
  [window : Seq(WindowSamples), successes : Nat, timeSum : Nat, timeCount : Nat,
   score : Nat \X Nat \X Nat \X Nat]

\* The sums that are kept are those of the window.
SumsAgree(m) ==
  /\ m.successes = TimedIn(m.window)
  /\ m.timeSum = TotalTime(m.window)
  /\ m.timeCount = TimedIn(m.window)

Summed == {m \in Metrics : SumsAgree(m)}

ScoreAgrees(m) ==
  m.score = << TimedIn(m.window), Len(m.window) - TimedIn(m.window),
               TotalTime(m.window), TimedIn(m.window) >>

LEMMA SummedIs ==
  ASSUME NEW m \in Summed
  PROVE  /\ m \in Metrics /\ m.window \in Seq(WindowSamples)
         /\ m.successes = TimedIn(m.window) /\ m.timeSum = TotalTime(m.window)
         /\ m.timeCount = TimedIn(m.window)
         /\ m.successes \in Nat /\ m.timeSum \in Nat /\ m.timeCount \in Nat
         /\ m.score \in Nat \X Nat \X Nat \X Nat
BY DEF Summed, SumsAgree, Metrics

LEMMA OldestLeaves ==
  ASSUME NEW m \in Summed, m.window # << >>
  PROVE  /\ WithoutOldest(m) \in Summed
         /\ Len(WithoutOldest(m).window) = Len(m.window) - 1
         /\ WithoutOldest(m).score = m.score
<1> DEFINE w == m.window
           first == Head(w).latency
           rest == Tail(w)
           one == Ones(Head(w))
           less == [window |-> rest, successes |-> m.successes - one,
                    timeSum |-> m.timeSum - first, timeCount |-> m.timeCount - one,
                    score |-> m.score]
<1>1. /\ w \in Seq(WindowSamples) /\ w # << >>
      /\ m.successes = TimedIn(w) /\ m.timeSum = TotalTime(w) /\ m.timeCount = TimedIn(w)
      /\ m.score \in Nat \X Nat \X Nat \X Nat
      /\ m \in Metrics
  BY SummedIs
<1>2. WithoutOldest(m) = less
  <2>1. WithoutOldest(m) = [m EXCEPT !.window = rest, !.successes = m.successes - one,
                                     !.timeCount = m.timeCount - one,
                                     !.timeSum = m.timeSum - first]
    BY DEF WithoutOldest
  <2> DEFINE a == m.successes - one
             b == m.timeCount - one
             c == m.timeSum - first
             t == [m EXCEPT !.window = rest, !.successes = a, !.timeCount = b, !.timeSum = c]
             Only == [window : {rest}, successes : {a}, timeSum : {c}, timeCount : {b},
                      score : {m.score}]
  <2> HIDE DEF rest, w, one, first, a, b, c
  <2>2. t \in Only
    BY <1>1 DEF Metrics
  <2> HIDE DEF t
  <2>3. t = [window |-> rest, successes |-> a, timeSum |-> c, timeCount |-> b,
             score |-> m.score]
    BY <2>2
  <2> QED BY <2>1, <2>3 DEF a, b, c, t
<1>3. rest \in Seq(WindowSamples) /\ Len(rest) = Len(w) - 1
  <2> HIDE DEF w
  <2> QED BY <1>1
<1>4. one \in Nat
  BY DEF Ones
<1> HIDE DEF w
<1>5. TotalTime(w) = first + TotalTime(rest) /\ TotalTime(rest) \in Nat /\ first \in Nat
  BY <1>1, TotalOfTail
<1>6. TimedIn(w) = one + TimedIn(rest)
  BY <1>1, TimedOfTail
<1> HIDE DEF rest
<1>7. TimedIn(rest) \in Nat
  BY <1>3, TimedIs
<1> HIDE DEF one, first
<1>8. /\ m.successes - one = TimedIn(rest) /\ m.timeSum - first = TotalTime(rest)
      /\ m.timeCount - one = TimedIn(rest)
  BY <1>1, <1>4, <1>5, <1>6, <1>7
<1>9. less \in Metrics
  BY <1>1, <1>3, <1>5, <1>7, <1>8 DEF Metrics
<1>10. less \in Summed
  BY <1>8, <1>9 DEF Summed, SumsAgree
<1> QED BY <1>2, <1>3, <1>10 DEF w

\* The score of what adds up.
LEMMA ScoredAgrees ==
  ASSUME NEW m \in Summed
  PROVE  /\ Scored(m) \in Summed /\ ScoreAgrees(Scored(m))
         /\ Scored(m).window = m.window
<1> DEFINE s == << m.successes, Len(m.window) - m.successes, m.timeSum, m.timeCount >>
<1>1. /\ m \in Metrics /\ m.window \in Seq(WindowSamples)
      /\ m.successes = TimedIn(m.window) /\ m.timeSum = TotalTime(m.window)
      /\ m.timeCount = TimedIn(m.window)
      /\ m.successes \in Nat /\ m.timeSum \in Nat /\ m.timeCount \in Nat
  BY SummedIs
<1>2. m.successes <= Len(m.window) /\ Len(m.window) \in Nat
  BY <1>1, TimedIs, WindowIs
<1>3. s \in Nat \X Nat \X Nat \X Nat
  <2>1. Len(m.window) - m.successes \in Nat
    BY <1>1, <1>2
  <2> QED BY <1>1, <2>1
<1> HIDE DEF s
<1>4. Scored(m) = [m EXCEPT !.score = s]
  BY DEF Scored, s
<1>5. /\ Scored(m) \in Metrics /\ Scored(m).window = m.window
      /\ Scored(m).successes = m.successes /\ Scored(m).timeSum = m.timeSum
      /\ Scored(m).timeCount = m.timeCount /\ Scored(m).score = s
  BY <1>1, <1>3, <1>4 DEF Metrics
<1>6. Scored(m) \in Summed
  BY <1>1, <1>5 DEF Summed, SumsAgree
<1>7. s = << TimedIn(m.window), Len(m.window) - TimedIn(m.window),
             TotalTime(m.window), TimedIn(m.window) >>
  BY <1>1 DEF s
<1> QED BY <1>5, <1>6, <1>7 DEF ScoreAgrees

\* The oldest samples leave one by one.
LEMMA ShortenedAddsUp ==
  ASSUME NEW m \in Summed, NEW n \in Nat, n <= Len(m.window)
  PROVE  /\ Shortened(m, n) \in Summed
         /\ Len(Shortened(m, n).window) = Len(m.window) - n
<1> DEFINE G == [p \in (1..n) \X Summed |-> IF p[2].window = << >> THEN p[2]
                                            ELSE WithoutOldest(p[2])]
           size == Len(m.window)
<1>1. G \in [(1..n) \X Summed -> Summed]
  BY OldestLeaves
<1>2. size \in Nat /\ n <= size
  BY SummedIs, WindowIs
<1>3. PICK g \in [0..n -> Summed] : g[0] = m /\ \A i \in 1..n : g[i] = G[<< i, g[i - 1] >>]
  <2> HIDE DEF G
  <2>1. Made(n, Summed, m, G) # {}
    BY <1>1, Recursion
  <2> QED BY <2>1 DEF Made
<1>4. ASSUME NEW i \in 1..n, Len(g[i - 1].window) = size - (i - 1)
      PROVE  g[i] = WithoutOldest(g[i - 1]) /\ Len(g[i].window) = size - i
  <2>1. i - 1 \in 0..n /\ g[i - 1] \in Summed
    BY <1>3
  <2>2. g[i - 1].window # << >>
    <3>1. size - (i - 1) # 0
      BY <1>2
    <3>2. Len(<< >>) = 0
      OBVIOUS
    <3> QED BY <3>1, <3>2, <1>4
  <2>3. g[i] = G[<< i, g[i - 1] >>] /\ << i, g[i - 1] >> \in (1..n) \X Summed
    BY <1>3, <2>1
  <2>4. g[i] = WithoutOldest(g[i - 1])
    BY <2>2, <2>3
  <2> HIDE DEF G, size
  <2>5. Len(g[i].window) = Len(g[i - 1].window) - 1
    BY <2>1, <2>2, <2>4, OldestLeaves
  <2>6. (size - (i - 1)) - 1 = size - i
    BY <1>2
  <2> QED BY <2>4, <2>5, <2>6, <1>4
<1> DEFINE T == {i \in 0..n : Len(g[i].window) = size - i}
<1>5. n \in T /\ \A i \in 1..n : i - 1 \in T
  <2>1. 0 \in T
    BY <1>2, <1>3
  <2>2. \A i \in 1..n : i - 1 \in T => i \in T
    <3> HIDE DEF G, size
    <3> QED BY <1>4
  <2> HIDE DEF T
  <2>3. 0..n \subseteq T
    BY <2>1, <2>2, Stepwise
  <2> QED BY <2>3
<1>6. \A i \in 1..n : g[i] = WithoutOldest(g[i - 1])
  <2> HIDE DEF G, size
  <2> QED BY <1>4, <1>5
<1> HIDE DEF G
<1> DEFINE Made2(h) == h = [i \in 0..n |-> IF i = 0 THEN m ELSE WithoutOldest(h[i - 1])]
           f == CHOOSE h : Made2(h)
<1>7. Made2(g)
  <2>1. ASSUME NEW i \in 0..n
        PROVE  g[i] = IF i = 0 THEN m ELSE WithoutOldest(g[i - 1])
    <3>1. i = 0 \/ i \in 1..n
      OBVIOUS
    <3> QED BY <3>1, <1>3, <1>6
  <2> QED BY <2>1, <1>3
<1>8. Made2(f)
  BY <1>7
<1> HIDE DEF f
<1> DEFINE U == {i \in 0..n : f[i] = g[i]}
<1>9. 0 \in U
  BY <1>8, <1>3
<1>10. ASSUME NEW i \in 1..n, i - 1 \in U PROVE i \in U
  <2>1. i \in 0..n /\ i # 0 /\ f[i - 1] = g[i - 1]
    BY <1>10
  <2>2. f[i] = WithoutOldest(f[i - 1])
    BY <1>8, <2>1
  <2> QED BY <2>1, <2>2, <1>6
<1> HIDE DEF U
<1>11. n \in U
  <2>1. 0..n \subseteq U
    BY <1>9, <1>10, Stepwise
  <2> QED BY <2>1
<1>12. Shortened(m, n) = f[n]
  BY DEF Shortened, f
<1>13. Shortened(m, n) = g[n]
  BY <1>11, <1>12 DEF U
<1> QED BY <1>3, <1>5, <1>13

-----------------------------------------------------------------------------
(* What the operations keep. *)

\* Statistics that add up, with a score that is theirs, of a window that fits.
Sound == {m \in Summed : ScoreAgrees(m) /\ Len(m.window) <= MaxWindow}

LEMMA NoStatsAreSound == NoStats \in Sound
<1>1. NoStats \in Metrics
  <2>1. << >> \in Seq(WindowSamples)
    OBVIOUS
  <2> QED BY <2>1 DEF NoStats, Metrics
<1>2. /\ NoStats.window = << >> /\ NoStats.successes = 0 /\ NoStats.timeSum = 0
      /\ NoStats.timeCount = 0 /\ NoStats.score = << 0, 0, 0, 0 >>
  BY DEF NoStats
<1>3. Len(<< >>) = 0 /\ 0 - 0 = 0 /\ 0 <= MaxWindow
  BY NodeStatusAssumption
<1>4. NoStats \in Summed
  BY <1>1, <1>2, TimedOfNone, TotalOfNone DEF Summed, SumsAgree
<1> QED BY <1>2, <1>3, <1>4, TimedOfNone, TotalOfNone DEF Sound, ScoreAgrees

LEMMA PrunedIsSound ==
  ASSUME NEW m \in Sound
  PROVE  Pruned(m) \in Sound
<1>1. m \in Summed /\ Len(m.window) <= MaxWindow /\ MaxWindow \in Nat
  BY NodeStatusAssumption DEF Sound
<1>2. Len(m.window) \in Nat /\ DOMAIN m.window = 1..Len(m.window)
  BY <1>1, SummedIs, WindowIs
<1>3. TooOld(m) \in Nat /\ TooOld(m) <= Len(m.window)
  <2> DEFINE old == {i \in DOMAIN m.window : instant - m.window[i].at > Span}
  <2>1. old \subseteq 1..Len(m.window)
    BY <1>2
  <2>2. IsFiniteSet(1..Len(m.window)) /\ Cardinality(1..Len(m.window)) = Len(m.window)
    <3> DEFINE n == Len(m.window)
    <3>1. n \in Nat
      BY <1>2
    <3> HIDE DEF n
    <3>2. IsFiniteSet(1..n) /\ Cardinality(1..n) = n
      BY <3>1, FS_Interval
    <3> QED BY <3>2 DEF n
  <2> HIDE DEF old
  <2>3. IsFiniteSet(old) /\ Cardinality(old) <= Len(m.window)
    BY <2>1, <2>2, FS_Subset
  <2>4. Cardinality(old) \in Nat
    BY <2>3, FS_CardinalityType
  <2> QED BY <2>3, <2>4 DEF TooOld, old
<1>4. CASE TooOld(m) = 0
  BY <1>4 DEF Pruned
<1>5. CASE TooOld(m) # 0
  <2> DEFINE short == Shortened(m, TooOld(m))
  <2>1. short \in Summed /\ Len(short.window) = Len(m.window) - TooOld(m)
    BY <1>1, <1>3, ShortenedAddsUp
  <2>2. Pruned(m) = Scored(short)
    BY <1>5 DEF Pruned
  <2> HIDE DEF short
  <2>3. /\ Scored(short) \in Summed /\ ScoreAgrees(Scored(short))
        /\ Scored(short).window = short.window
    BY <2>1, ScoredAgrees
  <2>4. Len(short.window) <= MaxWindow
    BY <1>1, <1>2, <1>3, <2>1
  <2> QED BY <2>2, <2>3, <2>4 DEF Sound
<1> QED BY <1>4, <1>5

LEMMA PushedIsSound ==
  ASSUME NEW m \in Sound, NEW latency \in Nat, instant \in Nat
  PROVE  Pushed(m, latency) \in Sound
<1> DEFINE sample == [at |-> instant, latency |-> latency]
           recent == Pruned(m)
           roomy == IF Len(recent.window) = MaxWindow THEN WithoutOldest(recent) ELSE recent
           one == Ones(sample)
           more == [roomy EXCEPT !.window = Append(@, sample), !.successes = @ + one,
                                 !.timeSum = @ + latency, !.timeCount = @ + one]
<1>1. Pushed(m, latency) = Scored(more)
  BY DEF Pushed
<1>2. sample \in WindowSamples /\ sample.latency = latency
  BY DEF WindowSamples
<1>3. one \in Nat
  BY DEF Ones
<1>4. recent \in Sound
  BY PrunedIsSound
<1> HIDE DEF recent
<1>5. /\ recent \in Summed /\ Len(recent.window) <= MaxWindow /\ MaxWindow \in Nat \ {0}
      /\ Len(recent.window) \in Nat
  BY <1>4, NodeStatusAssumption, SummedIs, WindowIs DEF Sound
<1>6. roomy \in Summed /\ Len(roomy.window) + 1 <= MaxWindow
  <2>1. CASE Len(recent.window) = MaxWindow
    <3>1. recent.window # << >>
      <4>1. Len(<< >>) = 0
        OBVIOUS
      <4> QED BY <1>5, <2>1, <4>1
    <3>2. /\ WithoutOldest(recent) \in Summed
          /\ Len(WithoutOldest(recent).window) = Len(recent.window) - 1
      BY <1>5, <3>1, OldestLeaves
    <3> QED BY <1>5, <2>1, <3>2
  <2>2. CASE Len(recent.window) # MaxWindow
    BY <1>5, <2>2
  <2> QED BY <2>1, <2>2
<1> HIDE DEF roomy, sample, one
<1> DEFINE w == roomy.window
<1>7. /\ roomy \in Metrics /\ w \in Seq(WindowSamples)
      /\ roomy.successes = TimedIn(w) /\ roomy.timeSum = TotalTime(w)
      /\ roomy.timeCount = TimedIn(w)
      /\ roomy.successes \in Nat /\ roomy.timeSum \in Nat /\ roomy.timeCount \in Nat
  BY <1>6, SummedIs
<1>8. Append(w, sample) \in Seq(WindowSamples) /\ Len(Append(w, sample)) = Len(w) + 1
  <2> HIDE DEF w
  <2> QED BY <1>2, <1>7
<1>9. /\ TotalTime(Append(w, sample)) = TotalTime(w) + latency
      /\ TimedIn(Append(w, sample)) = TimedIn(w) + one
  <2> HIDE DEF w
  <2> QED BY <1>2, <1>7, TotalAppended, TimedAppended DEF one
<1>10. /\ more \in Metrics
       /\ more.window = Append(w, sample) /\ more.successes = roomy.successes + one
       /\ more.timeSum = roomy.timeSum + latency /\ more.timeCount = roomy.timeCount + one
  <2>1. /\ roomy.successes + one \in Nat /\ roomy.timeSum + latency \in Nat
        /\ roomy.timeCount + one \in Nat
    BY <1>3, <1>7
  <2> DEFINE a == roomy.successes + one
             b == roomy.timeSum + latency
             c == roomy.timeCount + one
             d == Append(w, sample)
  <2>2. more = [roomy EXCEPT !.window = d, !.successes = a, !.timeSum = b, !.timeCount = c]
    OBVIOUS
  <2>3. a \in Nat /\ b \in Nat /\ c \in Nat /\ d \in Seq(WindowSamples)
    BY <1>8, <2>1
  <2> HIDE DEF a, b, c, d, more
  <2>4. /\ more \in Metrics
        /\ more.window = d /\ more.successes = a /\ more.timeSum = b /\ more.timeCount = c
    BY <1>7, <2>2, <2>3 DEF Metrics
  <2> QED BY <2>4 DEF a, b, c, d
<1> HIDE DEF more, w
<1>11. more \in Summed
  BY <1>7, <1>9, <1>10 DEF Summed, SumsAgree
<1>12. /\ Scored(more) \in Summed /\ ScoreAgrees(Scored(more))
       /\ Scored(more).window = more.window
  BY <1>11, ScoredAgrees
<1>13. Len(more.window) <= MaxWindow
  BY <1>6, <1>8, <1>10 DEF w
<1> QED BY <1>1, <1>12, <1>13 DEF Sound

-----------------------------------------------------------------------------
(* The inductive invariant: the statistics are sound and the clock is a    *)
(* number; of the rest of the module nothing is needed.                    *)

MetricsIInv == stats \in Sound /\ instant \in Nat

LEMMA MetricsStart == StatusInit => MetricsIInv
<1> SUFFICES ASSUME StatusInit PROVE MetricsIInv
  OBVIOUS
<1>1. stats = NoStats /\ instant \in Nat
  BY DEF StatusInit
<1> QED BY <1>1, NoStatsAreSound DEF MetricsIInv

LEMMA MetricsNext == MetricsIInv /\ [StatusNext]_statusVars => MetricsIInv'
<1> SUFFICES ASSUME MetricsIInv, [StatusNext]_statusVars PROVE MetricsIInv'
  OBVIOUS
<1> USE DEF MetricsIInv
<1>1. ASSUME stats' = stats, instant' = instant PROVE MetricsIInv'
  BY <1>1 DEF Sound
<1>2. ASSUME NEW a \in Attempts, StartAttempt(a) \/ DropOutcome(a) \/ PushStatus(a)
      PROVE  MetricsIInv'
  BY <1>1, <1>2 DEF StartAttempt, DropOutcome, PushStatus, metricVars
<1>3. ASSUME NEW a \in Attempts, Succeed(a) PROVE MetricsIInv'
  <2>1. PICK latency \in Latencies : stats' = Pushed(stats, latency) /\ instant' = instant
    BY <1>3 DEF Succeed, Settle
  <2>2. latency \in Nat
    BY NodeStatusAssumption
  <2> QED BY <2>1, <2>2, PushedIsSound DEF Sound
<1>4. ASSUME NEW a \in Attempts, NEW opens \in BOOLEAN, Fail(a, opens)
      PROVE  MetricsIInv'
  <2>1. stats' = Pushed(stats, 0) /\ instant' = instant
    BY <1>4 DEF Fail, Settle
  <2> QED BY <2>1, PushedIsSound
<1>5. CASE PruneMetric
  BY <1>5, PrunedIsSound DEF PruneMetric
<1>6. CASE TakeStatus \/ WriteInHand \/ RefuseInHand \/ BeginObservation \/ CommitEdit
  BY <1>1, <1>6 DEF TakeStatus, WriteInHand, RefuseInHand, BeginObservation, CommitEdit,
                    metricVars
<1>7. ASSUME NEW desired \in Verdicts \union {"unknown"},
             ObserveNothing(desired) \/ Observe(desired)
      PROVE  MetricsIInv'
  BY <1>1, <1>7 DEF ObserveNothing, Observe, metricVars
<1>8. ASSUME NEW saved \in BOOLEAN, Persist(saved) PROVE MetricsIInv'
  BY <1>1, <1>8 DEF Persist, metricVars
<1>9. CASE EndEdit
  <2>1. stats' = NoStats /\ instant' = instant
    BY <1>9 DEF EndEdit
  <2>2. NoStats \in Sound
    BY NoStatsAreSound
  <2> QED BY <2>1, <2>2
<1>10. CASE Pace
  BY <1>10 DEF Pace, metricVars
<1>11. CASE UNCHANGED statusVars
  BY <1>1, <1>11 DEF statusVars, metricVars
<1> QED BY <1>2, <1>3, <1>4, <1>5, <1>6, <1>7, <1>8, <1>9, <1>10, <1>11 DEF StatusNext

LEMMA MetricsAgree == MetricsIInv => MetricsAddUp
BY DEF MetricsIInv, Sound, Summed, SumsAgree, ScoreAgrees, MetricsAddUp

(* However samples come, age and make room, whatever the statuses of the   *)
(* node do, the sums kept by difference are those of the window and the    *)
(* score is computed from them: nothing runs off and nothing underflows.   *)
THEOREM MetricsHold == StatusSpec => []MetricsAddUp
BY MetricsStart, MetricsNext, MetricsAgree, PTL DEF StatusSpec

-----------------------------------------------------------------------------
(* The log page of the window. *)

Positive == Nat \ {0}

LEMMA RowsAre ==
  /\ Unbounded \in Positive /\ LogRows = 1..(Unbounded - 1)
  /\ LogRows \subseteq Positive /\ \A r \in LogRows : r < Unbounded
  /\ Naming \subseteq LogRows /\ PageSize \in Positive /\ Channel \in Positive
<1>1. Cardinality(LogRows) \in Nat
  BY ViewAssumption, FS_CardinalityType
<1>2. LogRows = 1..Cardinality(LogRows)
  BY ViewAssumption
<1> QED BY <1>1, <1>2, ViewAssumption DEF Unbounded, Positive

\* The rows a search finds, were none deleted.
Matching(search) == {r \in LogRows : search = "all" \/ r \in Naming}

\* Those of a snapshot that are no older than r.
NoOlder(search, s, r) == {q \in Matching(search) : r <= q /\ q <= s}

\* The place of r in the pages of a snapshot.
RankOf(search, s, r) == Cardinality(NoOlder(search, s, r))

\* The places on the pages before page p.
Before(p) == (p - 1) * PageSize

OnPage(p, search, s, r) ==
  /\ r \in Matching(search) /\ r <= s
  /\ Before(p) < RankOf(search, s, r) /\ RankOf(search, s, r) <= Before(p) + PageSize

LEMMA RankIs ==
  ASSUME NEW search, NEW s \in Nat, NEW r \in Nat
  PROVE  IsFiniteSet(NoOlder(search, s, r)) /\ RankOf(search, s, r) \in Nat
<1>1. NoOlder(search, s, r) \subseteq LogRows
  BY DEF NoOlder, Matching
<1>2. IsFiniteSet(NoOlder(search, s, r))
  BY <1>1, ViewAssumption, FS_Subset
<1> QED BY <1>2, FS_CardinalityType DEF RankOf

LEMMA RankFalls ==
  ASSUME NEW search, NEW s \in Nat, NEW r \in Matching(search), r <= s,
         NEW q \in Nat, r < q
  PROVE  RankOf(search, s, q) < RankOf(search, s, r)
<1> DEFINE S == NoOlder(search, s, q)
           T == NoOlder(search, s, r)
<1>1. r \in Nat
  BY RowsAre DEF Matching, Positive
<1>2. IsFiniteSet(S) /\ IsFiniteSet(T) /\ Cardinality(S) \in Nat /\ Cardinality(T) \in Nat
  BY <1>1, RankIs DEF RankOf
<1>3. S \union {r} \subseteq T /\ r \notin S
  BY <1>1, RowsAre DEF NoOlder, Matching, Positive
<1> HIDE DEF S, T
<1>4. Cardinality(S \union {r}) = Cardinality(S) + 1
  BY <1>2, <1>3, FS_AddElement
<1>5. Cardinality(S \union {r}) <= Cardinality(T)
  BY <1>2, <1>3, FS_Subset
<1>6. Cardinality(S) < Cardinality(T)
  BY <1>2, <1>4, <1>5
<1> QED BY <1>6 DEF RankOf, S, T

LEMMA RankOrders ==
  ASSUME NEW search, NEW s \in Nat, NEW q \in Matching(search), NEW r \in Matching(search),
         q <= s, r <= s
  PROVE  q < r <=> RankOf(search, s, r) < RankOf(search, s, q)
<1>1. q \in Nat /\ r \in Nat
  BY RowsAre DEF Matching, Positive
<1>2. RankOf(search, s, r) \in Nat /\ RankOf(search, s, q) \in Nat
  BY <1>1, RankIs
<1>3. q < r => RankOf(search, s, r) < RankOf(search, s, q)
  BY <1>1, RankFalls
<1>4. r < q => RankOf(search, s, q) < RankOf(search, s, r)
  BY <1>1, RankFalls
<1> QED BY <1>1, <1>2, <1>3, <1>4

LEMMA PlacesBefore ==
  ASSUME NEW p \in Positive
  PROVE  /\ Before(p) \in Nat /\ Before(p) + PageSize = Before(p + 1)
         /\ Before(1) = 0
         /\ \A q \in Positive : p < q => Before(p) + PageSize <= Before(q)
<1>1. PageSize \in Positive
  BY RowsAre
<1>2. Before(p) \in Nat /\ Before(p) + PageSize = Before(p + 1) /\ Before(1) = 0
  BY <1>1 DEF Before, Positive
<1>3. ASSUME NEW q \in Positive, p < q PROVE Before(p) + PageSize <= Before(q)
  <2>1. p + 1 <= q
    BY <1>3 DEF Positive
  <2>2. Before(p + 1) <= Before(q)
    BY <2>1, <1>1 DEF Before, Positive
  <2> QED BY <2>2, <1>2
<1> QED BY <1>2, <1>3

\* A row is on one page of a snapshot, and pages come in order.
LEMMA PagesInOrder ==
  ASSUME NEW search, NEW s \in Nat, NEW p \in Positive, NEW q \in Positive, p < q,
         NEW x, NEW y, OnPage(p, search, s, x), OnPage(q, search, s, y)
  PROVE  y < x
<1>1. Before(p) + PageSize <= Before(q)
  BY PlacesBefore
<1>2. x \in Matching(search) /\ y \in Matching(search) /\ x <= s /\ y <= s
  BY DEF OnPage
<1>3. x \in Nat /\ y \in Nat
  BY <1>2, RowsAre DEF Matching, Positive
<1>4. /\ Before(p) \in Nat /\ Before(q) \in Nat /\ PageSize \in Nat
      /\ RankOf(search, s, x) \in Nat /\ RankOf(search, s, y) \in Nat
  BY <1>3, PlacesBefore, RankIs, RowsAre DEF Positive
<1>5. RankOf(search, s, x) < RankOf(search, s, y)
  BY <1>1, <1>4 DEF OnPage
<1> QED BY <1>2, <1>5, RankOrders

\* What is between two rows of pages that follow each other is on one of them.
LEMMA BetweenPages ==
  ASSUME NEW search, NEW s \in Nat, NEW p \in Positive,
         NEW x, NEW y, OnPage(p, search, s, x), OnPage(p + 1, search, s, y),
         NEW r \in Matching(search), r < x, y < r
  PROVE  OnPage(p, search, s, r) \/ OnPage(p + 1, search, s, r)
<1>1. x \in Matching(search) /\ y \in Matching(search) /\ x <= s /\ y <= s
  BY DEF OnPage
<1>2. x \in Nat /\ y \in Nat /\ r \in Nat
  BY <1>1, RowsAre DEF Matching, Positive
<1>3. r <= s
  BY <1>1, <1>2
<1>4. RankOf(search, s, x) < RankOf(search, s, r) /\ RankOf(search, s, r) < RankOf(search, s, y)
  BY <1>1, <1>3, RankOrders
<1>5. /\ Before(p) \in Nat /\ Before(p) + PageSize = Before(p + 1) /\ PageSize \in Nat
      /\ RankOf(search, s, x) \in Nat /\ RankOf(search, s, y) \in Nat
      /\ RankOf(search, s, r) \in Nat
  BY <1>2, PlacesBefore, RankIs, RowsAre DEF Positive
<1> QED BY <1>3, <1>4, <1>5 DEF OnPage

-----------------------------------------------------------------------------
(* A page as the table serves it. *)

\* The rows come newest first: as many of them are newer as come before.
LEMMA NewestFirstIs ==
  ASSUME NEW S \in SUBSET Nat, IsFiniteSet(S)
  PROVE  LET s == NewestFirst(S)
         IN  /\ Cardinality(S) \in Nat /\ s \in Seq(S) /\ Len(s) = Cardinality(S)
             /\ \A i \in 1..Len(s) : s[i] \in S /\ Cardinality({q \in S : q > s[i]}) = i - 1
             /\ \A x \in S : \E i \in 1..Len(s) : s[i] = x
<1> DEFINE newer(x) == {y \in S : y > x}
           n == Cardinality(S)
           f == [x \in S |-> Cardinality(newer(x))]
           s == [i \in 1..n |-> CHOOSE x \in S : Cardinality(newer(x)) = i - 1]
<1>1. n \in Nat
  BY FS_CardinalityType
<1>2. ASSUME NEW x \in S
      PROVE  /\ IsFiniteSet(newer(x)) /\ Cardinality(newer(x)) \in Nat
             /\ Cardinality(newer(x)) < n
  <2>1. newer(x) \subseteq S /\ x \notin newer(x)
    OBVIOUS
  <2> HIDE DEF newer
  <2>2. IsFiniteSet(newer(x)) /\ Cardinality(newer(x)) <= n /\ Cardinality(newer(x)) # n
    BY <2>1, FS_Subset
  <2>3. Cardinality(newer(x)) \in Nat
    BY <2>2, FS_CardinalityType
  <2> QED BY <2>2, <2>3, <1>1
<1>3. ASSUME NEW x \in S, NEW y \in S, x > y
      PROVE  Cardinality(newer(x)) < Cardinality(newer(y))
  <2>1. newer(x) \union {x} \subseteq newer(y) /\ x \notin newer(x)
    <3>1. x \in Nat /\ y \in Nat /\ x > y /\ \A z \in S : z \in Nat
      BY <1>3
    <3>2. (\A z \in S : z > x => z > y) /\ ~(x > x)
      BY <3>1
    <3>3. newer(x) \subseteq newer(y)
      BY <3>2, Zenon
    <3>4. x \in newer(y) /\ x \notin newer(x)
      BY <3>1, <3>2, Zenon
    <3> HIDE DEF newer
    <3> QED BY <3>3, <3>4
  <2>2. IsFiniteSet(newer(x)) /\ IsFiniteSet(newer(y))
        /\ Cardinality(newer(x)) \in Nat /\ Cardinality(newer(y)) \in Nat
    BY <1>2
  <2> HIDE DEF newer
  <2>3. Cardinality(newer(x) \union {x}) = Cardinality(newer(x)) + 1
    BY <2>1, <2>2, FS_AddElement
  <2>4. Cardinality(newer(x) \union {x}) <= Cardinality(newer(y))
    BY <2>1, <2>2, FS_Subset
  <2> QED BY <2>2, <2>3, <2>4
<1>4. f \in Injection(S, 0..(n - 1))
  <2>1. f \in [S -> 0..(n - 1)]
    <3> HIDE DEF newer, n
    <3> QED BY <1>1, <1>2
  <2>2. ASSUME NEW x \in S, NEW y \in S, x # y PROVE f[x] # f[y]
    <3>1. x > y \/ y > x
      BY <2>2
    <3> HIDE DEF newer
    <3> QED BY <3>1, <1>2, <1>3
  <2> HIDE DEF f, n
  <2> QED BY <2>1, <2>2 DEF Injection, IsInjective
<1>5. f \in Surjection(S, 0..(n - 1))
  <2>1. IsFiniteSet(0..(n - 1)) /\ Cardinality(0..(n - 1)) = n
    <3> HIDE DEF n
    <3> QED BY <1>1, FS_Interval
  <2> HIDE DEF f
  <2> QED BY <2>1, <1>4, FS_Injection
<1>6. ASSUME NEW i \in 1..n PROVE \E x \in S : Cardinality(newer(x)) = i - 1
  <2>1. i - 1 \in 0..(n - 1)
    BY <1>1
  <2>2. \E x \in S : f[x] = i - 1
    <3> HIDE DEF f, n
    <3> QED BY <2>1, <1>5 DEF Surjection
  <2> QED BY <2>2
<1>7. ASSUME NEW i \in 1..n PROVE s[i] \in S /\ Cardinality(newer(s[i])) = i - 1
  <2> HIDE DEF newer
  <2> QED BY <1>6
<1>8. s \in Seq(S) /\ Len(s) = n
  <2>1. s \in [1..n -> S]
    <3> DEFINE c(i) == CHOOSE x \in S : Cardinality(newer(x)) = i - 1
    <3>1. s = [i \in 1..n |-> c(i)]
      OBVIOUS
    <3>2. \A i \in 1..n : c(i) \in S
      <4> HIDE DEF newer
      <4> QED BY <1>6
    <3> HIDE DEF s, c, n
    <3> QED BY <3>1, <3>2
  <2> HIDE DEF s, n
  <2> QED BY <2>1, <1>1
<1>9. ASSUME NEW x \in S PROVE \E i \in 1..n : s[i] = x
  <2> DEFINE i == Cardinality(newer(x)) + 1
  <2>1. i \in 1..n /\ i - 1 = Cardinality(newer(x))
    <3> HIDE DEF newer, n
    <3> QED BY <1>1, <1>2
  <2>2. s[i] \in S /\ Cardinality(newer(s[i])) = Cardinality(newer(x))
    BY <2>1, <1>7
  <2>3. s[i] = x
    <3> SUFFICES ASSUME s[i] # x PROVE FALSE
      OBVIOUS
    <3> HIDE DEF s, i
    <3>1. s[i] > x \/ x > s[i]
      <4>1. s[i] \in Nat /\ x \in Nat
        BY <2>2
      <4> QED BY <4>1
    <3> HIDE DEF newer
    <3>2. s[i] \in S /\ x \in S
      BY <2>2
    <3>3. Cardinality(newer(x)) \in Nat
      BY <1>2
    <3>4. \/ Cardinality(newer(s[i])) < Cardinality(newer(x))
          \/ Cardinality(newer(x)) < Cardinality(newer(s[i]))
      BY <3>1, <3>2, <1>3
    <3> QED BY <3>3, <3>4, <2>2
  <2> QED BY <2>1, <2>3
<1>10. s = NewestFirst(S)
  BY DEF NewestFirst
<1> HIDE DEF s
<1> QED BY <1>1, <1>7, <1>8, <1>9, <1>10

\* The rows that a page has of s, behind the first k of them.
PageRows(s, k) ==
  SubSeq(s, k + 1, IF k + PageSize < Len(s) THEN k + PageSize ELSE Len(s))

IsPart(items, s, S, k) ==
  /\ items \in Seq(S) /\ Len(items) <= PageSize /\ Len(items) \in Nat
  /\ \A i \in 1..Len(items) : k + i \in 1..Len(s) /\ items[i] = s[k + i]
  /\ \A j \in 1..Len(s) : k < j /\ j <= k + PageSize =>
       \E i \in 1..Len(items) : k + i = j
  /\ Len(items) < PageSize => k + Len(items) = Len(s) \/ Len(items) = 0

LEMMA PageRowsAre ==
  ASSUME NEW S, NEW s \in Seq(S), NEW k \in Nat
  PROVE  IsPart(PageRows(s, k), s, S, k)
<1> DEFINE n == Len(s)
           e == IF k + PageSize < n THEN k + PageSize ELSE n
           m == IF e < k THEN 0 ELSE e - k
           items == SubSeq(s, k + 1, e)
<1>1. n \in Nat /\ PageSize \in Nat \ {0} /\ e \in Nat /\ e <= n /\ e <= k + PageSize
  BY RowsAre DEF Positive
<1>3. m \in Nat /\ m <= PageSize
      /\ \A i \in 1..m : k + i \in 1..n /\ (k + 1) + i - 1 = k + i
  BY <1>1
<1>6. items \in Seq(S) /\ Len(items) = m /\ \A i \in 1..m : items[i] = s[k + i]
  <2>1. CASE e <= k
    <3>1. items = << >>
      <4>1. k + 1 > e
        BY <2>1, <1>1
      <4> HIDE DEF e
      <4> QED BY <4>1, <1>1, SubSeqEmpty
    <3>2. m = 0 /\ Len(<< >>) = 0 /\ << >> \in Seq(S)
      BY <2>1, <1>1
    <3> HIDE DEF items, m
    <3> QED BY <3>1, <3>2
  <2>2. CASE k < e
    <3>1. \A i \in (k + 1)..e : i \in 1..n
      BY <1>1
    <3>2. m = e - (k + 1) + 1 /\ k + 1 \in 1..(e + 1) /\ e \in k..n
      BY <2>2, <1>1
    <3> HIDE DEF e, m
    <3>3. items \in Seq(S) /\ Len(items) = e - (k + 1) + 1
          /\ \A i \in 1..(e - (k + 1) + 1) : items[i] = s[(k + 1) + i - 1]
      BY <1>1, <2>2, <3>1, <3>2, SubSeqProperties
    <3> HIDE DEF items
    <3> QED BY <3>2, <3>3, <1>3
  <2> QED BY <1>1, <2>1, <2>2
<1>7. \A j \in 1..n : k < j /\ j <= k + PageSize => j - k \in 1..m /\ k + (j - k) = j
  BY <1>1
<1>8. m < PageSize => k + m = n \/ m = 0
  BY <1>1
<1>9. PageRows(s, k) = items
  BY DEF PageRows
<1> HIDE DEF items, m
<1> QED BY <1>3, <1>6, <1>7, <1>8, <1>9 DEF IsPart

\* The table without its oldest rows.
IsTable(table, last) ==
  /\ last \in Nat /\ last < Unbounded
  /\ table \subseteq 1..last
  /\ \A r \in table, q \in 1..last : r <= q => q \in table

\* The rows of a snapshot that are older than b.
Behind(table, search, s, b) == {r \in table \intersect Matching(search) : r <= s /\ r < b}

(* A page of a snapshot: its rows are in order and in their places, all    *)
(* of those that are still there are on it, and a page that is not full    *)
(* is the end of the log.                                                  *)
Honest(table, p, items, search, s) ==
  /\ items \in Seq(LogRows) /\ Len(items) <= PageSize
  /\ \A i, j \in 1..Len(items) : i < j => items[j] < items[i]
  /\ \A i \in 1..Len(items) : OnPage(p, search, s, items[i])
  /\ \A r \in table : OnPage(p, search, s, r) => \E i \in 1..Len(items) : items[i] = r
  /\ Len(items) < PageSize /\ items # << >> =>
       \A r \in table \intersect Matching(search) : r <= s => Oldest(items) <= r

LEMMA TableIs ==
  ASSUME NEW table, NEW last, IsTable(table, last)
  PROVE  table \subseteq LogRows /\ table \subseteq Nat /\ 1..last \subseteq LogRows
BY RowsAre DEF IsTable, Positive

LEMMA RankGrows ==
  ASSUME NEW search, NEW s \in Nat, NEW b \in Nat, NEW r \in Nat, b <= r
  PROVE  RankOf(search, s, r) <= RankOf(search, s, b)
<1>1. NoOlder(search, s, r) \subseteq NoOlder(search, s, b)
  <2>1. \A q \in Matching(search) : q \in Nat
    BY RowsAre DEF Matching, Positive
  <2> QED BY <2>1 DEF NoOlder
<1>2. IsFiniteSet(NoOlder(search, s, b))
  BY RankIs
<1> QED BY <1>1, <1>2, FS_Subset DEF RankOf

LEMMA RankBehind ==
  ASSUME NEW table, NEW last, IsTable(table, last), NEW search, NEW s \in Nat, s <= last,
         NEW b \in Nat, NEW r \in Behind(table, search, s, b)
  PROVE  RankOf(search, s, r) =
           RankOf(search, s, b) + Cardinality({q \in Behind(table, search, s, b) : q > r}) + 1
<1> DEFINE B == Behind(table, search, s, b)
           U == {q \in B : q > r}
           V == U \union {r}
           W == NoOlder(search, s, b)
<1>1. /\ r \in table /\ r \in Matching(search) /\ r \in Nat /\ r <= s /\ r < b /\ r \in 1..last
      /\ table \subseteq Nat /\ last \in Nat /\ Matching(search) \subseteq Nat
  BY TableIs, RowsAre DEF Behind, IsTable, Matching, Positive
<1>2. NoOlder(search, s, r) = W \union V
  <2>1. ASSUME NEW q \in Matching(search), r <= q, q <= s PROVE q \in table
    <3>1. q \in 1..last
      BY <2>1, <1>1
    <3> QED BY <3>1, <2>1, <1>1 DEF IsTable
  <2>2. ASSUME NEW q \in Matching(search), r <= q, q <= s, ~(b <= q) PROVE q \in V
    <3>1. q \in B
      BY <2>1, <2>2, <1>1 DEF Behind
    <3>2. q > r \/ q = r
      BY <2>2, <1>1
    <3> QED BY <3>1, <3>2
  <2>3. \A q \in B : q \in Matching(search) /\ q <= s
    BY DEF Behind
  <2>4. \A q \in V : q \in Matching(search) /\ q <= s /\ r <= q
    BY <2>3, <1>1
  <2>5. \A q \in W : q \in Matching(search) /\ q <= s /\ b <= q /\ r <= q
    BY <1>1 DEF NoOlder
  <2> HIDE DEF V, W, B
  <2>6. \A q \in NoOlder(search, s, r) : q \in W \/ q \in V
    BY <2>2 DEF NoOlder, W
  <2>7. \A q \in W \union V : q \in NoOlder(search, s, r)
    BY <2>4, <2>5 DEF NoOlder
  <2> QED BY <2>6, <2>7
<1>3. W \intersect V = {}
  BY <1>1 DEF NoOlder, Behind
<1>4. IsFiniteSet(W) /\ Cardinality(W) \in Nat
  BY RankIs DEF RankOf
<1>5. IsFiniteSet(U) /\ Cardinality(U) \in Nat /\ r \notin U
  <2>1. U \subseteq LogRows /\ r \notin U
    BY <1>1 DEF Behind, Matching
  <2> HIDE DEF U
  <2>2. IsFiniteSet(U)
    BY <2>1, ViewAssumption, FS_Subset
  <2> QED BY <2>1, <2>2, FS_CardinalityType
<1> HIDE DEF U, W
<1>6. IsFiniteSet(V) /\ Cardinality(V) = Cardinality(U) + 1
  BY <1>5, FS_AddElement
<1> HIDE DEF V
<1>7. Cardinality(W \union V) = Cardinality(W) + Cardinality(V) - Cardinality(W \intersect V)
  BY <1>4, <1>6, FS_Union
<1>8. Cardinality(W \union V) = Cardinality(W) + Cardinality(U) + 1
  <2>1. Cardinality(W \intersect V) = 0
    BY <1>3, FS_EmptySet
  <2>2. Cardinality(W \union V) = Cardinality(W) + (Cardinality(U) + 1) - 0
    BY <1>6, <1>7, <2>1
  <2> QED BY <2>2, <1>4, <1>5
<1> QED BY <1>2, <1>8 DEF RankOf, U, W, B

LEMMA ServedIsHonest ==
  ASSUME NEW table, NEW last, IsTable(table, last), NEW search, NEW s \in Nat, s <= last,
         NEW b \in Nat, NEW k \in Nat, NEW p \in Positive,
         RankOf(search, s, b) + k = Before(p)
  PROVE  Honest(table, p, PageRows(NewestFirst(Behind(table, search, s, b)), k), search, s)
<1> DEFINE B == Behind(table, search, s, b)
           sorted == NewestFirst(B)
           n == Len(sorted)
           items == PageRows(sorted, k)
           m == Len(items)
           first == RankOf(search, s, b)
<1>1. B \subseteq Nat /\ B \subseteq LogRows /\ IsFiniteSet(B)
  <2>1. B \subseteq LogRows
    BY DEF Behind, Matching
  <2> HIDE DEF B
  <2> QED BY <2>1, RowsAre, ViewAssumption, FS_Subset DEF Positive
<1>2. \A r \in B : RankOf(search, s, r) = first + Cardinality({q \in B : q > r}) + 1
  BY RankBehind
<1>3. \A r \in B : r \in table /\ r \in Matching(search) /\ r <= s /\ r < b
  BY DEF Behind
<1>4. \A r \in table : r \in Matching(search) /\ r <= s /\ r < b => r \in B
  BY DEF Behind
<1>5. table \subseteq Nat /\ first \in Nat /\ PageSize \in Nat \ {0} /\ Before(p) \in Nat
  BY TableIs, RankIs, RowsAre, PlacesBefore DEF Positive
<1> HIDE DEF B
<1>6. /\ sorted \in Seq(B) /\ n \in Nat
      /\ \A i \in 1..n : sorted[i] \in B /\ Cardinality({q \in B : q > sorted[i]}) = i - 1
      /\ \A x \in B : \E i \in 1..n : sorted[i] = x
  BY <1>1, NewestFirstIs
<1> HIDE DEF sorted
<1>7. /\ items \in Seq(B) /\ m <= PageSize /\ m \in Nat
      /\ \A i \in 1..m : k + i \in 1..n /\ items[i] = sorted[k + i]
      /\ \A j \in 1..n : k < j /\ j <= k + PageSize => \E i \in 1..m : k + i = j
      /\ m < PageSize => k + m = n \/ m = 0
  <2>1. IsPart(items, sorted, B, k)
    BY <1>6, PageRowsAre
  <2> HIDE DEF items
  <2> QED BY <2>1 DEF IsPart
<1> HIDE DEF items
<1>8. ASSUME NEW j \in 1..n PROVE RankOf(search, s, sorted[j]) = first + j
  <2>1. RankOf(search, s, sorted[j]) = first + (j - 1) + 1
    BY <1>2, <1>6
  <2> HIDE DEF first, n
  <2> QED BY <2>1, <1>5, <1>6
<1> HIDE DEF n, m
<1>9. ASSUME NEW i \in 1..m
      PROVE  /\ items[i] \in B /\ OnPage(p, search, s, items[i])
             /\ RankOf(search, s, items[i]) = Before(p) + i
  <2>1. items[i] = sorted[k + i] /\ k + i \in 1..n
    BY <1>7
  <2>2. items[i] \in B /\ RankOf(search, s, items[i]) = first + (k + i)
    BY <2>1, <1>6, <1>8
  <2> HIDE DEF first
  <2>3. RankOf(search, s, items[i]) = Before(p) + i
    BY <2>2, <1>5, <1>7 DEF first
  <2>4. Before(p) < Before(p) + i /\ Before(p) + i <= Before(p) + PageSize
    BY <1>5, <1>7
  <2> QED BY <2>2, <2>3, <2>4, <1>3 DEF OnPage
<1>10. ASSUME NEW i \in 1..m, NEW j \in 1..m, i < j PROVE items[j] < items[i]
  <2>1. RankOf(search, s, items[i]) < RankOf(search, s, items[j])
    BY <1>5, <1>7, <1>9, <1>10
  <2>2. items[i] \in Matching(search) /\ items[j] \in Matching(search)
        /\ items[i] <= s /\ items[j] <= s
    BY <1>3, <1>9
  <2> QED BY <2>1, <2>2, RankOrders
<1>11. ASSUME NEW r \in table, OnPage(p, search, s, r)
       PROVE  \E i \in 1..m : items[i] = r
  <2>1. r \in Matching(search) /\ r <= s /\ r \in Nat /\ RankOf(search, s, r) \in Nat
    BY <1>5, <1>11, RankIs DEF OnPage
  <2>2. first <= Before(p) /\ Before(p) < RankOf(search, s, r)
        /\ RankOf(search, s, r) <= Before(p) + PageSize
    BY <1>5, <1>11 DEF OnPage
  <2>3. r < b
    <3> SUFFICES ASSUME b <= r PROVE FALSE
      BY <2>1
    <3>1. RankOf(search, s, r) <= first
      BY <2>1, RankGrows
    <3> HIDE DEF first
    <3> QED BY <3>1, <2>1, <2>2, <1>5
  <2>4. PICK j \in 1..n : sorted[j] = r
    BY <2>1, <2>3, <1>4, <1>6
  <2>5. RankOf(search, s, r) = first + j
    BY <2>4, <1>8
  <2>6. k < j /\ j <= k + PageSize
    <3>1. first + k = Before(p) /\ j \in Nat
      BY <1>6 DEF n
    <3> HIDE DEF first
    <3> QED BY <3>1, <2>2, <2>5, <1>5
  <2> QED BY <2>4, <2>6, <1>7
<1>12. ASSUME m < PageSize, items # << >>,
              NEW r \in table \intersect Matching(search), r <= s
       PROVE  Oldest(items) <= r
  <2>1. m # 0
    BY <1>7, <1>12 DEF m
  <2>2. Oldest(items) = sorted[n] /\ n \in 1..n /\ Oldest(items) \in B
    <3>1. m \in 1..m /\ k + m = n
      BY <2>1, <1>7, <1>12
    <3> QED BY <3>1, <1>7, <1>9 DEF Oldest, m
  <2>3. CASE r < b
    <3>1. PICK j \in 1..n : sorted[j] = r
      BY <2>3, <1>4, <1>6, <1>12
    <3>2. /\ RankOf(search, s, r) = first + j
          /\ RankOf(search, s, Oldest(items)) = first + n
      <4> HIDE DEF first
      <4> QED BY <3>1, <2>2, <1>8
    <3>3. Oldest(items) \in Matching(search) /\ Oldest(items) <= s /\ Oldest(items) \in Nat
      BY <2>2, <1>1, <1>3
    <3>4. ~(RankOf(search, s, Oldest(items)) < RankOf(search, s, r))
      <4>1. j \in Nat /\ n \in Nat /\ j <= n
        BY <1>6 DEF n
      <4> HIDE DEF first
      <4> QED BY <3>2, <4>1, <1>5
    <3>5. ~(r < Oldest(items))
      BY <3>3, <3>4, <1>12, RankOrders
    <3> QED BY <3>3, <3>5, <1>5
  <2>4. CASE ~(r < b)
    <3>1. Oldest(items) < b /\ Oldest(items) \in Nat /\ r \in Nat
      BY <2>2, <1>1, <1>3, <1>5
    <3> QED BY <3>1, <2>4
  <2> QED BY <2>3, <2>4
<1>13. items \in Seq(LogRows)
  <2>1. \A i \in 1..Len(items) : items[i] \in LogRows
    BY <1>1, <1>9 DEF m
  <2> QED BY <2>1, <1>7
<1> HIDE DEF first
<1>14. Honest(table, p, items, search, s)
  BY <1>7, <1>9, <1>10, <1>11, <1>12, <1>13 DEF Honest, m
<1> QED BY <1>14 DEF items, sorted, B

LEMMA EmptyIsHonest ==
  ASSUME NEW table, NEW search, NEW s, NEW p,
         \A r \in table : ~OnPage(p, search, s, r)
  PROVE  Honest(table, p, << >>, search, s)
<1>1. << >> \in Seq(LogRows) /\ Len(<< >>) = 0 /\ 0 <= PageSize
  BY RowsAre DEF Positive
<1> QED BY <1>1 DEF Honest

\* What is written later is not of the snapshot, and what is deleted was old.
LEMMA HonestStays ==
  ASSUME NEW table, NEW p, NEW items, NEW search, NEW s, Honest(table, p, items, search, s),
         NEW later, \A r \in later : r \in table \/ ~(r <= s)
  PROVE  Honest(later, p, items, search, s)
<1>1. \A r \in later : OnPage(p, search, s, r) => \E i \in 1..Len(items) : items[i] = r
  BY DEF Honest, OnPage
<1>2. Len(items) < PageSize /\ items # << >> =>
        \A r \in later \intersect Matching(search) : r <= s => Oldest(items) <= r
  BY DEF Honest
<1> QED BY <1>1, <1>2 DEF Honest

\* The last row of a page that is full has the page's last place.
LEMMA FullPage ==
  ASSUME NEW table, NEW p \in Positive, NEW items, NEW search, NEW s \in Nat,
         Honest(table, p, items, search, s), Len(items) = PageSize
  PROVE  RankOf(search, s, Oldest(items)) = Before(p) + PageSize
<1> DEFINE rank(i) == RankOf(search, s, items[i])
           T == {i \in 0..PageSize : i = 0 \/ rank(i) >= Before(p) + i}
<1>1. PageSize \in Nat \ {0} /\ Before(p) \in Nat
  BY RowsAre, PlacesBefore DEF Positive
<1>2. ASSUME NEW i \in 1..PageSize
      PROVE  /\ items[i] \in Matching(search) /\ items[i] <= s
             /\ rank(i) \in Nat /\ Before(p) < rank(i) /\ rank(i) <= Before(p) + PageSize
  <2>1. OnPage(p, search, s, items[i])
    BY DEF Honest
  <2>2. items[i] \in Nat
    BY <2>1, RowsAre DEF OnPage, Matching, Positive
  <2> QED BY <2>1, <2>2, RankIs DEF OnPage
<1>3. ASSUME NEW i \in 1..PageSize, i - 1 \in T PROVE i \in T
  <2>1. CASE i = 1
    <3>1. Before(p) < rank(1) /\ rank(1) \in Nat /\ 1 \in 0..PageSize
      BY <1>1, <1>2
    <3> HIDE DEF rank
    <3> QED BY <3>1, <2>1, <1>1
  <2>2. CASE i # 1
    <3>1. i - 1 \in 1..PageSize /\ i - 1 < i
      BY <2>2, <1>1
    <3>2. items[i] < items[i - 1]
      BY <3>1 DEF Honest
    <3>3. rank(i - 1) < rank(i)
      BY <3>1, <3>2, <1>2, RankOrders
    <3>4. rank(i - 1) >= Before(p) + (i - 1)
      BY <1>3, <3>1
    <3>5. rank(i) \in Nat /\ rank(i - 1) \in Nat
      BY <3>1, <1>2
    <3> HIDE DEF rank
    <3>6. rank(i) >= Before(p) + i
      BY <3>3, <3>4, <3>5, <1>1
    <3> QED BY <3>6, <1>1
  <2> QED BY <2>1, <2>2
<1>4. 0 \in T
  BY <1>1
<1>5. PageSize \in T
  <2> HIDE DEF T
  <2>1. 0..PageSize \subseteq T
    BY <1>1, <1>3, <1>4, Stepwise
  <2> QED BY <2>1, <1>1
<1>6. rank(PageSize) >= Before(p) + PageSize /\ rank(PageSize) <= Before(p) + PageSize
      /\ rank(PageSize) \in Nat
  BY <1>1, <1>2, <1>5
<1>7. rank(PageSize) = RankOf(search, s, Oldest(items))
  BY DEF Oldest
<1> HIDE DEF rank
<1> QED BY <1>1, <1>6, <1>7

\* Of no rows no page has any.
LEMMA NothingServed ==
  ASSUME NEW B, B = {}, NEW k \in Nat
  PROVE  PageRows(NewestFirst(B), k) = << >>
<1> DEFINE sorted == NewestFirst(B)
           rest == PageRows(sorted, k)
<1>1. IsFiniteSet(B) /\ Cardinality(B) = 0 /\ B \in SUBSET Nat
  BY FS_EmptySet
<1>2. sorted \in Seq(B) /\ Len(sorted) = 0
  BY <1>1, NewestFirstIs
<1> HIDE DEF sorted
<1>3. IsPart(rest, sorted, B, k)
  BY <1>2, PageRowsAre
<1> HIDE DEF rest
<1>4. /\ rest \in Seq(B) /\ Len(rest) \in Nat
      /\ \A i \in 1..Len(rest) : k + i \in 1..0
  BY <1>2, <1>3 DEF IsPart
<1>5. Len(rest) = 0
  BY <1>4
<1>6. rest = << >>
  BY <1>4, <1>5
<1> QED BY <1>6 DEF rest, sorted

\* The page that follows one on screen.
LEMMA NextIsHonest ==
  ASSUME NEW table, NEW last, IsTable(table, last), NEW search, NEW s \in Nat, s <= last,
         NEW p \in Positive, NEW items, items # << >>, Honest(table, p, items, search, s)
  PROVE  Honest(table, p + 1,
                PageRows(NewestFirst(Behind(table, search, s, Oldest(items))), 0), search, s)
<1> DEFINE b == Oldest(items)
           B == Behind(table, search, s, b)
<1>1. /\ Before(p) \in Nat /\ Before(p) + PageSize = Before(p + 1) /\ p + 1 \in Positive
      /\ PageSize \in Nat
  BY PlacesBefore, RowsAre DEF Positive
<1>2. Len(items) \in Nat \ {0} /\ OnPage(p, search, s, b)
  <2>1. items \in Seq(LogRows)
    BY DEF Honest
  <2>2. Len(items) \in Nat \ {0}
    BY <2>1
  <2>3. Len(items) \in 1..Len(items)
    BY <2>2
  <2> QED BY <2>2, <2>3 DEF Honest, Oldest
<1>3. b \in Nat /\ b <= s /\ RankOf(search, s, b) \in Nat
      /\ RankOf(search, s, b) <= Before(p) + PageSize
  BY <1>2, RowsAre, RankIs DEF OnPage, Matching, Positive
<1>4. CASE Len(items) = PageSize
  <2>1. RankOf(search, s, b) + 0 = Before(p + 1)
    BY <1>1, <1>3, <1>4, FullPage
  <2> QED BY <1>1, <1>3, <2>1, ServedIsHonest
<1>5. CASE Len(items) # PageSize
  <2>1. Len(items) < PageSize
    BY <1>1, <1>2, <1>5 DEF Honest
  <2>2. \A r \in table \intersect Matching(search) : r <= s => b <= r
    BY <2>1 DEF Honest
  <2>3. \A r \in table : r \in Nat
    BY TableIs
  <2>4. B = {}
    BY <2>2, <2>3, <1>3 DEF Behind
  <2>5. PageRows(NewestFirst(B), 0) = << >>
    BY <2>4, NothingServed
  <2>6. ASSUME NEW r \in table, OnPage(p + 1, search, s, r) PROVE FALSE
    <3>1. r \in Matching(search) /\ r <= s /\ Before(p + 1) < RankOf(search, s, r)
      BY <2>6 DEF OnPage
    <3>2. b <= r /\ r \in Nat
      BY <2>2, <2>3, <3>1
    <3>3. RankOf(search, s, r) <= RankOf(search, s, b) /\ RankOf(search, s, r) \in Nat
      BY <3>2, <1>3, RankGrows, RankIs
    <3> QED BY <3>1, <3>3, <1>1, <1>3
  <2>7. Honest(table, p + 1, << >>, search, s)
    BY <2>6, EmptyIsHonest
  <2> HIDE DEF B
  <2> QED BY <2>5, <2>7 DEF B
<1> QED BY <1>4, <1>5

-----------------------------------------------------------------------------
(* The inductive invariant, part by part.  The table and the channel: *)

TableInv == IsTable(rows, lastRow)

ChannelInv ==
  /\ unread \in Seq(Nat) /\ Len(unread) <= Channel
  /\ announcedRow \in 0..lastRow

PageAnswers ==
  [page : Positive, search : Searches, items : Seq(LogRows), pages : Nat, snapshot : Nat]

CurrentCall ==
  [page : {view.page}, search : {view.search},
   snapshot : {Carried(view.page, view.search).snapshot},
   before : {Carried(view.page, view.search).before},
   answer : {asked[ticket].answer}]

(* The calls: the one asked last is of what is on screen as it was then,   *)
(* for nothing else can come to the screen before it.                      *)
CallInv ==
  /\ ticket \in Positive
  /\ asked = [t \in DOMAIN asked |-> asked[t]]
  /\ DOMAIN asked \subseteq 1..ticket
  /\ view \in [page : Positive, search : Searches]
  /\ logs \in PageAnswers
  /\ IF ticket \in DOMAIN asked
     THEN /\ asked[ticket] \in CurrentCall
          /\ asked[ticket].answer # << >> =>
               /\ asked[ticket].answer = << Head(asked[ticket].answer) >>
               /\ Head(asked[ticket].answer) \in PageAnswers
     ELSE failed \/ (logs.page = view.page /\ logs.search = view.search)

\* The table has no row of the snapshot any more, or its newest is the snapshot.
Dated(table, snapshot, s) == snapshot = s \/ (snapshot = 0 /\ \A r \in table : ~(r <= s))

Continues == view.page > 1 /\ view.search = logs.search /\ DOMAIN seen # {}

(* The pages: those shown are of the snapshot s,                            *)
ShownFrom(s) ==
  /\ \A p \in DOMAIN seen : p \in Positive /\ Honest(rows, p, seen[p], logs.search, s)
  /\ seen = [p \in DOMAIN seen |-> seen[p]]
  /\ IF DOMAIN seen = {} THEN logs = EmptyPage
     ELSE /\ logs.page \in DOMAIN seen /\ seen[logs.page] = logs.items
          /\ Dated(rows, logs.snapshot, s)

(* and so is the one that is to come, unless it begins the pages anew.     *)
AnsweredFrom(s) ==
  ticket \in DOMAIN asked /\ asked[ticket].answer # << >> =>
    LET a == Head(asked[ticket].answer)
    IN  /\ a.page = view.page /\ a.search = view.search
        /\ IF Continues
           THEN Honest(rows, a.page, a.items, a.search, s) /\ Dated(rows, a.snapshot, s)
           ELSE a.snapshot <= lastRow /\ Honest(rows, a.page, a.items, a.search, a.snapshot)

SnapshotInv == \E s \in 0..lastRow : ShownFrom(s) /\ AnsweredFrom(s)

\* Every announced row that is still there is among items, or older than they are.
Covers(items, search) ==
  \A r \in Found(search) : r <= announcedRow =>
    \/ r \in Range(items)
    \/ Len(items) = PageSize /\ r < Oldest(items)

Fetching ==
  IF ticket \in DOMAIN asked
  THEN asked[ticket].answer = << >> \/ Covers(Head(asked[ticket].answer).items, view.search)
  ELSE failed \/ Covers(logs.items, logs.search)

(* The events: what was announced is in the channel, waits for the timer,  *)
(* is being fetched or is on screen, unless the page is not the first.     *)
Awaited ==
  \/ announcedRow = Nothing
  \/ announcedRow \in Range(unread)
  \/ refreshPending /\ refreshNeedsLogs
  \/ section # "status" \/ view.page # 1 \/ Fetching

EventInv == (refreshPending /\ visible => timer # "none") /\ Awaited

ViewIInv == TableInv /\ ChannelInv /\ CallInv /\ SnapshotInv /\ EventInv

-----------------------------------------------------------------------------
LEMMA EmptyPageIs ==
  EmptyPage \in PageAnswers /\ EmptyPage.items = << >> /\ EmptyPage.page = 1
    /\ EmptyPage.search = "all"
<1>1. << >> \in Seq(LogRows) /\ Unbounded \in Nat /\ "all" \in Searches
  BY RowsAre DEF Positive, Searches
<1> QED BY <1>1 DEF EmptyPage, PageAnswers, Positive

LEMMA WithIs ==
  ASSUME NEW f, NEW k, NEW v
  PROVE  /\ With(f, k, v) = [x \in DOMAIN With(f, k, v) |-> With(f, k, v)[x]]
         /\ DOMAIN With(f, k, v) = DOMAIN f \union {k}
         /\ With(f, k, v)[k] = v
         /\ \A x \in DOMAIN f : x # k => With(f, k, v)[x] = f[x]
BY DEF With

LEMMA ViewStart == ViewInit => ViewIInv
<1> SUFFICES ASSUME ViewInit PROVE ViewIInv
  OBVIOUS
<1> USE DEF ViewInit
<1>1. TableInv
  BY RowsAre DEF TableInv, IsTable, Positive
<1>2. ChannelInv
  <2>1. << >> \in Seq(Nat) /\ Len(<< >>) = 0
    OBVIOUS
  <2> QED BY <2>1, RowsAre DEF ChannelInv, Positive, Nothing
<1>3. Carried(1, "all") = [snapshot |-> Unbounded, before |-> Unbounded]
  BY DEF Carried
<1>4. ticket \in DOMAIN asked /\ asked[ticket] = Call(1, "all", Unbounded, Unbounded)
      /\ DOMAIN asked = {1}
  OBVIOUS
<1>5. asked[ticket].answer = << >> /\ asked[ticket] \in CurrentCall
  BY <1>3, <1>4 DEF Call, CurrentCall
<1>6. CallInv
  <2>1. view \in [page : Positive, search : Searches]
    BY DEF Positive, Searches
  <2>2. logs \in PageAnswers
    BY EmptyPageIs
  <2>3. asked = [t \in DOMAIN asked |-> asked[t]]
    OBVIOUS
  <2>4. ticket \in Positive /\ DOMAIN asked \subseteq 1..ticket
    BY <1>4 DEF Positive
  <2> HIDE DEF ViewInit
  <2> QED BY <1>4, <1>5, <2>1, <2>2, <2>3, <2>4 DEF CallInv
<1>7. DOMAIN seen = {} /\ seen = [p \in DOMAIN seen |-> seen[p]]
  OBVIOUS
<1>8. SnapshotInv
  <2>1. ShownFrom(0) /\ AnsweredFrom(0)
    BY <1>5, <1>7 DEF ShownFrom, AnsweredFrom
  <2>2. 0 \in 0..lastRow
    OBVIOUS
  <2> HIDE DEF ViewInit
  <2> QED BY <2>1, <2>2 DEF SnapshotInv
<1>9. EventInv
  BY DEF EventInv, Awaited
<1> QED BY <1>1, <1>2, <1>6, <1>8, <1>9 DEF ViewIInv

-----------------------------------------------------------------------------
(* What the steps do. *)

LEMMA CarriedIs ==
  ASSUME NEW page, NEW search, logs' = logs
  PROVE  Carried(page, search)' = Carried(page, search)
BY DEF Carried

LEMMA LoadIs ==
  ASSUME CallInv, NEW page \in Positive, NEW search \in Searches, Load(page, search)
  PROVE  /\ ticket' = ticket + 1 /\ ticket' \in Positive /\ ticket' \notin DOMAIN asked
         /\ view' = [page |-> page, search |-> search]
         /\ view' \in [page : Positive, search : Searches]
         /\ DOMAIN asked' = DOMAIN asked \union {ticket'}
         /\ asked' = [t \in DOMAIN asked' |-> asked'[t]]
         /\ DOMAIN asked' \subseteq 1..ticket'
         /\ asked'[ticket'] = Call(page, search, Carried(page, search).snapshot,
                                   Carried(page, search).before)
         /\ ticket' \in DOMAIN asked' /\ asked'[ticket'].answer = << >>
<1> DEFINE call == Call(page, search, Carried(page, search).snapshot,
                        Carried(page, search).before)
<1>1. ticket' = ticket + 1 /\ view' = [page |-> page, search |-> search]
      /\ asked' = With(asked, ticket', call)
  BY DEF Load
<1>2. ticket \in Positive /\ DOMAIN asked \subseteq 1..ticket
  BY DEF CallInv
<1>3. call.answer = << >>
  BY DEF Call
<1>4. ticket' \in Positive /\ ticket' \notin 1..ticket /\ 1..ticket \subseteq 1..ticket'
      /\ ticket' \in 1..ticket'
  BY <1>1, <1>2 DEF Positive
<1> HIDE DEF call
<1>5. /\ DOMAIN asked' = DOMAIN asked \union {ticket'}
      /\ asked' = [t \in DOMAIN asked' |-> asked'[t]] /\ asked'[ticket'] = call
  BY <1>1 DEF With
<1> QED BY <1>1, <1>2, <1>3, <1>4, <1>5 DEF call

LEMMA LoadKeepsCalls ==
  ASSUME CallInv, NEW page \in Positive, NEW search \in Searches, Load(page, search),
         logs' = logs
  PROVE  CallInv'
<1>1. /\ ticket' \in Positive /\ asked' = [t \in DOMAIN asked' |-> asked'[t]]
      /\ DOMAIN asked' \subseteq 1..ticket' /\ ticket' \in DOMAIN asked'
      /\ view' \in [page : Positive, search : Searches]
      /\ view'.page = page /\ view'.search = search
      /\ asked'[ticket'].answer = << >>
      /\ asked'[ticket'] = Call(page, search, Carried(page, search).snapshot,
                                Carried(page, search).before)
  BY LoadIs
<1>2. Carried(view.page, view.search)' = Carried(page, search)
  BY <1>1 DEF Carried
<1>3. asked'[ticket'] \in CurrentCall'
  BY <1>1, <1>2 DEF CurrentCall, Call
<1>4. logs' \in PageAnswers
  BY DEF CallInv
<1> QED BY <1>1, <1>3, <1>4 DEF CallInv

LEMMA NewestIs ==
  ASSUME TableInv
  PROVE  /\ Newest(rows) \in Nat /\ Newest(rows) <= lastRow
         /\ rows # {} => Newest(rows) = lastRow
         /\ rows = {} => Newest(rows) = 0
<1>1. /\ lastRow \in Nat /\ rows \subseteq 1..lastRow
      /\ \A r \in rows, q \in 1..lastRow : r <= q => q \in rows
  BY DEF TableInv, IsTable
<1>2. CASE rows = {}
  BY <1>1, <1>2 DEF Newest, Nothing
<1>3. CASE rows # {}
  <2>1. lastRow \in rows /\ \A q \in rows : q <= lastRow
    <3>1. PICK r \in rows : TRUE
      BY <1>3
    <3>2. r \in 1..lastRow /\ lastRow \in 1..lastRow /\ r <= lastRow
      BY <3>1, <1>1
    <3> QED BY <3>2, <1>1
  <2>2. ASSUME NEW r \in rows, \A q \in rows : q <= r PROVE r = lastRow
    <3>1. r \in 1..lastRow /\ lastRow <= r
      BY <2>1, <2>2, <1>1
    <3> QED BY <3>1, <1>1
  <2>3. Newest(rows) = CHOOSE r \in rows : \A q \in rows : q <= r
    BY <1>3 DEF Newest
  <2>4. Newest(rows) = lastRow
    BY <2>1, <2>2, <2>3
  <2>5. lastRow \in Nat /\ lastRow <= lastRow
    BY <1>1
  <2> QED BY ONLY <2>4, <2>5, <1>3
<1> QED BY <1>2, <1>3

SnapshotOf(call) == IF call.snapshot > Newest(rows) THEN Newest(rows) ELSE call.snapshot
OffsetOf(call) == IF call.before # Unbounded THEN 0 ELSE Before(call.page)
ItemsOf(call) ==
  PageRows(NewestFirst(Behind(rows, call.search, SnapshotOf(call), call.before)), OffsetOf(call))

PagesOf(call) ==
  (Cardinality({r \in Found(call.search) : r <= SnapshotOf(call)}) + PageSize - 1) \div PageSize

Serving(call) ==
  [page |-> call.page, search |-> call.search, snapshot |-> SnapshotOf(call),
   pages |-> IF PagesOf(call) = 0 THEN 1 ELSE PagesOf(call), items |-> ItemsOf(call)]

LEMMA ServeIs ==
  ASSUME TableInv, NEW t, ServePage(t)
  PROVE  /\ asked[t].answer = << >>
         /\ asked' = [asked EXCEPT ![t].answer = << Serving(asked[t]) >>]
         /\ logs' = logs /\ failed' = failed /\ seen' = seen /\ view' = view
         /\ ticket' = ticket /\ rows' = rows /\ lastRow' = lastRow
         /\ unread' = unread /\ announcedRow' = announcedRow
<1> DEFINE call == asked[t]
           all == {r \in Found(call.search) : r <= SnapshotOf(call)}
           behind == {r \in all : r < call.before}
<1>1. behind = Behind(rows, call.search, SnapshotOf(call), call.before)
  <2>1. rows \subseteq LogRows
    BY TableIs DEF TableInv
  <2> HIDE DEF call
  <2> QED BY <2>1 DEF Behind, Found, Matching
<1>2. asked' = [asked EXCEPT ![t].answer =
        << [page |-> call.page, search |-> call.search, snapshot |-> SnapshotOf(call),
            pages |-> IF PagesOf(call) = 0 THEN 1 ELSE PagesOf(call),
            items |-> PageRows(NewestFirst(behind), OffsetOf(call))] >>]
  BY DEF ServePage, PageRows, SnapshotOf, OffsetOf, PagesOf, Before
<1>3. PageRows(NewestFirst(behind), OffsetOf(call)) = ItemsOf(call)
  <2> HIDE DEF behind, call
  <2> QED BY <1>1 DEF ItemsOf
<1> HIDE DEF behind
<1>4. asked' = [asked EXCEPT ![t].answer = << Serving(call) >>]
  BY <1>2, <1>3 DEF Serving
<1> QED BY <1>4 DEF ServePage, screenVars, logVars

LEMMA PagesAreCounted ==
  ASSUME TableInv, NEW call
  PROVE  PagesOf(call) \in Nat
<1> DEFINE all == {r \in Found(call.search) : r <= SnapshotOf(call)}
<1>1. all \subseteq LogRows
  BY TableIs DEF TableInv, Found
<1> HIDE DEF all
<1>2. Cardinality(all) \in Nat
  BY <1>1, ViewAssumption, FS_Subset, FS_CardinalityType
<1>3. PageSize \in Nat \ {0}
  BY RowsAre DEF Positive
<1> DEFINE n == Cardinality(all) + PageSize - 1
<1>4. n \in Nat
  BY <1>2, <1>3
<1> HIDE DEF n
<1>5. n \div PageSize \in Nat
  BY <1>3, <1>4
<1> QED BY <1>5 DEF PagesOf, n, all

LEMMA NoneBeyond ==
  ASSUME NEW search, NEW s \in Nat, s < Unbounded
  PROVE  RankOf(search, s, Unbounded) = 0
<1>1. NoOlder(search, s, Unbounded) = {}
  BY RowsAre DEF NoOlder, Matching, Positive
<1> QED BY <1>1, FS_EmptySet DEF RankOf

\* A page that names no snapshot is one of the table as it is.
LEMMA ServedAnew ==
  ASSUME TableInv, NEW call, call.page \in Positive,
         call.snapshot = Unbounded, call.before = Unbounded
  PROVE  /\ SnapshotOf(call) \in Nat /\ SnapshotOf(call) <= lastRow
         /\ SnapshotOf(call) = Newest(rows)
         /\ Honest(rows, call.page, ItemsOf(call), call.search, SnapshotOf(call))
<1> DEFINE s == SnapshotOf(call)
<1>1. lastRow \in Nat /\ lastRow < Unbounded /\ Unbounded \in Nat
  BY RowsAre DEF TableInv, IsTable, Positive
<1>2. s = Newest(rows) /\ s \in Nat /\ s <= lastRow /\ s < Unbounded
  BY <1>1, NewestIs DEF SnapshotOf
<1> HIDE DEF s
<1>3. RankOf(call.search, s, Unbounded) = 0
  BY <1>2, NoneBeyond
<1>4. Before(call.page) \in Nat
  BY PlacesBefore
<1> DEFINE p == call.page
           b == Unbounded
           k == Before(p)
           search == call.search
<1>5. b \in Nat /\ k \in Nat /\ p \in Positive /\ RankOf(search, s, b) + k = Before(p)
      /\ IsTable(rows, lastRow)
  BY <1>1, <1>3, <1>4 DEF TableInv
<1> HIDE DEF p, b, k, search
<1>6. Honest(rows, p, PageRows(NewestFirst(Behind(rows, search, s, b)), k), search, s)
  BY <1>2, <1>5, ServedIsHonest
<1>7. ItemsOf(call) = PageRows(NewestFirst(Behind(rows, search, s, b)), k)
  BY DEF ItemsOf, OffsetOf, b, k, p, s, search
<1> QED BY <1>2, <1>6, <1>7 DEF p, search, s

\* A page that carries the snapshot on is one of the pages shown.
LEMMA ServedOn ==
  ASSUME TableInv, CallInv, NEW s \in 0..lastRow, ShownFrom(s), Continues,
         NEW call, call.page = view.page, call.search = view.search,
         call.snapshot = Carried(view.page, view.search).snapshot,
         call.before = Carried(view.page, view.search).before
  PROVE  /\ Dated(rows, SnapshotOf(call), s)
         /\ Honest(rows, call.page, ItemsOf(call), call.search, s)
<1> DEFINE p == call.page
           search == call.search
           items == logs.items
           follows == p = logs.page + 1 /\ items # << >>
<1>1. /\ p \in Positive /\ p > 1 /\ search = logs.search /\ DOMAIN seen # {}
      /\ logs.page \in Positive /\ logs.items \in Seq(LogRows)
  BY DEF Continues, CallInv, PageAnswers
<1>2. /\ call.snapshot = logs.snapshot
      /\ call.before = IF follows THEN Oldest(items) ELSE Unbounded
  BY <1>1 DEF Carried, Continues
<1>3. /\ logs.page \in DOMAIN seen /\ Honest(rows, logs.page, items, search, s)
      /\ Dated(rows, logs.snapshot, s)
  BY <1>1 DEF ShownFrom
<1>4. lastRow \in Nat /\ s \in Nat /\ s <= lastRow /\ s < Unbounded /\ Unbounded \in Nat
      /\ IsTable(rows, lastRow)
  BY RowsAre DEF TableInv, IsTable, Positive
<1>5. ASSUME follows
      PROVE  call.before = Oldest(items) /\ Oldest(items) \in Nat /\ Oldest(items) # Unbounded
  <2>1. Oldest(items) \in LogRows
    <3>1. items \in Seq(LogRows) /\ items # << >>
      BY <1>1, <1>5
    <3> HIDE DEF items
    <3>2. Len(items) \in 1..Len(items)
      BY <3>1
    <3> QED BY <3>1, <3>2 DEF Oldest
  <2> QED BY <2>1, <1>2, <1>5, RowsAre DEF Positive
<1>6. OffsetOf(call) \in Nat
  BY <1>1, PlacesBefore DEF OffsetOf
<1> HIDE DEF follows
<1>7. ASSUME Behind(rows, search, SnapshotOf(call), call.before) = {},
             \A r \in rows : ~(r <= s)
      PROVE  Honest(rows, p, ItemsOf(call), search, s)
  <2>1. ItemsOf(call) = << >>
    BY <1>6, <1>7, NothingServed DEF ItemsOf
  <2>2. \A r \in rows : ~OnPage(p, search, s, r)
    BY <1>7 DEF OnPage
  <2> QED BY <2>1, <2>2, EmptyIsHonest
<1>8. CASE logs.snapshot = s /\ rows # {}
  <2>1. SnapshotOf(call) = s
    BY <1>2, <1>4, <1>8, NewestIs DEF SnapshotOf
  <2>2. CASE follows
    <3>1. OffsetOf(call) = 0
      BY <2>2, <1>5 DEF OffsetOf
    <3>2. p = logs.page + 1 /\ items # << >>
      BY <2>2 DEF follows
    <3> DEFINE B == Behind(rows, search, s, Oldest(items))
               q == logs.page
    <3>3. ItemsOf(call) = PageRows(NewestFirst(B), 0)
      BY <2>1, <2>2, <3>1, <1>5 DEF ItemsOf
    <3>4. q \in Positive /\ p = q + 1 /\ Honest(rows, q, items, search, s)
      BY <3>2, <1>1, <1>3
    <3> HIDE DEF q, p, items, search
    <3>5. Honest(rows, q + 1, PageRows(NewestFirst(B), 0), search, s)
      BY <3>2, <3>4, <1>4, NextIsHonest
    <3> QED BY <3>3, <3>4, <3>5, <2>1 DEF Dated, p, search
  <2>3. CASE ~follows
    <3> DEFINE b == call.before
               k == OffsetOf(call)
    <3>1. b = Unbounded /\ k = Before(p)
      BY <2>3, <1>2 DEF OffsetOf
    <3>2. RankOf(search, s, b) + k = Before(p) /\ b \in Nat /\ k \in Nat
      BY <3>1, <1>1, <1>4, NoneBeyond, PlacesBefore
    <3>3. ItemsOf(call) = PageRows(NewestFirst(Behind(rows, search, s, b)), k)
      BY <2>1 DEF ItemsOf
    <3> HIDE DEF b, k, p, search
    <3>4. Honest(rows, p, PageRows(NewestFirst(Behind(rows, search, s, b)), k), search, s)
      BY <3>2, <1>1, <1>4, ServedIsHonest
    <3> QED BY <3>3, <3>4, <2>1 DEF Dated, p, search
  <2> QED BY <2>2, <2>3
<1>9. CASE rows = {}
  <2>1. Behind(rows, search, SnapshotOf(call), call.before) = {}
    BY <1>9 DEF Behind
  <2>2. SnapshotOf(call) = 0 \/ SnapshotOf(call) = s
    <3>1. Newest(rows) = 0
      BY <1>9, NewestIs
    <3>2. logs.snapshot = s \/ logs.snapshot = 0
      BY <1>3 DEF Dated
    <3> QED BY <3>1, <3>2, <1>2, <1>4 DEF SnapshotOf
  <2> QED BY <2>1, <2>2, <1>7, <1>9 DEF Dated
<1>10. CASE logs.snapshot = 0 /\ \A r \in rows : ~(r <= s)
  <2>1. SnapshotOf(call) = 0
    BY <1>2, <1>10, NewestIs DEF SnapshotOf
  <2>2. \A r \in rows : ~(r <= 0)
    BY TableIs, RowsAre DEF TableInv, Positive
  <2>3. Behind(rows, search, SnapshotOf(call), call.before) = {}
    BY <2>1, <2>2 DEF Behind
  <2> QED BY <2>1, <2>3, <1>7, <1>10 DEF Dated
<1> QED BY <1>3, <1>8, <1>9, <1>10 DEF Dated

-----------------------------------------------------------------------------
(* The calls and the pages, step by step. *)

CallsInv == CallInv /\ SnapshotInv

\* Rows come that are newer than every snapshot, and rows go.
LEMMA RowsChange ==
  ASSUME TableInv, CallsInv, TableInv', lastRow <= lastRow',
         \A r \in rows' : r \in rows \/ lastRow < r,
         UNCHANGED << callVars, screenVars >>
  PROVE  CallsInv'
<1>1. /\ ticket' = ticket /\ asked' = asked /\ view' = view
      /\ logs' = logs /\ failed' = failed /\ seen' = seen
  BY DEF callVars, screenVars
<1>2. CallInv'
  <2>1. CallInv
    BY DEF CallsInv
  <2> QED BY <1>1, <2>1 DEF CallInv, CurrentCall, Carried
<1>3. PICK s \in 0..lastRow : ShownFrom(s) /\ AnsweredFrom(s)
  BY DEF CallsInv, SnapshotInv
<1>4. lastRow \in Nat /\ lastRow' \in Nat /\ rows' \subseteq Nat
  BY TableIs DEF TableInv, IsTable
<1>5. ASSUME NEW z, z \in Nat, z <= lastRow
      PROVE  \A r \in rows' : r \in rows \/ ~(r <= z)
  BY <1>4, <1>5
<1>6. ASSUME NEW z, z \in Nat, z <= lastRow, NEW p, NEW items, NEW search,
             Honest(rows, p, items, search, z)
      PROVE  Honest(rows', p, items, search, z)
  BY <1>5, <1>6, HonestStays
<1>7. ASSUME NEW snapshot, Dated(rows, snapshot, s) PROVE Dated(rows', snapshot, s)
  BY <1>4, <1>5, <1>7 DEF Dated
<1>8. s \in 0..lastRow' /\ s \in Nat /\ s <= lastRow
  BY <1>4
<1>9. ShownFrom(s)'
  BY <1>1, <1>3, <1>6, <1>7, <1>8 DEF ShownFrom
<1>10. AnsweredFrom(s)'
  <2> SUFFICES ASSUME ticket \in DOMAIN asked, asked[ticket].answer # << >>
               PROVE  AnsweredFrom(s)'
    BY <1>1 DEF AnsweredFrom
  <2> DEFINE a == Head(asked[ticket].answer)
  <2>1. a \in PageAnswers
    BY DEF CallsInv, CallInv
  <2>2. a.snapshot \in Nat
    BY <2>1 DEF PageAnswers
  <2>3. Continues' = Continues
    BY <1>1 DEF Continues
  <2>4. /\ a.page = view.page /\ a.search = view.search
        /\ IF Continues
           THEN Honest(rows, a.page, a.items, a.search, s) /\ Dated(rows, a.snapshot, s)
           ELSE a.snapshot <= lastRow /\ Honest(rows, a.page, a.items, a.search, a.snapshot)
    BY <1>3 DEF AnsweredFrom
  <2>5. a' = a
    BY <1>1
  <2> HIDE DEF a
  <2>6. IF Continues
        THEN Honest(rows', a.page, a.items, a.search, s) /\ Dated(rows', a.snapshot, s)
        ELSE a.snapshot <= lastRow' /\ Honest(rows', a.page, a.items, a.search, a.snapshot)
    <3>1. CASE Continues
      <4>1. Honest(rows', a.page, a.items, a.search, s)
        BY <3>1, <1>6, <1>8, <2>4
      <4>2. Dated(rows', a.snapshot, s)
        BY <3>1, <1>7, <2>4
      <4> QED BY <3>1, <4>1, <4>2
    <3>2. CASE ~Continues
      <4>1. a.snapshot <= lastRow /\ a.snapshot <= lastRow'
        BY <3>2, <1>4, <2>2, <2>4
      <4>2. Honest(rows', a.page, a.items, a.search, a.snapshot)
        BY <3>2, <4>1, <1>6, <2>2, <2>4
      <4> QED BY <3>2, <4>1, <4>2
    <3> QED BY <3>1, <3>2
  <2> QED BY <1>1, <2>3, <2>4, <2>6 DEF AnsweredFrom, a
<1> QED BY <1>2, <1>8, <1>9, <1>10 DEF CallsInv, SnapshotInv

LEMMA LoadKeeps ==
  ASSUME CallsInv, NEW page \in Positive, NEW search \in Searches, Load(page, search),
         UNCHANGED screenVars, rows' = rows, lastRow' = lastRow
  PROVE  CallsInv' /\ Fetching'
<1>1. logs' = logs /\ failed' = failed /\ seen' = seen
  BY DEF screenVars
<1>2. CallInv'
  BY <1>1, LoadKeepsCalls DEF CallsInv
<1>3. ticket' \in DOMAIN asked' /\ asked'[ticket'].answer = << >>
  BY LoadIs DEF CallsInv
<1>4. PICK s \in 0..lastRow : ShownFrom(s)
  BY DEF CallsInv, SnapshotInv
<1>5. ShownFrom(s)'
  BY <1>1, <1>4 DEF ShownFrom
<1>6. AnsweredFrom(s)'
  BY <1>3 DEF AnsweredFrom
<1>7. Fetching'
  BY <1>3 DEF Fetching
<1> QED BY <1>2, <1>4, <1>5, <1>6, <1>7 DEF CallsInv, SnapshotInv

LEMMA ServeKeeps ==
  ASSUME TableInv, CallsInv, NEW t \in DOMAIN asked, ServePage(t)
  PROVE  CallsInv'
<1>1. /\ asked[t].answer = << >>
      /\ asked' = [asked EXCEPT ![t].answer = << Serving(asked[t]) >>]
      /\ logs' = logs /\ failed' = failed /\ seen' = seen /\ view' = view
      /\ ticket' = ticket /\ rows' = rows /\ lastRow' = lastRow
  BY ServeIs
<1>2. CallInv
  BY DEF CallsInv
<1>3. /\ DOMAIN asked' = DOMAIN asked /\ asked' = [u \in DOMAIN asked' |-> asked'[u]]
      /\ \A u \in DOMAIN asked : u # t => asked'[u] = asked[u]
  BY <1>1, <1>2 DEF CallInv
<1>4. PICK s \in 0..lastRow : ShownFrom(s) /\ AnsweredFrom(s)
  BY DEF CallsInv, SnapshotInv
<1>5. ShownFrom(s)'
  BY <1>1, <1>4 DEF ShownFrom
<1>6. CASE t # ticket
  <2>1. ticket \in DOMAIN asked => asked'[ticket] = asked[ticket]
    BY <1>3, <1>6
  <2>2. CallInv'
    BY <1>1, <1>2, <1>3, <2>1 DEF CallInv, CurrentCall, Carried
  <2>3. AnsweredFrom(s)'
    BY <1>1, <1>3, <1>4, <2>1 DEF AnsweredFrom, Continues
  <2> QED BY <1>1, <1>4, <1>5, <2>2, <2>3 DEF CallsInv, SnapshotInv
<1>7. CASE t = ticket
  <2> DEFINE call == asked[ticket]
             a == Serving(call)
  <2>1. call \in CurrentCall
    BY <1>2, <1>7 DEF CallInv
  <2>2. /\ call.page = view.page /\ call.search = view.search
        /\ call.snapshot = Carried(view.page, view.search).snapshot
        /\ call.before = Carried(view.page, view.search).before
    BY <2>1 DEF CurrentCall
  <2>3. asked'[ticket] = [call EXCEPT !.answer = << a >>]
    BY <1>1, <1>2, <1>7 DEF CallInv
  <2>4. /\ asked'[ticket].answer = << a >>
        /\ asked'[ticket].page = call.page /\ asked'[ticket].search = call.search
        /\ asked'[ticket].snapshot = call.snapshot /\ asked'[ticket].before = call.before
    <3> HIDE DEF a
    <3> QED BY <2>1, <2>3 DEF CurrentCall
  <2>5. asked'[ticket] \in
          [page : {view.page}, search : {view.search},
           snapshot : {Carried(view.page, view.search).snapshot},
           before : {Carried(view.page, view.search).before}, answer : {<< a >>}]
    <3> HIDE DEF a
    <3> QED BY <2>1, <2>3 DEF CurrentCall
  <2>6. view.page \in Positive /\ view.search \in Searches
    BY <1>2 DEF CallInv
  <2>7. /\ a.page = view.page /\ a.search = view.search /\ a.items = ItemsOf(call)
        /\ a.snapshot = SnapshotOf(call)
    BY <2>2 DEF Serving
  <2>8. IF Continues
        THEN Honest(rows, a.page, a.items, a.search, s) /\ Dated(rows, a.snapshot, s)
        ELSE a.snapshot <= lastRow /\ Honest(rows, a.page, a.items, a.search, a.snapshot)
    <3> HIDE DEF a, call
    <3>1. CASE Continues
      <4>1. /\ Dated(rows, SnapshotOf(call), s)
            /\ Honest(rows, call.page, ItemsOf(call), call.search, s)
        BY <3>1, <1>2, <1>4, <2>2, ServedOn
      <4> QED BY <4>1, <3>1, <2>2, <2>7
    <3>2. CASE ~Continues
      <4>1. call.snapshot = Unbounded /\ call.before = Unbounded
        <5>1. CASE view.page > 1 /\ view.search = logs.search
          <6>1. logs = EmptyPage
            BY <5>1, <3>2, <1>4 DEF Continues, ShownFrom
          <6>2. logs.snapshot = Unbounded /\ logs.items = << >>
            BY <6>1 DEF EmptyPage
          <6> QED BY <5>1, <6>2, <2>2 DEF Carried
        <5>2. CASE ~(view.page > 1 /\ view.search = logs.search)
          BY <5>2, <2>2 DEF Carried
        <5> QED BY <5>1, <5>2
      <4>2. /\ SnapshotOf(call) <= lastRow
            /\ Honest(rows, call.page, ItemsOf(call), call.search, SnapshotOf(call))
        BY <4>1, <2>2, <2>6, ServedAnew
      <4> QED BY <4>2, <3>2, <2>2, <2>7
    <3> QED BY <3>1, <3>2
  <2>9. a \in PageAnswers
    <3>1. a.items \in Seq(LogRows)
      BY <2>8 DEF Honest
    <3>2. SnapshotOf(call) \in Nat
      <4>1. Newest(rows) \in Nat /\ Unbounded \in Nat
        BY NewestIs, RowsAre DEF Positive
      <4>2. call.snapshot \in Nat
        <5>1. logs.snapshot \in Nat
          BY <1>2 DEF CallInv, PageAnswers
        <5> HIDE DEF call
        <5> QED BY <4>1, <5>1, <2>2 DEF Carried
      <4> HIDE DEF call
      <4> QED BY <4>1, <4>2 DEF SnapshotOf
    <3>3. PagesOf(call) \in Nat
      BY PagesAreCounted
    <3> HIDE DEF call
    <3>4. (IF PagesOf(call) = 0 THEN 1 ELSE PagesOf(call)) \in Nat
      BY <3>3
    <3>5. ItemsOf(call) \in Seq(LogRows)
      BY <2>7, <3>1
    <3> QED BY <2>2, <2>6, <3>2, <3>4, <3>5 DEF Serving, PageAnswers
  <2> HIDE DEF a, call
  <2>10. Head(<< a >>) = a
    OBVIOUS
  <2>11. CallInv'
    <3>1. asked'[ticket] \in CurrentCall'
      BY <1>1, <2>4, <2>5 DEF CurrentCall, Carried
    <3>2. asked'[ticket].answer = << Head(asked'[ticket].answer) >>
          /\ Head(asked'[ticket].answer) \in PageAnswers
      BY <2>4, <2>9, <2>10
    <3> QED BY <1>1, <1>2, <1>3, <1>7, <3>1, <3>2 DEF CallInv
  <2>12. AnsweredFrom(s)'
    <3>1. Continues' = Continues
      BY <1>1 DEF Continues
    <3>2. Head(asked'[ticket].answer) = a
      BY <2>4, <2>10
    <3> QED BY <1>1, <2>7, <2>8, <3>1, <3>2 DEF AnsweredFrom
  <2> QED BY <1>1, <1>4, <1>5, <2>11, <2>12 DEF CallsInv, SnapshotInv
<1> QED BY <1>6, <1>7

LEMMA ArriveKeeps ==
  ASSUME TableInv, CallsInv, NEW t \in DOMAIN asked, Arrive(t)
  PROVE  CallsInv'
<1>1. /\ asked[t].answer # << >> /\ asked' = WithoutCall(t)
      /\ view' = view /\ ticket' = ticket /\ rows' = rows /\ lastRow' = lastRow
  BY DEF Arrive, logVars
<1>2. CallInv
  BY DEF CallsInv
<1>3. /\ DOMAIN asked' = DOMAIN asked \ {t} /\ asked' = [u \in DOMAIN asked' |-> asked'[u]]
      /\ \A u \in DOMAIN asked : u # t => asked'[u] = asked[u]
  BY <1>1 DEF WithoutCall
<1>4. PICK s \in 0..lastRow : ShownFrom(s) /\ AnsweredFrom(s)
  BY DEF CallsInv, SnapshotInv
<1>5. CASE t # ticket
  <2>1. logs' = logs /\ failed' = failed /\ seen' = seen
    BY <1>5 DEF Arrive, IsCurrent, screenVars
  <2>2. /\ ticket \in DOMAIN asked' <=> ticket \in DOMAIN asked
        /\ ticket \in DOMAIN asked => asked'[ticket] = asked[ticket]
    BY <1>3, <1>5
  <2>3. DOMAIN asked' \subseteq 1..ticket
    BY <1>2, <1>3 DEF CallInv
  <2>4. CallInv'
    BY <1>1, <1>2, <1>3, <2>1, <2>2, <2>3 DEF CallInv, CurrentCall, Carried
  <2>5. ShownFrom(s)'
    BY <1>1, <1>4, <2>1 DEF ShownFrom
  <2>6. AnsweredFrom(s)'
    BY <1>1, <1>4, <2>1, <2>2 DEF AnsweredFrom, Continues
  <2> QED BY <1>1, <1>4, <2>4, <2>5, <2>6 DEF CallsInv, SnapshotInv
<1>6. CASE t = ticket
  <2> DEFINE a == Head(asked[ticket].answer)
  <2>1. logs' = a /\ seen' = SeenWith(a) /\ failed' = FALSE
    BY <1>6 DEF Arrive, IsCurrent
  <2>2. ticket \notin DOMAIN asked' /\ DOMAIN asked' \subseteq 1..ticket
    BY <1>2, <1>3, <1>6 DEF CallInv
  <2>3. a \in PageAnswers
    BY <1>1, <1>2, <1>6 DEF CallInv
  <2>4. /\ a.page = view.page /\ a.search = view.search
        /\ IF Continues
           THEN Honest(rows, a.page, a.items, a.search, s) /\ Dated(rows, a.snapshot, s)
           ELSE a.snapshot <= lastRow /\ Honest(rows, a.page, a.items, a.search, a.snapshot)
    BY <1>1, <1>4, <1>6 DEF AnsweredFrom
  <2> HIDE DEF a
  <2>5. CallInv'
    BY <1>1, <1>2, <1>3, <2>1, <2>2, <2>3, <2>4 DEF CallInv
  <2>6. \A z : AnsweredFrom(z)'
    BY <1>1, <2>2 DEF AnsweredFrom
  <2>7. a.page \in Positive /\ a.snapshot \in Nat
    BY <2>3 DEF PageAnswers
  <2>8. CASE Continues
    <3>1. /\ seen' = With(seen, a.page, a.items)
          /\ a.search = logs.search
      BY <2>1, <2>4, <2>8 DEF SeenWith, Continues
    <3>2. /\ DOMAIN seen' = DOMAIN seen \union {a.page}
          /\ seen' = [p \in DOMAIN seen' |-> seen'[p]] /\ seen'[a.page] = a.items
          /\ \A p \in DOMAIN seen : p # a.page => seen'[p] = seen[p]
      BY <3>1 DEF With
    <3>3. \A p \in DOMAIN seen' : p \in Positive /\ Honest(rows, p, seen'[p], a.search, s)
      <4> SUFFICES ASSUME NEW p \in DOMAIN seen'
                   PROVE  p \in Positive /\ Honest(rows, p, seen'[p], a.search, s)
        OBVIOUS
      <4>1. CASE p = a.page
        BY <4>1, <3>2, <2>4, <2>7, <2>8
      <4>2. CASE p # a.page
        BY <4>2, <3>1, <3>2, <1>4 DEF ShownFrom
      <4> QED BY <4>1, <4>2
    <3>4. DOMAIN seen' # {} /\ a.page \in DOMAIN seen'
      BY <3>2
    <3>5. Dated(rows, a.snapshot, s)
      BY <2>4, <2>8
    <3>6. ShownFrom(s)'
      BY <1>1, <2>1, <3>2, <3>3, <3>4, <3>5 DEF ShownFrom
    <3> QED BY <1>1, <2>5, <2>6, <3>6 DEF CallsInv, SnapshotInv
  <2>9. CASE ~Continues
    <3>1. PICK z \in Nat : z = a.snapshot
      BY <2>7
    <3>2. /\ DOMAIN seen' = {a.page} /\ seen' = [p \in DOMAIN seen' |-> seen'[p]]
          /\ seen'[a.page] = a.items
      <4>1. CASE a.page > 1 /\ a.search = logs.search
        <5>1. DOMAIN seen = {}
          BY <4>1, <2>4, <2>9 DEF Continues
        <5>2. seen' = With(seen, a.page, a.items)
          BY <4>1, <2>1 DEF SeenWith
        <5> QED BY <5>1, <5>2 DEF With
      <4>2. CASE ~(a.page > 1 /\ a.search = logs.search)
        <5>1. seen' = [p \in {a.page} |-> a.items]
          BY <4>2, <2>1 DEF SeenWith
        <5> QED BY <5>1
      <4> QED BY <4>1, <4>2
    <3>3. Honest(rows, a.page, a.items, a.search, z) /\ z <= lastRow /\ z \in Nat
      BY <2>4, <2>7, <2>9, <3>1
    <3>4. z \in 0..lastRow'
      <4>1. lastRow \in Nat
        BY DEF TableInv, IsTable
      <4> QED BY <3>3, <4>1, <1>1
    <3>5. Dated(rows, a.snapshot, z)
      BY <3>1 DEF Dated
    <3>6. \A p \in DOMAIN seen' : p = a.page
      BY <3>2
    <3>7. ShownFrom(z)'
      BY <1>1, <2>1, <2>7, <3>2, <3>3, <3>5, <3>6 DEF ShownFrom
    <3> QED BY <2>5, <2>6, <3>4, <3>7 DEF CallsInv, SnapshotInv
  <2> QED BY <2>8, <2>9
<1> QED BY <1>5, <1>6

LEMMA FailKeeps ==
  ASSUME CallsInv, NEW t \in DOMAIN asked, FailPage(t)
  PROVE  CallsInv'
<1>1. /\ asked' = WithoutCall(t) /\ failed' = (failed \/ t = ticket)
      /\ view' = view /\ ticket' = ticket /\ rows' = rows /\ lastRow' = lastRow
      /\ logs' = logs /\ seen' = seen
  BY DEF FailPage, IsCurrent, logVars
<1>2. CallInv
  BY DEF CallsInv
<1>3. /\ DOMAIN asked' = DOMAIN asked \ {t} /\ asked' = [u \in DOMAIN asked' |-> asked'[u]]
      /\ \A u \in DOMAIN asked : u # t => asked'[u] = asked[u]
  BY <1>1 DEF WithoutCall
<1>4. PICK s \in 0..lastRow : ShownFrom(s) /\ AnsweredFrom(s)
  BY DEF CallsInv, SnapshotInv
<1>5. /\ ticket \in DOMAIN asked' => ticket \in DOMAIN asked /\ asked'[ticket] = asked[ticket]
      /\ ticket \notin DOMAIN asked' => failed' \/ ticket \notin DOMAIN asked
  BY <1>1, <1>3
<1>6. DOMAIN asked' \subseteq 1..ticket
  BY <1>2, <1>3 DEF CallInv
<1>7. CallInv'
  <2>1. CASE ticket \in DOMAIN asked'
    BY <1>1, <1>2, <1>3, <1>5, <1>6, <2>1 DEF CallInv, CurrentCall, Carried
  <2>2. CASE ticket \notin DOMAIN asked'
    BY <1>1, <1>2, <1>3, <1>5, <1>6, <2>2 DEF CallInv
  <2> QED BY <2>1, <2>2
<1>8. ShownFrom(s)'
  BY <1>1, <1>4 DEF ShownFrom
<1>9. AnsweredFrom(s)'
  BY <1>1, <1>4, <1>5 DEF AnsweredFrom, Continues
<1> QED BY <1>1, <1>4, <1>7, <1>8, <1>9 DEF CallsInv, SnapshotInv

\* What is shown of one snapshot joins.
LEMMA PagesAgree == TableInv /\ CallsInv => PagesInv
<1> SUFFICES ASSUME TableInv, CallsInv PROVE PagesInv
  OBVIOUS
<1>1. ViewMatches
  <2>1. asked = << >> => ticket \notin DOMAIN asked
    OBVIOUS
  <2> QED BY <2>1 DEF ViewMatches, NoCalls, CallsInv, CallInv
<1>2. PICK s \in 0..lastRow : ShownFrom(s)
  BY DEF CallsInv, SnapshotInv
<1>3. s \in Nat
  OBVIOUS
<1>4. ASSUME NEW p \in DOMAIN seen, NEW q \in DOMAIN seen, p < q PROVE Follow(p, q)
  <2> DEFINE search == logs.search
             x(i) == seen[p][i]
             y(j) == seen[q][j]
  <2>1. /\ p \in Positive /\ q \in Positive
        /\ Honest(rows, p, seen[p], search, s) /\ Honest(rows, q, seen[q], search, s)
    BY <1>2 DEF ShownFrom
  <2>2. DOMAIN seen[p] = 1..Len(seen[p]) /\ DOMAIN seen[q] = 1..Len(seen[q])
    BY <2>1 DEF Honest
  <2>3. \A i \in DOMAIN seen[p] : OnPage(p, search, s, x(i))
    BY <2>1, <2>2 DEF Honest
  <2>4. \A j \in DOMAIN seen[q] : OnPage(q, search, s, y(j))
    BY <2>1, <2>2 DEF Honest
  <2> HIDE DEF search
  <2>5. \A i \in DOMAIN seen[p], j \in DOMAIN seen[q] : y(j) < x(i)
    BY <1>3, <1>4, <2>1, <2>3, <2>4, PagesInOrder
  <2>6. ASSUME q = p + 1, NEW r \in Found(search), NEW i \in DOMAIN seen[p],
               NEW j \in DOMAIN seen[q], r < x(i), r > y(j)
        PROVE  r \in Range(seen[p]) \union Range(seen[q])
    <3>1. r \in rows /\ r \in Matching(search)
      BY TableIs DEF TableInv, Found, Matching
    <3>2. y(j) < r
      <4>1. y(j) \in Matching(search) /\ r \in Nat
        BY <2>4, <3>1, TableIs DEF OnPage, TableInv
      <4>2. y(j) \in Nat
        BY <4>1, RowsAre DEF Matching, Positive
      <4> HIDE DEF y
      <4> QED BY <4>1, <4>2, <2>6
    <3>3. OnPage(p, search, s, r) \/ OnPage(p + 1, search, s, r)
      <4> DEFINE u == x(i)
                 v == y(j)
      <4>1. OnPage(p, search, s, u) /\ OnPage(p + 1, search, s, v) /\ r < u /\ v < r
        BY <2>3, <2>4, <2>6, <3>2
      <4> HIDE DEF u, v
      <4> QED BY <4>1, <1>3, <2>1, <3>1, BetweenPages
    <3>4. CASE OnPage(p, search, s, r)
      <4>1. \E k \in 1..Len(seen[p]) : seen[p][k] = r
        BY <3>1, <3>4, <2>1 DEF Honest
      <4> QED BY <4>1, <2>2 DEF Range
    <3>5. CASE OnPage(p + 1, search, s, r)
      <4>1. \E k \in 1..Len(seen[q]) : seen[q][k] = r
        BY <3>1, <3>5, <2>1, <2>6 DEF Honest
      <4> QED BY <4>1, <2>2 DEF Range
    <3> QED BY <3>3, <3>4, <3>5
  <2> QED BY <2>5, <2>6 DEF Follow, search
<1> QED BY <1>1, <1>4 DEF PagesInv, PagesJoin

-----------------------------------------------------------------------------
(* The events. *)

\* A first page has every row found, or is full and they are older than it.
LEMMA FirstRows ==
  ASSUME NEW S \in SUBSET Nat, IsFiniteSet(S), NEW r \in S
  PROVE  LET items == PageRows(NewestFirst(S), 0)
         IN  r \in Range(items) \/ (Len(items) = PageSize /\ r < Oldest(items))
<1> DEFINE s == NewestFirst(S)
           items == PageRows(s, 0)
<1>1. /\ s \in Seq(S) /\ Len(s) \in Nat
      /\ \A i \in 1..Len(s) : s[i] \in S /\ Cardinality({q \in S : q > s[i]}) = i - 1
      /\ \A x \in S : \E i \in 1..Len(s) : s[i] = x
  BY NewestFirstIs
<1> HIDE DEF s
<1>2. PICK j \in 1..Len(s) : s[j] = r
  BY <1>1
<1>3. /\ items \in Seq(S) /\ Len(items) <= PageSize /\ Len(items) \in Nat
      /\ \A i \in 1..Len(items) : 0 + i \in 1..Len(s) /\ items[i] = s[0 + i]
      /\ \A k \in 1..Len(s) : 0 < k /\ k <= 0 + PageSize => \E i \in 1..Len(items) : 0 + i = k
  <2>1. IsPart(items, s, S, 0)
    BY <1>1, PageRowsAre
  <2> HIDE DEF items
  <2> QED BY <2>1 DEF IsPart
<1> HIDE DEF items
<1>4. PageSize \in Nat \ {0}
  BY RowsAre DEF Positive
<1>5. CASE j <= PageSize
  <2>1. j \in 1..Len(items)
    BY <1>1, <1>2, <1>3, <1>4, <1>5
  <2>2. items[j] = r
    BY <2>1, <1>2, <1>3
  <2>3. r \in Range(items)
    BY <2>1, <2>2, <1>3 DEF Range
  <2> QED BY <2>3 DEF items, s
<1>6. CASE PageSize < j
  <2>1. PageSize \in 1..Len(s)
    BY <1>2, <1>4, <1>6
  <2>2. PageSize \in 1..Len(items) /\ Len(items) = PageSize
    BY <2>1, <1>3, <1>4
  <2>3. Oldest(items) = s[PageSize]
    BY <2>2, <1>3, <1>4 DEF Oldest
  <2> DEFINE z == s[PageSize]
             newer(x) == {q \in S : q > x}
  <2>4. z \in S /\ Cardinality(newer(z)) = PageSize - 1 /\ Cardinality(newer(r)) = j - 1
    BY <2>1, <1>1, <1>2
  <2>5. r \in Nat /\ z \in Nat
    BY <2>4
  <2> HIDE DEF z
  <2>6. ASSUME z <= r PROVE FALSE
    <3>1. \A q \in S : q > r => q > z
      <4>1. \A q \in S : q \in Nat
        OBVIOUS
      <4> QED BY <4>1, <2>5, <2>6
    <3>2. newer(r) \subseteq newer(z) /\ newer(z) \subseteq S
      BY <3>1
    <3> HIDE DEF newer
    <3>3. IsFiniteSet(newer(z))
      BY <3>2, FS_Subset
    <3>4. Cardinality(newer(r)) <= Cardinality(newer(z))
      BY <3>2, <3>3, FS_Subset
    <3> QED BY <3>4, <2>4, <1>2, <1>4, <1>6
  <2>7. r < z
    BY <2>5, <2>6
  <2> QED BY <2>2, <2>3, <2>7 DEF items, s, z
<1> QED BY <1>1, <1>2, <1>4, <1>5, <1>6

\* A channel takes an event, and gives up its oldest when it is full.
LEMMA ChannelTakes ==
  ASSUME ChannelInv, NEW e \in Nat
  PROVE  LET events == Overwriting(Append(unread, e))
         IN  /\ events \in Seq(Nat) /\ Len(events) <= Channel
             /\ e \in Range(events)
             /\ \A x \in Range(unread) :
                  x \in Range(events)
                    \/ (Len(Append(unread, e)) > Channel /\ Head(Append(unread, e)) = x)
<1> DEFINE all == Append(unread, e)
           n == Len(unread)
<1>1. unread \in Seq(Nat) /\ n \in Nat /\ n <= Channel /\ Channel \in Nat \ {0}
  BY RowsAre DEF ChannelInv, Positive
<1>2. /\ all \in Seq(Nat) /\ Len(all) = n + 1 /\ all[n + 1] = e
      /\ \A i \in 1..n : all[i] = unread[i]
  BY <1>1
<1> HIDE DEF all, n
<1>3. ASSUME NEW x \in Range(unread) PROVE \E i \in 1..n : all[i] = x
  BY <1>1, <1>2, <1>3 DEF Range, n
<1>4. CASE Len(all) > Channel
  <2>1. Overwriting(all) = Tail(all) /\ all # << >> /\ n = Channel
    BY <1>1, <1>2, <1>4 DEF Overwriting
  <2>2. /\ Tail(all) \in Seq(Nat) /\ Len(Tail(all)) = n
        /\ \A i \in 1..n : Tail(all)[i] = all[i + 1]
        /\ Head(all) = all[1]
    BY <2>1, <1>1, <1>2
  <2>3. ASSUME NEW i \in 2..(n + 1) PROVE all[i] \in Range(Tail(all))
    <3>1. i - 1 \in 1..n /\ (i - 1) + 1 = i
      BY <1>1
    <3>2. Tail(all)[i - 1] = all[i] /\ i - 1 \in DOMAIN Tail(all)
      BY <3>1, <2>2
    <3> QED BY <3>2 DEF Range
  <2>4. e \in Range(Tail(all))
    BY <2>1, <2>3, <1>1, <1>2
  <2>5. ASSUME NEW x \in Range(unread) PROVE x \in Range(Tail(all)) \/ Head(all) = x
    <3>1. PICK i \in 1..n : all[i] = x
      BY <1>3
    <3>2. i = 1 \/ i \in 2..(n + 1)
      BY <1>1
    <3> QED BY <3>1, <3>2, <2>2, <2>3
  <2> QED BY <2>1, <2>2, <2>4, <2>5, <1>4, <1>1 DEF all
<1>5. CASE ~(Len(all) > Channel)
  <2>1. Overwriting(all) = all
    BY <1>5 DEF Overwriting
  <2>2. n + 1 \in DOMAIN all /\ \A i \in 1..n : i \in DOMAIN all
    BY <1>1, <1>2
  <2>3. e \in Range(all) /\ \A x \in Range(unread) : x \in Range(all)
    BY <2>2, <1>2, <1>3 DEF Range
  <2>4. Len(all) <= Channel
    BY <1>1, <1>2, <1>5
  <2> QED BY <2>1, <2>3, <2>4, <1>2 DEF all
<1> QED BY <1>4, <1>5

LEMMA FetchingStays ==
  ASSUME Fetching, UNCHANGED << callVars, screenVars >>, announcedRow' = announcedRow,
         \A r \in rows' : r \in rows \/ ~(r <= announcedRow)
  PROVE  Fetching'
<1>1. ticket' = ticket /\ asked' = asked /\ view' = view /\ logs' = logs /\ failed' = failed
  BY DEF callVars, screenVars
<1>2. Covers(logs.items, logs.search) => Covers(logs.items, logs.search)'
  BY <1>1 DEF Covers, Found
<1>3. Covers(Head(asked[ticket].answer).items, view.search) =>
        Covers(Head(asked[ticket].answer).items, view.search)'
  BY <1>1 DEF Covers, Found
<1> QED BY <1>1, <1>2, <1>3 DEF Fetching

LEMMA ServeFetches ==
  ASSUME TableInv, CallsInv, Fetching, NEW t \in DOMAIN asked, ServePage(t), view.page = 1
  PROVE  Fetching'
<1>1. /\ asked[t].answer = << >>
      /\ asked' = [asked EXCEPT ![t].answer = << Serving(asked[t]) >>]
      /\ logs' = logs /\ failed' = failed /\ seen' = seen /\ view' = view
      /\ ticket' = ticket /\ rows' = rows /\ announcedRow' = announcedRow
  BY ServeIs
<1>2. CallInv
  BY DEF CallsInv
<1>3. /\ DOMAIN asked' = DOMAIN asked
      /\ \A u \in DOMAIN asked : u # t => asked'[u] = asked[u]
  BY <1>1, <1>2 DEF CallInv
<1>4. CASE t # ticket
  <2>1. ticket \in DOMAIN asked => asked'[ticket] = asked[ticket]
    BY <1>3, <1>4
  <2>2. ticket \in DOMAIN asked' <=> ticket \in DOMAIN asked
    BY <1>3
  <2> QED BY <1>1, <2>1, <2>2 DEF Fetching, Covers, Found
<1>5. CASE t = ticket
  <2> DEFINE call == asked[ticket]
             a == Serving(call)
  <2>1. call \in CurrentCall
    BY <1>2, <1>5 DEF CallInv
  <2>2. call.page = 1 /\ call.search = view.search
        /\ call.snapshot = Unbounded /\ call.before = Unbounded
    <3>1. Carried(view.page, view.search) = [snapshot |-> Unbounded, before |-> Unbounded]
      BY DEF Carried
    <3> QED BY <2>1, <3>1 DEF CurrentCall
  <2>3. asked'[ticket].answer = << a >>
    <3>1. asked'[ticket] = [call EXCEPT !.answer = << a >>]
      BY <1>1, <1>2, <1>5 DEF CallInv
    <3> HIDE DEF a
    <3> QED BY <2>1, <3>1 DEF CurrentCall
  <2>4. a.items = ItemsOf(call)
    BY DEF Serving
  <2>5. SnapshotOf(call) = Newest(rows) /\ OffsetOf(call) = 0
    <3>1. 1 \in Positive /\ Before(1) = 0
      BY PlacesBefore DEF Positive
    <3>2. call.page \in Positive
      BY <2>2, <3>1
    <3> HIDE DEF call
    <3> QED BY <2>2, <3>1, <3>2, ServedAnew DEF OffsetOf
  <2>6. Behind(rows, call.search, Newest(rows), Unbounded) = Found(view.search)
    <3>1. rows \subseteq LogRows /\ rows \subseteq Nat
      BY TableIs DEF TableInv
    <3>2. \A r \in rows : r <= Newest(rows) /\ r < Unbounded
      <4>1. \A r \in rows : r \in 1..lastRow /\ r < Unbounded
        BY <3>1, RowsAre DEF TableInv, IsTable
      <4>2. rows # {} => Newest(rows) = lastRow /\ lastRow \in Nat
        BY NewestIs DEF TableInv, IsTable
      <4> QED BY <4>1, <4>2
    <3> HIDE DEF call
    <3> QED BY <2>2, <3>1, <3>2 DEF Behind, Found, Matching
  <2>7. ItemsOf(call) = PageRows(NewestFirst(Found(view.search)), 0)
    <3> HIDE DEF call
    <3> QED BY <2>2, <2>5, <2>6 DEF ItemsOf
  <2>8. Covers(a.items, view.search)
    <3>1. Found(view.search) \subseteq LogRows
      BY TableIs DEF TableInv, Found
    <3>2. Found(view.search) \in SUBSET Nat /\ IsFiniteSet(Found(view.search))
      BY <3>1, RowsAre, ViewAssumption, FS_Subset DEF Positive
    <3>3. \A r \in Found(view.search) :
             \/ r \in Range(ItemsOf(call))
             \/ Len(ItemsOf(call)) = PageSize /\ r < Oldest(ItemsOf(call))
      BY <2>7, <3>2, FirstRows
    <3> HIDE DEF a, call
    <3> QED BY <2>4, <3>3 DEF Covers
  <2> HIDE DEF a, call
  <2>9. Head(asked'[ticket].answer) = a
    <3>1. Head(<< a >>) = a
      OBVIOUS
    <3> QED BY <2>3, <3>1
  <2>10. \A r \in Found(view.search)' : r <= announcedRow' =>
            \/ r \in Range(Head(asked'[ticket].answer).items)
            \/ Len(Head(asked'[ticket].answer).items) = PageSize
                 /\ r < Oldest(Head(asked'[ticket].answer).items)
    BY <1>1, <2>8, <2>9 DEF Covers, Found
  <2> QED BY <1>1, <1>3, <1>5, <2>10 DEF Fetching, Covers
<1> QED BY <1>4, <1>5

LEMMA ArriveFetches ==
  ASSUME CallsInv, Fetching, NEW t \in DOMAIN asked, Arrive(t)
  PROVE  Fetching'
<1>1. /\ asked[t].answer # << >> /\ asked' = WithoutCall(t)
      /\ view' = view /\ ticket' = ticket /\ rows' = rows /\ announcedRow' = announcedRow
  BY DEF Arrive, logVars
<1>2. /\ DOMAIN asked' = DOMAIN asked \ {t}
      /\ \A u \in DOMAIN asked : u # t => asked'[u] = asked[u]
  BY <1>1 DEF WithoutCall
<1>3. CASE t # ticket
  <2>1. logs' = logs /\ failed' = failed
    BY <1>3 DEF Arrive, IsCurrent, screenVars
  <2>2. /\ ticket \in DOMAIN asked' <=> ticket \in DOMAIN asked
        /\ ticket \in DOMAIN asked => asked'[ticket] = asked[ticket]
    BY <1>2, <1>3
  <2> QED BY <1>1, <2>1, <2>2 DEF Fetching, Covers, Found
<1>4. CASE t = ticket
  <2> DEFINE a == Head(asked[ticket].answer)
  <2>1. logs' = a
    BY <1>4 DEF Arrive, IsCurrent
  <2>2. a.search = view.search
    <3>1. PICK s \in 0..lastRow : AnsweredFrom(s)
      BY DEF CallsInv, SnapshotInv
    <3> QED BY <1>1, <1>4, <3>1 DEF AnsweredFrom
  <2>3. Covers(a.items, view.search)
    BY <1>1, <1>4 DEF Fetching
  <2>4. ticket' \notin DOMAIN asked'
    BY <1>1, <1>2, <1>4
  <2> HIDE DEF a
  <2>5. Covers(logs.items, logs.search)'
    BY <1>1, <2>1, <2>2, <2>3 DEF Covers, Found
  <2> QED BY <2>4, <2>5 DEF Fetching
<1> QED BY <1>3, <1>4

LEMMA FailFetches ==
  ASSUME Fetching, NEW t \in DOMAIN asked, FailPage(t)
  PROVE  Fetching'
<1>1. /\ asked' = WithoutCall(t) /\ failed' = (failed \/ t = ticket)
      /\ view' = view /\ ticket' = ticket /\ rows' = rows
      /\ logs' = logs /\ announcedRow' = announcedRow
  BY DEF FailPage, IsCurrent, logVars
<1>2. /\ DOMAIN asked' = DOMAIN asked \ {t}
      /\ \A u \in DOMAIN asked : u # t => asked'[u] = asked[u]
  BY <1>1 DEF WithoutCall
<1>3. CASE t # ticket
  <2>1. /\ ticket \in DOMAIN asked' <=> ticket \in DOMAIN asked
        /\ ticket \in DOMAIN asked => asked'[ticket] = asked[ticket]
    BY <1>2, <1>3
  <2>2. Covers(logs.items, logs.search) => Covers(logs.items, logs.search)'
    BY <1>1 DEF Covers, Found
  <2> QED BY <1>1, <1>3, <2>1, <2>2 DEF Fetching, Covers, Found
<1>4. CASE t = ticket
  BY <1>1, <1>2, <1>4 DEF Fetching
<1> QED BY <1>3, <1>4

-----------------------------------------------------------------------------
(* The whole step. *)

\* The steps that ask for a page.
Loading == \E page \in Positive, search \in Searches : Load(page, search)

LEMMA LoadingSteps ==
  ASSUME CallInv
  PROVE  /\ Ask => Loading
         /\ ReloadPage => Loading
         /\ Fire => UNCHANGED callVars \/ Loading
         /\ ChangeSection => UNCHANGED callVars \/ Loading
         /\ Fire /\ refreshNeedsLogs /\ section = "status" /\ view.page = 1 => Loading
         /\ ChangeSection /\ section' = "status" => Loading
<1>1. view.page \in Positive /\ view.search \in Searches
  BY DEF CallInv
<1>2. logs.page \in Positive /\ logs.pages \in Nat
  BY DEF CallInv, PageAnswers
<1>3. \A page \in 1..logs.pages : page \in Positive
  BY <1>2 DEF Positive
<1>4. 1 \in Positive
  BY DEF Positive
<1>5. Ask => Loading
  BY <1>1, <1>3, <1>4 DEF Ask, Loading
<1>6. ReloadPage => Loading
  BY <1>1, <1>2 DEF ReloadPage, Loading
<1>7. Fire => UNCHANGED callVars \/ Load(view.page, view.search)
  BY DEF Fire
<1>8. Fire /\ refreshNeedsLogs /\ section = "status" /\ view.page = 1 =>
        Load(view.page, view.search)
  BY DEF Fire
<1>9. ChangeSection => UNCHANGED callVars \/ Load(view.page, view.search)
  BY DEF ChangeSection
<1>10. ChangeSection /\ section' = "status" => Load(view.page, view.search)
  BY DEF ChangeSection
<1> QED BY <1>1, <1>5, <1>6, <1>7, <1>8, <1>9, <1>10 DEF Loading

LEMMA WriteRowStep ==
  ASSUME ViewIInv, NEW says \in BOOLEAN, WriteRow(says)
  PROVE  /\ TableInv' /\ ChannelInv'
         /\ lastRow <= lastRow' /\ \A r \in rows' : r \in rows \/ lastRow < r
         /\ \/ announcedRow' = announcedRow /\ unread' = unread
            \/ announcedRow' \in Range(unread')
<1>1. /\ lastRow + 1 \in LogRows /\ lastRow' = lastRow + 1
      /\ rows' = rows \union {lastRow + 1}
      /\ unread' = IF says THEN Overwriting(Append(unread, lastRow + 1)) ELSE unread
      /\ announcedRow' = IF says THEN lastRow + 1 ELSE announcedRow
  BY DEF WriteRow
<1>2. /\ lastRow \in Nat /\ rows \subseteq 1..lastRow
      /\ \A r \in rows, q \in 1..lastRow : r <= q => q \in rows
  BY DEF ViewIInv, TableInv, IsTable
<1>3. ChannelInv
  BY DEF ViewIInv
<1>4. lastRow + 1 \in Nat /\ lastRow + 1 < Unbounded
  BY <1>1, <1>2, RowsAre
<1>5. IsTable(rows', lastRow')
  <2>1. rows' \subseteq 1..lastRow'
    BY <1>1, <1>2
  <2>2. ASSUME NEW r \in rows', NEW q \in 1..lastRow', r <= q PROVE q \in rows'
    <3>1. CASE q = lastRow + 1
      BY <3>1, <1>1
    <3>2. CASE q # lastRow + 1
      <4>1. q \in 1..lastRow
        BY <3>2, <1>1, <1>2
      <4>2. r \in rows
        BY <4>1, <2>2, <1>1, <1>2
      <4> QED BY <4>1, <4>2, <2>2, <1>1, <1>2
    <3> QED BY <3>1, <3>2
  <2> QED BY <1>1, <1>4, <2>1, <2>2 DEF IsTable
<1>6. TableInv'
  BY <1>5 DEF TableInv
<1>7. CASE says
  <2>1. unread' \in Seq(Nat) /\ Len(unread') <= Channel /\ lastRow + 1 \in Range(unread')
    BY <1>1, <1>3, <1>4, <1>7, ChannelTakes
  <2>2. announcedRow' \in 0..lastRow' /\ announcedRow' \in Range(unread')
    BY <1>1, <1>2, <1>7, <2>1
  <2>3. ChannelInv'
    BY <2>1, <2>2 DEF ChannelInv
  <2> QED BY <1>1, <1>2, <1>6, <2>2, <2>3
<1>8. CASE ~says
  <2>1. unread' = unread /\ announcedRow' = announcedRow
    BY <1>1, <1>8
  <2>2. announcedRow \in 0..lastRow'
    BY <1>1, <1>2, <1>3 DEF ChannelInv
  <2>3. ChannelInv'
    BY <2>1, <2>2, <1>3 DEF ChannelInv
  <2> QED BY <1>1, <1>2, <1>6, <2>1, <2>3
<1> QED BY <1>7, <1>8

LEMMA OtherEventStep ==
  ASSUME ViewIInv, OtherEvent
  PROVE  /\ ChannelInv'
         /\ announcedRow' = announcedRow \/ announcedRow' = Nothing
         /\ announcedRow \in Range(unread) =>
              announcedRow' = Nothing \/ announcedRow' \in Range(unread')
<1> DEFINE all == Append(unread, Nothing)
<1>1. /\ unread' = Overwriting(all) /\ lastRow' = lastRow
      /\ announcedRow' = IF Overwritten(all) THEN Nothing ELSE announcedRow
  BY DEF OtherEvent
<1>2. ChannelInv /\ Nothing \in Nat
  BY DEF ViewIInv, Nothing
<1>3. /\ unread' \in Seq(Nat) /\ Len(unread') <= Channel
      /\ \A x \in Range(unread) : x \in Range(unread') \/ (Len(all) > Channel /\ Head(all) = x)
  BY <1>1, <1>2, ChannelTakes
<1>4. announcedRow' \in 0..lastRow'
  BY <1>1, <1>2 DEF ChannelInv, ViewIInv, TableInv, IsTable, Nothing
<1>5. ChannelInv'
  BY <1>3, <1>4 DEF ChannelInv
<1> QED BY <1>1, <1>3, <1>5 DEF Overwritten

LEMMA HearEventStep ==
  ASSUME ChannelInv, HearEvent
  PROVE  /\ ChannelInv'
         /\ announcedRow \in Range(unread) =>
              \/ announcedRow \in Range(unread') \/ announcedRow = Nothing
              \/ refreshPending' /\ refreshNeedsLogs'
<1>1. /\ unread # << >> /\ unread' = Tail(unread)
      /\ announcedRow' = announcedRow /\ lastRow' = lastRow
      /\ refreshPending' = TRUE
      /\ refreshNeedsLogs' = (refreshNeedsLogs \/ Head(unread) # Nothing)
  BY DEF HearEvent, Schedule
<1>2. unread \in Seq(Nat) /\ Len(unread) <= Channel /\ Channel \in Nat /\ Len(unread) \in Nat
  BY RowsAre DEF ChannelInv, Positive
<1>3. /\ Tail(unread) \in Seq(Nat) /\ Len(Tail(unread)) = Len(unread) - 1
      /\ Len(unread) \in Nat \ {0}
      /\ \A i \in 1..(Len(unread) - 1) : Tail(unread)[i] = unread[i + 1]
      /\ Head(unread) = unread[1]
  BY <1>1, <1>2
<1>4. ChannelInv'
  BY <1>1, <1>2, <1>3 DEF ChannelInv
<1>5. ASSUME NEW x \in Range(unread) PROVE x = Head(unread) \/ x \in Range(Tail(unread))
  <2>1. PICK i \in 1..Len(unread) : unread[i] = x
    BY <1>2 DEF Range
  <2>2. CASE i = 1
    BY <2>1, <2>2, <1>3
  <2>3. CASE i # 1
    <3>1. i - 1 \in 1..(Len(unread) - 1) /\ (i - 1) + 1 = i
      BY <2>3, <1>3
    <3>2. Tail(unread)[i - 1] = x /\ i - 1 \in DOMAIN Tail(unread)
      BY <3>1, <2>1, <1>3
    <3> QED BY <3>2 DEF Range
  <2> QED BY <2>2, <2>3
<1> QED BY <1>1, <1>4, <1>5

LEMMA CallsStep ==
  ASSUME ViewIInv, [ViewNext]_viewVars
  PROVE  TableInv' /\ CallsInv'
<1>1. TableInv /\ CallsInv /\ CallInv
  BY DEF ViewIInv, CallsInv
<1>2. ASSUME UNCHANGED << rows, lastRow >> PROVE TableInv'
  BY <1>1, <1>2 DEF TableInv
<1>3. ASSUME UNCHANGED << rows, lastRow, callVars, screenVars >> PROVE CallsInv'
  <2>1. lastRow \in Nat
    BY <1>1 DEF TableInv, IsTable
  <2> QED BY <1>1, <1>2, <1>3, <2>1, RowsChange
<1>4. ASSUME Loading, UNCHANGED << rows, lastRow, screenVars >> PROVE CallsInv'
  BY <1>1, <1>4, LoadKeeps DEF Loading
<1>5. ASSUME NEW says \in BOOLEAN, WriteRow(says) PROVE TableInv' /\ CallsInv'
  <2>1. UNCHANGED << callVars, screenVars >>
    BY <1>5 DEF WriteRow
  <2> QED BY <1>1, <1>5, <2>1, WriteRowStep, RowsChange
<1>6. CASE Delete
  <2>1. PICK r \in rows : rows' = {q \in rows : q > r}
    BY <1>6 DEF Delete
  <2>2. lastRow' = lastRow /\ UNCHANGED << callVars, screenVars >>
    BY <1>6 DEF Delete
  <2>3. TableInv'
    <3>1. /\ lastRow \in Nat /\ rows \subseteq 1..lastRow /\ lastRow < Unbounded
          /\ \A x \in rows, y \in 1..lastRow : x <= y => y \in rows
      BY <1>1 DEF TableInv, IsTable
    <3>2. ASSUME NEW x \in rows', NEW y \in 1..lastRow, x <= y PROVE y \in rows'
      <4>1. x \in rows /\ x > r /\ r \in Nat /\ x \in Nat
        BY <2>1, <3>1, <3>2
      <4>2. y \in rows /\ y > r
        BY <3>1, <3>2, <4>1
      <4> QED BY <2>1, <4>2
    <3>3. rows' \subseteq 1..lastRow
      BY <2>1, <3>1
    <3>4. IsTable(rows', lastRow')
      BY <2>2, <3>1, <3>2, <3>3 DEF IsTable
    <3> QED BY <3>4 DEF TableInv
  <2>4. lastRow <= lastRow' /\ \A q \in rows' : q \in rows
    BY <1>1, <2>1, <2>2 DEF TableInv, IsTable
  <2> QED BY <1>1, <2>2, <2>3, <2>4, RowsChange
<1>7. ASSUME NEW t \in DOMAIN asked, ServePage(t) \/ Arrive(t) \/ FailPage(t)
      PROVE  TableInv' /\ CallsInv'
  <2>1. UNCHANGED << rows, lastRow >>
    BY <1>7 DEF ServePage, Arrive, FailPage, logVars
  <2> QED BY <1>1, <1>2, <1>7, <2>1, ServeKeeps, ArriveKeeps, FailKeeps
<1>8. CASE Ask \/ ReloadPage
  <2>1. UNCHANGED << rows, lastRow, screenVars >>
    BY <1>8 DEF Ask, ReloadPage, logVars
  <2> QED BY <1>1, <1>2, <1>4, <1>8, <2>1, LoadingSteps
<1>9. CASE Fire \/ ChangeSection
  <2>1. UNCHANGED << rows, lastRow, screenVars >>
    BY <1>9 DEF Fire, ChangeSection, logVars
  <2>2. UNCHANGED callVars \/ Loading
    BY <1>1, <1>9, LoadingSteps
  <2> QED BY <1>2, <1>3, <1>4, <2>1, <2>2
<1>10. CASE OtherEvent \/ HearEvent \/ EndFire \/ Hide \/ Show \/ UNCHANGED viewVars
  <2>1. UNCHANGED << rows, lastRow, callVars, screenVars >>
    BY <1>10 DEF OtherEvent, HearEvent, EndFire, Hide, Show, viewVars, logVars
  <2> QED BY <1>2, <1>3, <2>1
<1> QED BY <1>5, <1>6, <1>7, <1>8, <1>9, <1>10 DEF ViewNext

LEMMA ChannelStep ==
  ASSUME ViewIInv, [ViewNext]_viewVars
  PROVE  ChannelInv'
<1>1. ASSUME UNCHANGED << unread, announcedRow, lastRow >> PROVE ChannelInv'
  BY <1>1 DEF ViewIInv, ChannelInv
<1>2. ASSUME NEW says \in BOOLEAN, WriteRow(says) PROVE ChannelInv'
  BY <1>2, WriteRowStep
<1>3. CASE OtherEvent
  BY <1>3, OtherEventStep
<1>4. CASE HearEvent
  BY <1>4, HearEventStep DEF ViewIInv
<1>5. ASSUME NEW t \in DOMAIN asked, ServePage(t) \/ Arrive(t) \/ FailPage(t)
      PROVE  ChannelInv'
  BY <1>1, <1>5 DEF ServePage, Arrive, FailPage, logVars
<1>6. CASE \/ Delete \/ Ask \/ ReloadPage \/ Fire \/ EndFire
           \/ ChangeSection \/ Hide \/ Show \/ UNCHANGED viewVars
  <2>1. UNCHANGED << unread, announcedRow, lastRow >>
    BY <1>6 DEF Delete, Ask, ReloadPage, Fire, EndFire, ChangeSection, Hide, Show,
                viewVars, logVars
  <2> QED BY <1>1, <2>1
<1> QED BY <1>2, <1>3, <1>4, <1>5, <1>6 DEF ViewNext

\* A refresh that is due while the window is visible has its timer.
LEMMA TimerStep ==
  ASSUME ViewIInv, [ViewNext]_viewVars
  PROVE  refreshPending' /\ visible' => timer' # "none"
<1> DEFINE P == refreshPending /\ visible => timer # "none"
<1>1. P
  BY DEF ViewIInv, EventInv
<1>2. ASSUME UNCHANGED << timerVars, visible >> PROVE P'
  BY <1>1, <1>2 DEF timerVars
<1>3. ASSUME NEW says \in BOOLEAN, WriteRow(says) PROVE P'
  BY <1>2, <1>3 DEF WriteRow, placeVars
<1>4. ASSUME NEW t \in DOMAIN asked, ServePage(t) \/ Arrive(t) \/ FailPage(t) PROVE P'
  BY <1>2, <1>4 DEF ServePage, Arrive, FailPage, placeVars
<1>5. CASE HearEvent
  BY <1>1, <1>5 DEF HearEvent, Schedule, placeVars
<1>6. CASE Fire
  BY <1>6 DEF Fire
<1>7. CASE EndFire
  BY <1>7 DEF EndFire, Rescheduled, placeVars
<1>8. CASE Show
  BY <1>1, <1>8 DEF Show, Schedule
<1>9. CASE Hide
  BY <1>9 DEF Hide
<1>10. CASE OtherEvent \/ Delete \/ Ask \/ ReloadPage \/ ChangeSection \/ UNCHANGED viewVars
  <2>1. UNCHANGED << timerVars, visible >>
    BY <1>10 DEF OtherEvent, Delete, Ask, ReloadPage, ChangeSection, viewVars, placeVars
  <2> QED BY <1>2, <2>1
<1>11. P'
  BY <1>3, <1>4, <1>5, <1>6, <1>7, <1>8, <1>9, <1>10 DEF ViewNext
<1> QED BY <1>11

\* No step loses an event: it goes from the channel to the timer, the call and the screen.
LEMMA EventStep ==
  ASSUME ViewIInv, [ViewNext]_viewVars
  PROVE  Awaited'
<1>1. /\ TableInv /\ CallsInv /\ CallInv /\ ChannelInv /\ Awaited
      /\ lastRow \in Nat /\ announcedRow \in 0..lastRow
  BY DEF ViewIInv, CallsInv, EventInv, TableInv, IsTable, ChannelInv
<1>2. ASSUME Fetching, UNCHANGED << callVars, screenVars, rows, announcedRow >>
      PROVE  Fetching'
  BY <1>2, FetchingStays
<1>3. ASSUME Loading PROVE Fetching'
  <2>1. PICK page \in Positive, search \in Searches : Load(page, search)
    BY <1>3 DEF Loading
  <2>2. ticket' \in DOMAIN asked' /\ asked'[ticket'].answer = << >>
    BY <1>1, <2>1, LoadIs
  <2> QED BY <2>2 DEF Fetching
<1>4. ASSUME UNCHANGED << unread, announcedRow, section, view, refreshPending, refreshNeedsLogs >>,
             section = "status" /\ view.page = 1 /\ Fetching => Fetching'
      PROVE  Awaited'
  BY <1>1, <1>4 DEF Awaited
<1>5. ASSUME NEW says \in BOOLEAN, WriteRow(says) PROVE Awaited'
  <2>1. /\ \A r \in rows' : r \in rows \/ lastRow < r
        /\ \/ announcedRow' = announcedRow /\ unread' = unread
           \/ announcedRow' \in Range(unread')
    BY <1>5, WriteRowStep
  <2>2. UNCHANGED << callVars, screenVars, timerVars, placeVars >>
    BY <1>5 DEF WriteRow
  <2>3. CASE announcedRow' = announcedRow /\ unread' = unread
    <3>1. \A r \in rows' : r \in rows \/ ~(r <= announcedRow)
      <4>1. \A r \in rows' : r \in Nat
        <5>1. TableInv'
          BY <1>5, WriteRowStep
        <5> QED BY <5>1, TableIs DEF TableInv
      <4> QED BY <1>1, <2>1, <4>1
    <3>2. Fetching => Fetching'
      BY <2>2, <2>3, <3>1, FetchingStays
    <3> QED BY <1>4, <2>2, <2>3, <3>2 DEF callVars, timerVars, placeVars
  <2>4. CASE announcedRow' \in Range(unread')
    BY <2>4 DEF Awaited
  <2> QED BY <2>1, <2>3, <2>4
<1>6. CASE OtherEvent
  <2>1. /\ announcedRow' = announcedRow \/ announcedRow' = Nothing
        /\ announcedRow \in Range(unread) =>
             announcedRow' = Nothing \/ announcedRow' \in Range(unread')
    BY <1>6, OtherEventStep
  <2>2. UNCHANGED << rows, callVars, screenVars, timerVars, placeVars >>
    BY <1>6 DEF OtherEvent
  <2>3. announcedRow' = announcedRow /\ Fetching => Fetching'
    BY <1>2, <2>2
  <2> QED BY <1>1, <2>1, <2>2, <2>3 DEF Awaited, callVars, timerVars, placeVars
<1>7. CASE Delete
  <2>1. \A r \in rows' : r \in rows
    BY <1>7 DEF Delete
  <2>2. UNCHANGED << unread, announcedRow, callVars, screenVars, timerVars, placeVars >>
    BY <1>7 DEF Delete
  <2>3. Fetching => Fetching'
    BY <2>1, <2>2, FetchingStays
  <2> QED BY <1>4, <2>2, <2>3 DEF callVars, timerVars, placeVars
<1>8. CASE Ask \/ ReloadPage
  BY <1>1, <1>3, <1>8, LoadingSteps DEF Awaited
<1>9. ASSUME NEW t \in DOMAIN asked, ServePage(t) \/ Arrive(t) \/ FailPage(t)
      PROVE  Awaited'
  <2>1. UNCHANGED << unread, announcedRow, view, timerVars, placeVars >>
    BY <1>9 DEF ServePage, Arrive, FailPage, logVars
  <2>2. view.page = 1 /\ Fetching => Fetching'
    BY <1>1, <1>9, ServeFetches, ArriveFetches, FailFetches
  <2> QED BY <1>4, <2>1, <2>2 DEF timerVars, placeVars
<1>10. CASE HearEvent
  <2>1. announcedRow \in Range(unread) =>
          \/ announcedRow \in Range(unread') \/ announcedRow = Nothing
          \/ refreshPending' /\ refreshNeedsLogs'
    BY <1>1, <1>10, HearEventStep
  <2>2. UNCHANGED << rows, announcedRow, callVars, screenVars, placeVars >>
    BY <1>10 DEF HearEvent
  <2>3. refreshNeedsLogs => refreshPending' /\ refreshNeedsLogs'
    BY <1>10 DEF HearEvent, Schedule
  <2>4. Fetching => Fetching'
    BY <1>2, <2>2
  <2> QED BY <1>1, <2>1, <2>2, <2>3, <2>4 DEF Awaited, callVars, placeVars
<1>11. CASE Fire
  <2>1. UNCHANGED << unread, rows, announcedRow, screenVars, section >>
    BY <1>11 DEF Fire, logVars, placeVars
  <2>2. CASE Loading
    BY <1>3, <2>2 DEF Awaited
  <2>3. CASE UNCHANGED callVars /\ ~(refreshNeedsLogs /\ section = "status" /\ view.page = 1)
    <3>1. Fetching => Fetching'
      BY <1>2, <2>1, <2>3
    <3> QED BY <1>1, <2>1, <2>3, <3>1 DEF Awaited, callVars
  <2> QED BY <1>1, <1>11, <2>2, <2>3, LoadingSteps
<1>12. CASE ChangeSection
  <2>1. section' \in {"proxies", "status"}
    BY <1>12 DEF ChangeSection
  <2>2. CASE section' = "status"
    BY <1>1, <1>3, <1>12, <2>2, LoadingSteps DEF Awaited
  <2>3. CASE section' = "proxies"
    BY <2>3 DEF Awaited
  <2> QED BY <2>1, <2>2, <2>3
<1>13. CASE Show
  BY <1>13 DEF Show, Schedule, Awaited
<1>14. CASE EndFire \/ Hide \/ UNCHANGED viewVars
  <2>1. UNCHANGED << unread, announcedRow, rows, section, callVars, screenVars,
                     refreshPending, refreshNeedsLogs >>
    BY <1>14 DEF EndFire, Hide, viewVars, logVars, timerVars, placeVars
  <2> QED BY <1>2, <1>4, <2>1 DEF callVars
<1> QED BY <1>5, <1>6, <1>7, <1>8, <1>9, <1>10, <1>11, <1>12, <1>13, <1>14 DEF ViewNext

LEMMA ViewStep == ViewIInv /\ [ViewNext]_viewVars => ViewIInv'
<1> SUFFICES ASSUME ViewIInv, [ViewNext]_viewVars PROVE ViewIInv'
  OBVIOUS
<1>1. TableInv' /\ CallsInv'
  BY CallsStep
<1>2. ChannelInv'
  BY ChannelStep
<1>3. EventInv'
  BY TimerStep, EventStep DEF EventInv
<1> QED BY <1>1, <1>2, <1>3 DEF ViewIInv, CallsInv

LEMMA ViewInduction == ViewSpec => []ViewIInv
<1> QED BY ViewStart, ViewStep, PTL DEF ViewSpec

\* The page on screen and the pages turned, in every interleaving: PagesInv.
THEOREM PagesHold == ViewSpec => []PagesInv
<1>1. ViewIInv => PagesInv
  BY PagesAgree DEF ViewIInv, CallsInv
<1> QED BY <1>1, ViewInduction, PTL

\* With nothing under way no event has been forgotten: LogsCatchUp.
THEOREM LogsHold == ViewSpec => []LogsCatchUp
<1>1. ViewIInv => LogsCatchUp
  <2> SUFFICES ASSUME ViewIInv, AtRest, visible, section = "status", logs.page = 1,
                      NEW r \in Found(logs.search), r <= announcedRow
               PROVE  \/ r \in Range(logs.items)
                      \/ Len(logs.items) = PageSize /\ r < Oldest(logs.items)
    BY DEF LogsCatchUp
  <2>1. ticket \notin DOMAIN asked /\ ~failed /\ unread = << >> /\ timer = "none"
    BY DEF AtRest, NoCalls
  <2>2. ~refreshPending /\ view.page = 1 /\ Range(unread) = {}
    BY <2>1 DEF ViewIInv, EventInv, CallInv, Range
  <2>3. announcedRow # Nothing
    <3>1. r \in Nat \ {0}
      BY TableIs, RowsAre DEF ViewIInv, TableInv, Found, Positive
    <3> QED BY <3>1 DEF Nothing
  <2>4. Fetching
    BY <2>2, <2>3 DEF ViewIInv, EventInv, Awaited
  <2>5. Covers(logs.items, logs.search)
    BY <2>1, <2>4 DEF Fetching
  <2> QED BY <2>5 DEF Covers
<1> QED BY <1>1, ViewInduction, PTL
=============================================================================
