--------------------------- MODULE DispatchProofs ---------------------------
(***************************************************************************)
(* Theorems about the dispatch of connections (module Dispatch), for every *)
(* number of nodes, requests, targets, administrators and permits.         *)
(*                                                                         *)
(*   TypeCorrect             every variable keeps its type                 *)
(*   DialCapacityHolds       the dial limits survive edits and cancels     *)
(*   HalfOpenHasOwnerHolds   no breaker is stuck half open                 *)
(*   EvidenceIsCurrentHolds  edits one after another leave no stale        *)
(*                           outcome in a breaker                          *)
(*   ActiveIsLiveHolds       the load counts are exact                     *)
(*   ReadinessIsProvenHolds  ready is a statement about the present row    *)
(*   TrialAwaitsOutcomeHolds the owner of a trial is still to be judged    *)
(*   UnjudgedByRival         the one way in which it is not                *)
(*                                                                         *)
(* Each invariant is made inductive by facts about leases that the code    *)
(* gets from ownership: LeaseShape (a task has a lease exactly between a   *)
(* reservation and the drop of it) and PermitsHeld (a permit is out for    *)
(* every dial in progress).                                                *)
(***************************************************************************)
EXTENDS Dispatch, TLAPS, FiniteSetTheorems

\* The places of a task at which it owns a ConnectionLease.
LeaseStates == {"dialing", "settling", "recordProxy", "recordTarget",
                "dropping", "tunnel", "answered"}

\* A lease exists exactly there, and is a lease of some node; a dial that may
\* be taken back from the attempts was counted.
LeaseShape ==
    \A r \in Requests :
        /\ pc[r] \in LeaseStates => lease[r].node \in Nodes
        /\ pc[r] \notin LeaseStates => lease[r] = NoLease
        /\ pc[r] \in {"dialing", "settling"} => attempted[r] >= 1

\* The operations of a breaker return a breaker.
LEMMA BreakerTypes ==
    /\ NewBreaker \in Breakers
    /\ \A b \in Breakers :
         /\ RecordSuccess(b) \in Breakers
         /\ CancelHalfOpen(b) \in Breakers
         /\ \A r \in Requests : TryBeginAttempt(b, r) \in Breakers
         /\ \A r \in Requests : Forget(b, r) \in Breakers
         /\ \A t \in Thresholds : RecordFailure(b, t) \in Breakers
         /\ \A longer \in BOOLEAN : ApplyTimeout(b, longer) \in Breakers
<1> USE TokenAssumption, MaxFailuresAssumption, DispatchAssumption
    DEF Breakers, Tokens, NewBreaker
<1>1. NewBreaker \in Breakers
  OBVIOUS
<1>2. ASSUME NEW b \in Breakers
      PROVE  /\ RecordSuccess(b) \in Breakers
             /\ CancelHalfOpen(b) \in Breakers
             /\ \A r \in Requests : TryBeginAttempt(b, r) \in Breakers
             /\ \A r \in Requests : Forget(b, r) \in Breakers
             /\ \A t \in Thresholds : RecordFailure(b, t) \in Breakers
             /\ \A longer \in BOOLEAN : ApplyTimeout(b, longer) \in Breakers
  <2>1. RecordSuccess(b) \in Breakers
    BY DEF RecordSuccess
  <2>5. CancelHalfOpen(b) \in Breakers
    BY DEF CancelHalfOpen
  <2>2. ASSUME NEW r \in Requests
        PROVE  TryBeginAttempt(b, r) \in Breakers /\ Forget(b, r) \in Breakers
    BY DEF TryBeginAttempt, Forget
  <2>3. ASSUME NEW t \in Thresholds PROVE RecordFailure(b, t) \in Breakers
    BY DEF RecordFailure
  <2>4. ASSUME NEW longer \in BOOLEAN PROVE ApplyTimeout(b, longer) \in Breakers
    BY DEF ApplyTimeout
  <2> QED
    BY <2>1, <2>2, <2>3, <2>4, <2>5
<1> QED
  BY <1>1, <1>2

\* Writing one field of a record keeps the record's type.
LEMMA FieldTypes ==
    /\ \A b \in Breakers : [b EXCEPT !.cooled = TRUE] \in Breakers
    /\ \A l \in Leases : [l EXCEPT !.dial = FALSE] \in Leases
    /\ \A c \in Commands : [c EXCEPT !.pc = "written"] \in Commands
    /\ \A p \in Probes :
         /\ [p EXCEPT !.pc = "checked"] \in Probes
         /\ [p EXCEPT !.pc = "record"] \in Probes
         /\ [p EXCEPT !.pc = "publish"] \in Probes
<1>1. ASSUME NEW b \in Breakers PROVE [b EXCEPT !.cooled = TRUE] \in Breakers
  BY DEF Breakers
<1>2. ASSUME NEW l \in Leases PROVE [l EXCEPT !.dial = FALSE] \in Leases
  BY DEF Leases
<1>3. ASSUME NEW c \in Commands
      PROVE  [c EXCEPT !.pc = "written"] \in Commands
  BY DEF Commands
<1>4. ASSUME NEW p \in Probes
      PROVE  /\ [p EXCEPT !.pc = "checked"] \in Probes
             /\ [p EXCEPT !.pc = "record"] \in Probes
             /\ [p EXCEPT !.pc = "publish"] \in Probes
  BY DEF Probes
<1> QED
  BY <1>1, <1>2, <1>3, <1>4

\* Type correctness of the actions of a request.
LEMMA RequestTypes ==
    ASSUME TypeOK, LeaseShape, NEW r \in Requests, RequestStep(r)
    PROVE  TypeOK'
<1> USE DispatchAssumption
    DEF TypeOK, RequestStates, Outcomes, Connected, Failures, Answers,
        requestVars, capacityVars, circuitVars, configVars
<1>1. CASE Arrive(r)
  BY <1>1 DEF Arrive
<1>2. CASE AcquireGlobal(r)
  BY <1>2 DEF AcquireGlobal
<1>3. CASE RejectNotReady(r)
  BY <1>3 DEF RejectNotReady, GiveUp, ReturnGlobal, RetainSlots
<1>4. CASE Park(r)
  BY <1>4 DEF Park, GiveUp, ReturnGlobal, RetainSlots
<1>5. CASE Exhaust(r)
  BY <1>5 DEF Exhaust, GiveUp, ReturnGlobal, RetainSlots
<1>6. CASE Wake(r)
  BY <1>6 DEF Wake
<1>21. CASE Await(r)
  BY <1>21 DEF Await
<1>7. CASE SettleStale(r)
  BY <1>7 DEF SettleStale, LeaseShape
<1>8. CASE SettleFailed(r)
  BY <1>8 DEF SettleFailed
<1>9. CASE Leave(r)
  BY <1>9 DEF Leave
<1>10. CASE Observe(r)
  BY <1>10 DEF Observe
<1>11. ASSUME NEW n \in Nodes, Reserve(r, n) PROVE TypeOK'
  <2>1. slots' \in [Nodes -> SUBSET Requests]
    BY <1>11 DEF Reserve, RetainSlots
  <2>2. target' \in [Nodes -> [Targets -> Breakers]]
    <3> DEFINE b == TryBeginAttempt(target[n][TargetOf[r]], r)
    <3>1. target \in [Nodes -> [Targets -> Breakers]] /\ TargetOf[r] \in Targets
      OBVIOUS
    <3>2. b \in Breakers
      <4> HIDE DEF TypeOK, Breakers
      <4>1. target[n][TargetOf[r]] \in Breakers
        BY <3>1
      <4> QED
        BY <4>1, BreakerTypes
    <3>3. target' = [target EXCEPT ![n][TargetOf[r]] = b]
      BY <1>11 DEF Reserve
    <3> HIDE DEF TypeOK, Breakers, b
    <3> QED
      BY <3>1, <3>2, <3>3
  <2>3. breaker' \in [Nodes -> Breakers]
    <3>1. breaker \in [Nodes -> Breakers]
      OBVIOUS
    <3>2. TryBeginAttempt(breaker[n], r) \in Breakers
      BY <3>1, BreakerTypes
    <3>3. breaker' = [breaker EXCEPT ![n] = TryBeginAttempt(@, r)]
      BY <1>11 DEF Reserve
    <3> HIDE DEF TypeOK, Breakers
    <3> QED
      BY <3>1, <3>2, <3>3
  <2>4. lease' \in [Requests -> Leases]
    BY <1>11 DEF Reserve, Leases
  <2>5. trials' \in [Nodes -> SUBSET Requests]
    BY <1>11 DEF Reserve
  <2> QED
    BY <1>11, <2>1, <2>2, <2>3, <2>4, <2>5 DEF Reserve
<1>12. ASSUME NEW result \in Connected \cup Failures, FinishDial(r, result) PROVE TypeOK'
  BY <1>12 DEF FinishDial
<1>13. CASE SettleConnected(r)
  <2>1. lease' \in [Requests -> Leases]
    <3>1. [lease[r] EXCEPT !.dial = FALSE] \in Leases
      BY FieldTypes
    <3> QED
      BY <1>13, <3>1 DEF SettleConnected
  <2>2. pc' \in [Requests -> RequestStates]
    BY <1>13 DEF SettleConnected
  <2> QED
    BY <1>13, <2>1, <2>2 DEF SettleConnected
<1>14. CASE RecordProxy(r)
  <2>1. breaker' \in [Nodes -> Breakers]
    BY <1>14, BreakerTypes DEF RecordProxy
  <2> QED
    BY <1>14, <2>1 DEF RecordProxy, Leases
<1>15. CASE RecordTarget(r)
  <2>1. target' \in [Nodes -> [Targets -> Breakers]]
    <3> DEFINE b == target[lease[r].node][TargetOf[r]]
    <3>1. lease[r].node \in Nodes
      BY <1>15 DEF RecordTarget, LeaseShape, LeaseStates
    <3>2. b \in Breakers
      BY <3>1
    <3>3. /\ CancelHalfOpen(b) \in Breakers
          /\ RecordFailure(b, threshold) \in Breakers
          /\ NewBreaker \in Breakers
      BY <3>2, BreakerTypes
    <3> QED
      BY <1>15, <3>3 DEF RecordTarget
  <2> QED
    BY <1>15, <2>1 DEF RecordTarget
<1>16. ASSUME DropLease(r)
      PROVE  /\ slots' \in [Nodes -> SUBSET Requests]
             /\ global' \subseteq Requests
             /\ registered' \subseteq Requests
             /\ active' \in [Nodes -> Int]
             /\ breaker' \in [Nodes -> Breakers]
             /\ target' \in [Nodes -> [Targets -> Breakers]]
             /\ lease' \in [Requests -> Leases]
             /\ trials' \in [Nodes -> SUBSET Requests]
  <2>1. breaker' \in [Nodes -> Breakers]
    BY <1>16, BreakerTypes DEF DropLease
  <2>2. target' \in [Nodes -> [Targets -> Breakers]]
    BY <1>16, BreakerTypes DEF DropLease
  <2>3. lease' \in [Requests -> Leases]
    BY <1>16 DEF DropLease, NoLease, Leases
  <2>4. active' \in [Nodes -> Int]
    <3> DEFINE m == lease[r].node
    <3>1. active' = [active EXCEPT ![m] = active[m] - 1]
      BY <1>16 DEF DropLease, ActiveWithout
    <3>2. m \in Nodes => active[m] - 1 \in Int
      OBVIOUS
    <3> QED
      BY <3>1, <3>2
  <2>8. global' \subseteq Requests
    BY <1>16 DEF DropLease
  <2>5. slots' \in [Nodes -> SUBSET Requests]
    BY <1>16 DEF DropLease
  <2>6. trials' \in [Nodes -> SUBSET Requests]
    BY <1>16 DEF DropLease
  <2>7. registered' \subseteq Requests
    BY <1>16 DEF DropLease, WaitersAfterDrop
  <2> QED
    BY <2>1, <2>2, <2>3, <2>4, <2>5, <2>6, <2>7, <2>8
<1>17. CASE Retry(r)
  <2>1. queue' \in Seq(Requests)
    BY <1>17 DEF Retry
  <2>2. pc' \in [Requests -> RequestStates] /\ outcome' \in [Requests -> Outcomes]
    BY <1>17 DEF Retry
  <2> QED
    BY <1>17, <1>16, <2>1, <2>2 DEF Retry
<1>18. CASE CloseTunnel(r)
  BY <1>18, <1>16 DEF CloseTunnel
<1>19. CASE Deadline(r)
  <2>1. ASSUME NEW k \in 1..Len(queue)
        PROVE  SubSeq(queue, 1, k - 1) \o SubSeq(queue, k + 1, Len(queue))
                 \in Seq(Requests)
    <3>1. SubSeq(queue, 1, k - 1) \in Seq(Requests)
      OBVIOUS
    <3>2. SubSeq(queue, k + 1, Len(queue)) \in Seq(Requests)
      OBVIOUS
    <3> QED
      BY <3>1, <3>2
  <2>2. queue' \in Seq(Requests)
    <3>1. queue \in Seq(Requests)
      OBVIOUS
    <3>2. \/ queue' = queue
          \/ \E k \in 1..Len(queue) :
                queue' = SubSeq(queue, 1, k - 1)
                           \o SubSeq(queue, k + 1, Len(queue))
      BY <1>19 DEF Deadline
    <3> HIDE DEF TypeOK
    <3> QED
      BY <2>1, <3>1, <3>2
  <2> QED
    BY <1>19, <1>16, <2>2 DEF Deadline
<1>20. ASSUME NEW status \in Answers, Answer(r, status) PROVE TypeOK'
  BY <1>20 DEF Answer
<1> QED
  BY <1>1, <1>2, <1>3, <1>4, <1>5, <1>6, <1>7, <1>8, <1>9, <1>10, <1>11, <1>12, <1>13, <1>14, <1>15, <1>16, <1>17, <1>18, <1>19, <1>20,
     <1>21
     DEF RequestStep, Select, Settle

\* Type correctness of the commands of administrators.
LEMMA CommandTypes ==
    ASSUME TypeOK, NEW a \in Admins, CommandStep(a)
    PROVE  TypeOK'
<1> USE DispatchAssumption
    DEF TypeOK, Commands, NoCommand, requestVars, capacityVars, circuitVars, configVars
<1>1. ASSUME NEW n \in Nodes, NEW value \in Configs \cup {"off", "gone"},
             BeginCommand(a, n, value)
      PROVE  TypeOK'
  BY <1>1 DEF BeginCommand
<1>2. CASE PublishCommand(a)
  <2> DEFINE n == admin[a].node
             value == admin[a].cfg
  <2>1. value \in Configs \cup {"off", "gone"}
    OBVIOUS
  <2>2. routingGen' \in 1..MaxGen
    BY <1>2 DEF PublishCommand
  <2>3. nodeGen' \in [Nodes -> 0..MaxGen]
    BY <1>2 DEF PublishCommand
  <2>4. proof' \in [Nodes -> Proofs]
    BY <1>2 DEF PublishCommand, Proofs, NoProof
  <2>5. admin' \in [Admins -> Commands]
    <3>1. [admin[a] EXCEPT !.pc = "written"] \in Commands
      BY FieldTypes
    <3>2. \/ admin' = [admin EXCEPT ![a] = NoCommand]
          \/ admin' = [admin EXCEPT ![a].pc = "written"]
      BY <1>2 DEF PublishCommand
    <3>3. NoCommand \in Commands /\ admin \in [Admins -> Commands]
      OBVIOUS
    <3> HIDE DEF TypeOK, Commands, NoCommand
    <3> QED
      BY <3>1, <3>2, <3>3
  <2>6. cfg' \in [Nodes -> Configs \cup {"off", "gone"}]
    BY <1>2, <2>1 DEF PublishCommand
  <2> QED
    BY <1>2, <2>2, <2>3, <2>4, <2>5, <2>6 DEF PublishCommand
<1>3. CASE FinishCommand(a)
  <2>1. breaker' \in [Nodes -> Breakers]
    <3>1. breaker \in [Nodes -> Breakers] /\ NewBreaker \in Breakers
      BY BreakerTypes
    <3>2. \/ breaker' = [breaker EXCEPT ![admin[a].node] = NewBreaker]
          \/ breaker' = breaker
      BY <1>3 DEF FinishCommand
    <3> HIDE DEF TypeOK, Breakers, NewBreaker
    <3> QED
      BY <3>1, <3>2
  <2>2. target' \in [Nodes -> [Targets -> Breakers]]
    <3>1. [t \in Targets |-> NewBreaker] \in [Targets -> Breakers]
      BY BreakerTypes
    <3> QED
      BY <1>3, <3>1 DEF FinishCommand
  <2>3. slots' \in [Nodes -> SUBSET Requests]
    BY <1>3 DEF FinishCommand, RetainSlots
  <2>4. /\ evidence' \in [Nodes -> SUBSET (0..MaxGen)]
        /\ trials' \in [Nodes -> SUBSET Requests]
    BY <1>3 DEF FinishCommand
  <2>5. admin' \in [Admins -> Commands]
    BY <1>3 DEF FinishCommand
  <2> QED
    BY <1>3, <2>1, <2>2, <2>3, <2>4, <2>5 DEF FinishCommand
<1> QED
  BY <1>1, <1>2, <1>3 DEF CommandStep

\* Type correctness of the steps of a probe.
LEMMA ProbeTypes ==
    ASSUME TypeOK, NEW n \in Nodes, ProbeStep(n)
    PROVE  TypeOK'
<1>1. probe \in [Nodes -> Probes] /\ probe[n] \in Probes
      /\ nodeGen[n] \in 0..MaxGen /\ cfg[n] \in Configs \cup {"off", "gone"}
  BY DEF TypeOK
<1>2. NoProbe \in Probes
  BY DispatchAssumption DEF NoProbe, Probes
<1>3. /\ [probe[n] EXCEPT !.pc = "testing", !.gen = nodeGen[n]] \in Probes
      /\ [pc |-> "read", gen |-> 0, cfg |-> cfg[n]] \in Probes
  <2>1. 0 \in 0..MaxGen
    BY DispatchAssumption
  <2>2. ASSUME NEW p \in Probes, NEW g \in 0..MaxGen
        PROVE  [p EXCEPT !.pc = "testing", !.gen = g] \in Probes
    BY DEF Probes
  <2>3. ASSUME NEW g \in 0..MaxGen, NEW c \in Configs \cup {"off", "gone"}
        PROVE  [pc |-> "read", gen |-> g, cfg |-> c] \in Probes
    BY DEF Probes
  <2> QED
    BY <1>1, <2>1, <2>2, <2>3
<1>4. /\ [probe[n] EXCEPT !.pc = "checked"] \in Probes
      /\ [probe[n] EXCEPT !.pc = "record"] \in Probes
      /\ [probe[n] EXCEPT !.pc = "publish"] \in Probes
  BY <1>1, FieldTypes
<1>5. probe' \in [Nodes -> Probes]
  <2>1. CASE StartProbe(n)
    BY <1>1, <1>3, <2>1 DEF StartProbe
  <2>2. CASE ReadGeneration(n)
    BY <1>1, <1>3, <2>2 DEF ReadGeneration
  <2>3. CASE RecheckRow(n)
    BY <1>1, <1>4, <2>3 DEF RecheckRow
  <2>4. CASE DiscardProbe(n)
    BY <1>1, <1>2, <2>4 DEF DiscardProbe
  <2>5. ASSUME NEW proven \in BOOLEAN, CheckProbe(n, proven)
        PROVE  probe' \in [Nodes -> Probes]
    BY <1>1, <1>4, <2>5 DEF CheckProbe
  <2>6. CASE RecordProbe(n)
    BY <1>1, <1>4, <2>6 DEF RecordProbe
  <2>7. ASSUME NEW ok \in BOOLEAN, PublishProbe(n, ok)
        PROVE  probe' \in [Nodes -> Probes]
    BY <1>1, <1>2, <2>7 DEF PublishProbe
  <2> QED
    BY <2>1, <2>2, <2>3, <2>4, <2>5, <2>6, <2>7 DEF ProbeStep
<1>6. /\ breaker' \in [Nodes -> Breakers]
      /\ evidence' \in [Nodes -> SUBSET (0..MaxGen)]
  <2>1. CASE RecordProbe(n)
    <3>1. /\ breaker[n] \in Breakers /\ probe[n].gen \in 0..MaxGen
          /\ breaker \in [Nodes -> Breakers]
          /\ evidence \in [Nodes -> SUBSET (0..MaxGen)]
      BY <1>1 DEF TypeOK, Probes
    <3>2. RecordSuccess(breaker[n]) \in Breakers
      BY <3>1, BreakerTypes
    <3> QED
      BY <2>1, <3>1, <3>2 DEF RecordProbe
  <2>2. CASE ~RecordProbe(n)
    BY <2>2 DEF TypeOK, ProbeStep, StartProbe, ReadGeneration, RecheckRow,
       DiscardProbe, CheckProbe, PublishProbe, circuitVars
  <2> QED
    BY <2>1, <2>2
<1>7. proof' \in [Nodes -> Proofs]
  <2>1. ASSUME NEW ok \in BOOLEAN, PublishProbe(n, ok)
        PROVE  proof' \in [Nodes -> Proofs]
    <3>1. /\ [gen |-> probe[n].gen, cfg |-> probe[n].cfg] \in Proofs
          /\ NoProof \in Proofs /\ proof \in [Nodes -> Proofs]
      BY <1>1, DispatchAssumption DEF TypeOK, Probes, Proofs, NoProof
    <3> QED
      BY <2>1, <3>1 DEF PublishProbe
  <2>2. CASE \A ok \in BOOLEAN : ~PublishProbe(n, ok)
    BY <2>2 DEF TypeOK, ProbeStep, StartProbe, ReadGeneration, RecheckRow,
       DiscardProbe, CheckProbe, RecordProbe
  <2> QED
    BY <2>1, <2>2
<1>8. UNCHANGED <<cfg, nodeGen, routingGen, threshold, target, slots, global,
                  queue, active, pc, lease, excluded, attempted, outcome,
                  admin, trials>>
      /\ registered' \subseteq registered
  BY DEF ProbeStep, StartProbe, ReadGeneration, RecheckRow, DiscardProbe,
     CheckProbe, RecordProbe, PublishProbe, requestVars, capacityVars,
     circuitVars, configVars
<1> QED
  BY <1>5, <1>6, <1>7, <1>8 DEF TypeOK

\* Type correctness of time and settings.
LEMMA EnvironmentTypes ==
    ASSUME TypeOK, Environment
    PROVE  TypeOK'
<1> USE DispatchAssumption
    DEF TypeOK, requestVars, capacityVars, circuitVars, configVars
<1>1. ASSUME NEW n \in Nodes, CoolProxy(n) PROVE TypeOK'
  <2>1. [breaker[n] EXCEPT !.cooled = TRUE] \in Breakers
    BY FieldTypes
  <2> QED
    BY <1>1, <2>1 DEF CoolProxy
<1>2. ASSUME NEW n \in Nodes, ExpireReadiness(n) PROVE TypeOK'
  BY <1>2 DEF ExpireReadiness, Proofs, NoProof
<1>3. ASSUME NEW n \in Nodes, NEW t \in Targets, CoolTarget(n, t) PROVE TypeOK'
  <2>1. target \in [Nodes -> [Targets -> Breakers]]
    OBVIOUS
  <2>2. [target[n][t] EXCEPT !.cooled = TRUE] \in Breakers
    BY <2>1, FieldTypes
  <2>3. target' = [target EXCEPT ![n][t].cooled = TRUE]
    BY <1>3 DEF CoolTarget
  <2>4. target' \in [Nodes -> [Targets -> Breakers]]
    <3> HIDE DEF TypeOK
    <3> QED
      BY <2>1, <2>2, <2>3
  <2> QED
    BY <1>3, <2>4 DEF CoolTarget
<1>4. ASSUME NEW value \in Thresholds, NEW longer \in BOOLEAN,
             UpdateAdvancedConfig(value, longer)
      PROVE  TypeOK'
  BY <1>4, BreakerTypes DEF UpdateAdvancedConfig
<1> HIDE DEF TypeOK, requestVars, capacityVars, circuitVars, configVars
<1> QED
  BY <1>1, <1>2, <1>3, <1>4 DEF Environment

\* The initial states have the types, and no lease.
LEMMA InitTypes == Init => TypeOK /\ LeaseShape
<1> SUFFICES ASSUME Init PROVE TypeOK /\ LeaseShape
  OBVIOUS
<1> USE DispatchAssumption, MaxFailuresAssumption DEF Init
<1>1. /\ breaker \in [Nodes -> Breakers]
      /\ target \in [Nodes -> [Targets -> Breakers]]
  BY BreakerTypes
<1>2. /\ admin \in [Admins -> Commands]
      /\ probe \in [Nodes -> Probes]
      /\ proof \in [Nodes -> Proofs]
      /\ lease \in [Requests -> Leases]
  BY DEF NoCommand, Commands, NoProbe, Probes, NoProof, Proofs, NoLease, Leases
<1>3. TypeOK
  BY <1>1, <1>2 DEF TypeOK, RequestStates, Outcomes
<1>4. LeaseShape
  BY DEF LeaseShape, LeaseStates
<1> QED
  BY <1>3, <1>4

\* Every step keeps the types.
LEMMA TypeStep ==
    ASSUME TypeOK, LeaseShape, [Next]_vars
    PROVE  TypeOK'
<1>1. CASE UNCHANGED vars
  BY <1>1 DEF TypeOK, vars, requestVars, capacityVars, circuitVars, configVars
<1> QED
  BY <1>1, RequestTypes, CommandTypes, ProbeTypes, EnvironmentTypes DEF Next

\* Only requests move leases, program counters and global permits.
LEMMA OthersKeepLeases ==
    ASSUME \/ \E a \in Admins : CommandStep(a)
           \/ \E n \in Nodes : ProbeStep(n)
           \/ Environment
           \/ UNCHANGED vars
    PROVE  UNCHANGED <<pc, lease, attempted, global>>
<1> USE DEF vars, requestVars, capacityVars, circuitVars, configVars
<1>1. ASSUME NEW a \in Admins, CommandStep(a)
      PROVE  UNCHANGED <<pc, lease, attempted, global>>
  BY <1>1 DEF CommandStep, BeginCommand, PublishCommand, FinishCommand
<1>2. ASSUME NEW n \in Nodes, ProbeStep(n)
      PROVE  UNCHANGED <<pc, lease, attempted, global>>
  BY <1>2 DEF ProbeStep, StartProbe, ReadGeneration, RecheckRow, DiscardProbe,
              CheckProbe, RecordProbe, PublishProbe
<1>3. CASE Environment
  BY <1>3 DEF Environment, CoolProxy, ExpireReadiness, CoolTarget,
              UpdateAdvancedConfig
<1> QED
  BY <1>1, <1>2, <1>3

\* Every step keeps the shape of leases.
LEMMA ShapeStep ==
    ASSUME TypeOK, LeaseShape, [Next]_vars
    PROVE  LeaseShape'
<1>1. CASE UNCHANGED <<pc, lease, attempted, global>>
  BY <1>1 DEF LeaseShape
<1>2. ASSUME NEW r \in Requests, RequestStep(r) PROVE LeaseShape'
  <2> USE DispatchAssumption DEF TypeOK, LeaseShape, LeaseStates, capacityVars
  <2>1. CASE Arrive(r)
    BY <2>1 DEF Arrive
  <2>2. CASE AcquireGlobal(r)
    BY <2>2 DEF AcquireGlobal
  <2>3. ASSUME NEW n \in Nodes, Reserve(r, n) PROVE LeaseShape'
    BY <2>3 DEF Reserve
  <2>4. CASE RejectNotReady(r) \/ Park(r) \/ Exhaust(r)
    BY <2>4 DEF RejectNotReady, Park, Exhaust, GiveUp
  <2>5. CASE Await(r) \/ Wake(r)
    BY <2>5 DEF Await, Wake
  <2>6. ASSUME NEW result \in Connected \cup Failures, FinishDial(r, result)
        PROVE  LeaseShape'
    BY <2>6 DEF FinishDial
  <2>7. CASE SettleStale(r) \/ SettleFailed(r)
    BY <2>7 DEF SettleStale, SettleFailed
  <2>8. CASE SettleConnected(r)
    <3>1. lease'[r].node = lease[r].node
      BY <2>8 DEF SettleConnected, Leases
    <3> QED
      BY <2>8, <3>1 DEF SettleConnected
  <2>9. CASE RecordProxy(r) \/ RecordTarget(r)
    BY <2>9 DEF RecordProxy, RecordTarget
  <2>10. CASE Retry(r)
    BY <2>10 DEF Retry, DropLease
  <2>11. CASE Deadline(r)
    BY <2>11 DEF Deadline, DropLease
  <2>12. CASE Leave(r)
    BY <2>12 DEF Leave
  <2>13. ASSUME NEW status \in Answers, Answer(r, status) PROVE LeaseShape'
    BY <2>13 DEF Answer
  <2>14. CASE Observe(r)
    BY <2>14 DEF Observe
  <2>15. CASE CloseTunnel(r)
    BY <2>15 DEF CloseTunnel, DropLease
  <2> QED
    BY <1>2, <2>1, <2>2, <2>3, <2>4, <2>5, <2>6, <2>7, <2>8, <2>9, <2>10,
       <2>11, <2>12, <2>13, <2>14, <2>15
    DEF RequestStep, Select, Settle
<1> QED
  BY <1>1, <1>2, OthersKeepLeases DEF Next

\* Every reachable state of the dispatcher is well typed: the active counts
\* are integers, no breaker counts beyond MaxFailures, no generation exceeds
\* MaxGen.
THEOREM TypeCorrect == Spec => []TypeOK
<1>1. TypeOK /\ LeaseShape /\ [Next]_vars => (TypeOK /\ LeaseShape)'
  BY TypeStep, ShapeStep
<1> QED
  BY <1>1, InitTypes, PTL DEF Spec

-----------------------------------------------------------------------------

\* A dial in progress holds a permit of its node, and a task that selects or
\* dials holds a global one: RAII permits are not lost by an edit.
PermitsHeld ==
    /\ \A n \in Nodes : slots[n] = DialingOn(n)
    /\ global = {r \in Requests : HoldsGlobal(r)}

\* The inductive invariant behind DialCapacity.
CapacityInv == TypeOK /\ LeaseShape /\ PermitsHeld /\ DialCapacity

\* dial_slots.retain never drops a limiter with permits out.
LEMMA RetainedAreHeld ==
    ASSUME TypeOK, NEW ids
    PROVE  RetainSlots(ids) = slots
  BY DEF TypeOK, RetainSlots

\* Every step keeps the permits with their dials.
LEMMA PermitsStep ==
    ASSUME TypeOK, LeaseShape, PermitsHeld, [Next]_vars
    PROVE  PermitsHeld'
<1>1. CASE UNCHANGED <<pc, lease, attempted, global>> /\ UNCHANGED slots
  BY <1>1 DEF PermitsHeld, DialingOn, HoldsGlobal
<1>2. ASSUME NEW r \in Requests, RequestStep(r) PROVE PermitsHeld'
  <2> USE DEF PermitsHeld, DialingOn, HoldsGlobal, TypeOK, LeaseShape,
              LeaseStates, NoLease, capacityVars
  <2>1. CASE Arrive(r)
    BY <2>1 DEF Arrive
  <2>2. CASE AcquireGlobal(r)
    BY <2>2 DEF AcquireGlobal
  <2>3. ASSUME NEW n \in Nodes, Reserve(r, n) PROVE PermitsHeld'
    <3>1. /\ slots' = [slots EXCEPT ![n] = @ \cup {r}]
          /\ pc' = [pc EXCEPT ![r] = "dialing"]
          /\ lease' = [lease EXCEPT
                         ![r] = [node |-> n, gen |-> nodeGen[n], dial |-> TRUE]]
          /\ pc[r] = "selecting"
          /\ UNCHANGED global
      BY <2>3, RetainedAreHeld DEF Reserve
    <3>2. ~lease[r].dial
      <4>1. lease[r] = NoLease
        BY <3>1
      <4> QED
        BY <4>1
    <3>3. /\ lease'[r].node = n /\ lease'[r].dial
          /\ pc'[r] = "dialing"
          /\ \A q \in Requests \ {r} : lease'[q] = lease[q] /\ pc'[q] = pc[q]
      BY <3>1
    <3>4. ASSUME NEW m \in Nodes PROVE slots'[m] = DialingOn(m)'
      <4>1. CASE m = n
        BY <3>1, <3>2, <3>3, <4>1
      <4>2. CASE m # n
        BY <3>1, <3>2, <3>3, <4>2
      <4> QED
        BY <4>1, <4>2
    <3>5. \A q \in Requests : HoldsGlobal(q)' <=> HoldsGlobal(q)
      BY <3>1, <3>3
    <3> QED
      BY <3>1, <3>4, <3>5
  <2>4. CASE RejectNotReady(r) \/ Park(r) \/ Exhaust(r)
    <3>1. slots' = slots
      BY <2>4, RetainedAreHeld DEF RejectNotReady, Park, Exhaust, GiveUp
    <3>2. /\ pc' \in {[pc EXCEPT ![r] = state] :
                         state \in {"notReady", "saturated", "failed"}}
          /\ pc[r] = "selecting"
          /\ global' = global \ {r}
          /\ UNCHANGED lease
      BY <2>4 DEF RejectNotReady, Park, Exhaust, GiveUp, ReturnGlobal
    <3>5. lease[r] = NoLease /\ pc'[r] \in {"notReady", "saturated", "failed"}
      BY <3>2
    <3>3. ~lease[r].dial /\ pc'[r] \in {"notReady", "saturated", "failed"}
      BY <3>5
    <3>4. \A q \in Requests \ {r} : pc'[q] = pc[q]
      BY <3>2
    <3> QED
      BY <3>1, <3>2, <3>3, <3>4
  <2>5. CASE Await(r) \/ Wake(r)
    BY <2>5 DEF Await, Wake
  <2>6. ASSUME NEW result \in Connected \cup Failures, FinishDial(r, result)
        PROVE  PermitsHeld'
    BY <2>6 DEF FinishDial
  <2>7. CASE SettleStale(r) \/ SettleFailed(r)
    BY <2>7 DEF SettleStale, SettleFailed
  <2>8. CASE SettleConnected(r)
    <3>1. /\ lease'[r].node = lease[r].node
          /\ lease'[r].dial = FALSE
          /\ \A q \in Requests \ {r} : lease'[q] = lease[q]
      BY <2>8 DEF SettleConnected, Leases
    <3> QED
      BY <2>8, <3>1 DEF SettleConnected
  <2>9. CASE RecordProxy(r) \/ RecordTarget(r)
    BY <2>9 DEF RecordProxy, RecordTarget
  <2>10. ASSUME DropLease(r), pc[r] \in LeaseStates,
                NEW state \in RequestStates \ (LeaseStates \cup {"selecting"}),
                pc' = [pc EXCEPT ![r] = state]
         PROVE  PermitsHeld'
    BY <2>10, DispatchAssumption DEF DropLease
  <2>11. CASE Retry(r) \/ CloseTunnel(r)
    BY <2>10, <2>11 DEF Retry, CloseTunnel, RequestStates
  <2>12. CASE Deadline(r)
    <3>1. CASE pc[r] \in {"queued", "parked"}
      <4>1. /\ pc' = [pc EXCEPT ![r] = "failed"]
            /\ UNCHANGED <<slots, global, lease>>
        BY <2>12, <3>1 DEF Deadline
      <4> QED
        BY <3>1, <4>1
    <3>2. CASE pc[r] \in {"dialing", "settling"}
      BY <2>10, <2>12, <3>2 DEF Deadline, RequestStates
    <3> QED
      BY <2>12, <3>1, <3>2 DEF Deadline
  <2>13. CASE Leave(r)
    BY <2>13 DEF Leave
  <2>14. ASSUME NEW status \in Answers, Answer(r, status) PROVE PermitsHeld'
    BY <2>14 DEF Answer
  <2>15. CASE Observe(r)
    BY <2>15 DEF Observe
  <2> QED
    BY <1>2, <2>1, <2>2, <2>3, <2>4, <2>5, <2>6, <2>7, <2>8, <2>9, <2>11,
       <2>12, <2>13, <2>14, <2>15
    DEF RequestStep, Select, Settle
<1>3. ASSUME NEW a \in Admins, CommandStep(a) PROVE UNCHANGED slots
  BY <1>3, RetainedAreHeld
     DEF CommandStep, BeginCommand, PublishCommand, FinishCommand, capacityVars
<1>4. ASSUME NEW n \in Nodes, ProbeStep(n) PROVE UNCHANGED slots
  BY <1>4 DEF ProbeStep, StartProbe, ReadGeneration, RecheckRow, DiscardProbe,
              CheckProbe, RecordProbe, PublishProbe, capacityVars
<1>5. CASE Environment
  BY <1>1, <1>5, OthersKeepLeases
     DEF Environment, CoolProxy, ExpireReadiness, CoolTarget,
         UpdateAdvancedConfig, capacityVars
<1> QED
  BY <1>1, <1>2, <1>3, <1>4, <1>5, OthersKeepLeases
  DEF Next, vars, capacityVars

\* Removing a request from one set makes no set larger.
LEMMA ShrinkOne ==
    ASSUME NEW S, NEW f \in [Nodes -> SUBSET S], NEW x, NEW r
    PROVE  \A n \in Nodes : [f EXCEPT ![x] = @ \ {r}][n] \subseteq f[n]
  OBVIOUS

\* No step exceeds a limit: Reserve and AcquireGlobal add one holder, and only
\* below the limit; the sets of holders shrink in all other steps.
LEMMA CapacityStep ==
    ASSUME CapacityInv, [Next]_vars
    PROVE  DialCapacity'
<1> USE DEF CapacityInv
<1>1. TypeOK' /\ LeaseShape' /\ PermitsHeld'
  BY TypeStep, ShapeStep, PermitsStep
<1>2. /\ \A n \in Nodes : IsFiniteSet(slots[n]) /\ IsFiniteSet(slots'[n])
      /\ IsFiniteSet(global) /\ IsFiniteSet(global')
  BY <1>1, FS_Subset, DispatchAssumption DEF TypeOK
<1>3. /\ \A n \in Nodes : Cardinality(slots[n]) <= MaxProxyDials
      /\ Cardinality(global) <= MaxGlobalDials
  BY DEF DialCapacity, PermitsHeld
<1>4. ASSUME NEW r \in Requests, RequestStep(r) PROVE DialCapacity'
  <2> SUFFICES /\ \A n \in Nodes : Cardinality(slots'[n]) <= MaxProxyDials
               /\ Cardinality(global') <= MaxGlobalDials
    BY <1>1 DEF DialCapacity, PermitsHeld
  <2>1. ASSUME NEW n \in Nodes, Reserve(r, n)
        PROVE  /\ \A m \in Nodes : Cardinality(slots'[m]) <= MaxProxyDials
               /\ global' = global
    <3>4. Cardinality(slots[n]) \in Nat
      BY <1>2, FS_CardinalityType
    <3>1. Cardinality(slots[n]) < MaxProxyDials
      BY <2>1, <3>4, DispatchAssumption DEF Reserve, Available, Full
    <3>2. slots' = [slots EXCEPT ![n] = @ \cup {r}] /\ UNCHANGED global
      BY <2>1, RetainedAreHeld DEF Reserve
    <3>3. Cardinality(slots[n] \cup {r}) <= MaxProxyDials
      <4>1. Cardinality(slots[n] \cup {r})
              = IF r \in slots[n] THEN Cardinality(slots[n])
                                  ELSE Cardinality(slots[n]) + 1
        BY <1>2, FS_AddElement
      <4> QED
        BY <3>1, <3>4, <4>1, DispatchAssumption
    <3> QED
      BY <1>3, <3>2, <3>3 DEF TypeOK
  <2>2. CASE AcquireGlobal(r)
    <3>1. /\ Cardinality(global) < MaxGlobalDials
          /\ global' = global \cup {r}
          /\ slots' = slots
      BY <2>2 DEF AcquireGlobal
    <3>2. Cardinality(global') <= MaxGlobalDials
      <4>1. Cardinality(global) \in Nat
        BY <1>2, FS_CardinalityType
      <4>2. Cardinality(global \cup {r})
              = IF r \in global THEN Cardinality(global)
                               ELSE Cardinality(global) + 1
        BY <1>2, FS_AddElement
      <4> QED
        BY <3>1, <4>1, <4>2, DispatchAssumption
    <3> QED
      BY <1>3, <3>1, <3>2
  <2>3. ASSUME ~ \E n \in Nodes : Reserve(r, n), ~AcquireGlobal(r)
        PROVE  /\ \A n \in Nodes : slots'[n] \subseteq slots[n]
               /\ global' \subseteq global
    <3> USE DEF TypeOK, capacityVars
    <3>1. CASE Arrive(r)
      BY <3>1 DEF Arrive
    <3>2. CASE RejectNotReady(r) \/ Park(r) \/ Exhaust(r)
      BY <3>2, RetainedAreHeld
      DEF RejectNotReady, Park, Exhaust, GiveUp, ReturnGlobal
    <3>3. CASE Await(r) \/ Wake(r)
      BY <3>3 DEF Await, Wake
    <3>4. ASSUME NEW result \in Connected \cup Failures, FinishDial(r, result)
          PROVE  UNCHANGED <<slots, global>>
      BY <3>4 DEF FinishDial
    <3>5. CASE SettleStale(r) \/ SettleConnected(r) \/ SettleFailed(r)
      <4>1. \/ UNCHANGED <<slots, global>>
            \/ /\ slots' = [slots EXCEPT ![lease[r].node] = @ \ {r}]
               /\ global' = global \ {r}
        BY <3>5 DEF SettleStale, SettleConnected, SettleFailed
      <4> QED
        BY <4>1, ShrinkOne
    <3>6. CASE RecordProxy(r) \/ RecordTarget(r)
      BY <3>6 DEF RecordProxy, RecordTarget
    <3>7. CASE Retry(r) \/ CloseTunnel(r)
      <4>1. /\ slots' = [slots EXCEPT ![lease[r].node] = @ \ {r}]
            /\ global' = global \ {r}
        BY <3>7 DEF Retry, CloseTunnel, DropLease
      <4> QED
        BY <4>1, ShrinkOne
    <3>8. CASE Deadline(r)
      <4>1. \/ UNCHANGED <<slots, global>>
            \/ /\ slots' = [slots EXCEPT ![lease[r].node] = @ \ {r}]
               /\ global' = global \ {r}
        BY <3>8 DEF Deadline, DropLease
      <4> QED
        BY <4>1, ShrinkOne
    <3>9. CASE Leave(r) \/ Observe(r)
      BY <3>9 DEF Leave, Observe
    <3>10. ASSUME NEW status \in Answers, Answer(r, status)
           PROVE  UNCHANGED <<slots, global>>
      BY <3>10 DEF Answer
    <3> QED
      BY <1>4, <2>3, <3>1, <3>2, <3>3, <3>4, <3>5, <3>6, <3>7, <3>8, <3>9,
         <3>10
      DEF RequestStep, Select, Settle
  <2>4. ASSUME \A n \in Nodes : slots'[n] \subseteq slots[n],
               global' \subseteq global
        PROVE  /\ \A n \in Nodes : Cardinality(slots'[n]) <= MaxProxyDials
               /\ Cardinality(global') <= MaxGlobalDials
    <3>1. ASSUME NEW n \in Nodes PROVE Cardinality(slots'[n]) <= MaxProxyDials
      <4>1. Cardinality(slots'[n]) <= Cardinality(slots[n])
        BY <1>2, <2>4, FS_Subset
      <4> QED
        BY <1>2, <1>3, <4>1, FS_CardinalityType, DispatchAssumption
    <3>2. Cardinality(global') <= Cardinality(global)
      BY <1>2, <2>4, FS_Subset
    <3> QED
      BY <1>2, <1>3, <3>1, <3>2, FS_CardinalityType, DispatchAssumption
  <2> QED
    BY <1>3, <2>1, <2>2, <2>3, <2>4
<1>5. CASE UNCHANGED <<pc, lease>>
  BY <1>5 DEF DialCapacity, DialingOn, HoldsGlobal
<1> QED
  BY <1>4, <1>5, OthersKeepLeases DEF Next

\* The dials of a node never exceed max_proxy_dials, nor all dials
\* max_global_dials, whatever edits, deletions, cancellations and retries do.
THEOREM DialCapacityHolds == Spec => []DialCapacity
<1>1. Init => CapacityInv
  <2> SUFFICES ASSUME Init PROVE PermitsHeld /\ DialCapacity
    BY InitTypes DEF CapacityInv
  <2>1. PermitsHeld
    BY DEF Init, PermitsHeld, DialingOn, HoldsGlobal, NoLease
  <2>2. Cardinality({}) = 0
    BY FS_EmptySet
  <2> QED
    <3>1. (\A n \in Nodes : slots[n] = {}) /\ global = {}
      BY DEF Init
    <3>2. (\A n \in Nodes : DialingOn(n) = {})
          /\ {r \in Requests : HoldsGlobal(r)} = {}
      BY <2>1, <3>1 DEF PermitsHeld
    <3> HIDE DEF Init
    <3>3. ASSUME NEW n \in Nodes PROVE Cardinality(DialingOn(n)) = 0
      BY <2>2, <3>2, Zenon
    <3>4. Cardinality({r \in Requests : HoldsGlobal(r)}) = 0
      BY <2>2, <3>2, Zenon
    <3>5. 0 <= MaxProxyDials /\ 0 <= MaxGlobalDials
      BY DispatchAssumption
    <3> QED
      BY <2>1, <3>3, <3>4, <3>5 DEF DialCapacity
<1>2. CapacityInv /\ [Next]_vars => CapacityInv'
  BY TypeStep, ShapeStep, PermitsStep, CapacityStep DEF CapacityInv
<1>3. CapacityInv => DialCapacity
  BY DEF CapacityInv
<1> QED
  BY <1>1, <1>2, <1>3, PTL DEF Spec

-----------------------------------------------------------------------------

\* One breaker's part of HalfOpenHasOwner.
Owned(b) == b.state = "HALF_OPEN" <=> b.attempt # NoToken

\* Every breaker, of nodes and of targets, is Owned.
AllOwned ==
    /\ \A n \in Nodes : Owned(breaker[n])
    /\ \A n \in Nodes, t \in Targets : Owned(target[n][t])

\* Every operation of a breaker keeps it Owned.
LEMMA BreakerOwners ==
    /\ Owned(NewBreaker)
    /\ \A b \in Breakers : Owned(b) =>
         /\ Owned(RecordSuccess(b))
         /\ Owned(CancelHalfOpen(b))
         /\ Owned([b EXCEPT !.cooled = TRUE])
         /\ \A r \in Requests : Owned(TryBeginAttempt(b, r)) /\ Owned(Forget(b, r))
         /\ \A t \in Thresholds : Owned(RecordFailure(b, t))
         /\ \A longer \in BOOLEAN : Owned(ApplyTimeout(b, longer))
<1> USE TokenAssumption DEF Breakers, Tokens, NewBreaker, Owned
<1>1. Owned(NewBreaker)
  OBVIOUS
<1>2. ASSUME NEW b \in Breakers, Owned(b)
      PROVE  /\ Owned(RecordSuccess(b))
             /\ Owned(CancelHalfOpen(b))
             /\ Owned([b EXCEPT !.cooled = TRUE])
             /\ \A r \in Requests :
                  Owned(TryBeginAttempt(b, r)) /\ Owned(Forget(b, r))
             /\ \A t \in Thresholds : Owned(RecordFailure(b, t))
             /\ \A longer \in BOOLEAN : Owned(ApplyTimeout(b, longer))
  <2>1. Owned(RecordSuccess(b))
    BY DEF RecordSuccess
  <2>2. Owned(CancelHalfOpen(b))
    BY <1>2 DEF CancelHalfOpen
  <2>3. Owned([b EXCEPT !.cooled = TRUE])
    BY <1>2
  <2>4. ASSUME NEW r \in Requests
        PROVE  Owned(TryBeginAttempt(b, r)) /\ Owned(Forget(b, r))
    BY <1>2 DEF TryBeginAttempt, Forget
  <2>5. ASSUME NEW t \in Thresholds PROVE Owned(RecordFailure(b, t))
    BY <1>2 DEF RecordFailure
  <2>6. ASSUME NEW longer \in BOOLEAN PROVE Owned(ApplyTimeout(b, longer))
    BY <1>2 DEF ApplyTimeout
  <2> QED
    BY <2>1, <2>2, <2>3, <2>4, <2>5, <2>6
<1> QED
  BY <1>1, <1>2

\* Every step keeps all breakers Owned.
LEMMA OwnedStep ==
    ASSUME TypeOK, LeaseShape, AllOwned, [Next]_vars
    PROVE  AllOwned'
<1>1. ASSUME UNCHANGED <<breaker, target>> PROVE AllOwned'
  BY <1>1 DEF AllOwned
<1>2. ASSUME NEW r \in Requests, DropLease(r) PROVE AllOwned'
  BY <1>2, BreakerOwners DEF AllOwned, DropLease, TypeOK
<1>3. ASSUME NEW r \in Requests, RequestStep(r) PROVE AllOwned'
  <2> USE DEF circuitVars
  <2>1. ASSUME NEW n \in Nodes, Reserve(r, n) PROVE AllOwned'
    <3>1. /\ Owned(TryBeginAttempt(breaker[n], r))
          /\ Owned(TryBeginAttempt(target[n][TargetOf[r]], r))
      <4>1. TargetOf[r] \in Targets
        BY DispatchAssumption
      <4>2. /\ breaker[n] \in Breakers /\ Owned(breaker[n])
            /\ target[n][TargetOf[r]] \in Breakers
            /\ Owned(target[n][TargetOf[r]])
        BY <4>1 DEF AllOwned, TypeOK
      <4> QED
        BY <4>2, BreakerOwners
    <3> QED
      BY <2>1, <3>1, DispatchAssumption DEF AllOwned, TypeOK, Reserve
  <2>2. CASE RecordProxy(r)
    <3>1. \A n \in Nodes : /\ Owned(RecordFailure(breaker[n], threshold))
                           /\ Owned(RecordSuccess(breaker[n]))
      BY BreakerOwners DEF AllOwned, TypeOK
    <3> QED
      BY <2>2, <3>1 DEF AllOwned, TypeOK, RecordProxy
  <2>3. CASE RecordTarget(r)
    <3>1. \A n \in Nodes, t \in Targets :
            /\ Owned(RecordFailure(target[n][t], threshold))
            /\ Owned(CancelHalfOpen(target[n][t]))
            /\ Owned(NewBreaker)
      BY BreakerOwners DEF AllOwned, TypeOK
    <3> QED
      BY <2>3, <3>1, DispatchAssumption DEF AllOwned, TypeOK, RecordTarget
  <2>4. CASE Retry(r) \/ Deadline(r) \/ CloseTunnel(r)
    BY <1>1, <1>2, <2>4 DEF Retry, Deadline, CloseTunnel, capacityVars
  <2>5. CASE \/ Arrive(r) \/ AcquireGlobal(r) \/ Await(r) \/ Wake(r)
             \/ Leave(r) \/ Observe(r)
    BY <1>1, <2>5 DEF Arrive, AcquireGlobal, Await, Wake, Leave, Observe
  <2>6. CASE RejectNotReady(r) \/ Park(r) \/ Exhaust(r)
    BY <1>1, <2>6 DEF RejectNotReady, Park, Exhaust, GiveUp
  <2>7. CASE Settle(r)
    BY <1>1, <2>7 DEF Settle, SettleStale, SettleConnected, SettleFailed
  <2>8. ASSUME NEW result \in Connected \cup Failures, FinishDial(r, result)
        PROVE  AllOwned'
    BY <1>1, <2>8 DEF FinishDial
  <2>9. ASSUME NEW status \in Answers, Answer(r, status) PROVE AllOwned'
    BY <1>1, <2>9 DEF Answer
  <2> QED
    BY <1>3, <2>1, <2>2, <2>3, <2>4, <2>5, <2>6, <2>7, <2>8, <2>9
    DEF RequestStep, Select
<1>4. ASSUME NEW a \in Admins, CommandStep(a) PROVE AllOwned'
  <2>1. CASE FinishCommand(a)
    <3>1. CASE admin[a].reset
      <4>1. /\ breaker' = [breaker EXCEPT ![admin[a].node] = NewBreaker]
            /\ target' = [target EXCEPT ![admin[a].node] =
                                           [t \in Targets |-> NewBreaker]]
        BY <2>1, <3>1 DEF FinishCommand
      <4>2. \A n \in Nodes : Owned(breaker'[n])
        BY <4>1, BreakerOwners DEF AllOwned, TypeOK
      <4>3. ASSUME NEW n \in Nodes, NEW t \in Targets
            PROVE  Owned(target'[n][t])
        <5>1. target'[n][t] = NewBreaker \/ target'[n][t] = target[n][t]
          BY <4>1 DEF TypeOK
        <5> QED
          BY <5>1, BreakerOwners DEF AllOwned
      <4> QED
        BY <4>2, <4>3 DEF AllOwned
    <3>2. CASE ~admin[a].reset
      BY <1>1, <2>1, <3>2 DEF FinishCommand, circuitVars
    <3> QED
      BY <3>1, <3>2
  <2> QED
    BY <1>1, <1>4, <2>1 DEF CommandStep, BeginCommand, PublishCommand, circuitVars
<1>5. ASSUME NEW n \in Nodes, ProbeStep(n) PROVE AllOwned'
  <2>1. CASE RecordProbe(n)
    BY <2>1, BreakerOwners DEF RecordProbe, AllOwned, TypeOK
  <2> QED
    BY <1>1, <1>5, <2>1
    DEF ProbeStep, StartProbe, ReadGeneration, RecheckRow, DiscardProbe,
        CheckProbe, PublishProbe, circuitVars
<1>6. CASE Environment
  <2>1. ASSUME NEW n \in Nodes, CoolProxy(n) PROVE AllOwned'
    <3>1. Owned([breaker[n] EXCEPT !.cooled = TRUE])
      BY BreakerOwners DEF AllOwned, TypeOK
    <3> QED
      BY <2>1, <3>1 DEF AllOwned, TypeOK, CoolProxy
  <2>2. ASSUME NEW n \in Nodes, NEW t \in Targets, CoolTarget(n, t)
        PROVE  AllOwned'
    <3>1. Owned([target[n][t] EXCEPT !.cooled = TRUE])
      BY BreakerOwners DEF AllOwned, TypeOK
    <3> QED
      BY <2>2, <3>1 DEF AllOwned, TypeOK, CoolTarget
  <2>3. ASSUME NEW value \in Thresholds, NEW longer \in BOOLEAN,
               UpdateAdvancedConfig(value, longer)
        PROVE  AllOwned'
    BY <2>3, BreakerOwners DEF AllOwned, TypeOK, UpdateAdvancedConfig
  <2>4. ASSUME NEW n \in Nodes, ExpireReadiness(n) PROVE AllOwned'
    BY <1>1, <2>4 DEF ExpireReadiness, circuitVars
  <2> QED
    BY <1>6, <2>1, <2>2, <2>3, <2>4 DEF Environment
<1> QED
  BY <1>1, <1>3, <1>4, <1>5, <1>6 DEF Next, vars, circuitVars

\* A breaker is HALF_OPEN exactly as long as it has an owner, alive or dropped,
\* so that an admission or an outcome can always take it out of that state.
THEOREM HalfOpenHasOwnerHolds == Spec => []HalfOpenHasOwner
<1>1. Init => TypeOK /\ LeaseShape /\ AllOwned
  BY InitTypes, BreakerOwners DEF Init, AllOwned
<1>2. TypeOK /\ LeaseShape /\ AllOwned /\ [Next]_vars
        => (TypeOK /\ LeaseShape /\ AllOwned)'
  BY TypeStep, ShapeStep, OwnedStep
<1>3. AllOwned => HalfOpenHasOwner
  BY DEF AllOwned, Owned, HalfOpenHasOwner
<1> QED
  BY <1>1, <1>2, <1>3, PTL DEF Spec

-----------------------------------------------------------------------------

\* The row of n was written by a command that has yet to reset its state.
ResetPending(n) ==
    \E a \in Admins :
        admin[a].pc = "written" /\ admin[a].node = n /\ admin[a].reset

\* A node outside the snapshot has generation 0, and a command that will change
\* the connection settings knows that it must reset.  The second part is what
\* two concurrent administrators break.
GenerationInv ==
    /\ \A n \in Nodes : cfg[n] \notin Configs => nodeGen[n] = 0
    /\ \A a \in Admins :
         admin[a].pc = "read" /\ admin[a].cfg # cfg[admin[a].node]
             => admin[a].reset

\* EvidenceIsCurrent made inductive: what is in the breakers, and what a task
\* or a probe inside the status lock is about to add, is of this generation,
\* unless a reset is still to come.
EvidenceInv ==
    /\ \A n \in Nodes : ~ResetPending(n) => evidence[n] \subseteq {nodeGen[n]}
    /\ \A r \in Requests :
         pc[r] = "recordProxy" /\ ~ResetPending(lease[r].node)
             => lease[r].gen = nodeGen[lease[r].node]
    /\ \A n \in Nodes :
         probe[n].pc = "record" /\ ~ResetPending(n) => probe[n].gen = nodeGen[n]

\* Every step keeps GenerationInv, if edits come one after another.
LEMMA GenerationStep ==
    ASSUME TypeOK, GenerationInv, [Next]_vars,
           \A a, b \in Admins : a = b
    PROVE  GenerationInv'
<1>1. ASSUME UNCHANGED <<cfg, nodeGen, admin>> PROVE GenerationInv'
  BY <1>1 DEF GenerationInv
<1>2. ASSUME NEW r \in Requests, RequestStep(r)
      PROVE  UNCHANGED <<cfg, nodeGen, admin>>
  BY <1>2
  DEF RequestStep, Select, Settle, Arrive, AcquireGlobal, Reserve, RejectNotReady,
      Park, Exhaust, GiveUp, Await, Wake, FinishDial, SettleStale, SettleConnected,
      SettleFailed, RecordProxy, RecordTarget, Retry, Deadline, Leave, Answer,
      Observe, CloseTunnel, configVars
<1>3. ASSUME NEW a \in Admins, NEW n \in Nodes,
             NEW value \in Configs \cup {"off", "gone"},
             BeginCommand(a, n, value)
      PROVE  GenerationInv'
  BY <1>3 DEF BeginCommand, GenerationInv, TypeOK, configVars
<1>4. ASSUME NEW a \in Admins, PublishCommand(a) PROVE GenerationInv'
  <2> DEFINE n == admin[a].node
             value == admin[a].cfg
  <2>1. CASE cfg[n] = "gone" /\ value # "gone"
    BY <1>4, <2>1 DEF PublishCommand, GenerationInv, TypeOK, NoCommand
  <2>2. CASE ~(cfg[n] = "gone" /\ value # "gone")
    <3>1. /\ cfg' = [cfg EXCEPT ![n] = value]
          /\ nodeGen' = [nodeGen EXCEPT ![n] =
                            IF value \notin Configs THEN 0
                            ELSE IF value # cfg[n] THEN routingGen + 1 ELSE @]
          /\ admin' = [admin EXCEPT ![a].pc = "written"]
      BY <1>4, <2>2 DEF PublishCommand
    <3>2. ASSUME NEW m \in Nodes, cfg'[m] \notin Configs PROVE nodeGen'[m] = 0
      BY <3>1, <3>2 DEF GenerationInv, TypeOK
    <3>3. ASSUME NEW b \in Admins PROVE admin'[b].pc = "written"
      BY <3>1 DEF TypeOK, Commands
    <3> QED
      BY <3>2, <3>3 DEF GenerationInv
  <2> QED
    BY <2>1, <2>2
<1>5. ASSUME NEW a \in Admins, FinishCommand(a) PROVE GenerationInv'
  BY <1>5 DEF FinishCommand, GenerationInv, TypeOK, configVars, NoCommand
<1>6. ASSUME NEW n \in Nodes, ProbeStep(n)
      PROVE  UNCHANGED <<cfg, nodeGen, admin>>
  BY <1>6 DEF ProbeStep, StartProbe, ReadGeneration, RecheckRow, DiscardProbe,
              CheckProbe, RecordProbe, PublishProbe, configVars
<1>7. ASSUME Environment PROVE UNCHANGED <<cfg, nodeGen, admin>>
  BY <1>7 DEF Environment, CoolProxy, ExpireReadiness, CoolTarget,
              UpdateAdvancedConfig, configVars
<1> QED
  BY <1>1, <1>2, <1>3, <1>4, <1>5, <1>6, <1>7
  DEF Next, CommandStep, vars, configVars

\* The step of a request leaves the other requests, the generations, the
\* commands and the probes alone.
LEMMA RequestFrame ==
    ASSUME TypeOK, NEW r \in Requests, RequestStep(r)
    PROVE  /\ UNCHANGED <<nodeGen, admin, probe>>
           /\ \A q \in Requests \ {r} : /\ pc'[q] = pc[q]
                                        /\ lease'[q] = lease[q]
                                        /\ outcome'[q] = outcome[q]
<1> USE DEF TypeOK, configVars, capacityVars
<1> DEFINE Frame == /\ UNCHANGED <<nodeGen, admin, probe>>
                    /\ \A q \in Requests \ {r} : /\ pc'[q] = pc[q]
                                                 /\ lease'[q] = lease[q]
                                                 /\ outcome'[q] = outcome[q]
<1>1. CASE \/ Arrive(r) \/ AcquireGlobal(r) \/ Await(r) \/ Wake(r)
           \/ Leave(r) \/ Observe(r)
  BY <1>1 DEF Arrive, AcquireGlobal, Await, Wake, Leave, Observe
<1>2. CASE RejectNotReady(r) \/ Park(r) \/ Exhaust(r)
  BY <1>2 DEF RejectNotReady, Park, Exhaust, GiveUp
<1>3. ASSUME NEW n \in Nodes, Reserve(r, n)
      PROVE  Frame
  BY <1>3 DEF Reserve
<1>4. CASE SettleStale(r) \/ SettleConnected(r) \/ SettleFailed(r)
  BY <1>4 DEF SettleStale, SettleConnected, SettleFailed
<1>5. ASSUME NEW result \in Connected \cup Failures, FinishDial(r, result)
      PROVE  Frame
  BY <1>5 DEF FinishDial
<1>6. ASSUME NEW status \in Answers, Answer(r, status)
      PROVE  Frame
  BY <1>6 DEF Answer
<1>7. CASE RecordProxy(r) \/ RecordTarget(r)
  BY <1>7 DEF RecordProxy, RecordTarget
<1>8. CASE Retry(r) \/ CloseTunnel(r) \/ Deadline(r)
  BY <1>8 DEF Retry, CloseTunnel, Deadline, DropLease
<1> QED
  BY <1>1, <1>2, <1>3, <1>4, <1>5, <1>6, <1>7, <1>8
  DEF RequestStep, Select, Settle

\* Where the program counter of a request may come from.
LEMMA WhereFrom ==
    ASSUME TypeOK, NEW r \in Requests, RequestStep(r)
    PROVE  /\ pc'[r] = "recordTarget" => RecordProxy(r)
           /\ pc'[r] = "tunnel" =>
                SettleConnected(r) \/ RecordTarget(r) \/ Observe(r)
<1> USE DEF TypeOK
<1> DEFINE From == /\ pc'[r] = "recordTarget" => RecordProxy(r)
                   /\ pc'[r] = "tunnel" =>
                        SettleConnected(r) \/ RecordTarget(r) \/ Observe(r)
<1>1. CASE \/ Arrive(r) \/ AcquireGlobal(r) \/ Await(r) \/ Wake(r)
           \/ Leave(r) \/ Observe(r)
  BY <1>1 DEF Arrive, AcquireGlobal, Await, Wake, Leave, Observe
<1>2. CASE RejectNotReady(r) \/ Park(r) \/ Exhaust(r)
  BY <1>2 DEF RejectNotReady, Park, Exhaust, GiveUp
<1>3. ASSUME NEW n \in Nodes, Reserve(r, n)
      PROVE  From
  BY <1>3 DEF Reserve
<1>4. CASE SettleStale(r) \/ SettleConnected(r) \/ SettleFailed(r)
  BY <1>4 DEF SettleStale, SettleConnected, SettleFailed
<1>5. ASSUME NEW result \in Connected \cup Failures, FinishDial(r, result)
      PROVE  From
  BY <1>5 DEF FinishDial
<1>6. ASSUME NEW status \in Answers, Answer(r, status)
      PROVE  From
  BY <1>6 DEF Answer
<1>7. CASE RecordProxy(r) \/ RecordTarget(r)
  BY <1>7 DEF RecordProxy, RecordTarget
<1>8. CASE Retry(r) \/ CloseTunnel(r) \/ Deadline(r)
  BY <1>8 DEF Retry, CloseTunnel, Deadline, DropLease
<1> QED
  BY <1>1, <1>2, <1>3, <1>4, <1>5, <1>6, <1>7, <1>8
  DEF RequestStep, Select, Settle

\* Nobody else moves the program counter or the outcome of a request.
LEMMA OthersKeepRequests ==
    ASSUME \/ \E a \in Admins : CommandStep(a)
           \/ \E n \in Nodes : ProbeStep(n)
           \/ Environment
           \/ UNCHANGED vars
    PROVE  UNCHANGED <<pc, outcome, lease>>
<1> USE DEF vars, requestVars, capacityVars
<1>1. ASSUME NEW a \in Admins, CommandStep(a)
      PROVE  UNCHANGED <<pc, outcome, lease>>
  BY <1>1 DEF CommandStep, BeginCommand, PublishCommand, FinishCommand
<1>2. ASSUME NEW n \in Nodes, ProbeStep(n)
      PROVE  UNCHANGED <<pc, outcome, lease>>
  BY <1>2 DEF ProbeStep, StartProbe, ReadGeneration, RecheckRow, DiscardProbe,
              CheckProbe, RecordProbe, PublishProbe
<1>3. CASE Environment
  BY <1>3 DEF Environment, CoolProxy, ExpireReadiness, CoolTarget,
              UpdateAdvancedConfig
<1> QED
  BY <1>1, <1>2, <1>3

\* A step of the only administrator after which no reset of n is due either
\* found none due and leaves n's generation and breakers alone, or is the reset
\* itself.
LEMMA ResetIsDue ==
    ASSUME TypeOK, GenerationInv, \A a, b \in Admins : a = b,
           NEW a \in Admins, CommandStep(a), NEW n \in Nodes, ~ResetPending(n)'
    PROVE  /\ nodeGen'[n] = nodeGen[n]
           /\ \/ /\ ~ResetPending(n)
                 /\ evidence'[n] = evidence[n]
                 /\ breaker'[n] = breaker[n] /\ target'[n] = target[n]
              \/ /\ StatusFree(n)
                 /\ evidence'[n] = {}
                 /\ breaker'[n] = NewBreaker
                 /\ target'[n] = [t \in Targets |-> NewBreaker]
<1> DEFINE m == admin[a].node
<1>1. \A b \in Admins : b = a
  OBVIOUS
<1>2. CASE \E k \in Nodes, value \in Configs \cup {"off", "gone"} :
             BeginCommand(a, k, value)
  <2>1. admin[a].pc = "idle" /\ UNCHANGED <<circuitVars, configVars>>
    BY <1>2 DEF BeginCommand
  <2>2. ~ResetPending(n)
    BY <1>1, <2>1 DEF ResetPending
  <2> QED
    BY <2>1, <2>2 DEF circuitVars, configVars
<1>3. CASE PublishCommand(a)
  <2>1. admin[a].pc = "read" /\ UNCHANGED circuitVars
    BY <1>3 DEF PublishCommand
  <2>2. ~ResetPending(n)
    BY <1>1, <2>1 DEF ResetPending
  <2>3. CASE cfg[m] = "gone" /\ admin[a].cfg # "gone"
    BY <1>3, <2>1, <2>2, <2>3 DEF PublishCommand, circuitVars
  <2>4. CASE ~(cfg[m] = "gone" /\ admin[a].cfg # "gone")
    <3>1. /\ nodeGen' = [nodeGen EXCEPT ![m] =
                            IF admin[a].cfg \notin Configs THEN 0
                            ELSE IF admin[a].cfg # cfg[m]
                                 THEN routingGen + 1 ELSE @]
          /\ admin' = [admin EXCEPT ![a].pc = "written"]
      BY <1>3, <2>4 DEF PublishCommand
    <3>2. CASE m # n
      BY <2>1, <2>2, <3>1, <3>2 DEF TypeOK, circuitVars
    <3>3. CASE m = n
      <4>1. /\ admin'[a].pc = "written"
            /\ admin'[a].node = n
            /\ admin'[a].reset = admin[a].reset
        BY <3>1, <3>3 DEF TypeOK, Commands
      <4>2. ~admin[a].reset
        BY <4>1 DEF ResetPending
      <4>3. admin[a].cfg = cfg[n]
        BY <2>1, <3>3, <4>2 DEF GenerationInv
      <4>4. nodeGen'[n] = IF cfg[n] \notin Configs THEN 0 ELSE nodeGen[n]
        BY <3>1, <3>3, <4>3 DEF TypeOK
      <4> QED
        BY <2>1, <2>2, <4>4 DEF GenerationInv, circuitVars
    <3> QED
      BY <3>2, <3>3
  <2> QED
    BY <2>3, <2>4
<1>4. CASE FinishCommand(a)
  <2>1. nodeGen' = nodeGen /\ admin[a].pc = "written"
    BY <1>4 DEF FinishCommand, configVars
  <2>2. ResetPending(n) <=> m = n /\ admin[a].reset
    BY <1>1, <2>1 DEF ResetPending
  <2>3. CASE admin[a].reset
    <3>1. /\ evidence' = [evidence EXCEPT ![m] = {}]
          /\ breaker' = [breaker EXCEPT ![m] = NewBreaker]
          /\ target' = [target EXCEPT ![m] = [t \in Targets |-> NewBreaker]]
          /\ StatusFree(m)
      BY <1>4, <2>3 DEF FinishCommand
    <3> QED
      BY <2>1, <2>2, <3>1 DEF TypeOK
  <2>4. CASE ~admin[a].reset
    BY <1>4, <2>1, <2>2, <2>4 DEF FinishCommand, circuitVars
  <2> QED
    BY <2>3, <2>4
<1> QED
  BY <1>2, <1>3, <1>4 DEF CommandStep

\* Every step keeps EvidenceInv: a recording holds the status lock from its
\* check of the generation to its write, and the reset waits for that lock.
LEMMA EvidenceStep ==
    ASSUME TypeOK, LeaseShape, GenerationInv, EvidenceInv, [Next]_vars,
           \A a, b \in Admins : a = b
    PROVE  EvidenceInv'
<1>1. ASSUME NEW r \in Requests, RequestStep(r)
      PROVE  /\ UNCHANGED <<nodeGen, admin, probe>>
             /\ \A q \in Requests \ {r} : pc'[q] = pc[q] /\ lease'[q] = lease[q]
  BY <1>1, RequestFrame
<1>2. ASSUME NEW r \in Requests, RequestStep(r), pc'[r] = "recordProxy"
      PROVE  /\ lease'[r].node = lease[r].node
             /\ lease'[r].gen = lease[r].gen
             /\ lease[r].gen = nodeGen[lease[r].node]
             /\ UNCHANGED evidence
  <2>1. SettleConnected(r) \/ SettleFailed(r) \/ Observe(r)
    BY <1>2
    DEF RequestStep, Select, Settle, Arrive, AcquireGlobal, Reserve, RejectNotReady,
      Park, Exhaust, GiveUp, Await, Wake, FinishDial, SettleStale,
      RecordProxy, RecordTarget, Retry, Deadline, Leave, Answer,
      CloseTunnel, DropLease,
        TypeOK
  <2>2. CASE SettleConnected(r)
    BY <2>2 DEF SettleConnected, Owns, circuitVars, TypeOK, Leases
  <2>3. CASE SettleFailed(r)
    BY <2>3 DEF SettleFailed, Owns, circuitVars, capacityVars
  <2>4. CASE Observe(r)
    BY <2>4, <1>2 DEF Observe, Owns, circuitVars, capacityVars, TypeOK
  <2> QED
    BY <2>1, <2>2, <2>3, <2>4
<1>3. ASSUME NEW r \in Requests, RequestStep(r)
      PROVE  \/ UNCHANGED evidence
             \/ /\ pc[r] = "recordProxy"
                /\ evidence' = [evidence EXCEPT ![lease[r].node] =
                                  @ \cup {lease[r].gen}]
  BY <1>3
  DEF RequestStep, Select, Settle, Arrive, AcquireGlobal, Reserve, RejectNotReady,
      Park, Exhaust, GiveUp, Await, Wake, FinishDial, SettleStale, SettleConnected,
      SettleFailed, RecordProxy, RecordTarget, Retry, Deadline, Leave, Answer,
      Observe, CloseTunnel, DropLease,
      circuitVars
<1>4. ASSUME NEW r \in Requests, RequestStep(r) PROVE EvidenceInv'
  <2>1. \A n \in Nodes : ResetPending(n)' <=> ResetPending(n)
    BY <1>1, <1>4 DEF ResetPending
  <2>2. ASSUME NEW n \in Nodes, ~ResetPending(n)'
        PROVE  evidence'[n] \subseteq {nodeGen'[n]}
    <3>1. evidence[n] \subseteq {nodeGen[n]} /\ nodeGen' = nodeGen
      BY <1>1, <1>4, <2>1, <2>2 DEF EvidenceInv
    <3>2. CASE UNCHANGED evidence
      BY <3>1, <3>2
    <3>3. CASE /\ pc[r] = "recordProxy"
               /\ evidence' = [evidence EXCEPT ![lease[r].node] =
                                 @ \cup {lease[r].gen}]
      <4>1. CASE lease[r].node = n
        <5>1. lease[r].gen = nodeGen[n]
          BY <2>1, <2>2, <3>3, <4>1 DEF EvidenceInv
        <5> QED
          BY <3>1, <3>3, <4>1, <5>1 DEF TypeOK
      <4>2. CASE lease[r].node # n
        BY <3>1, <3>3, <4>2 DEF TypeOK
      <4> QED
        BY <4>1, <4>2
    <3> QED
      BY <1>3, <1>4, <3>2, <3>3
  <2>3. ASSUME NEW q \in Requests, pc'[q] = "recordProxy",
               ~ResetPending(lease[q].node)', q # r
        PROVE  lease'[q].gen = nodeGen'[lease'[q].node]
    BY <1>1, <1>4, <2>1, <2>3 DEF EvidenceInv, LeaseShape, LeaseStates
  <2> QED
    BY <1>1, <1>2, <1>4, <2>1, <2>2, <2>3 DEF EvidenceInv
<1>5. ASSUME NEW a \in Admins, CommandStep(a) PROVE EvidenceInv'
  <2>1. UNCHANGED <<pc, lease, probe>>
    BY <1>5 DEF CommandStep, BeginCommand, PublishCommand, FinishCommand,
                requestVars, capacityVars
  <2>2. ASSUME NEW n \in Nodes, ~ResetPending(n)'
        PROVE  /\ nodeGen'[n] = nodeGen[n]
               /\ \/ evidence'[n] = {} /\ StatusFree(n)
                  \/ evidence'[n] = evidence[n] /\ ~ResetPending(n)
    BY <1>5, <2>2, ResetIsDue
  <2> QED
    BY <2>1, <2>2 DEF EvidenceInv, LeaseShape, LeaseStates, StatusFree
<1>6. ASSUME NEW n \in Nodes, ProbeStep(n) PROVE EvidenceInv'
  <2>1. UNCHANGED <<pc, lease, nodeGen, admin>>
    BY <1>6 DEF ProbeStep, StartProbe, ReadGeneration, RecheckRow, DiscardProbe,
                CheckProbe, RecordProbe, PublishProbe, requestVars, capacityVars,
                configVars
  <2>2. \A m \in Nodes : ResetPending(m)' <=> ResetPending(m)
    BY <2>1 DEF ResetPending
  <2>3. \A m \in Nodes \ {n} : probe'[m] = probe[m] /\ evidence'[m] = evidence[m]
    BY <1>6 DEF ProbeStep, StartProbe, ReadGeneration, RecheckRow, DiscardProbe,
                CheckProbe, RecordProbe, PublishProbe, circuitVars, TypeOK
  <2>4. probe'[n].pc = "record" => probe'[n].gen = nodeGen[n]
    <3>1. CASE \E proven \in BOOLEAN : CheckProbe(n, proven)
      <4>1. PICK proven \in BOOLEAN : CheckProbe(n, proven)
        BY <3>1
      <4>2. nodeGen[n] = probe[n].gen /\ evidence' = evidence
        BY <4>1 DEF CheckProbe, circuitVars
      <4>3. probe'[n] = [probe[n] EXCEPT !.pc =
                           IF proven /\ ~OwnedHalfOpen(breaker[n])
                           THEN "record" ELSE "publish"]
        BY <4>1 DEF CheckProbe, TypeOK
      <4>4. probe'[n].gen = probe[n].gen
        BY <4>3 DEF TypeOK, Probes
      <4> QED
        BY <4>2, <4>4
    <3>2. ASSUME ~(\E proven \in BOOLEAN : CheckProbe(n, proven))
          PROVE  probe'[n].pc # "record"
      <4>1. probe[n] \in Probes /\ DOMAIN probe = Nodes
        BY DEF TypeOK
      <4>2. StartProbe(n) => probe'[n].pc = "read"
        BY <4>1 DEF StartProbe
      <4>3. ReadGeneration(n) => probe'[n].pc = "testing"
        BY <4>1 DEF ReadGeneration, Probes
      <4>4. RecheckRow(n) => probe'[n].pc = "checked"
        BY <4>1 DEF RecheckRow, Probes
      <4>5. DiscardProbe(n) => probe'[n].pc = "idle"
        BY <4>1 DEF DiscardProbe, NoProbe
      <4>6. RecordProbe(n) => probe'[n].pc = "publish"
        BY <4>1 DEF RecordProbe, Probes
      <4>7. (\E ok \in BOOLEAN : PublishProbe(n, ok)) => probe'[n].pc = "idle"
        BY <4>1 DEF PublishProbe, NoProbe
      <4> QED
        BY <1>6, <3>2, <4>2, <4>3, <4>4, <4>5, <4>6, <4>7 DEF ProbeStep
    <3> QED
      BY <3>1, <3>2
  <2>5. \/ evidence'[n] = evidence[n]
        \/ probe[n].pc = "record" /\ evidence'[n] = evidence[n] \cup {probe[n].gen}
    BY <1>6 DEF ProbeStep, StartProbe, ReadGeneration, RecheckRow, DiscardProbe,
                CheckProbe, RecordProbe, PublishProbe, circuitVars, TypeOK
  <2>6. ASSUME NEW m \in Nodes, ~ResetPending(m)
        PROVE  evidence'[m] \subseteq {nodeGen[m]}
    BY <2>3, <2>5, <2>6 DEF EvidenceInv
  <2>7. ASSUME NEW m \in Nodes, ~ResetPending(m), probe'[m].pc = "record"
        PROVE  probe'[m].gen = nodeGen[m]
    BY <2>3, <2>4, <2>7 DEF EvidenceInv
  <2> QED
    BY <2>1, <2>2, <2>6, <2>7 DEF EvidenceInv, LeaseShape, LeaseStates
<1>7. ASSUME UNCHANGED <<pc, lease, evidence, nodeGen, admin, probe>>
      PROVE  EvidenceInv'
  BY <1>7 DEF EvidenceInv, ResetPending
<1>8. CASE Environment
  <2>1. UNCHANGED <<pc, lease, evidence, nodeGen, admin, probe>>
    BY <1>8 DEF Environment, CoolProxy, ExpireReadiness, CoolTarget,
                UpdateAdvancedConfig, configVars, capacityVars, requestVars,
                circuitVars
  <2> QED
    BY <1>7, <2>1
<1> QED
  BY <1>4, <1>5, <1>6, <1>7, <1>8
  DEF Next, vars, configVars, capacityVars, requestVars, circuitVars

\* When edits come one after another, the breakers of a node reflect only
\* outcomes of its present configuration once the handlers are done, whatever
\* dials, forwarded responses and probes were under way.  The hypothesis is
\* needed: run dispatch_concurrent_edits shows the race of two edits.
THEOREM EvidenceIsCurrentHolds ==
    ASSUME \A a, b \in Admins : a = b
    PROVE  Spec => []EvidenceIsCurrent
<1>1. Init => TypeOK /\ LeaseShape /\ GenerationInv /\ EvidenceInv
  BY InitTypes DEF Init, GenerationInv, EvidenceInv, NoCommand, NoProbe
<1>2. TypeOK /\ LeaseShape /\ GenerationInv /\ EvidenceInv /\ [Next]_vars
        => (TypeOK /\ LeaseShape /\ GenerationInv /\ EvidenceInv)'
  BY TypeStep, ShapeStep, GenerationStep, EvidenceStep
<1>3. EvidenceInv => EvidenceIsCurrent
  BY DEF EvidenceInv, EvidenceIsCurrent, ResetPending, EditPending
<1> QED
  BY <1>1, <1>2, <1>3, PTL DEF Spec

-----------------------------------------------------------------------------


\* What a step does to leases: a reservation makes one, a drop ends one, and
\* nothing else moves a lease to another node, changes its generation or
\* touches the count of live leases.
LEMMA LeaseMoves ==
    ASSUME TypeOK, LeaseShape, [Next]_vars
    PROVE  \/ \E r \in Requests, n \in Nodes : Reserve(r, n)
           \/ \E r \in Requests :
                /\ DropLease(r)
                /\ pc[r] \in LeaseStates
                /\ pc'[r] \notin LeaseStates
                /\ \A q \in Requests \ {r} : pc'[q] = pc[q]
           \/ /\ UNCHANGED active
              /\ \A q \in Requests : /\ lease'[q].node = lease[q].node
                                     /\ lease'[q].gen = lease[q].gen
<1> USE DEF capacityVars
<1>1. CASE UNCHANGED <<lease, active>>
  BY <1>1
<1>2. ASSUME NEW r \in Requests, RequestStep(r),
             ~ \E n \in Nodes : Reserve(r, n)
      PROVE  \/ /\ DropLease(r)
                /\ pc[r] \in LeaseStates
                /\ pc'[r] \notin LeaseStates
                /\ \A q \in Requests \ {r} : pc'[q] = pc[q]
             \/ /\ UNCHANGED active
                /\ \A q \in Requests : /\ lease'[q].node = lease[q].node
                                       /\ lease'[q].gen = lease[q].gen
  <2>1. CASE \/ Arrive(r) \/ AcquireGlobal(r) \/ Await(r) \/ Wake(r)
             \/ Leave(r) \/ Observe(r)
    BY <2>1 DEF Arrive, AcquireGlobal, Await, Wake, Leave, Observe
  <2>2. CASE RejectNotReady(r) \/ Park(r) \/ Exhaust(r)
    BY <2>2 DEF RejectNotReady, Park, Exhaust, GiveUp
  <2>3. CASE SettleStale(r) \/ SettleFailed(r)
    BY <2>3 DEF SettleStale, SettleFailed
  <2>4. CASE SettleConnected(r)
    <3>1. /\ lease' = [lease EXCEPT ![r].dial = FALSE]
          /\ UNCHANGED active
      BY <2>4 DEF SettleConnected
    <3> QED
      BY <3>1 DEF TypeOK, Leases
  <2>5. CASE RecordProxy(r) \/ RecordTarget(r)
    BY <2>5 DEF RecordProxy, RecordTarget
  <2>6. ASSUME NEW result \in Connected \cup Failures, FinishDial(r, result)
        PROVE  UNCHANGED <<lease, active>>
    BY <2>6 DEF FinishDial
  <2>7. ASSUME NEW status \in Answers, Answer(r, status)
        PROVE  UNCHANGED <<lease, active>>
    BY <2>7 DEF Answer
  <2>8. CASE Retry(r) \/ CloseTunnel(r)
    BY <2>8 DEF Retry, CloseTunnel, LeaseStates, TypeOK
  <2>9. CASE Deadline(r)
    BY <2>9 DEF Deadline, LeaseStates, TypeOK
  <2> QED
    BY <1>2, <2>1, <2>2, <2>3, <2>4, <2>5, <2>6, <2>7, <2>8, <2>9
    DEF RequestStep, Select, Settle
<1>3. ASSUME NEW a \in Admins, CommandStep(a) PROVE UNCHANGED <<lease, active>>
  BY <1>3 DEF CommandStep, BeginCommand, PublishCommand, FinishCommand
<1>4. ASSUME NEW n \in Nodes, ProbeStep(n) PROVE UNCHANGED <<lease, active>>
  BY <1>4 DEF ProbeStep, StartProbe, ReadGeneration, RecheckRow, DiscardProbe,
              CheckProbe, RecordProbe, PublishProbe
<1>5. CASE Environment
  BY <1>1, <1>5 DEF Environment, CoolProxy, ExpireReadiness, CoolTarget,
                    UpdateAdvancedConfig
<1> QED
  BY <1>1, <1>2, <1>3, <1>4, <1>5 DEF Next, vars

\* A task that may reserve or that has just dropped its lease has none.
LEMMA NoLeaseNoNode ==
    ASSUME TypeOK, LeaseShape, NEW r \in Requests, pc[r] \notin LeaseStates
    PROVE  lease[r].node \notin Nodes
  BY DispatchAssumption DEF LeaseShape, NoLease

LiveLeases(n) == {r \in Requests : lease[r].node = n}

\* Every step keeps the count equal to the number of live leases.
LEMMA ActiveStep ==
    ASSUME TypeOK, LeaseShape, ActiveIsLive, [Next]_vars
    PROVE  ActiveIsLive'
<1>1. \A n \in Nodes : /\ IsFiniteSet(LiveLeases(n))
                       /\ Cardinality(LiveLeases(n)) \in Nat
                       /\ active[n] = Cardinality(LiveLeases(n))
  BY FS_Subset, FS_CardinalityType, DispatchAssumption
  DEF LiveLeases, ActiveIsLive
<1>2. SUFFICES ASSUME NEW n \in Nodes
               PROVE  active'[n] = Cardinality(LiveLeases(n)')
  BY DEF LiveLeases, ActiveIsLive
<1>3. ASSUME NEW r \in Requests, NEW m \in Nodes, Reserve(r, m)
      PROVE  active'[n] = Cardinality(LiveLeases(n)')
  <2>1. /\ active' = [active EXCEPT ![m] = @ + 1]
        /\ lease' = [lease EXCEPT
                       ![r] = [node |-> m, gen |-> nodeGen[m], dial |-> TRUE]]
        /\ pc[r] = "selecting"
    BY <1>3 DEF Reserve
  <2>2. r \notin LiveLeases(n)
    BY <2>1, NoLeaseNoNode DEF LiveLeases, LeaseStates
  <2>3. CASE m = n
    <3>1. LiveLeases(n)' = LiveLeases(n) \cup {r}
      BY <2>1, <2>3 DEF LiveLeases, TypeOK
    <3>2. Cardinality(LiveLeases(n) \cup {r}) = Cardinality(LiveLeases(n)) + 1
      BY <1>1, <2>2, FS_AddElement
    <3>3. active'[n] = active[n] + 1
      BY <2>1, <2>3 DEF TypeOK
    <3> QED
      BY <1>1, <3>1, <3>2, <3>3
  <2>4. CASE m # n
    <3>1. LiveLeases(n)' = LiveLeases(n)
      BY <2>1, <2>2, <2>4 DEF LiveLeases, TypeOK
    <3>2. active'[n] = active[n]
      BY <2>1, <2>4 DEF TypeOK
    <3> QED
      BY <1>1, <3>1, <3>2
  <2> QED
    BY <2>3, <2>4
<1>4. ASSUME NEW r \in Requests, DropLease(r), pc[r] \in LeaseStates
      PROVE  active'[n] = Cardinality(LiveLeases(n)')
  <2>1. /\ active' = [active EXCEPT ![lease[r].node] = @ - 1]
        /\ lease' = [lease EXCEPT ![r] = NoLease]
        /\ lease[r].node \in Nodes
    BY <1>4 DEF DropLease, ActiveWithout, LeaseShape
  <2>2. LiveLeases(n)' = LiveLeases(n) \ {r}
    BY <2>1, DispatchAssumption DEF LiveLeases, TypeOK, NoLease
  <2>3. CASE lease[r].node = n
    <3>1. Cardinality(LiveLeases(n) \ {r}) = Cardinality(LiveLeases(n)) - 1
      BY <1>1, <2>3, FS_RemoveElement DEF LiveLeases
    <3>2. active'[n] = active[n] - 1
      BY <2>1, <2>3 DEF TypeOK
    <3> QED
      BY <1>1, <2>2, <3>1, <3>2
  <2>4. CASE lease[r].node # n
    <3>1. LiveLeases(n)' = LiveLeases(n)
      BY <2>2, <2>4 DEF LiveLeases
    <3>2. active'[n] = active[n]
      BY <2>1, <2>4 DEF TypeOK
    <3> QED
      BY <1>1, <3>1, <3>2
  <2> QED
    BY <2>3, <2>4
<1>5. ASSUME UNCHANGED active,
             \A q \in Requests : lease'[q].node = lease[q].node
      PROVE  active'[n] = Cardinality(LiveLeases(n)')
  <2>1. LiveLeases(n)' = LiveLeases(n)
    BY <1>5 DEF LiveLeases
  <2> QED
    BY <1>1, <1>5, <2>1
<1> QED
  BY <1>3, <1>4, <1>5, LeaseMoves

\* The load that an algorithm sees is the number of live leases of the node.
THEOREM ActiveIsLiveHolds == Spec => []ActiveIsLive
<1>1. Init => TypeOK /\ LeaseShape /\ ActiveIsLive
  <2> SUFFICES ASSUME Init PROVE ActiveIsLive
    BY InitTypes
  <2>1. \A n \in Nodes : active[n] = 0 /\ LiveLeases(n) = {}
    BY DispatchAssumption DEF Init, LiveLeases, NoLease
  <2>2. \A n \in Nodes : active[n] = 0 /\ Cardinality(LiveLeases(n)) = 0
    BY <2>1, FS_EmptySet
  <2> QED
    BY <2>2 DEF ActiveIsLive, LiveLeases
<1>2. TypeOK /\ LeaseShape /\ ActiveIsLive /\ [Next]_vars
        => (TypeOK /\ LeaseShape /\ ActiveIsLive)'
  BY TypeStep, ShapeStep, ActiveStep
<1> QED
  BY <1>1, <1>2, PTL DEF Spec

-----------------------------------------------------------------------------

\* ReadinessIsProven made inductive: what a proof of readiness, or a probe that
\* passed its recheck, says of the present generation of a node it says of the
\* present row, and no generation is ahead of the snapshot.
ReadinessInv ==
    \A n \in Nodes :
        /\ nodeGen[n] <= routingGen
        /\ proof[n].gen <= routingGen
        /\ probe[n].gen <= routingGen
        /\ proof[n].gen = nodeGen[n] /\ nodeGen[n] # 0 => proof[n].cfg = cfg[n]
        /\ /\ probe[n].pc \in {"checked", "record", "publish"}
           /\ probe[n].gen = nodeGen[n]
           /\ nodeGen[n] # 0
           => probe[n].cfg = cfg[n]

\* Every step keeps ReadinessInv, whatever the administrators do at once.
LEMMA ReadinessStep ==
    ASSUME TypeOK, ReadinessInv, [Next]_vars
    PROVE  ReadinessInv'
<1>1. ASSUME UNCHANGED <<cfg, nodeGen, routingGen, proof, probe>>
      PROVE  ReadinessInv'
  BY <1>1 DEF ReadinessInv
<1>2. ASSUME NEW r \in Requests, RequestStep(r)
      PROVE  UNCHANGED <<cfg, nodeGen, routingGen, proof, probe>>
  BY <1>2
  DEF RequestStep, Select, Settle, Arrive, AcquireGlobal, Reserve, RejectNotReady,
      Park, Exhaust, GiveUp, Await, Wake, FinishDial, SettleStale, SettleConnected,
      SettleFailed, RecordProxy, RecordTarget, Retry, Deadline, Leave, Answer,
      Observe, CloseTunnel, configVars
<1>3. ASSUME NEW a \in Admins, CommandStep(a) PROVE ReadinessInv'
  <2>1. CASE PublishCommand(a)
    <3> DEFINE n == admin[a].node
               value == admin[a].cfg
    <3>1. /\ routingGen' = routingGen + 1
          /\ probe' = probe
      BY <2>1 DEF PublishCommand
    <3>2. CASE UNCHANGED <<cfg, nodeGen, proof>>
      BY <3>1, <3>2 DEF ReadinessInv, TypeOK, Probes, Proofs
    <3>3. CASE /\ cfg' = [cfg EXCEPT ![n] = value]
               /\ nodeGen' = [nodeGen EXCEPT ![n] =
                                 IF value \notin Configs THEN 0
                                 ELSE IF value # cfg[n] THEN routingGen + 1
                                 ELSE @]
               /\ proof' = IF value = "gone"
                           THEN [proof EXCEPT ![n] = NoProof] ELSE proof
      <4>1. \A m \in Nodes : /\ nodeGen[m] \in Nat /\ proof[m].gen \in Nat
                             /\ probe[m].gen \in Nat /\ routingGen \in Nat
        BY DispatchAssumption DEF TypeOK, Probes, Proofs
      <4>2. ASSUME NEW m \in Nodes, m # n
            PROVE  /\ cfg'[m] = cfg[m] /\ nodeGen'[m] = nodeGen[m]
                   /\ proof'[m] = proof[m]
        BY <3>3, <4>2 DEF TypeOK
      <4>3. ASSUME n \in Nodes
            PROVE  /\ cfg'[n] = value
                   /\ \/ nodeGen'[n] = 0
                      \/ nodeGen'[n] = routingGen + 1
                      \/ nodeGen'[n] = nodeGen[n] /\ value = cfg[n]
                   /\ proof'[n] = NoProof \/ proof'[n] = proof[n]
        BY <3>3, <4>3 DEF TypeOK
      <4> QED
        BY <3>1, <4>1, <4>2, <4>3 DEF ReadinessInv, NoProof
    <3> QED
      BY <2>1, <3>2, <3>3 DEF PublishCommand
  <2>2. CASE ~PublishCommand(a)
    BY <1>1, <1>3, <2>2 DEF CommandStep, BeginCommand, FinishCommand, configVars
  <2> QED
    BY <2>1, <2>2
<1>4. ASSUME NEW n \in Nodes, ProbeStep(n) PROVE ReadinessInv'
  <2>1. /\ UNCHANGED <<cfg, nodeGen, routingGen>>
        /\ \A m \in Nodes \ {n} : probe'[m] = probe[m] /\ proof'[m] = proof[m]
    BY <1>4 DEF ProbeStep, StartProbe, ReadGeneration, RecheckRow, DiscardProbe,
                CheckProbe, RecordProbe, PublishProbe, configVars, TypeOK
  <2>2. probe[n] \in Probes /\ proof[n] \in Proofs /\ 0 <= routingGen
    BY DispatchAssumption DEF TypeOK
  <2>3. CASE StartProbe(n) \/ DiscardProbe(n)
    <3>1. /\ probe'[n].pc \in {"read", "idle"} /\ probe'[n].gen = 0
          /\ proof' = proof
      BY <2>3 DEF StartProbe, DiscardProbe, NoProbe, TypeOK
    <3> QED
      BY <2>1, <2>2, <3>1 DEF ReadinessInv
  <2>4. CASE ReadGeneration(n)
    <3>1. /\ probe'[n].pc = "testing" /\ probe'[n].gen = nodeGen[n]
          /\ proof' = proof
      BY <2>2, <2>4 DEF ReadGeneration, TypeOK, Probes
    <3> QED
      BY <2>1, <3>1 DEF ReadinessInv
  <2>5. CASE RecheckRow(n)
    <3>1. /\ probe'[n].gen = probe[n].gen /\ probe'[n].cfg = cfg[n]
          /\ proof' = proof
      BY <2>2, <2>5 DEF RecheckRow, TypeOK, Probes
    <3> QED
      BY <2>1, <3>1 DEF ReadinessInv
  <2>6. CASE (\E proven \in BOOLEAN : CheckProbe(n, proven)) \/ RecordProbe(n)
    <3>1. /\ probe[n].pc \in {"checked", "record"}
          /\ probe'[n].gen = probe[n].gen /\ probe'[n].cfg = probe[n].cfg
          /\ proof' = proof
      BY <2>2, <2>6 DEF CheckProbe, RecordProbe, TypeOK, Probes
    <3> QED
      BY <2>1, <3>1 DEF ReadinessInv
  <2>7. ASSUME NEW ok \in BOOLEAN, PublishProbe(n, ok) PROVE ReadinessInv'
    <3>1. /\ probe[n].pc = "publish" /\ probe'[n] = NoProbe
          /\ proof'[n] = IF ok THEN [gen |-> probe[n].gen, cfg |-> probe[n].cfg]
                               ELSE NoProof
      BY <2>7 DEF PublishProbe, TypeOK
    <3> QED
      BY <2>1, <2>2, <3>1 DEF ReadinessInv, NoProbe, NoProof
  <2> QED
    BY <1>4, <2>3, <2>4, <2>5, <2>6, <2>7 DEF ProbeStep
<1>5. ASSUME Environment PROVE ReadinessInv'
  <2>1. ASSUME NEW n \in Nodes, ExpireReadiness(n) PROVE ReadinessInv'
    BY <2>1, DispatchAssumption
    DEF ExpireReadiness, ReadinessInv, NoProof, TypeOK, configVars
  <2> QED
    BY <1>1, <1>5, <2>1
    DEF Environment, CoolProxy, CoolTarget, UpdateAdvancedConfig, configVars
<1> QED
  BY <1>1, <1>2, <1>3, <1>4, <1>5 DEF Next, vars, configVars

\* Any number of administrators edit at once: a required node is offered only
\* on the strength of a test of the configuration it has now.
THEOREM ReadinessIsProvenHolds == Spec => []ReadinessIsProven
<1>1. Init => TypeOK /\ LeaseShape /\ ReadinessInv
  BY InitTypes DEF Init, ReadinessInv, NoProof, NoProbe
<1>2. TypeOK /\ LeaseShape /\ ReadinessInv /\ [Next]_vars
        => (TypeOK /\ LeaseShape /\ ReadinessInv)'
  BY TypeStep, ShapeStep, ReadinessStep
<1>3. ReadinessInv => ReadinessIsProven
  BY DispatchAssumption DEF ReadinessInv, ReadinessIsProven, Unready
<1> QED
  BY <1>1, <1>2, <1>3, PTL DEF Spec

-----------------------------------------------------------------------------

\* The owner of a breaker after it changed from b to c: the same, none, or
\* nobody alive because the lease of q, which owned it, was dropped.
SameOwnerOrNone(b, c) == c.attempt \in {b.attempt, NoToken}

\* What each operation of a breaker does to its owner.
LEMMA BreakerAttempts ==
    /\ NewBreaker.attempt = NoToken
    /\ \A b \in Breakers :
         /\ RecordSuccess(b).attempt = NoToken
         /\ SameOwnerOrNone(b, CancelHalfOpen(b))
         /\ SameOwnerOrNone(b, [b EXCEPT !.cooled = TRUE])
         /\ \A t \in Thresholds : SameOwnerOrNone(b, RecordFailure(b, t))
         /\ \A longer \in BOOLEAN : SameOwnerOrNone(b, ApplyTimeout(b, longer))
         /\ \A r \in Requests :
              /\ Forget(b, r).attempt = IF b.attempt = r THEN DeadToken
                                                        ELSE b.attempt
              /\ TryBeginAttempt(b, r).attempt = IF b.state = "CLOSED"
                                                 THEN b.attempt ELSE r
         /\ Owned(b) =>
              /\ CancelHalfOpen(b).attempt = NoToken
              /\ \A t \in Thresholds : RecordFailure(b, t).attempt = NoToken
<1> USE TokenAssumption
    DEF Breakers, Tokens, NewBreaker, SameOwnerOrNone, Owned
<1>1. NewBreaker.attempt = NoToken
  OBVIOUS
<1>2. ASSUME NEW b \in Breakers
      PROVE  /\ RecordSuccess(b).attempt = NoToken
             /\ SameOwnerOrNone(b, CancelHalfOpen(b))
             /\ SameOwnerOrNone(b, [b EXCEPT !.cooled = TRUE])
  BY DEF RecordSuccess, CancelHalfOpen
<1>3. ASSUME NEW b \in Breakers, NEW t \in Thresholds
      PROVE  /\ SameOwnerOrNone(b, RecordFailure(b, t))
             /\ Owned(b) => RecordFailure(b, t).attempt = NoToken
  BY DEF RecordFailure
<1>4. ASSUME NEW b \in Breakers, NEW longer \in BOOLEAN
      PROVE  SameOwnerOrNone(b, ApplyTimeout(b, longer))
  BY DEF ApplyTimeout
<1>5. ASSUME NEW b \in Breakers, NEW r \in Requests
      PROVE  /\ Forget(b, r).attempt = IF b.attempt = r THEN DeadToken
                                                       ELSE b.attempt
             /\ TryBeginAttempt(b, r).attempt = IF b.state = "CLOSED"
                                                THEN b.attempt ELSE r
  BY DEF Forget, TryBeginAttempt
<1>6. ASSUME NEW b \in Breakers, Owned(b)
      PROVE  CancelHalfOpen(b).attempt = NoToken
  BY <1>6 DEF CancelHalfOpen
<1> QED
  BY <1>1, <1>2, <1>3, <1>4, <1>5, <1>6

\* No step but a reservation and a drop gives a breaker another owner.
OwnersKept ==
    \A n \in Nodes :
        /\ SameOwnerOrNone(breaker[n], breaker'[n])
        /\ \A t \in Targets : SameOwnerOrNone(target[n][t], target'[n][t])

LEMMA OwnerMoves ==
    ASSUME TypeOK, LeaseShape, [Next]_vars
    PROVE  \/ \E r \in Requests, n \in Nodes : Reserve(r, n)
           \/ \E r \in Requests : DropLease(r)
           \/ OwnersKept
<1> USE DEF circuitVars
<1>1. ASSUME UNCHANGED <<breaker, target>> PROVE OwnersKept
  BY <1>1 DEF OwnersKept, SameOwnerOrNone
<1>2. ASSUME NEW r \in Requests, RequestStep(r),
             ~ \E n \in Nodes : Reserve(r, n), ~DropLease(r)
      PROVE  OwnersKept
  <2>1. CASE RecordProxy(r)
    <3> DEFINE m == lease[r].node
    <3>1. /\ target' = target
          /\ \/ breaker' = [breaker EXCEPT ![m] = RecordFailure(@, threshold)]
             \/ breaker' = [breaker EXCEPT ![m] = RecordSuccess(@)]
      BY <2>1 DEF RecordProxy
    <3>2. ASSUME NEW n \in Nodes PROVE SameOwnerOrNone(breaker[n], breaker'[n])
      <4>1. \/ breaker'[n] = breaker[n]
            \/ breaker'[n] = RecordFailure(breaker[n], threshold)
            \/ breaker'[n] = RecordSuccess(breaker[n])
        BY <3>1 DEF TypeOK
      <4>2. breaker[n] \in Breakers /\ threshold \in Thresholds
        BY DEF TypeOK
      <4> QED
        BY <4>1, <4>2, BreakerAttempts DEF SameOwnerOrNone
    <3> QED
      BY <3>1, <3>2 DEF OwnersKept, SameOwnerOrNone
  <2>2. CASE RecordTarget(r)
    <3> DEFINE m == lease[r].node
               u == TargetOf[r]
    <3>1. /\ breaker' = breaker
          /\ \/ target' = [target EXCEPT ![m][u] = CancelHalfOpen(@)]
             \/ target' = [target EXCEPT ![m][u] = RecordFailure(@, threshold)]
             \/ target' = [target EXCEPT ![m][u] = NewBreaker]
      BY <2>2 DEF RecordTarget
    <3>2. ASSUME NEW n \in Nodes, NEW t \in Targets
          PROVE  SameOwnerOrNone(target[n][t], target'[n][t])
      <4>1. \/ target'[n][t] = target[n][t]
            \/ target'[n][t] = CancelHalfOpen(target[n][t])
            \/ target'[n][t] = RecordFailure(target[n][t], threshold)
            \/ target'[n][t] = NewBreaker
        <5>1. DOMAIN target = Nodes /\ DOMAIN target[n] = Targets
          BY DEF TypeOK
        <5>2. ASSUME NEW b, target' = [target EXCEPT ![m][u] = b]
              PROVE  target'[n][t] = IF n = m /\ t = u THEN b ELSE target[n][t]
          BY <5>1, <5>2
        <5> QED
          BY <3>1, <5>2
      <4>2. target[n][t] \in Breakers /\ threshold \in Thresholds
        BY DEF TypeOK
      <4> QED
        BY <4>1, <4>2, BreakerAttempts DEF SameOwnerOrNone
    <3> QED
      BY <3>1, <3>2 DEF OwnersKept, SameOwnerOrNone
  <2>3. CASE Deadline(r)
    BY <1>1, <1>2, <2>3 DEF Deadline, capacityVars
  <2>4. CASE \/ Arrive(r) \/ AcquireGlobal(r) \/ Await(r) \/ Wake(r)
             \/ Leave(r) \/ Observe(r)
    BY <1>1, <2>4 DEF Arrive, AcquireGlobal, Await, Wake, Leave, Observe
  <2>5. CASE RejectNotReady(r) \/ Park(r) \/ Exhaust(r)
    BY <1>1, <2>5 DEF RejectNotReady, Park, Exhaust, GiveUp
  <2>6. CASE Settle(r)
    BY <1>1, <2>6 DEF Settle, SettleStale, SettleConnected, SettleFailed
  <2>7. ASSUME NEW result \in Connected \cup Failures, FinishDial(r, result)
        PROVE  OwnersKept
    BY <1>1, <2>7 DEF FinishDial
  <2>8. ASSUME NEW status \in Answers, Answer(r, status) PROVE OwnersKept
    BY <1>1, <2>8 DEF Answer
  <2> QED
    BY <1>2, <2>1, <2>2, <2>3, <2>4, <2>5, <2>6, <2>7, <2>8
    DEF RequestStep, Select, Retry, CloseTunnel
<1>3. ASSUME NEW a \in Admins, CommandStep(a) PROVE OwnersKept
  <2>1. CASE FinishCommand(a) /\ admin[a].reset
    <3> DEFINE m == admin[a].node
    <3>1. /\ breaker' = [breaker EXCEPT ![m] = NewBreaker]
          /\ target' = [target EXCEPT ![m] = [t \in Targets |-> NewBreaker]]
      BY <2>1 DEF FinishCommand
    <3>2. \A n \in Nodes, t \in Targets :
            /\ breaker'[n] \in {breaker[n], NewBreaker}
            /\ target'[n][t] \in {target[n][t], NewBreaker}
      BY <3>1 DEF TypeOK
    <3> QED
      BY <3>1, <3>2, BreakerAttempts DEF OwnersKept, SameOwnerOrNone, TypeOK
  <2> QED
    BY <1>1, <1>3, <2>1
    DEF CommandStep, BeginCommand, PublishCommand, FinishCommand
<1>4. ASSUME NEW n \in Nodes, ProbeStep(n) PROVE OwnersKept
  <2>1. CASE RecordProbe(n)
    BY <2>1, BreakerAttempts
    DEF RecordProbe, OwnersKept, SameOwnerOrNone, TypeOK
  <2> QED
    BY <1>1, <1>4, <2>1
    DEF ProbeStep, StartProbe, ReadGeneration, RecheckRow, DiscardProbe,
        CheckProbe, PublishProbe
<1>5. CASE Environment
  <2>1. ASSUME NEW n \in Nodes, CoolProxy(n) PROVE OwnersKept
    BY <2>1, BreakerAttempts
    DEF CoolProxy, OwnersKept, SameOwnerOrNone, TypeOK
  <2>2. ASSUME NEW n \in Nodes, NEW t \in Targets, CoolTarget(n, t)
        PROVE  OwnersKept
    BY <2>2, BreakerAttempts
    DEF CoolTarget, OwnersKept, SameOwnerOrNone, TypeOK
  <2>3. ASSUME NEW value \in Thresholds, NEW longer \in BOOLEAN,
               UpdateAdvancedConfig(value, longer)
        PROVE  OwnersKept
    <3>1. \A n \in Nodes :
            /\ breaker[n] \in Breakers
            /\ breaker'[n] = ApplyTimeout(breaker[n], longer)
            /\ \A t \in Targets :
                 /\ target[n][t] \in Breakers
                 /\ target'[n][t] = ApplyTimeout(target[n][t], longer)
      BY <2>3 DEF UpdateAdvancedConfig, TypeOK
    <3>2. \A b \in Breakers : SameOwnerOrNone(b, ApplyTimeout(b, longer))
      BY BreakerAttempts
    <3> QED
      BY <3>1, <3>2 DEF OwnersKept
  <2>4. ASSUME NEW n \in Nodes, ExpireReadiness(n) PROVE OwnersKept
    BY <1>1, <2>4 DEF ExpireReadiness
  <2> QED
    BY <1>5, <2>1, <2>2, <2>3, <2>4 DEF Environment
<1> QED
  BY <1>1, <1>2, <1>3, <1>4, <1>5 DEF Next, vars

\* The owners of breakers after a reservation and after a drop.
LEMMA ReservedOwners ==
    ASSUME TypeOK, NEW q \in Requests, NEW m \in Nodes, Reserve(q, m),
           NEW n \in Nodes, NEW t \in Targets
    PROVE  /\ breaker'[n].attempt = IF n = m /\ breaker[n].state # "CLOSED"
                                    THEN q ELSE breaker[n].attempt
           /\ target'[n][t].attempt =
                IF n = m /\ t = TargetOf[q] /\ target[n][t].state # "CLOSED"
                THEN q ELSE target[n][t].attempt
<1>1. /\ target' = [target EXCEPT ![m][TargetOf[q]] = TryBeginAttempt(@, q)]
      /\ breaker' = [breaker EXCEPT ![m] = TryBeginAttempt(@, q)]
  BY DEF Reserve
<1>2. /\ breaker'[n] = IF n = m THEN TryBeginAttempt(breaker[n], q)
                                ELSE breaker[n]
      /\ target'[n][t] = IF n = m /\ t = TargetOf[q]
                         THEN TryBeginAttempt(target[n][t], q)
                         ELSE target[n][t]
  BY <1>1 DEF TypeOK
<1>3. breaker[n] \in Breakers /\ target[n][t] \in Breakers
  BY DEF TypeOK
<1>4. \A b \in Breakers :
        TryBeginAttempt(b, q).attempt = IF b.state = "CLOSED" THEN b.attempt ELSE q
  BY BreakerAttempts
<1> QED
  BY <1>2, <1>3, <1>4

LEMMA DroppedOwners ==
    ASSUME TypeOK, NEW q \in Requests, DropLease(q),
           NEW n \in Nodes, NEW t \in Targets
    PROVE  /\ breaker'[n].attempt = IF breaker[n].attempt = q THEN DeadToken
                                    ELSE breaker[n].attempt
           /\ target'[n][t].attempt = IF target[n][t].attempt = q THEN DeadToken
                                      ELSE target[n][t].attempt
<1>1. /\ breaker[n] \in Breakers /\ target[n][t] \in Breakers
      /\ breaker'[n] = Forget(breaker[n], q)
      /\ target'[n][t] = Forget(target[n][t], q)
  BY DEF DropLease, TypeOK
<1>2. \A b \in Breakers :
        Forget(b, q).attempt = IF b.attempt = q THEN DeadToken ELSE b.attempt
  BY BreakerAttempts
<1> QED
  BY <1>1, <1>2

-----------------------------------------------------------------------------

\* TrialAwaitsOutcome made inductive, part by part.

\* Whoever owns a trial of n, or of a target behind n, has a lease of n.
OwnersHaveLeases ==
    \A n \in Nodes, r \in Requests :
        /\ breaker[n].attempt = r => lease[r].node = n
        /\ \A t \in Targets :
             target[n][t].attempt = r => lease[r].node = n /\ t = TargetOf[r]

\* Between the two writes of a recording the trial of the node is over.
JudgedOwnsNothing ==
    \A n \in Nodes, r \in Requests :
        pc[r] = "recordTarget" => breaker[n].attempt # r

\* The trial of a node is also the trial of its target, or that target needs
\* none: nobody else is let in meanwhile.
TrialHoldsTarget ==
    \A n \in Nodes, r \in Requests :
        breaker[n].attempt = r => target[n][TargetOf[r]].attempt \in {NoToken, r}

\* Unless a reset is due, the owner was let in by the present generation.
OwnersAreCurrent ==
    \A n \in Nodes, r \in Requests :
        /\ ~ResetPending(n)
        /\ \/ breaker[n].attempt = r
           \/ target[n][TargetOf[r]].attempt = r
        => lease[r].gen = nodeGen[n] /\ nodeGen[n] # 0

\* A tunnel that owns a trial waits for the response that decides it, or had
\* that response dropped.
TunnelsAwait ==
    \A n \in Nodes, r \in Requests :
        pc[r] = "tunnel" =>
            /\ breaker[n].attempt = r /\ ~ResetPending(n)
                 => outcome[r] = "forwardUnverified"
            /\ target[n][TargetOf[r]].attempt = r
                 => outcome[r] \in {"forwardUnverified", "unjudged"}

\* Every step keeps the owners of trials among the leases of the node.
LEMMA OwnersStep ==
    ASSUME TypeOK, LeaseShape, OwnersHaveLeases, [Next]_vars
    PROVE  OwnersHaveLeases'
<1> USE TokenAssumption, DispatchAssumption
<1>1. SUFFICES ASSUME NEW n \in Nodes, NEW r \in Requests
      PROVE  /\ breaker'[n].attempt = r => lease'[r].node = n
             /\ \A t \in Targets : target'[n][t].attempt = r
                  => lease'[r].node = n /\ t = TargetOf[r]
  BY DEF OwnersHaveLeases
<1>2. ASSUME NEW q \in Requests, NEW m \in Nodes, Reserve(q, m)
      PROVE  /\ breaker'[n].attempt = r => lease'[r].node = n
             /\ \A t \in Targets : target'[n][t].attempt = r
                  => lease'[r].node = n /\ t = TargetOf[r]
  <2>1. /\ pc[q] = "selecting"
        /\ lease' = [lease EXCEPT
                       ![q] = [node |-> m, gen |-> nodeGen[m], dial |-> TRUE]]
    BY <1>2 DEF Reserve
  <2>2. lease[q].node \notin Nodes
    BY <2>1, NoLeaseNoNode DEF LeaseStates
  <2>3. lease'[r].node = IF r = q THEN m ELSE lease[r].node
    BY <2>1 DEF TypeOK
  <2>4. breaker'[n].attempt = r =>
          breaker[n].attempt = r \/ (r = q /\ n = m)
    BY <1>2, ReservedOwners
  <2>5. \A t \in Targets : target'[n][t].attempt = r =>
          target[n][t].attempt = r \/ (r = q /\ n = m /\ t = TargetOf[q])
    BY <1>2, ReservedOwners
  <2> QED
    BY <2>2, <2>3, <2>4, <2>5 DEF OwnersHaveLeases
<1>3. ASSUME NEW q \in Requests, DropLease(q)
      PROVE  /\ breaker'[n].attempt = r => lease'[r].node = n
             /\ \A t \in Targets : target'[n][t].attempt = r
                  => lease'[r].node = n /\ t = TargetOf[r]
  <2>1. lease' = [lease EXCEPT ![q] = NoLease]
    BY <1>3 DEF DropLease
  <2>2. r # q => lease'[r] = lease[r]
    BY <2>1 DEF TypeOK
  <2>3. breaker'[n].attempt = r => r # q /\ breaker[n].attempt = r
    BY <1>3, DroppedOwners
  <2>4. \A t \in Targets :
          target'[n][t].attempt = r => r # q /\ target[n][t].attempt = r
    BY <1>3, DroppedOwners
  <2> QED
    BY <2>2, <2>3, <2>4 DEF OwnersHaveLeases
<1>4. ASSUME OwnersKept, lease'[r].node = lease[r].node
      PROVE  /\ breaker'[n].attempt = r => lease'[r].node = n
             /\ \A t \in Targets : target'[n][t].attempt = r
                  => lease'[r].node = n /\ t = TargetOf[r]
  BY <1>4 DEF OwnersKept, SameOwnerOrNone, OwnersHaveLeases
<1> QED
  BY <1>2, <1>3, <1>4, LeaseMoves, OwnerMoves

\* ResetIsDue for every step.
LEMMA NoResetDue ==
    ASSUME TypeOK, GenerationInv, \A a, b \in Admins : a = b, [Next]_vars,
           NEW n \in Nodes, ~ResetPending(n)'
    PROVE  /\ nodeGen'[n] = nodeGen[n]
           /\ \/ ~ResetPending(n)
              \/ /\ breaker'[n].attempt = NoToken
                 /\ \A t \in Targets : target'[n][t].attempt = NoToken
<1>1. ASSUME UNCHANGED <<nodeGen, admin>>
      PROVE  nodeGen'[n] = nodeGen[n] /\ ~ResetPending(n)
  BY <1>1 DEF ResetPending
<1>2. ASSUME NEW a \in Admins, CommandStep(a)
      PROVE  /\ nodeGen'[n] = nodeGen[n]
             /\ \/ ~ResetPending(n)
                \/ /\ breaker'[n].attempt = NoToken
                   /\ \A t \in Targets : target'[n][t].attempt = NoToken
  BY <1>2, ResetIsDue, BreakerAttempts
<1>3. ASSUME NEW m \in Nodes, ProbeStep(m) PROVE UNCHANGED <<nodeGen, admin>>
  BY <1>3 DEF ProbeStep, StartProbe, ReadGeneration, RecheckRow, DiscardProbe,
              CheckProbe, RecordProbe, PublishProbe, configVars
<1>4. CASE Environment
  <2>1. UNCHANGED <<nodeGen, admin>>
    BY <1>4 DEF Environment, CoolProxy, ExpireReadiness, CoolTarget,
                UpdateAdvancedConfig, configVars
  <2> QED
    BY <1>1, <2>1
<1> QED
  BY <1>1, <1>2, <1>3, <1>4, RequestFrame DEF Next, vars, configVars

\* Every step keeps JudgedOwnsNothing: RecordProxy leaves the breaker without
\* an owner, and only a request that selects becomes one.
LEMMA JudgedStep ==
    ASSUME TypeOK, LeaseShape, AllOwned, OwnersHaveLeases, JudgedOwnsNothing,
           [Next]_vars
    PROVE  JudgedOwnsNothing'
<1> USE TokenAssumption, DispatchAssumption
<1>1. SUFFICES ASSUME NEW n \in Nodes, NEW r \in Requests,
                      pc'[r] = "recordTarget", breaker'[n].attempt = r
               PROVE  FALSE
  BY DEF JudgedOwnsNothing
<1>2. CASE RecordProxy(r)
  <2> DEFINE m == lease[r].node
  <2>1. \/ breaker' = [breaker EXCEPT ![m] = RecordFailure(@, threshold)]
        \/ breaker' = [breaker EXCEPT ![m] = RecordSuccess(@)]
    BY <1>2 DEF RecordProxy
  <2>2. CASE n = m
    <3>1. \/ breaker'[n] = RecordFailure(breaker[n], threshold)
          \/ breaker'[n] = RecordSuccess(breaker[n])
      BY <2>1, <2>2 DEF TypeOK
    <3>2. breaker[n] \in Breakers /\ threshold \in Thresholds /\ Owned(breaker[n])
      BY DEF TypeOK, AllOwned
    <3>3. /\ RecordSuccess(breaker[n]).attempt = NoToken
          /\ RecordFailure(breaker[n], threshold).attempt = NoToken
      BY <3>2, BreakerAttempts
    <3>4. breaker'[n].attempt = NoToken
      BY <3>1, <3>3
    <3> QED
      BY <1>1, <3>4
  <2>3. CASE n # m
    <3>1. breaker'[n] = breaker[n]
      BY <2>1, <2>3 DEF TypeOK
    <3> QED
      BY <1>1, <2>3, <3>1 DEF OwnersHaveLeases
  <2> QED
    BY <2>2, <2>3
<1>3. CASE pc[r] = "recordTarget"
  <2>1. breaker[n].attempt # r
    BY <1>3 DEF JudgedOwnsNothing
  <2>2. ASSUME NEW q \in Requests, NEW m \in Nodes, Reserve(q, m) PROVE FALSE
    <3>1. pc'[q] = "dialing"
      BY <2>2 DEF Reserve, TypeOK
    <3>2. q # r
      BY <1>1, <3>1
    <3> QED
      BY <1>1, <2>1, <2>2, <3>2, ReservedOwners
  <2>3. ASSUME NEW q \in Requests, DropLease(q) PROVE FALSE
    BY <1>1, <2>1, <2>3, DroppedOwners
  <2>4. CASE OwnersKept
    BY <1>1, <2>1, <2>4 DEF OwnersKept, SameOwnerOrNone
  <2> QED
    BY <2>2, <2>3, <2>4, OwnerMoves
<1>4. ASSUME NEW q \in Requests, RequestStep(q)
      PROVE  pc[r] = "recordTarget" \/ RecordProxy(r)
  <2>1. CASE q # r
    BY <1>1, <1>4, <2>1, RequestFrame
  <2>2. CASE q = r
    BY <1>1, <1>4, <2>2, WhereFrom
  <2> QED
    BY <2>1, <2>2
<1> QED
  BY <1>1, <1>2, <1>3, <1>4, OthersKeepRequests DEF Next

\* Every step keeps TrialHoldsTarget: a node on trial admits nobody else, so
\* its target stays with the same owner.
LEMMA TrialTargetStep ==
    ASSUME TypeOK, LeaseShape, AllOwned, OwnersHaveLeases, TrialHoldsTarget,
           [Next]_vars
    PROVE  TrialHoldsTarget'
<1> USE TokenAssumption, DispatchAssumption
<1>1. SUFFICES ASSUME NEW n \in Nodes, NEW r \in Requests,
                      breaker'[n].attempt = r
               PROVE  target'[n][TargetOf[r]].attempt \in {NoToken, r}
  BY DEF TrialHoldsTarget
<1>2. TargetOf[r] \in Targets
  OBVIOUS
<1>3. ASSUME NEW q \in Requests, NEW m \in Nodes, Reserve(q, m)
      PROVE  target'[n][TargetOf[r]].attempt \in {NoToken, r}
  <2>1. CASE n = m
    <3>1. Owned(breaker[n]) /\ Owned(target[n][TargetOf[r]])
      BY <1>2 DEF AllOwned
    <3>2. breaker[n].state = "CLOSED" => breaker[n].attempt = NoToken
      BY <3>1 DEF Owned
    <3>3. q = r
      BY <1>1, <1>2, <1>3, <2>1, <3>2, ReservedOwners
    <3>4. target[n][TargetOf[r]].state = "CLOSED"
            => target[n][TargetOf[r]].attempt = NoToken
      BY <3>1 DEF Owned
    <3> QED
      BY <1>2, <1>3, <2>1, <3>3, <3>4, ReservedOwners
  <2>2. CASE n # m
    BY <1>1, <1>2, <1>3, <2>2, ReservedOwners DEF TrialHoldsTarget
  <2> QED
    BY <2>1, <2>2
<1>4. ASSUME NEW q \in Requests, DropLease(q)
      PROVE  target'[n][TargetOf[r]].attempt \in {NoToken, r}
  <2>1. q # r /\ breaker[n].attempt = r
    BY <1>1, <1>2, <1>4, DroppedOwners
  <2> QED
    BY <1>2, <1>4, <2>1, DroppedOwners DEF TrialHoldsTarget
<1>5. CASE OwnersKept
  BY <1>1, <1>2, <1>5 DEF OwnersKept, SameOwnerOrNone, TrialHoldsTarget
<1> QED
  BY <1>3, <1>4, <1>5, OwnerMoves

\* Every step keeps OwnersAreCurrent, if edits come one after another.
LEMMA CurrentStep ==
    ASSUME TypeOK, LeaseShape, GenerationInv, OwnersHaveLeases,
           OwnersAreCurrent, \A a, b \in Admins : a = b, [Next]_vars
    PROVE  OwnersAreCurrent'
<1> USE TokenAssumption, DispatchAssumption
<1> DEFINE Owner(n, r) == \/ breaker[n].attempt = r
                          \/ target[n][TargetOf[r]].attempt = r
<1>1. SUFFICES ASSUME NEW n \in Nodes, NEW r \in Requests,
                      ~ResetPending(n)', Owner(n, r)'
               PROVE  lease'[r].gen = nodeGen'[n] /\ nodeGen'[n] # 0
  BY DEF OwnersAreCurrent
<1>2. TargetOf[r] \in Targets
  OBVIOUS
<1>3. ~ResetPending(n) /\ nodeGen'[n] = nodeGen[n]
  BY <1>1, <1>2, NoResetDue
<1>4. ASSUME NEW q \in Requests, NEW m \in Nodes, Reserve(q, m)
      PROVE  lease'[r].gen = nodeGen'[n] /\ nodeGen'[n] # 0
  <2>1. /\ pc[q] = "selecting"
        /\ lease' = [lease EXCEPT
                       ![q] = [node |-> m, gen |-> nodeGen[m], dial |-> TRUE]]
        /\ nodeGen[m] # 0
    BY <1>4 DEF Reserve, Available, Candidates, Members
  <2>2. Owner(n, r) \/ (r = q /\ n = m)
    BY <1>1, <1>2, <1>4, ReservedOwners
  <2>3. CASE r = q
    <3>1. lease[q].node \notin Nodes
      BY <2>1, NoLeaseNoNode DEF LeaseStates
    <3>2. n = m
      BY <1>2, <2>2, <2>3, <3>1 DEF OwnersHaveLeases
    <3> QED
      BY <1>3, <2>1, <2>3, <3>2 DEF TypeOK
  <2>4. CASE r # q
    <3>1. lease'[r] = lease[r]
      BY <2>1, <2>4 DEF TypeOK
    <3> QED
      BY <1>3, <2>2, <2>4, <3>1 DEF OwnersAreCurrent
  <2> QED
    BY <2>3, <2>4
<1>5. ASSUME NEW q \in Requests, DropLease(q)
      PROVE  lease'[r].gen = nodeGen'[n] /\ nodeGen'[n] # 0
  <2>1. q # r /\ Owner(n, r)
    BY <1>1, <1>2, <1>5, DroppedOwners
  <2>2. lease'[r] = lease[r]
    BY <1>5, <2>1 DEF DropLease, TypeOK
  <2> QED
    BY <1>3, <2>1, <2>2 DEF OwnersAreCurrent
<1>6. ASSUME OwnersKept, lease'[r].gen = lease[r].gen
      PROVE  lease'[r].gen = nodeGen'[n] /\ nodeGen'[n] # 0
  <2>1. Owner(n, r)
    BY <1>1, <1>2, <1>6 DEF OwnersKept, SameOwnerOrNone
  <2> QED
    BY <1>3, <1>6, <2>1 DEF OwnersAreCurrent
<1> QED
  BY <1>4, <1>5, <1>6, LeaseMoves, OwnerMoves

\* A request that becomes a tunnel was let through unverified, or was judged,
\* or was found by its own response to be disowned.
LEMMA EnterTunnel ==
    ASSUME TypeOK, NEW r \in Requests, [Next]_vars, pc'[r] = "tunnel"
    PROVE  \/ pc[r] = "tunnel" /\ outcome'[r] = outcome[r]
           \/ SettleConnected(r) /\ outcome'[r] = "forwardUnverified"
           \/ RecordTarget(r) /\ outcome[r] \notin Failures
           \/ Observe(r) /\ ~Owns(r) /\ outcome'[r] = "unjudged"
<1>1. CASE RequestStep(r)
  <2>1. CASE SettleConnected(r)
    BY <2>1 DEF SettleConnected, TypeOK
  <2>2. CASE RecordTarget(r)
    BY <2>2 DEF RecordTarget, TypeOK
  <2>3. CASE Observe(r)
    BY <2>3 DEF Observe, TypeOK
  <2> QED
    BY <1>1, <2>1, <2>2, <2>3, WhereFrom
<1>2. ASSUME NEW q \in Requests, RequestStep(q), q # r
      PROVE  pc[r] = "tunnel" /\ outcome'[r] = outcome[r]
  BY <1>2, RequestFrame
<1> QED
  BY <1>1, <1>2, OthersKeepRequests DEF Next

\* The owner of a trial of n after a step owned it before, unless it has just
\* been let in.
LEMMA OldOwner ==
    ASSUME TypeOK, LeaseShape, [Next]_vars,
           NEW n \in Nodes, NEW r \in Requests, pc'[r] # "dialing"
    PROVE  /\ breaker'[n].attempt = r => breaker[n].attempt = r
           /\ \A t \in Targets :
                target'[n][t].attempt = r => target[n][t].attempt = r
<1> USE TokenAssumption, DispatchAssumption
<1>1. ASSUME NEW q \in Requests, NEW m \in Nodes, Reserve(q, m)
      PROVE  /\ breaker'[n].attempt = r => breaker[n].attempt = r
             /\ \A t \in Targets :
                  target'[n][t].attempt = r => target[n][t].attempt = r
  <2>1. pc'[q] = "dialing"
    BY <1>1 DEF Reserve, TypeOK
  <2> QED
    BY <1>1, <2>1, ReservedOwners
<1>2. ASSUME NEW q \in Requests, DropLease(q)
      PROVE  /\ breaker'[n].attempt = r => breaker[n].attempt = r
             /\ \A t \in Targets :
                  target'[n][t].attempt = r => target[n][t].attempt = r
  BY <1>2, DroppedOwners
<1>3. CASE OwnersKept
  BY <1>3 DEF OwnersKept, SameOwnerOrNone
<1> QED
  BY <1>1, <1>2, <1>3, OwnerMoves

\* Every step keeps TunnelsAwait, if edits come one after another.
LEMMA TunnelsStep ==
    ASSUME TypeOK, LeaseShape, GenerationInv, AllOwned, OwnersHaveLeases,
           JudgedOwnsNothing, TrialHoldsTarget, OwnersAreCurrent, TunnelsAwait,
           \A a, b \in Admins : a = b, [Next]_vars
    PROVE  TunnelsAwait'
<1> USE TokenAssumption, DispatchAssumption
<1>1. SUFFICES ASSUME NEW n \in Nodes, NEW r \in Requests, pc'[r] = "tunnel"
      PROVE  /\ breaker'[n].attempt = r /\ ~ResetPending(n)'
                  => outcome'[r] = "forwardUnverified"
             /\ target'[n][TargetOf[r]].attempt = r
                  => outcome'[r] \in {"forwardUnverified", "unjudged"}
  BY DEF TunnelsAwait
<1>2. TargetOf[r] \in Targets
  OBVIOUS
<1>3. /\ breaker'[n].attempt = r => breaker[n].attempt = r
      /\ target'[n][TargetOf[r]].attempt = r
           => target[n][TargetOf[r]].attempt = r
  BY <1>1, <1>2, OldOwner
<1>4. breaker'[n].attempt = r /\ ~ResetPending(n)' => ~ResetPending(n)
  BY <1>2, NoResetDue
<1>5. CASE pc[r] = "tunnel" /\ outcome'[r] = outcome[r]
  BY <1>3, <1>4, <1>5 DEF TunnelsAwait
<1>6. CASE SettleConnected(r) /\ outcome'[r] = "forwardUnverified"
  BY <1>6
<1>7. CASE RecordTarget(r) /\ outcome[r] \notin Failures
  <2> DEFINE m == lease[r].node
             t == TargetOf[r]
  <2>1. breaker'[n].attempt # r
    BY <1>3, <1>7 DEF JudgedOwnsNothing, RecordTarget
  <2>2. ASSUME target'[n][t].attempt = r PROVE FALSE
    <3>1. n = m
      BY <1>2, <1>3, <2>2 DEF OwnersHaveLeases
    <3>2. \/ target' = [target EXCEPT ![m][t] = CancelHalfOpen(@)]
          \/ target' = [target EXCEPT ![m][t] = NewBreaker]
      BY <1>7 DEF RecordTarget, Failures
    <3>3. \/ target'[n][t] = CancelHalfOpen(target[n][t])
          \/ target'[n][t] = NewBreaker
      BY <1>2, <3>1, <3>2 DEF TypeOK
    <3>4. /\ CancelHalfOpen(target[n][t]).attempt = NoToken
          /\ NewBreaker.attempt = NoToken
      <4>1. target[n][t] \in Breakers /\ Owned(target[n][t])
        BY <1>2 DEF AllOwned, TypeOK
      <4> QED
        BY <4>1, BreakerAttempts
    <3> QED
      BY <2>2, <3>3, <3>4
  <2> QED
    BY <2>1, <2>2
<1>8. CASE Observe(r) /\ ~Owns(r) /\ outcome'[r] = "unjudged"
  <2>1. ASSUME breaker'[n].attempt = r, ~ResetPending(n)' PROVE FALSE
    <3>1. breaker[n].attempt = r /\ ~ResetPending(n)
      BY <1>3, <1>4, <2>1
    <3>2. lease[r].node = n
      BY <3>1 DEF OwnersHaveLeases
    <3>3. lease[r].gen = nodeGen[n] /\ nodeGen[n] # 0
      BY <3>1 DEF OwnersAreCurrent
    <3>4. target[n][TargetOf[r]].attempt \in {NoToken, r}
      BY <3>1 DEF TrialHoldsTarget
    <3>5. Owns(r)
      BY <3>1, <3>2, <3>3, <3>4 DEF Owns, OwnsAttempt
    <3> QED
      BY <1>8, <3>5
  <2> QED
    BY <1>8, <2>1
<1> QED
  BY <1>1, <1>5, <1>6, <1>7, <1>8, EnterTunnel

\* The inductive invariant behind TrialAwaitsOutcome.
TrialInv ==
    /\ TypeOK /\ LeaseShape /\ GenerationInv /\ AllOwned
    /\ OwnersHaveLeases /\ JudgedOwnsNothing /\ TrialHoldsTarget
    /\ OwnersAreCurrent /\ TunnelsAwait

LEMMA TrialInvHolds ==
    ASSUME \A a, b \in Admins : a = b
    PROVE  (Init => TrialInv) /\ (TrialInv /\ [Next]_vars => TrialInv')
<1>1. Init => TrialInv
  <2> SUFFICES ASSUME Init PROVE TrialInv
    OBVIOUS
  <2>1. TypeOK /\ LeaseShape /\ GenerationInv /\ AllOwned
    BY InitTypes, BreakerOwners
    DEF Init, GenerationInv, NoCommand, AllOwned
  <2>2. \A n \in Nodes : /\ breaker[n].attempt = NoToken
                         /\ \A t \in Targets : target[n][t].attempt = NoToken
    BY BreakerAttempts DEF Init
  <2>3. \A r \in Requests : pc[r] = "idle" /\ TargetOf[r] \in Targets
    BY DispatchAssumption DEF Init
  <2> QED
    BY <2>1, <2>2, <2>3, TokenAssumption
    DEF TrialInv, OwnersHaveLeases, JudgedOwnsNothing, TrialHoldsTarget,
        OwnersAreCurrent, TunnelsAwait
<1>2. TrialInv /\ [Next]_vars => TrialInv'
  BY TypeStep, ShapeStep, GenerationStep, OwnedStep, OwnersStep, JudgedStep,
     TrialTargetStep, CurrentStep, TunnelsStep
  DEF TrialInv
<1> QED
  BY <1>1, <1>2

\* When edits come one after another, the owner of a half-open trial is a live
\* lease whose outcome is still to come, but for the targets of tunnels whose
\* response was dropped.
THEOREM TrialAwaitsOutcomeHolds ==
    ASSUME \A a, b \in Admins : a = b
    PROVE  Spec => []TrialAwaitsOutcome
<1>1. TrialInv => TrialAwaitsOutcome
  <2> SUFFICES ASSUME TrialInv, NEW n \in Nodes, NEW r \in Requests
      PROVE /\ breaker[n].attempt = r =>
                 /\ lease[r].node = n
                 /\ pc[r] = "tunnel" =>
                      outcome[r] = "forwardUnverified" \/ EditPending(n)
            /\ \A t \in Targets : target[n][t].attempt = r =>
                 /\ lease[r].node = n
                 /\ t = TargetOf[r]
                 /\ pc[r] = "tunnel" =>
                      outcome[r] \in {"forwardUnverified", "unjudged"}
    BY DEF TrialAwaitsOutcome
  <2>1. ResetPending(n) => EditPending(n)
    BY DEF ResetPending, EditPending
  <2> QED
    BY <2>1 DEF TrialInv, OwnersHaveLeases, TunnelsAwait
<1>2. (Init => TrialInv) /\ (TrialInv /\ [Next]_vars => TrialInv')
  BY TrialInvHolds
<1> QED
  BY <1>1, <1>2, PTL DEF Spec

\* A response is dropped, although the tunnel it came through owns the trial of
\* its target and no edit is under way, only while the node itself is on trial
\* with another lease, alive or dropped.
THEOREM UnjudgedByRival ==
    ASSUME \A a, b \in Admins : a = b
    PROVE  Spec => [][\A r \in Requests, n \in Nodes, t \in Targets :
                        /\ pc[r] = "answered" /\ pc'[r] = "tunnel"
                        /\ target[n][t].attempt = r
                        /\ ~EditPending(n)
                        => breaker[n].attempt \notin {NoToken, r}]_vars
<1>1. ASSUME TrialInv, [Next]_vars
      PROVE  \A r \in Requests, n \in Nodes, t \in Targets :
               /\ pc[r] = "answered" /\ pc'[r] = "tunnel"
               /\ target[n][t].attempt = r
               /\ ~EditPending(n)
               => breaker[n].attempt \notin {NoToken, r}
  <2> SUFFICES ASSUME NEW r \in Requests, NEW n \in Nodes, NEW t \in Targets,
                      pc[r] = "answered", pc'[r] = "tunnel",
                      target[n][t].attempt = r, ~EditPending(n)
               PROVE  breaker[n].attempt \notin {NoToken, r}
    OBVIOUS
  <2>1. Observe(r) /\ ~Owns(r)
    BY <1>1, EnterTunnel DEF TrialInv, SettleConnected, RecordTarget
  <2>2. lease[r].node = n /\ t = TargetOf[r]
    BY <1>1 DEF TrialInv, OwnersHaveLeases
  <2>3. ~ResetPending(n)
    BY DEF ResetPending, EditPending
  <2>4. lease[r].gen = nodeGen[n] /\ nodeGen[n] # 0
    BY <1>1, <2>2, <2>3 DEF TrialInv, OwnersAreCurrent
  <2> QED
    BY <2>1, <2>2, <2>4 DEF Owns, OwnsAttempt
<1>2. (Init => TrialInv) /\ (TrialInv /\ [Next]_vars => TrialInv')
  BY TrialInvHolds
<1> QED
  BY <1>1, <1>2, PTL DEF Spec
=============================================================================
