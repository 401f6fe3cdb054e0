------------------------------ MODULE Dispatch ------------------------------
(***************************************************************************)
(* The business path of proxy.rs: a client connection asks for an upstream *)
(* node (reserve_proxy), dials it, records the outcome under the node's    *)
(* status lock and retries on another node (connect_with_fail_fast), while *)
(* probes publish health and administrators edit or delete the nodes.      *)
(*                                                                         *)
(* One TLA+ action stands for a stretch of code that no other task can     *)
(* observe half done: everything under selection_lock (TryReserve), one    *)
(* write lock on circuit_breakers or target_circuits, or the code between  *)
(* two awaits.  The owner check of an outcome and the two breaker writes   *)
(* that follow it are separate steps: reservations take selection_lock but *)
(* not the status lock, so they do interleave with a recording.            *)
(*                                                                         *)
(* The order in which an algorithm ranks the candidates is left open: any  *)
(* candidate may come first.                                               *)
(***************************************************************************)
EXTENDS CircuitBreaker, Integers, FiniteSets, Sequences

CONSTANTS
    Nodes,          \* upstream proxies
    NoNode,
    Targets,        \* destinations (host, resolved host, port)
    Admins,         \* update_proxy / delete_proxy commands in flight
    Configs,        \* connection settings an enabled node may have
    Probed,         \* bound: the nodes whose probes are in the model
    Required,       \* nodes with the required_probe health policy
    PoolOf,         \* [Requests -> SUBSET Nodes]: the group a target matches
    TargetOf,       \* [Requests -> Targets]
    MaxProxyDials,  \* max_proxy_dials
    MaxGlobalDials, \* max_global_dials
    FailFast,       \* failfast_enabled
    MaxAttempts,    \* failfast_max_attempts
    Thresholds,     \* values of circuit_failure_threshold
    MaxGen          \* bound: how many routing generations are published

ASSUME DispatchAssumption ==
    /\ IsFiniteSet(Requests)
    /\ NoNode \notin Nodes
    /\ Required \subseteq Nodes
    /\ Probed \subseteq Nodes
    /\ PoolOf \in [Requests -> SUBSET Nodes]
    /\ TargetOf \in [Requests -> Targets]
    /\ MaxProxyDials \in Nat \ {0}
    /\ MaxGlobalDials \in Nat \ {0}
    /\ FailFast \in BOOLEAN
    /\ MaxAttempts \in Nat \ {0}
    /\ Thresholds \subseteq 1..MaxFailures
    /\ Thresholds # {}
    /\ Configs # {}
    /\ Configs \cap {"off", "gone"} = {}
    /\ MaxGen \in Nat \ {0}

VARIABLES
    cfg,         \* the node's row: a config, "off" (disabled) or "gone"
    nodeGen,     \* node_generations of the snapshot; 0 = not in the snapshot
    routingGen,  \* generation of the routing snapshot
    proof,       \* probe_health: the generation last proved ready, 0 = none
                 \* (and, as history, the configuration that was tested)
    threshold,   \* runtime_settings.circuit.failure_threshold
    breaker,     \* circuit_breakers
    target,      \* target_circuits
    slots,       \* dial_slots: the requests holding a permit of the node
    global,      \* global_dial_slots: the requests holding a permit
    queue,       \* the fair queue of global_dial_slots
    registered,  \* requests enabled on dial_ready and not notified since
    active,      \* active_connections
    pc,          \* where a request's task stands
    lease,       \* its ConnectionLease
    excluded,    \* nodes it has already tried
    attempted,   \* attempts that count against MaxAttempts
    outcome,     \* result of its dial, later the kind of its tunnel
    admin,       \* the state of an administrator's command
    probe,       \* the state of the node's probe
    evidence,    \* history: generations whose outcomes the breakers reflect
    trials       \* history: requests let in by a cooled breaker of the node
                 \* whose outcome is not known yet

requestVars == <<queue, registered, pc, excluded, attempted, outcome>>
capacityVars == <<slots, global, active, lease>>
circuitVars == <<breaker, target, evidence, trials>>
configVars == <<cfg, nodeGen, routingGen, threshold>>

vars == <<requestVars, capacityVars, circuitVars, configVars, proof, admin,
          probe>>

RequestStates == {"idle", "queued", "selecting", "saturated", "parked",
                  "dialing", "settling", "recordProxy", "recordTarget",
                  "dropping", "tunnel", "answered", "failed", "notReady"}

\* "opaque" is a verified tunnel; the two forwards are plain HTTP requests
\* whose response is still to come, over an upstream that has (SOCKS) or
\* has not (HTTP proxy) proved that it reaches the target, and "unjudged" is
\* such a connection whose response was not recorded.
Connected == {"opaque", "forwardVerified", "forwardUnverified"}
Failures == {"proxyFail", "targetFail", "localFail"}
Answers == {"auth407", "response"}
Outcomes == Connected \cup Failures \cup Answers \cup {"none", "unjudged"}

NoLease == [node |-> NoNode, gen |-> 0, dial |-> FALSE]
Leases == [node : Nodes \cup {NoNode}, gen : 0..MaxGen, dial : BOOLEAN]

NoCommand == [pc |-> "idle", node |-> NoNode, cfg |-> "gone", reset |-> FALSE]
Commands == [pc    : {"idle", "read", "written"},
             node  : Nodes \cup {NoNode},
             cfg   : Configs \cup {"off", "gone"},
             reset : BOOLEAN]

NoProbe == [pc |-> "idle", gen |-> 0, cfg |-> "gone"]
Probes == [pc  : {"idle", "read", "testing", "checked", "record", "publish"},
           gen : 0..MaxGen,
           cfg : Configs \cup {"off", "gone"}]

NoProof == [gen |-> 0, cfg |-> "gone"]
Proofs == [gen : 0..MaxGen, cfg : Configs \cup {"off", "gone"}]

TypeOK ==
    /\ cfg \in [Nodes -> Configs \cup {"off", "gone"}]
    /\ nodeGen \in [Nodes -> 0..MaxGen]
    /\ routingGen \in 1..MaxGen
    /\ proof \in [Nodes -> Proofs]
    /\ threshold \in Thresholds
    /\ breaker \in [Nodes -> Breakers]
    /\ target \in [Nodes -> [Targets -> Breakers]]
    /\ slots \in [Nodes -> SUBSET Requests]
    /\ global \subseteq Requests
    /\ queue \in Seq(Requests)
    /\ registered \subseteq Requests
    /\ active \in [Nodes -> Int]
    /\ pc \in [Requests -> RequestStates]
    /\ lease \in [Requests -> Leases]
    /\ excluded \in [Requests -> SUBSET Nodes]
    /\ attempted \in [Requests -> Nat]
    /\ outcome \in [Requests -> Outcomes]
    /\ admin \in [Admins -> Commands]
    /\ probe \in [Nodes -> Probes]
    /\ evidence \in [Nodes -> SUBSET (0..MaxGen)]
    /\ trials \in [Nodes -> SUBSET Requests]

Init ==
    /\ cfg \in [Nodes -> Configs]
    /\ nodeGen = [n \in Nodes |-> 1]
    /\ routingGen = 1
    /\ proof = [n \in Nodes |-> NoProof]
    /\ threshold \in Thresholds
    /\ breaker = [n \in Nodes |-> NewBreaker]
    /\ target = [n \in Nodes |-> [t \in Targets |-> NewBreaker]]
    /\ slots = [n \in Nodes |-> {}]
    /\ global = {}
    /\ queue = <<>>
    /\ registered = {}
    /\ active = [n \in Nodes |-> 0]
    /\ pc = [r \in Requests |-> "idle"]
    /\ lease = [r \in Requests |-> NoLease]
    /\ excluded = [r \in Requests |-> {}]
    /\ attempted = [r \in Requests |-> 0]
    /\ outcome = [r \in Requests |-> "none"]
    /\ admin = [a \in Admins |-> NoCommand]
    /\ probe = [n \in Nodes |-> NoProbe]
    /\ evidence = [n \in Nodes |-> {}]
    /\ trials = [n \in Nodes |-> {}]

-----------------------------------------------------------------------------
(***************************************************************************)
(* Locks and leases                                                        *)
(***************************************************************************)

\* The status lock of n is held by a request that records an outcome for n
\* and by n's probe from its staleness check to its publication.
StatusFree(n) ==
    /\ \A r \in Requests :
         pc[r] \in {"recordProxy", "recordTarget"} => lease[r].node # n
    /\ probe[n].pc \notin {"record", "publish"}

\* Mutant: a limiter is dropped while dials still hold its permits.
RetainListedSlots(ids) == [n \in Nodes |-> IF n \in ids THEN slots[n] ELSE {}]

\* dial_slots.retain: a limiter is kept for the nodes in ids and for as long
\* as a permit of it is out.  A limiter nobody holds is as good as a new one.
RetainSlots(ids) ==
    [n \in Nodes |-> IF n \in ids \/ slots[n] # {} THEN slots[n] ELSE {}]

Full(n) == Cardinality(slots[n]) >= MaxProxyDials

\* Mutant: a lease whose dial is over is dropped without being uncounted.
ActiveWithoutDial(r) ==
    IF lease[r].dial THEN [active EXCEPT ![lease[r].node] = @ - 1] ELSE active

ActiveWithout(r) == [active EXCEPT ![lease[r].node] = @ - 1]

\* Mutant: the permits of a dropped lease come back silently.
NobodyNotified(r) == registered

\* Dropping a lease that still holds permits wakes every waiter.
WaitersAfterDrop(r) == IF lease[r].dial THEN {} ELSE registered

\* ConnectionLease::drop, then the lease's Arc: permits, notification,
\* active count, and whatever trial the lease owned is orphaned.
DropLease(r) ==
    LET n == lease[r].node
    IN  /\ slots' = [slots EXCEPT ![n] = @ \ {r}]
        /\ global' = global \ {r}
        /\ registered' = WaitersAfterDrop(r)
        /\ active' = ActiveWithout(r)
        /\ breaker' = [m \in Nodes |-> Forget(breaker[m], r)]
        /\ target' = [m \in Nodes |->
                         [t \in Targets |-> Forget(target[m][t], r)]]
        /\ lease' = [lease EXCEPT ![r] = NoLease]
        /\ trials' = [trials EXCEPT ![n] = @ \ {r}]

-----------------------------------------------------------------------------
(***************************************************************************)
(* A request asks for a node                                               *)
(***************************************************************************)

\* A new client connection reaches connect_with_fail_fast.
Arrive(r) ==
    /\ pc[r] = "idle"
    /\ pc' = [pc EXCEPT ![r] = "queued"]
    /\ queue' = Append(queue, r)
    /\ excluded' = [excluded EXCEPT ![r] = {}]
    /\ attempted' = [attempted EXCEPT ![r] = 0]
    /\ outcome' = [outcome EXCEPT ![r] = "none"]
    /\ UNCHANGED <<registered, capacityVars, circuitVars, configVars, proof,
                   admin, probe>>

\* The semaphore serves its waiters in order.  The request registers on
\* dial_ready before it looks at any capacity.
AcquireGlobal(r) ==
    /\ pc[r] = "queued"
    /\ queue # <<>>
    /\ Head(queue) = r
    /\ Cardinality(global) < MaxGlobalDials
    /\ queue' = Tail(queue)
    /\ global' = global \cup {r}
    /\ registered' = registered \cup {r}
    /\ pc' = [pc EXCEPT ![r] = "selecting"]
    /\ UNCHANGED <<excluded, attempted, outcome, slots, active, lease,
                   circuitVars, configVars, proof, admin, probe>>

Members(r) == {n \in PoolOf[r] : nodeGen[n] # 0}

\* probe_is_ready: the proof belongs to the generation of the snapshot.
Unready(n) == n \in Required /\ proof[n].gen # nodeGen[n]

Blocked(r) == \E n \in Members(r) : Unready(n)

\* select_from_context: what the request may be given at this moment.
Candidates(r) ==
    {n \in Members(r) : /\ ~Unready(n)
                        /\ n \notin excluded[r]
                        /\ CanAttempt(breaker[n])
                        /\ CanAttempt(target[n][TargetOf[r]])}

Available(r) == {n \in Candidates(r) : ~Full(n)}

\* try_reserve_proxy finds a node: a permit, the half-open trial of a cooled
\* breaker, an active count and the lease, all under selection_lock.
Reserve(r, n) ==
    /\ pc[r] = "selecting"
    /\ n \in Available(r)
    /\ slots' = [RetainSlots({m \in Nodes : nodeGen[m] # 0})
                    EXCEPT ![n] = @ \cup {r}]
    /\ target' = [target EXCEPT
                    ![n][TargetOf[r]] = TryBeginAttempt(@, r)]
    /\ breaker' = [breaker EXCEPT ![n] = TryBeginAttempt(@, r)]
    /\ active' = [active EXCEPT ![n] = @ + 1]
    /\ lease' = [lease EXCEPT
                    ![r] = [node |-> n, gen |-> nodeGen[n], dial |-> TRUE]]
    /\ excluded' = [excluded EXCEPT ![r] = @ \cup {n}]
    /\ attempted' = [attempted EXCEPT ![r] = @ + 1]
    /\ registered' = registered \ {r}
    /\ pc' = [pc EXCEPT ![r] = "dialing"]
    /\ trials' = IF breaker[n].state = "CLOSED" THEN trials
                 ELSE [trials EXCEPT ![n] = @ \cup {r}]
    /\ UNCHANGED <<global, queue, outcome, evidence, configVars, proof,
                   admin, probe>>

\* Mutant: the global permit leaks when nothing was reserved.
KeepGlobal(r) == global

ReturnGlobal(r) == global \ {r}

\* Nothing was reserved: the global permit goes back.
GiveUp(r, state) ==
    /\ pc' = [pc EXCEPT ![r] = state]
    /\ global' = ReturnGlobal(r)
    /\ slots' = RetainSlots({m \in Nodes : nodeGen[m] # 0})
    /\ UNCHANGED <<queue, excluded, attempted, outcome, active, lease,
                   circuitVars, configVars, proof, admin, probe>>

\* select_from_context returns an error as soon as its list is empty and a
\* member of the group is not ready.  The second call of try_reserve_proxy
\* passes the full nodes as excluded, so this ends the request as well when
\* its remaining candidates are only full.
RejectNotReady(r) ==
    /\ pc[r] = "selecting"
    /\ Available(r) = {}
    /\ Blocked(r)
    /\ registered' = registered \ {r}
    /\ GiveUp(r, "notReady")

\* A candidate is only full: r will wait for dial_ready.
Park(r) ==
    /\ pc[r] = "selecting"
    /\ Available(r) = {}
    /\ ~Blocked(r)
    /\ Candidates(r) # {}
    /\ registered' = registered
    /\ GiveUp(r, "saturated")

Exhaust(r) ==
    /\ pc[r] = "selecting"
    /\ Candidates(r) = {}
    /\ ~Blocked(r)
    /\ registered' = registered \ {r}
    /\ GiveUp(r, "failed")

\* Mutant: the request registers only when it starts to wait.
AwaitAndRegister(r) ==
    /\ pc[r] = "saturated"
    /\ pc' = [pc EXCEPT ![r] = "parked"]
    /\ registered' = registered \cup {r}
    /\ UNCHANGED <<queue, excluded, attempted, outcome, capacityVars,
                   circuitVars, configVars, proof, admin, probe>>

\* selection_lock is free again when ready.await is reached: permits may have
\* come back meanwhile, and the notification then is already there.
Await(r) ==
    /\ pc[r] = "saturated"
    /\ pc' = [pc EXCEPT ![r] = "parked"]
    /\ UNCHANGED <<queue, registered, excluded, attempted, outcome,
                   capacityVars, circuitVars, configVars, proof, admin,
                   probe>>

\* The notification is delivered; reserve_proxy starts over.
Wake(r) ==
    /\ pc[r] = "parked"
    /\ r \notin registered
    /\ pc' = [pc EXCEPT ![r] = "queued"]
    /\ queue' = Append(queue, r)
    /\ UNCHANGED <<registered, excluded, attempted, outcome, capacityVars,
                   circuitVars, configVars, proof, admin, probe>>

-----------------------------------------------------------------------------
(***************************************************************************)
(* Dialing, and the outcome under the status lock                          *)
(***************************************************************************)

\* connect_through_proxy returns or its attempt timeout fires.
FinishDial(r, result) ==
    /\ pc[r] = "dialing"
    /\ pc' = [pc EXCEPT ![r] = "settling"]
    /\ outcome' = [outcome EXCEPT ![r] = result]
    /\ UNCHANGED <<queue, registered, excluded, attempted, capacityVars,
                   circuitVars, configVars, proof, admin, probe>>

\* Mutant: the generation of the reservation is not compared.
OwnsAnyGeneration(r) ==
    LET n == lease[r].node
    IN  /\ OwnsAttempt(breaker[n], r)
        /\ OwnsAttempt(target[n][TargetOf[r]], r)

\* owns_current_attempt: same generation as at the reservation, and no trial
\* of another lease in either breaker.
Owns(r) ==
    LET n == lease[r].node
    IN  /\ nodeGen[n] # 0
        /\ nodeGen[n] = lease[r].gen
        /\ OwnsAttempt(breaker[n], r)
        /\ OwnsAttempt(target[n][TargetOf[r]], r)

\* The node was edited, or is being tried by somebody else: the outcome is
\* dropped and the attempt does not count.
SettleStale(r) ==
    /\ pc[r] = "settling"
    /\ StatusFree(lease[r].node)
    /\ ~Owns(r)
    /\ attempted' = [attempted EXCEPT ![r] = @ - 1]
    /\ pc' = [pc EXCEPT ![r] = "dropping"]
    /\ UNCHANGED <<queue, registered, excluded, outcome, capacityVars,
                   circuitVars, configVars, proof, admin, probe>>

\* Connected: the permits are free again and every waiter is woken.  Only an
\* upstream that proved the target goes on to be recorded.
SettleConnected(r) ==
    /\ pc[r] = "settling"
    /\ outcome[r] \in Connected
    /\ StatusFree(lease[r].node)
    /\ Owns(r)
    /\ slots' = [slots EXCEPT ![lease[r].node] = @ \ {r}]
    /\ global' = global \ {r}
    /\ lease' = [lease EXCEPT ![r].dial = FALSE]
    /\ registered' = {}
    /\ pc' = [pc EXCEPT ![r] = IF outcome[r] = "forwardUnverified"
                               THEN "tunnel" ELSE "recordProxy"]
    /\ UNCHANGED <<queue, excluded, attempted, outcome, active, circuitVars,
                   configVars, proof, admin, probe>>

\* A failure of the local network says nothing about the node.
SettleFailed(r) ==
    /\ pc[r] = "settling"
    /\ outcome[r] \in Failures
    /\ StatusFree(lease[r].node)
    /\ Owns(r)
    /\ pc' = [pc EXCEPT ![r] = IF outcome[r] = "localFail"
                               THEN "dropping" ELSE "recordProxy"]
    /\ UNCHANGED <<queue, registered, excluded, attempted, outcome,
                   capacityVars, circuitVars, configVars, proof, admin,
                   probe>>

\* The node's breaker: a failure of the proxy itself counts against it;
\* reaching the target, or a failure of the target, proves it alive.
RecordProxy(r) ==
    LET n == lease[r].node
    IN  /\ pc[r] = "recordProxy"
        /\ breaker' = [breaker EXCEPT ![n] =
                          IF outcome[r] \in {"proxyFail", "auth407"}
                          THEN RecordFailure(@, threshold)
                          ELSE RecordSuccess(@)]
        /\ evidence' = [evidence EXCEPT ![n] = @ \cup {lease[r].gen}]
        /\ trials' = [trials EXCEPT ![n] = @ \ {r}]
        /\ pc' = [pc EXCEPT ![r] = "recordTarget"]
        /\ UNCHANGED <<queue, registered, excluded, attempted, outcome,
                       capacityVars, target, configVars, proof, admin,
                       probe>>

\* The target's breaker, and the status lock is released.
RecordTarget(r) ==
    LET n == lease[r].node
    IN  /\ pc[r] = "recordTarget"
        /\ target' = [target EXCEPT ![n][TargetOf[r]] =
                         IF outcome[r] \in {"proxyFail", "auth407"}
                         THEN CancelHalfOpen(@)
                         ELSE IF outcome[r] = "targetFail"
                              THEN RecordFailure(@, threshold)
                              ELSE NewBreaker]
        /\ pc' = [pc EXCEPT ![r] = IF outcome[r] \in Failures
                                   THEN "dropping" ELSE "tunnel"]
        /\ outcome' = [outcome EXCEPT ![r] = IF @ \in Answers
                                             THEN "opaque" ELSE @]
        /\ UNCHANGED <<queue, registered, excluded, attempted, capacityVars,
                       breaker, evidence, trials, configVars, proof, admin,
                       probe>>

\* The attempt is over: its lease goes, and the loop asks for another node
\* while it may.
Retry(r) ==
    LET again == FailFast => attempted[r] < MaxAttempts
    IN  /\ pc[r] = "dropping"
        /\ DropLease(r)
        /\ pc' = [pc EXCEPT ![r] = IF again THEN "queued" ELSE "failed"]
        /\ queue' = IF again THEN Append(queue, r) ELSE queue
        /\ outcome' = [outcome EXCEPT ![r] = "none"]
        /\ UNCHANGED <<excluded, attempted, evidence, configVars, proof,
                       admin, probe>>

\* The total deadline passes at an await: the task is cancelled where it
\* stands, and whatever it owns is dropped.
Deadline(r) ==
    /\ pc' = [pc EXCEPT ![r] = "failed"]
    /\ outcome' = [outcome EXCEPT ![r] = "none"]
    /\ \/ /\ pc[r] = "queued"
          /\ \E i \in 1..Len(queue) :
               /\ queue[i] = r
               /\ queue' = SubSeq(queue, 1, i - 1)
                              \o SubSeq(queue, i + 1, Len(queue))
          /\ UNCHANGED <<registered, capacityVars, breaker, target, trials>>
       \/ /\ pc[r] = "parked"
          /\ registered' = registered \ {r}
          /\ UNCHANGED <<queue, capacityVars, breaker, target, trials>>
       \/ /\ pc[r] \in {"dialing", "settling"}
          /\ DropLease(r)
          /\ UNCHANGED queue
    /\ UNCHANGED <<excluded, attempted, evidence, configVars, proof, admin,
                   probe>>

\* The client was told; its connection slot may serve another client.
Leave(r) ==
    /\ pc[r] \in {"failed", "notReady"}
    /\ pc' = [pc EXCEPT ![r] = "idle"]
    /\ UNCHANGED <<queue, registered, excluded, attempted, outcome,
                   capacityVars, circuitVars, configVars, proof, admin,
                   probe>>

-----------------------------------------------------------------------------
(***************************************************************************)
(* An established connection                                               *)
(***************************************************************************)

\* The observer reads the status of the upstream's final response.  A 407 is
\* the proxy refusing; any other status proves an upstream that had not yet
\* been verified, and says nothing new of one that had.
Answer(r, status) ==
    /\ pc[r] = "tunnel"
    /\ \/ outcome[r] = "forwardUnverified" /\ status \in Answers
       \/ outcome[r] = "forwardVerified" /\ status = "auth407"
    /\ pc' = [pc EXCEPT ![r] = "answered"]
    /\ outcome' = [outcome EXCEPT ![r] = status]
    /\ UNCHANGED <<queue, registered, excluded, attempted, capacityVars,
                   circuitVars, configVars, proof, admin, probe>>

\* observe_forward_response takes the status lock and drops an answer that
\* no longer belongs to the node or to its trial.
Observe(r) ==
    /\ pc[r] = "answered"
    /\ StatusFree(lease[r].node)
    /\ IF Owns(r)
       THEN /\ pc' = [pc EXCEPT ![r] = "recordProxy"]
            /\ UNCHANGED outcome
       ELSE /\ pc' = [pc EXCEPT ![r] = "tunnel"]
            /\ outcome' = [outcome EXCEPT ![r] = "unjudged"]
    /\ UNCHANGED <<queue, registered, excluded, attempted, capacityVars,
                   circuitVars, configVars, proof, admin, probe>>

\* Either side closes, or the handshake with the client fails.
CloseTunnel(r) ==
    /\ pc[r] = "tunnel"
    /\ DropLease(r)
    /\ pc' = [pc EXCEPT ![r] = "idle"]
    /\ outcome' = [outcome EXCEPT ![r] = "none"]
    /\ UNCHANGED <<queue, excluded, attempted, evidence, configVars, proof,
                   admin, probe>>

-----------------------------------------------------------------------------
(***************************************************************************)
(* Time, settings, administrators                                          *)
(***************************************************************************)

\* next_attempt passes.
CoolProxy(n) ==
    /\ breaker[n].state = "OPEN" /\ ~breaker[n].cooled
    /\ breaker' = [breaker EXCEPT ![n].cooled = TRUE]
    /\ UNCHANGED <<requestVars, capacityVars, target, evidence, trials,
                   configVars, proof, admin, probe>>

CoolTarget(n, t) ==
    /\ target[n][t].state = "OPEN" /\ ~target[n][t].cooled
    /\ target' = [target EXCEPT ![n][t].cooled = TRUE]
    /\ UNCHANGED <<requestVars, capacityVars, breaker, evidence, trials,
                   configVars, proof, admin, probe>>

\* update_advanced_config: the new threshold is in force at once, a changed
\* timeout moves the deadlines of all open breakers.
UpdateAdvancedConfig(value, longer) ==
    /\ threshold' = value
    /\ breaker' = [n \in Nodes |-> ApplyTimeout(breaker[n], longer)]
    /\ target' = [n \in Nodes |->
                     [t \in Targets |-> ApplyTimeout(target[n][t], longer)]]
    /\ UNCHANGED <<requestVars, capacityVars, evidence, trials, cfg,
                   nodeGen, routingGen, proof, admin, probe>>

\* update_proxy reads the row and decides then whether the connection
\* settings change; delete_proxy always resets.
BeginCommand(a, n, value) ==
    /\ admin[a].pc = "idle"
    /\ cfg[n] # "gone"
    /\ routingGen < MaxGen
    /\ admin' = [admin EXCEPT ![a] = [pc |-> "read", node |-> n, cfg |-> value,
                                      reset |-> value # cfg[n]]]
    /\ UNCHANGED <<requestVars, capacityVars, circuitVars, configVars, proof,
                   probe>>

\* The row is written and the routing snapshot published.  The node keeps its
\* generation only if it is the node of the previous snapshot, unchanged; a
\* new generation has no proof of readiness yet.
PublishCommand(a) ==
    LET n == admin[a].node
        value == admin[a].cfg
        changed == value # cfg[n]
    IN  /\ admin[a].pc = "read"
        /\ routingGen < MaxGen
        /\ IF cfg[n] = "gone" /\ value # "gone"
           THEN /\ admin' = [admin EXCEPT ![a] = NoCommand]
                /\ UNCHANGED <<cfg, nodeGen, proof>>
           ELSE /\ admin' = [admin EXCEPT ![a].pc = "written"]
                /\ cfg' = [cfg EXCEPT ![n] = value]
                /\ nodeGen' = [nodeGen EXCEPT ![n] =
                                  IF value \notin Configs THEN 0
                                  ELSE IF changed THEN routingGen + 1 ELSE @]
                /\ proof' = IF value = "gone"
                            THEN [proof EXCEPT ![n] = NoProof] ELSE proof
        /\ routingGen' = routingGen + 1
        /\ UNCHANGED <<requestVars, capacityVars, circuitVars, threshold,
                       probe>>

\* Only now does the command take the status lock, and forgets what the
\* runtime had learnt about the node it used to be.
FinishCommand(a) ==
    LET n == admin[a].node
    IN  /\ admin[a].pc = "written"
        /\ StatusFree(n)
        /\ admin' = [admin EXCEPT ![a] = NoCommand]
        /\ IF admin[a].reset
           THEN /\ slots' = RetainSlots(Nodes \ {n})
                /\ breaker' = [breaker EXCEPT ![n] = NewBreaker]
                /\ target' = [target EXCEPT
                                 ![n] = [t \in Targets |-> NewBreaker]]
                /\ evidence' = [evidence EXCEPT ![n] = {}]
                /\ trials' = [trials EXCEPT ![n] = {}]
           ELSE UNCHANGED <<slots, circuitVars>>
        /\ UNCHANGED <<requestVars, global, active, lease, configVars, proof,
                       probe>>

-----------------------------------------------------------------------------
(***************************************************************************)
(* Probes                                                                  *)
(***************************************************************************)

\* The node's probe lock admits one probe at a time.  It reads the row, and
\* only later the generation the row belongs to.
StartProbe(n) ==
    /\ n \in Probed
    /\ probe[n].pc = "idle"
    /\ cfg[n] # "gone"
    /\ probe' = [probe EXCEPT ![n] = [pc |-> "read", gen |-> 0,
                                     cfg |-> cfg[n]]]
    /\ UNCHANGED <<requestVars, capacityVars, circuitVars, configVars, proof,
                   admin>>

ReadGeneration(n) ==
    /\ probe[n].pc = "read"
    /\ probe' = [probe EXCEPT ![n] = [@ EXCEPT !.pc = "testing",
                                              !.gen = nodeGen[n]]]
    /\ UNCHANGED <<requestVars, capacityVars, circuitVars, configVars, proof,
                   admin>>

\* Mutant: the row is not compared with the one that was tested.
RecheckNothing(n) ==
    /\ probe[n].pc = "testing"
    /\ probe' = [probe EXCEPT ![n].pc = "checked"]
    /\ UNCHANGED <<requestVars, capacityVars, circuitVars, configVars, proof,
                   admin>>

\* The test is over and the row is still the one that was tested.
RecheckRow(n) ==
    /\ probe[n].pc = "testing"
    /\ cfg[n] = probe[n].cfg
    /\ probe' = [probe EXCEPT ![n].pc = "checked"]
    /\ UNCHANGED <<requestVars, capacityVars, circuitVars, configVars, proof,
                   admin>>

\* A probe that is cancelled, times out in the queue or finds itself stale.
DiscardProbe(n) ==
    /\ probe[n].pc \in {"read", "testing", "checked"}
    /\ probe' = [probe EXCEPT ![n] = NoProbe]
    /\ UNCHANGED <<requestVars, capacityVars, circuitVars, configVars, proof,
                   admin>>

\* record_probe_observation under the status lock.  proven: the proxy itself
\* answered.  A success must not complete the trial of somebody's lease.
CheckProbe(n, proven) ==
    /\ probe[n].pc = "checked"
    /\ StatusFree(n)
    /\ nodeGen[n] = probe[n].gen
    /\ probe' = [probe EXCEPT ![n].pc =
                    IF proven /\ ~OwnedHalfOpen(breaker[n])
                    THEN "record" ELSE "publish"]
    /\ UNCHANGED <<requestVars, capacityVars, circuitVars, configVars, proof,
                   admin>>

RecordProbe(n) ==
    /\ probe[n].pc = "record"
    /\ breaker' = [breaker EXCEPT ![n] = RecordSuccess(@)]
    /\ evidence' = [evidence EXCEPT ![n] = @ \cup {probe[n].gen}]
    /\ probe' = [probe EXCEPT ![n].pc = "publish"]
    /\ UNCHANGED <<requestVars, capacityVars, target, trials, configVars,
                   proof, admin>>

\* The health entry is published under selection_lock, with the generation
\* that was tested, and every waiter is woken.
PublishProbe(n, ok) ==
    /\ probe[n].pc = "publish"
    /\ proof' = [proof EXCEPT ![n] =
                    IF ok THEN [gen |-> probe[n].gen, cfg |-> probe[n].cfg]
                          ELSE NoProof]
    /\ registered' = {}
    /\ probe' = [probe EXCEPT ![n] = NoProbe]
    /\ UNCHANGED <<queue, pc, excluded, attempted, outcome, capacityVars,
                   circuitVars, configVars, admin>>

\* The proof expires, or probe settings or a DNS mapping change.
ExpireReadiness(n) ==
    /\ proof[n] # NoProof
    /\ proof' = [proof EXCEPT ![n] = NoProof]
    /\ UNCHANGED <<requestVars, capacityVars, circuitVars, configVars, admin,
                   probe>>

-----------------------------------------------------------------------------

Select(r) ==
    \/ \E n \in Nodes : Reserve(r, n)
    \/ RejectNotReady(r)
    \/ Park(r)
    \/ Exhaust(r)

Settle(r) ==
    \/ SettleStale(r)
    \/ SettleConnected(r)
    \/ SettleFailed(r)

RequestStep(r) ==
    \/ Arrive(r)
    \/ AcquireGlobal(r)
    \/ Select(r)
    \/ Await(r)
    \/ Wake(r)
    \/ \E result \in Connected \cup Failures : FinishDial(r, result)
    \/ Settle(r)
    \/ RecordProxy(r)
    \/ RecordTarget(r)
    \/ Retry(r)
    \/ Deadline(r)
    \/ Leave(r)
    \/ \E status \in Answers : Answer(r, status)
    \/ Observe(r)
    \/ CloseTunnel(r)

CommandStep(a) ==
    \/ \E n \in Nodes, value \in Configs \cup {"off", "gone"} :
         BeginCommand(a, n, value)
    \/ PublishCommand(a)
    \/ FinishCommand(a)

ProbeStep(n) ==
    \/ StartProbe(n)
    \/ ReadGeneration(n)
    \/ RecheckRow(n)
    \/ DiscardProbe(n)
    \/ \E proven \in BOOLEAN : CheckProbe(n, proven)
    \/ RecordProbe(n)
    \/ \E ok \in BOOLEAN : PublishProbe(n, ok)

Environment ==
    \/ \E n \in Nodes : CoolProxy(n) \/ ExpireReadiness(n)
    \/ \E n \in Nodes, t \in Targets : CoolTarget(n, t)
    \/ \E value \in Thresholds, longer \in BOOLEAN :
         UpdateAdvancedConfig(value, longer)

Next ==
    \/ \E r \in Requests : RequestStep(r)
    \/ \E a \in Admins : CommandStep(a)
    \/ \E n \in Nodes : ProbeStep(n)
    \/ Environment

Spec == Init /\ [][Next]_vars

(***************************************************************************)
(* Fairness: tokio keeps running every task that can run, a dial ends at   *)
(* the latest with its attempt timeout, and the status lock, a tokio       *)
(* Mutex, serves its waiters in order, so whoever waits for it gets it     *)
(* though others keep taking it.  Nothing is assumed of clients, of        *)
(* administrators, of the end of a tunnel or of the total deadline.        *)
(***************************************************************************)
Progress(r) ==
    \/ AcquireGlobal(r)
    \/ Select(r)
    \/ Await(r)
    \/ Wake(r)
    \/ \E result \in Connected \cup Failures : FinishDial(r, result)
    \/ RecordProxy(r)
    \/ RecordTarget(r)
    \/ Retry(r)

ProbeProgress(n) ==
    \/ RecordProbe(n)
    \/ \E ok \in BOOLEAN : PublishProbe(n, ok)

Fairness ==
    /\ \A r \in Requests : WF_vars(Progress(r)) /\ SF_vars(Settle(r))
    /\ \A n \in Nodes : WF_vars(ProbeProgress(n))

FairSpec == Spec /\ Fairness

-----------------------------------------------------------------------------
(***************************************************************************)
(* Properties                                                              *)
(***************************************************************************)

DialingOn(n) == {r \in Requests : lease[r].node = n /\ lease[r].dial}

HoldsGlobal(r) == pc[r] = "selecting" \/ lease[r].dial

\* However often a node is edited, deleted or re-enabled while it is being
\* dialled, no more than max_proxy_dials dials of it, and max_global_dials in
\* all, are in progress: a new generation inherits the limiter of the old
\* one, and a cancelled task gives back what it holds, once.
DialCapacity ==
    /\ \A n \in Nodes : Cardinality(DialingOn(n)) <= MaxProxyDials
    /\ Cardinality({r \in Requests : HoldsGlobal(r)}) <= MaxGlobalDials

\* The load an algorithm sees (active_connections) is the number of live
\* leases of the node, in every interleaving of retries, cancellations,
\* deletions and closing tunnels.
ActiveIsLive ==
    \A n \in Nodes :
        active[n] = Cardinality({r \in Requests : lease[r].node = n})

EditPending(n) == \E a \in Admins : admin[a].pc = "written" /\ admin[a].node = n

\* Once the handlers of all edits are done, the breakers of a node reflect
\* only outcomes of its present configuration: neither a dial nor a probe
\* that was under way during the edit leaves its result behind.
EvidenceIsCurrent ==
    \A n \in Nodes :
        ~EditPending(n) => evidence[n] \subseteq {nodeGen[n]}

\* A required node is offered to requests only on the strength of a test of
\* the configuration it has now, although the test is long, the row and its
\* generation are read at different moments, and edits happen all the time.
ReadinessIsProven ==
    \A n \in Required :
        nodeGen[n] # 0 /\ ~Unready(n) => proof[n].cfg = cfg[n]

\* The owner of a half-open trial is a live lease of that node, so that the
\* breaker is freed when it is dropped; and it is one whose outcome is still
\* to come: a connection that was judged, or disowned by an edit, and lives on
\* for hours as a tunnel does not block its node once the edit's handler is
\* done.  The trial of a target is weaker: a response that comes while the
\* node itself is on trial with another lease is not recorded, and the tunnel
\* it came through keeps the trial of its target for as long as it is open.
TrialAwaitsOutcome ==
    \A n \in Nodes, r \in Requests :
        /\ breaker[n].attempt = r =>
             /\ lease[r].node = n
             /\ pc[r] = "tunnel" =>
                  outcome[r] = "forwardUnverified" \/ EditPending(n)
        /\ \A t \in Targets : target[n][t].attempt = r =>
             /\ lease[r].node = n
             /\ t = TargetOf[r]
             /\ pc[r] = "tunnel" =>
                  outcome[r] \in {"forwardUnverified", "unjudged"}

\* A breaker is HALF_OPEN exactly as long as it has an owner, alive or dead:
\* it can never be stuck with nobody to judge it.
HalfOpenHasOwner ==
    \A n \in Nodes :
        /\ breaker[n].state = "HALF_OPEN" <=> breaker[n].attempt # NoToken
        /\ \A t \in Targets :
             target[n][t].state = "HALF_OPEN" <=> target[n][t].attempt # NoToken

\* README: after the cooldown only one half-open attempt is allowed.
OneTrial == \A n \in Nodes : Cardinality(trials[n]) <= 1

\* README: the fast error is for a group none of whose nodes is ready; a
\* request whose ready candidates are merely full waits for a slot.
NotReadyMeansNoCandidate ==
    [][\A r \in Requests :
         pc[r] = "selecting" /\ pc'[r] = "notReady" => Candidates(r) = {}]_vars

\* A request that waits for a slot is woken, without the help of its own
\* deadline: whoever holds the slot finishes its dial.
ParkedIsWoken == \A r \in Requests : pc[r] = "parked" ~> pc[r] # "parked"

\* A request that waits for a global permit is served, however many others
\* keep arriving.
QueuedIsServed == \A r \in Requests : pc[r] = "queued" ~> pc[r] # "queued"
=============================================================================
