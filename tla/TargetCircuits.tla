--------------------------- MODULE TargetCircuits ---------------------------
(***************************************************************************)
(* The circuits of targets behind nodes as one bounded map with clocks:    *)
(* when an entry is made, dropped and evicted, and when a changed          *)
(* circuit_timeout reaches it (proxy.rs:479-513, 527-544, 1238-1280,       *)
(* 1300-1346, 1371-1451).                                                  *)
(*                                                                         *)
(* Module Dispatch has the same circuits without the map's bound and       *)
(* without time.  The node's own circuit is taken to be closed here.       *)
(***************************************************************************)
EXTENDS Naturals, FiniteSets

CONSTANTS
  Routes,       \* pairs of a node and a target
  Dials,        \* connections being made
  MaxCircuits,  \* MAX_TARGET_CIRCUITS
  Window,       \* METRICS_WINDOW_MS
  Timeouts,     \* values of circuit_timeout
  Threshold,    \* circuit_failure_threshold
  Administrator,\* whether the settings and nodes are edited
  MaxTime       \* bound: monotonic_millis

ASSUME CircuitAssumption ==
  /\ MaxCircuits \in Nat \ {0}
  /\ Timeouts \subseteq Nat \ {0}
  /\ Threshold \in Nat \ {0}
  /\ {"none", "dead"} \intersect Dials = {}
  /\ MaxTime \in Nat

Breaker == INSTANCE CircuitBreaker WITH
  Requests <- Dials, NoToken <- "none", DeadToken <- "dead", MaxFailures <- Threshold

Node(route) == route[1]
NoRoute == << 0, 0 >>
NoCircuit == [breaker |-> Breaker!NewBreaker, next |-> 0, timeout |-> 0, last |-> 0]
IdleDial == [pc |-> "idle", route |-> NoRoute, timeout |-> 0]

VARIABLES
  circuits,  \* target_circuits; NoCircuit where there is no entry
  timeout,   \* runtime_settings.circuit.timeout_ms
  admin,     \* update_advanced_config: "idle", or "applying" what it has set
  dial,      \* connections: what they are at, and the settings they read
  time,      \* monotonic_millis
  raced      \* history: entries last written with settings replaced meanwhile

circuitVars == << circuits, timeout, admin, dial, time, raced >>

CircuitInit ==
  /\ circuits = [k \in Routes |-> NoCircuit]
  /\ timeout \in Timeouts
  /\ admin = "idle"
  /\ dial = [d \in Dials |-> IdleDial]
  /\ time = 0
  /\ raced = {}

-----------------------------------------------------------------------------
Entries == {k \in Routes : circuits[k] # NoCircuit}

\* The breaker as it is at this moment.
BreakerNow(c) == [c.breaker EXCEPT !.cooled = c.next <= time]

Admits(k) == k \in Entries => Breaker!CanAttempt(BreakerNow(circuits[k]))

\* record_failure and cancel_half_open_attempt set the deadline when they open.
Opened(c, b) ==
  [c EXCEPT !.breaker = b, !.next = IF b.state = "OPEN" THEN time + c.timeout ELSE @]

\* apply_config: the deadline of an open breaker is counted from its opening.
Applied(c, value) ==
  [c EXCEPT !.timeout = value,
            !.next = IF c.breaker.state = "OPEN" THEN @ - c.timeout + value ELSE @]

\* The lease of d is dropped.
Forgotten(d, map) ==
  [k \in Routes |-> IF map[k] = NoCircuit THEN NoCircuit
                    ELSE [map[k] EXCEPT !.breaker = Breaker!Forget(@, d)]]

EndDial(d) == dial' = [dial EXCEPT ![d] = IdleDial]

\* Status locks: one outcome of a node is recorded at a time.
Recording(n) == \E d \in Dials : dial[d].pc = "recording" /\ Node(dial[d].route) = n

-----------------------------------------------------------------------------
\* try_begin_attempt_token.
BeginDial(d, k) ==
  /\ dial[d].pc = "idle" /\ Admits(k)
  /\ circuits' = IF k \notin Entries THEN circuits
                 ELSE [circuits EXCEPT ![k].breaker = Breaker!TryBeginAttempt(@, d)]
  /\ dial' = [dial EXCEPT ![d] = [pc |-> "dialing", route |-> k, timeout |-> 0]]
  /\ UNCHANGED << timeout, admin, time, raced >>

Outcome(d) == dial[d].pc = "dialing" /\ ~Recording(Node(dial[d].route))

OwnsOutcome(d) ==
  dial[d].route \in Entries => Breaker!OwnsAttempt(circuits[dial[d].route].breaker, d)

\* An outcome that no longer counts, or a dial that is given up.
LoseDial(d) ==
  /\ dial[d].pc = "dialing"
  /\ circuits' = Forgotten(d, circuits)
  /\ EndDial(d)
  /\ UNCHANGED << timeout, admin, time, raced >>

\* record_verified_connection_locked: the entry goes.
TargetAnswers(d) ==
  /\ Outcome(d) /\ OwnsOutcome(d)
  /\ circuits' = [circuits EXCEPT ![dial[d].route] = NoCircuit]
  /\ raced' = raced \ {dial[d].route}
  /\ EndDial(d)
  /\ UNCHANGED << timeout, admin, time >>

\* The node itself fails: its trial of the target says nothing.
NodeFails(d) ==
  /\ Outcome(d) /\ OwnsOutcome(d)
  /\ LET k == dial[d].route
         c == circuits[k]
     IN  circuits' = IF k \in Entries /\ c.breaker.state = "HALF_OPEN"
                     THEN [circuits EXCEPT ![k] = Opened(c, Breaker!CancelHalfOpen(c.breaker))]
                     ELSE circuits
  /\ EndDial(d)
  /\ UNCHANGED << timeout, admin, time, raced >>

\* record_route_failure_locked reads the settings and releases them.
TargetFails(d) ==
  /\ Outcome(d) /\ OwnsOutcome(d)
  /\ dial' = [dial EXCEPT ![d].pc = "recording", ![d].timeout = timeout]
  /\ UNCHANGED << circuits, timeout, admin, time, raced >>

\* half_open_in_flight.
InTrial(k) == Breaker!OwnedHalfOpen(circuits[k].breaker)

\* Mutant: an entry is dropped after the window, whatever it says.
LapsedByWindow(k) == ~InTrial(k) /\ time - circuits[k].last >= Window

\* Mutant: it may be dropped while it is tried.
LapsedInTrial(k) ==
  LET age == time - circuits[k].last
  IN  age >= Window /\ age >= circuits[k].timeout

\* Not retained: no trial, and no failure for the window and for its own timeout.
Lapsed(k) ==
  LET age == time - circuits[k].last
  IN  ~InTrial(k) /\ age >= Window /\ age >= circuits[k].timeout

\* Mutant: whoever comes first is evicted.
EvictableAny(kept) == kept

\* The oldest that is not being tried.
Evictable(kept) ==
  LET idle == {k \in kept : ~InTrial(k)}
  IN  {k \in idle : \A l \in idle : circuits[k].last <= circuits[l].last}

\* Mutant: nobody makes room.
RemovalsOfLapsed(k) == {{l \in Entries \ {k} : Lapsed(l)}}

\* What goes to let an entry for k in: nothing if there is one; what has lapsed, and
\* one more if that is not enough.
Removals(k) ==
  IF k \in Entries THEN {{}}
  ELSE LET lapsed == {l \in Entries : Lapsed(l)}
           kept == Entries \ lapsed
       IN  IF Cardinality(kept) < MaxCircuits THEN {lapsed}
           ELSE {lapsed \union {l} : l \in Evictable(kept)}

\* The failure is written with the settings read before. If every entry is being
\* tried there is no room and it is not noted.
RecordTargetFailure(d) ==
  /\ dial[d].pc = "recording"
  /\ LET k == dial[d].route
         new == [NoCircuit EXCEPT !.timeout = dial[d].timeout]
         old == IF k \in Entries THEN circuits[k] ELSE new
         c == [Applied(old, dial[d].timeout) EXCEPT !.last = time]
     IN  IF Removals(k) = {}
         THEN /\ circuits' = [l \in Routes |-> IF Lapsed(l) THEN NoCircuit ELSE circuits[l]]
              /\ raced' = raced \ {l \in Routes : Lapsed(l)}
         ELSE \E gone \in Removals(k) :
                /\ circuits' =
                     [[l \in Routes |-> IF l \in gone THEN NoCircuit ELSE circuits[l]]
                        EXCEPT ![k] = Opened(c, Breaker!RecordFailure(c.breaker, Threshold))]
                /\ raced' = IF dial[d].timeout # timeout THEN (raced \ gone) \union {k}
                                                        ELSE raced \ (gone \union {k})
  /\ EndDial(d)
  /\ UNCHANGED << timeout, admin, time >>

\* reset_proxy_state, after an edit of the node.
ResetNode(n) ==
  /\ Administrator /\ ~Recording(n)
  /\ \E k \in Entries : Node(k) = n
  /\ circuits' = [k \in Routes |-> IF Node(k) = n THEN NoCircuit ELSE circuits[k]]
  /\ raced' = {k \in raced : Node(k) # n}
  /\ UNCHANGED << timeout, admin, dial, time >>

\* update_advanced_config: the settings first, the entries afterwards.
SetTimeout(value) ==
  /\ Administrator /\ admin = "idle"
  /\ timeout' = value /\ admin' = "applying"
  /\ UNCHANGED << circuits, dial, time, raced >>

\* Mutant: only new entries get the settings.
ApplyToNew == UNCHANGED circuits

\* Every circuit there is.
ApplyToAll ==
  circuits' = [k \in Routes |-> IF k \in Entries THEN Applied(circuits[k], timeout)
                                                 ELSE NoCircuit]

ApplySettings ==
  /\ admin = "applying" /\ admin' = "idle"
  /\ ApplyToAll
  /\ raced' = {}
  /\ UNCHANGED << timeout, dial, time >>

CircuitTick ==
  /\ time < MaxTime /\ time' = time + 1
  /\ UNCHANGED << circuits, timeout, admin, dial, raced >>

CircuitNext ==
  \/ \E d \in Dials :
       \/ \E k \in Routes : BeginDial(d, k)
       \/ LoseDial(d) \/ TargetAnswers(d) \/ NodeFails(d) \/ TargetFails(d)
       \/ RecordTargetFailure(d)
  \/ \E k \in Routes : ResetNode(Node(k))
  \/ \E value \in Timeouts \ {timeout} : SetTimeout(value)
  \/ ApplySettings \/ CircuitTick

CircuitSpec == CircuitInit /\ [][CircuitNext]_circuitVars

-----------------------------------------------------------------------------
\* However many targets fail, the map does not grow.
CircuitsBounded == Cardinality(Entries) <= MaxCircuits

\* A circuit that is still cooling goes only with an answer of its target, with an edit
\* of its node, or to make room for another one when MaxCircuits have failed no earlier;
\* but a trial that the node's own failure cancelled does not count as a failure, so
\* its circuit may go although it cools again.
CoolingIsKept ==
  \A k \in Entries :
    LET c == circuits[k]
        age == time - c.last
    IN  /\ c.breaker.state = "OPEN" /\ c.next > time /\ circuits'[k] = NoCircuit
        => \/ \E d \in Dials : dial[d].route = k /\ dial[d].pc = "dialing"
                                 /\ dial'[d].pc = "idle"
           \/ dial' = dial
           \/ c.next > c.last + c.timeout /\ age >= Window
           \/ Cardinality({l \in Entries : InTrial(l) \/ circuits[l].last >= c.last})
                = MaxCircuits

\* A trial that is under way keeps its circuit until its own outcome or an edit.
TrialKeepsCircuit ==
  \A k \in Entries :
    InTrial(k) /\ circuits'[k] = NoCircuit =>
      dial' = dial \/ dial'[circuits[k].breaker.attempt] = IdleDial

\* When the administrator's command has returned, every circuit is timed by the settings
\* it has set, except those a failure was written to with the settings it had read before.
TimedBySettings ==
  admin = "idle" => \A k \in Entries \ raced : circuits[k].timeout = timeout

\* The map stays small without giving up a circuit that is still needed, and every
\* circuit in it runs by the settings.
CircuitsAreKept ==
  [][/\ CoolingIsKept /\ TrialKeepsCircuit
     /\ CircuitsBounded' /\ TimedBySettings']_circuitVars
=============================================================================
