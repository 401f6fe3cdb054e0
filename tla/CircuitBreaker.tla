--------------------------- MODULE CircuitBreaker ---------------------------
(***************************************************************************)
(* The circuit breaker of proxy.rs (struct CircuitBreaker and its impl).   *)
(* The same structure guards a whole proxy node (circuit_breakers) and one *)
(* target behind a node (target_circuits), so it is a module of pure       *)
(* operators on a breaker value.                                           *)
(*                                                                         *)
(*   - next_attempt is a deadline; "cooled" says that it has passed.       *)
(*   - attempt is a Weak pointer to the Arc held by the lease that was     *)
(*     admitted as the half-open trial.  It is None, points to the lease   *)
(*     of a request, or dangles (DeadToken) once that lease was dropped.   *)
(*   - failures saturates at MaxFailures, the largest threshold: the code  *)
(*     only ever asks whether failures >= threshold.                       *)
(***************************************************************************)
EXTENDS Naturals

CONSTANTS
    Requests,     \* client connections; each owns at most one lease at a time
    NoToken,      \* attempt = None
    DeadToken,    \* a Weak whose lease is gone
    MaxFailures   \* the largest failure threshold that is configured

ASSUME TokenAssumption ==
    /\ NoToken \notin Requests
    /\ DeadToken \notin Requests
    /\ NoToken # DeadToken

ASSUME MaxFailuresAssumption == MaxFailures \in Nat \ {0}

Tokens == Requests \cup {NoToken, DeadToken}

Breakers == [state    : {"CLOSED", "OPEN", "HALF_OPEN"},
             failures : 0..MaxFailures,
             cooled   : BOOLEAN,
             attempt  : Tokens]

NewBreaker == [state    |-> "CLOSED",
               failures |-> 0,
               cooled   |-> FALSE,
               attempt  |-> NoToken]

-----------------------------------------------------------------------------

\* An OPEN breaker whose cooldown is over, or a HALF_OPEN one whose trial
\* was dropped without an outcome, admits one attempt.
CanAttempt(b) ==
    \/ b.state = "CLOSED"
    \/ b.state = "OPEN" /\ b.cooled
    \/ b.state = "HALF_OPEN" /\ b.attempt = DeadToken

\* Admission of r.  Anything but a CLOSED breaker becomes HALF_OPEN and is
\* owned by r's lease.  Only used where CanAttempt(b) holds.
TryBeginAttempt(b, r) ==
    IF b.state = "CLOSED"
    THEN b
    ELSE [b EXCEPT !.state = "HALF_OPEN", !.cooled = FALSE, !.attempt = r]

RecordSuccess(b) == NewBreaker

RecordFailure(b, threshold) ==
    LET failures == IF b.failures < MaxFailures THEN b.failures + 1
                                                ELSE MaxFailures
    IN  IF b.state = "HALF_OPEN" \/ failures >= threshold
        THEN [state |-> "OPEN", failures |-> failures,
              cooled |-> FALSE, attempt |-> NoToken]
        ELSE [b EXCEPT !.failures = failures]

\* Mutant: the trial's owner is remembered.
CancelKeepsOwner(b) ==
    IF b.state = "HALF_OPEN"
    THEN [b EXCEPT !.state = "OPEN", !.cooled = FALSE]
    ELSE b

CancelHalfOpen(b) ==
    IF b.state = "HALF_OPEN"
    THEN [b EXCEPT !.state = "OPEN", !.cooled = FALSE, !.attempt = NoToken]
    ELSE b

\* A changed circuit_timeout moves the deadline of an OPEN breaker; a longer
\* one may put a deadline that had passed back into the future.
ApplyTimeout(b, longer) ==
    IF longer /\ b.state = "OPEN" THEN [b EXCEPT !.cooled = FALSE] ELSE b

\* A lease that is still alive owns the trial.
OwnedHalfOpen(b) == b.state = "HALF_OPEN" /\ b.attempt \in Requests

\* The outcome of r's lease may be recorded: no trial, or r's own trial.
OwnsAttempt(b, r) == b.attempt \in {NoToken, r}

\* Mutant: the breaker keeps the lease's token alive.
ForgetNothing(b, r) == b

\* r's lease is dropped and its Arc with it: the Weak now dangles.
Forget(b, r) ==
    IF b.attempt = r THEN [b EXCEPT !.attempt = DeadToken] ELSE b
=============================================================================
