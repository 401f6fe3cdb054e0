---------------------------- MODULE ProbeHealth ----------------------------
(***************************************************************************)
(* probe_health.rs: what a series of probe results says about a node.      *)
(*                                                                         *)
(* The two counters are compared with their thresholds only, so they stop  *)
(* counting there; the diagnostics, totals and timestamps of a result are  *)
(* left out.                                                               *)
(***************************************************************************)
EXTENDS Naturals

CONSTANTS
    RecoveryThreshold,  \* recovery_threshold: successes in a row
    FailureThreshold    \* failure_threshold: failures in a row

ASSUME ProbeHealthAssumption ==
    /\ RecoveryThreshold \in Nat \ {0}
    /\ FailureThreshold \in Nat \ {0}

\* What a test says: the whole exchange succeeded; the target failed and the
\* proxy answered, or was not proved to; the proxy itself failed; or nothing
\* about the remote side.
Results == {"success", "targetFail", "routeFail", "proxyFail", "unknown"}

\* diagnostics.proxy_proven()
Proven(result) == result \in {"success", "targetFail"}

RemoteFailure(result) ==
    result \in {"targetFail", "routeFail", "proxyFail"}

Healths == [readiness : {"unknown", "ready", "degraded", "notReady"},
            fresh     : BOOLEAN,
            oks       : 0..RecoveryThreshold,
            fails     : 0..FailureThreshold]

NewHealth == [readiness |-> "unknown", fresh |-> FALSE, oks |-> 0, fails |-> 0]

\* Evidence of another configuration, of other settings or too old: what is
\* kept is history and counts for nothing.
Invalidated(h) == NewHealth

\* Mutant: a proof that has lapsed is renewed by the next success.
ExpireNothing(h, lapsed) == h

Expire(h, lapsed) ==
    IF lapsed /\ h.readiness \in {"ready", "degraded"} THEN Invalidated(h)
    ELSE h

\* Mutant: the count does not stop.
OneMore(limit, count) == count + 1

\* One more, up to the threshold it is compared with.
UpTo(limit, count) == IF count < limit THEN count + 1 ELSE limit

\* Mutant: a failure does not interrupt the series of successes.
ObserveForgiving(h, result, required) ==
    LET oks == UpTo(RecoveryThreshold, h.oks)
        fails == UpTo(FailureThreshold, h.fails)
    IN  CASE result = "success" ->
               [h EXCEPT !.fresh = TRUE, !.oks = oks, !.fails = 0,
                         !.readiness = IF required => oks = RecoveryThreshold
                                       THEN "ready" ELSE @]
          [] RemoteFailure(result) ->
               [h EXCEPT !.fresh = TRUE, !.fails = fails,
                         !.readiness = IF fails = FailureThreshold
                                       THEN "notReady"
                                       ELSE IF @ = "ready" THEN "degraded"
                                            ELSE @]
          [] OTHER -> [h EXCEPT !.fresh = TRUE, !.oks = 0]

\* The health after one more test.  A result that says nothing of the remote
\* side ends a series of successes but is no failure.
Observe(h, result, required) ==
    LET oks == UpTo(RecoveryThreshold, h.oks)
        fails == UpTo(FailureThreshold, h.fails)
    IN  CASE result = "success" ->
               [h EXCEPT !.fresh = TRUE, !.oks = oks, !.fails = 0,
                         !.readiness = IF required => oks = RecoveryThreshold
                                       THEN "ready" ELSE @]
          [] RemoteFailure(result) ->
               [h EXCEPT !.fresh = TRUE, !.oks = 0, !.fails = fails,
                         !.readiness = IF fails = FailureThreshold
                                       THEN "notReady"
                                       ELSE IF @ = "ready" THEN "degraded"
                                            ELSE @]
          [] OTHER -> [h EXCEPT !.fresh = TRUE, !.oks = 0]

\* eligible() for a required node.
Eligible(h, lapsed) ==
    h.fresh /\ ~lapsed /\ h.readiness \in {"ready", "degraded"}
=============================================================================
