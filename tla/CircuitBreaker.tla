--------------------------- MODULE CircuitBreaker ---------------------------
(***************************************************************************)
(* The circuit breaker of one action type, guardian/safety/                *)
(* circuit_breaker.py.  Every method runs under the breaker's lock, so it  *)
(* is one step; the caller's action runs outside the lock, between         *)
(* allow_action and the record_success or record_failure that reports it.  *)
(***************************************************************************)
EXTENDS Naturals, FiniteSets

CONSTANTS
    Threshold  \* failure_threshold

ASSUME BreakerAssumption == Threshold \in Nat \ {0}

VARIABLES
    cbState,   \* _state
    failures,  \* _consecutive_failures
    cooled     \* has recovery_timeout passed since _last_failure_at?

breakerVars == <<cbState, failures, cooled>>

CircuitBreakerState == {"closed", "open", "half_open"}

BreakerTypeOK ==
    /\ cbState \in CircuitBreakerState
    /\ failures \in Nat
    /\ cooled \in BOOLEAN

BreakerInit ==
    /\ cbState = "closed"
    /\ failures = 0
    /\ cooled = FALSE

\* Mutant of Evaluate: the recovery timeout is never looked at.
StaysOpen == cbState

\* _evaluate_state: an open breaker whose timeout has passed is half open.
Evaluate == IF cbState = "open" /\ cooled THEN "half_open" ELSE cbState

\* allow_action: closed and half open admit the caller, open does not.
AllowAction(allowed) ==
    /\ cbState' = Evaluate
    /\ allowed = (Evaluate # "open")
    /\ UNCHANGED <<failures, cooled>>

RecordSuccess ==
    /\ failures' = 0
    /\ cbState' = "closed"
    /\ UNCHANGED cooled

\* Mutant of RecordFailure: only a closed breaker counts failures.
CountWhenClosed ==
    /\ failures' = IF cbState = "closed" THEN failures + 1 ELSE failures
    /\ cbState' = IF failures > Threshold THEN "open" ELSE cbState
    /\ cooled' = FALSE

RecordFailure ==
    /\ failures' = failures + 1
    /\ cbState' = IF failures + 1 >= Threshold THEN "open" ELSE cbState
    /\ cooled' = FALSE

Reset ==
    /\ cbState' = "closed"
    /\ failures' = 0
    /\ cooled' = FALSE

RecoveryTimePasses ==
    /\ failures > 0
    /\ ~cooled
    /\ cooled' = TRUE
    /\ UNCHANGED <<cbState, failures>>
=============================================================================
