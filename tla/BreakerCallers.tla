--------------------------- MODULE BreakerCallers ---------------------------
(***************************************************************************)
(* The process-wide circuit breaker of one action type (guardian/safety/   *)
(* registry.py) shared by the request threads that run actions of that     *)
(* type.  An admitted caller reports a success or a failure, or is stopped *)
(* by a later gate of check_gates and reports nothing.                     *)
(***************************************************************************)
EXTENDS CircuitBreaker

CONSTANTS
    Caller,      \* request threads
    MaxFailures  \* bound on consecutive_failures

ASSUME CallersAssumption == IsFiniteSet(Caller) /\ MaxFailures \in Nat

VARIABLES
    acting  \* callers admitted and not yet done

callersVars == <<breakerVars, acting>>

CallersTypeOK ==
    /\ BreakerTypeOK
    /\ acting \subseteq Caller

CallersInit ==
    /\ BreakerInit
    /\ acting = {}

Ask(c) ==
    /\ c \notin acting
    /\ \E allowed \in BOOLEAN :
          /\ AllowAction(allowed)
          /\ acting' = IF allowed THEN acting \cup {c} ELSE acting

Leave(c) ==
    /\ c \in acting
    /\ acting' = acting \ {c}

ReportSuccess(c) == Leave(c) /\ RecordSuccess

ReportFailure(c) == Leave(c) /\ failures < MaxFailures /\ RecordFailure

StoppedByLaterGate(c) == Leave(c) /\ UNCHANGED breakerVars

ManualReset == Reset /\ UNCHANGED acting

CooldownPasses == RecoveryTimePasses /\ UNCHANGED acting

SomeoneAsks == \E c \in Caller : Ask(c)

CallersNext ==
    \/ SomeoneAsks
    \/ \E c \in Caller : ReportSuccess(c) \/ ReportFailure(c) \/ StoppedByLaterGate(c)
    \/ ManualReset
    \/ CooldownPasses

CallersSpec == CallersInit /\ [][CallersNext]_callersVars

\* The clock runs and requests keep coming; nobody has to report or to reset.
FairCallersSpec ==
    /\ CallersSpec
    /\ WF_callersVars(CooldownPasses)
    /\ WF_callersVars(SomeoneAsks)

-----------------------------------------------------------------------------
(***************************************************************************)
(* The breaker is tripped exactly while the run of consecutive failures    *)
(* has reached the threshold, whatever the order in which callers that     *)
(* were admitted in different states report (so a failed probe re-opens    *)
(* the breaker at once, and a straggler cannot leave it half tripped).     *)
(***************************************************************************)
TrippedByFailures == (cbState = "closed") <=> (failures < Threshold)

(***************************************************************************)
(* An open breaker does not latch: once no late failure can restart the    *)
(* recovery time, requests that keep coming get it probed.                 *)
(***************************************************************************)
OpenIsTemporary == (cbState = "open" /\ acting = {}) ~> (cbState # "open")
=============================================================================
