--------------------------- MODULE SafetyEnvelope ---------------------------
(***************************************************************************)
(* SafetyEnvelope.run of guardian/automation/envelope.py: the path every   *)
(* authorized response action takes, called by concurrent request threads  *)
(* of one backend process.                                                 *)
(*                                                                         *)
(* A call passes the gates in their order, claims its execution_id with an *)
(* insert that the UNIQUE constraint arbitrates, executes the action with  *)
(* no transaction open, verifies it, and finalizes the audit; every commit *)
(* and every read of shared state is a step.  A call that finds the        *)
(* execution_id taken waits for the winner's row to settle.                *)
(***************************************************************************)
EXTENDS CircuitBreaker, KillSwitch, FiniteSets

CONSTANTS
    Thread,        \* request threads
    Execution,     \* execution_ids, all of one policy
    NoExecution,   \* no execution_id
    Slot,          \* the target of each execution: what the caps count by
    MaxPerWindow,  \* cooldown (1) or max_executions_per_hour of the rule
    MaxQuota,      \* units of the rate limiter per window
    MaxFaults      \* bound: restarts of the backend process, and calls ended
                   \* by an unexpected database error

ASSUME EnvelopeAssumption ==
    /\ IsFiniteSet(Execution)
    /\ NoExecution \notin Execution
    /\ MaxPerWindow \in Nat
    /\ MaxQuota \in Nat
    /\ MaxFaults \in Nat

VARIABLES
    policyActive, \* the policy is active at the version the requests expect
    approval,     \* per execution: the approval (or grant) it names
    used,         \* units recorded in the limiter's window
    row,          \* committed status in guardian_envelope_runs, or "none"
    attempt,      \* committed status in guardian_action_attempts, or "none"
    restorable,   \* snapshot committed, and the action supports rollback
    audited,      \* has a row in guardian_action_audit
    aged,         \* rows that have left the cooldown window
    pc,           \* where each call is
    job,          \* the execution_id of each call
    effects,      \* history: how often the action was executed
    paid,         \* history: limiter units consumed
    stoppedSince, \* history: calls made while a stop was held, held ever since
    faults        \* crashes and aborted calls so far

authVars == <<policyActive, approval>>
rowVars == <<row, attempt, restorable, audited>>
callVars == <<pc, job, stoppedSince>>
vars == <<stopVars, breakerVars, authVars, used, rowVars, aged, callVars, effects, paid,
          faults>>

InFlight == {"executing", "verifying"}

\* Mutant of Settled: replays wait for the terminal statuses only.
TerminalOnly == {"succeeded", "blocked"}

\* SETTLED_STATUSES, of those a run can reach.
Settled == {"succeeded", "execution_failed", "verification_failed",
            "rollback_available", "blocked"}

GatePC == {"policy", "stop", "breaker", "quota", "cooldown", "approval"}
OwnerPC == {"snapshot", "execute", "ran", "broke", "verify", "penalise", "offer", "audit"}
CallPC == {"idle", "refuse", "claim", "replay"} \cup GatePC \cup OwnerPC

TypeOK ==
    /\ StopTypeOK
    /\ BreakerTypeOK
    /\ policyActive \in BOOLEAN
    /\ approval \in [Execution -> {"pending", "approved", "expired"}]
    /\ used \in 0..MaxQuota
    /\ row \in [Execution -> {"none"} \cup InFlight \cup Settled]
    /\ attempt \in [Execution -> {"none"} \cup InFlight \cup Settled]
    /\ restorable \in SUBSET Execution
    /\ audited \in SUBSET Execution
    /\ aged \in SUBSET Execution
    /\ pc \in [Thread -> CallPC]
    /\ job \in [Thread -> Execution \cup {NoExecution}]
    /\ effects \in [Execution -> Nat]
    /\ paid \in Nat
    /\ stoppedSince \in SUBSET Thread
    /\ faults \in Nat

Init ==
    /\ StopInit
    /\ BreakerInit
    /\ policyActive = TRUE
    /\ approval = [x \in Execution |-> "pending"]
    /\ used = 0
    /\ row = [x \in Execution |-> "none"]
    /\ attempt = [x \in Execution |-> "none"]
    /\ restorable = {}
    /\ audited = {}
    /\ aged = {}
    /\ pc = [t \in Thread |-> "idle"]
    /\ job = [t \in Thread |-> NoExecution]
    /\ effects = [x \in Execution |-> 0]
    /\ paid = 0
    /\ stoppedSince = {}
    /\ faults = 0

-----------------------------------------------------------------------------
Goto(t, l) ==
    /\ pc' = [pc EXCEPT ![t] = l]
    /\ UNCHANGED <<job, stoppedSince>>

GateTo(t, ok, next) == Goto(t, IF ok THEN next ELSE "refuse")

Finish(t) ==
    /\ pc' = [pc EXCEPT ![t] = "idle"]
    /\ job' = [job EXCEPT ![t] = NoExecution]
    /\ stoppedSince' = stoppedSince \ {t}

\* The replay fast path sees a row of any status; otherwise the gates follow.
Submit(t, x) ==
    /\ pc[t] = "idle"
    /\ pc' = [pc EXCEPT ![t] = IF row[x] = "none" THEN "policy" ELSE "replay"]
    /\ job' = [job EXCEPT ![t] = x]
    /\ stoppedSince' = IF stopHeld THEN stoppedSince \cup {t} ELSE stoppedSince
    /\ UNCHANGED <<stopVars, breakerVars, authVars, used, rowVars, aged, effects, paid,
                   faults>>

-----------------------------------------------------------------------------
(***************************************************************************)
(* check_gates, in GATE_ORDER.  policy_active, policy_version and identity *)
(* read one policy row; the two kill-switch gates read the combined state. *)
(***************************************************************************)
PolicyGate(t) ==
    /\ pc[t] = "policy"
    /\ GateTo(t, policyActive, "stop")
    /\ UNCHANGED <<stopVars, breakerVars, authVars, used, rowVars, aged, effects, paid,
                   faults>>

\* Mutant of StopGate: only the in-memory switch is asked.
StopGateMemory(t) ==
    /\ pc[t] = "stop"
    /\ GateTo(t, ~stopMem, "breaker")
    /\ UNCHANGED <<stopVars, breakerVars, authVars, used, rowVars, aged, effects, paid,
                   faults>>

StopGate(t) ==
    /\ pc[t] = "stop"
    /\ GateTo(t, ~Blocked, "breaker")
    /\ UNCHANGED <<stopVars, breakerVars, authVars, used, rowVars, aged, effects, paid,
                   faults>>

BreakerGate(t) ==
    /\ pc[t] = "breaker"
    /\ \E allowed \in BOOLEAN : AllowAction(allowed) /\ GateTo(t, allowed, "quota")
    /\ UNCHANGED <<stopVars, authVars, used, rowVars, aged, effects, paid, faults>>

\* Mutant of QuotaGate: check_only in place of check_and_record.
QuotaChecked(t) ==
    /\ pc[t] = "quota"
    /\ GateTo(t, used < MaxQuota, "cooldown")
    /\ UNCHANGED <<stopVars, breakerVars, authVars, used, rowVars, aged, effects, paid,
                   faults>>

\* check_and_record: the unit is consumed whatever the later gates say.
QuotaGate(t) ==
    /\ pc[t] = "quota"
    /\ GateTo(t, used < MaxQuota, "cooldown")
    /\ used' = IF used < MaxQuota THEN used + 1 ELSE used
    /\ paid' = IF used < MaxQuota THEN paid + 1 ELSE paid
    /\ UNCHANGED <<stopVars, breakerVars, authVars, rowVars, aged, effects, faults>>

\* Rows of the policy and target, created in the window and not blocked.
Recent(x) == {y \in Execution : /\ Slot[y] = Slot[x]
                                /\ row[y] \notin {"none", "blocked"}
                                /\ y \notin aged}

CooldownGate(t) ==
    /\ pc[t] = "cooldown"
    /\ GateTo(t, Cardinality(Recent(job[t])) < MaxPerWindow, "approval")
    /\ UNCHANGED <<stopVars, breakerVars, authVars, used, rowVars, aged, effects, paid,
                   faults>>

\* target_validation, policy_authorization, preauth_authorization, approval.
ApprovalGate(t) ==
    /\ pc[t] = "approval"
    /\ GateTo(t, approval[job[t]] = "approved", "claim")
    /\ UNCHANGED <<stopVars, breakerVars, authVars, used, rowVars, aged, effects, paid,
                   faults>>

-----------------------------------------------------------------------------
SetStatus(x, s) ==
    /\ row' = [row EXCEPT ![x] = s]
    /\ attempt' = [attempt EXCEPT ![x] = s]
    /\ UNCHANGED <<restorable, audited>>

\* _persist_blocked; the loser of the insert resolves to the winning row.
Refuse(t) ==
    /\ pc[t] = "refuse"
    /\ IF row[job[t]] = "none"
       THEN /\ row' = [row EXCEPT ![job[t]] = "blocked"]
            /\ Finish(t)
       ELSE Goto(t, "replay") /\ UNCHANGED row
    /\ UNCHANGED <<stopVars, breakerVars, authVars, used, attempt, restorable, audited,
                   aged, effects, paid, faults>>

\* Mutant of Claim: an existing row is overwritten.
ClaimAnyway(t) ==
    /\ pc[t] = "claim"
    /\ SetStatus(job[t], "executing") /\ Goto(t, "snapshot")
    /\ UNCHANGED <<stopVars, breakerVars, authVars, used, aged, effects, paid, faults>>

\* The inserts are flushed as safety_check and planned, and committed as executing.
Claim(t) ==
    /\ pc[t] = "claim"
    /\ IF row[job[t]] = "none"
       THEN SetStatus(job[t], "executing") /\ Goto(t, "snapshot")
       ELSE Goto(t, "replay") /\ UNCHANGED rowVars
    /\ UNCHANGED <<stopVars, breakerVars, authVars, used, aged, effects, paid, faults>>

\* A snapshot that is not required, or fails, does not keep the action back.
Snapshot(t) ==
    /\ pc[t] = "snapshot"
    /\ restorable' \in {restorable, restorable \cup {job[t]}}
    /\ Goto(t, "execute")
    /\ UNCHANGED <<stopVars, breakerVars, authVars, used, row, attempt, audited, aged,
                   effects, paid, faults>>

\* action.execute, with no transaction open.
Perform(t) ==
    /\ pc[t] = "execute"
    /\ effects' = [effects EXCEPT ![job[t]] = @ + 1]
    /\ Goto(t, "ran") \/ Goto(t, "broke")
    /\ UNCHANGED <<stopVars, breakerVars, authVars, used, rowVars, aged, paid, faults>>

RecordOutcome(t) ==
    /\ \/ pc[t] = "ran" /\ SetStatus(job[t], "verifying") /\ Goto(t, "verify")
       \/ pc[t] = "broke" /\ SetStatus(job[t], "execution_failed") /\ Goto(t, "penalise")
    /\ UNCHANGED <<stopVars, breakerVars, authVars, used, aged, effects, paid, faults>>

Verify(t) ==
    /\ pc[t] = "verify"
    /\ \/ /\ SetStatus(job[t], "succeeded")
          /\ RecordSuccess
          /\ Goto(t, "audit")
       \/ /\ SetStatus(job[t], "verification_failed")
          /\ RecordFailure
          /\ Goto(t, IF job[t] \in restorable THEN "offer" ELSE "audit")
    /\ UNCHANGED <<stopVars, authVars, used, aged, effects, paid, faults>>

\* A failed execution is reported to the breaker after its commit.
Penalise(t) ==
    /\ pc[t] = "penalise"
    /\ RecordFailure
    /\ Goto(t, "audit")
    /\ UNCHANGED <<stopVars, authVars, used, rowVars, aged, effects, paid, faults>>

OfferRollback(t) ==
    /\ pc[t] = "offer"
    /\ SetStatus(job[t], "rollback_available")
    /\ Goto(t, "audit")
    /\ UNCHANGED <<stopVars, breakerVars, authVars, used, aged, effects, paid, faults>>

FinalizeAudit(t) ==
    /\ pc[t] = "audit"
    /\ audited' = audited \cup {job[t]}
    /\ Finish(t)
    /\ UNCHANGED <<stopVars, breakerVars, authVars, used, row, attempt, restorable,
                   aged, effects, paid, faults>>

\* A success that cannot be audited is turned into a failure, in row only, in a
\* transaction that may fail as well.
AuditFails(t) ==
    /\ pc[t] = "audit"
    /\ \E final \in {row[job[t]]} \cup
             (IF row[job[t]] = "succeeded" THEN {"execution_failed"} ELSE {}) :
          row' = [row EXCEPT ![job[t]] = final] /\ Finish(t)
    /\ UNCHANGED <<stopVars, breakerVars, authVars, used, attempt, restorable, audited,
                   aged, effects, paid, faults>>

\* _resolve_existing: the winner's row has settled.
Replay(t) ==
    /\ pc[t] = "replay"
    /\ row[job[t]] \in Settled
    /\ Finish(t)
    /\ UNCHANGED <<stopVars, breakerVars, authVars, used, rowVars, aged, effects, paid,
                   faults>>

\* REPLAY_WAIT_SECONDS have passed: the status is returned as it is.
ReplayTimesOut(t) ==
    /\ pc[t] = "replay"
    /\ row[job[t]] \notin Settled
    /\ Finish(t)
    /\ UNCHANGED <<stopVars, breakerVars, authVars, used, rowVars, aged, effects, paid,
                   faults>>

-----------------------------------------------------------------------------
(***************************************************************************)
(* The rest of the world.                                                  *)
(***************************************************************************)
Admin ==
    /\ AdminStep
    /\ stoppedSince' = IF stopHeld' THEN stoppedSince ELSE {}
    /\ UNCHANGED <<breakerVars, authVars, used, rowVars, aged, pc, job, effects, paid,
                   faults>>

\* The policy is updated (a new version), disabled, or expires.
PolicyChanges ==
    /\ policyActive
    /\ policyActive' = FALSE
    /\ UNCHANGED <<stopVars, breakerVars, approval, used, rowVars, aged, callVars,
                   effects, paid, faults>>

ApprovalChanges(x) ==
    /\ \/ approval[x] = "pending" /\ approval' = [approval EXCEPT ![x] = "approved"]
       \/ approval[x] = "approved" /\ approval' = [approval EXCEPT ![x] = "expired"]
    /\ UNCHANGED <<stopVars, breakerVars, policyActive, used, rowVars, aged, callVars,
                   effects, paid, faults>>

\* Time: a limiter unit leaves the window, a row leaves the cooldown window,
\* the breaker's recovery timeout passes.
TimePasses ==
    /\ \/ /\ used > 0
          /\ used' = used - 1
          /\ UNCHANGED <<aged, breakerVars>>
       \/ /\ \E x \in Execution \ aged :
                row[x] \notin {"none", "blocked"} /\ aged' = aged \cup {x}
          /\ UNCHANGED <<used, breakerVars>>
       \/ RecoveryTimePasses /\ UNCHANGED <<used, aged>>
    /\ UNCHANGED <<stopVars, authVars, rowVars, callVars, effects, paid, faults>>

\* A database error outside the handlers run catches: the call ends with a 500.
\* The breaker has its report of a verification whose commit fails.
Abort(t) ==
    /\ pc[t] \in CallPC \ {"idle", "snapshot", "execute", "audit"}
    /\ faults < MaxFaults
    /\ faults' = faults + 1
    /\ Finish(t)
    /\ \/ UNCHANGED breakerVars
       \/ pc[t] = "verify" /\ (RecordSuccess \/ RecordFailure)
    /\ UNCHANGED <<stopVars, authVars, used, rowVars, aged, effects, paid>>

\* The backend process dies and is started again: what is in memory is lost.
Crash ==
    /\ faults < MaxFaults
    /\ faults' = faults + 1
    /\ StopRestart
    /\ cbState' = "closed"
    /\ failures' = 0
    /\ cooled' = FALSE
    /\ used' = 0
    /\ pc' = [t \in Thread |-> "idle"]
    /\ job' = [t \in Thread |-> NoExecution]
    /\ stoppedSince' = {}
    /\ UNCHANGED <<authVars, rowVars, aged, effects, paid>>

-----------------------------------------------------------------------------
Gate(t) ==
    \/ PolicyGate(t) \/ StopGate(t) \/ BreakerGate(t)
    \/ QuotaGate(t) \/ CooldownGate(t) \/ ApprovalGate(t)

Run(t) ==
    \/ Refuse(t) \/ Claim(t) \/ Snapshot(t) \/ Perform(t) \/ RecordOutcome(t)
    \/ Verify(t) \/ Penalise(t) \/ OfferRollback(t) \/ FinalizeAudit(t) \/ AuditFails(t)
    \/ Replay(t)

Environment ==
    \/ Admin \/ PolicyChanges \/ TimePasses \/ Crash
    \/ \E x \in Execution : ApprovalChanges(x)

Next ==
    \/ \E t \in Thread, x \in Execution : Submit(t, x)
    \/ \E t \in Thread : Gate(t) \/ Run(t) \/ ReplayTimesOut(t) \/ Abort(t)
    \/ Environment

Spec == Init /\ [][Next]_vars

\* A request thread keeps running; no replay is helped by its timeout.
FairSpec == Spec /\ \A t \in Thread : WF_vars(Gate(t) \/ Run(t))

-----------------------------------------------------------------------------
(***************************************************************************)
(* A stop is a stop: a call made while an activated kill switch was held,  *)
(* and held ever since, never gets as far as the action, although the      *)
(* switch lives in two places and a restart forgets one of them.           *)
(***************************************************************************)
StopPreventsEffects ==
    \A t \in stoppedSince : pc[t] \in {"policy", "stop", "refuse", "replay"}

\* The executions so far: the first of x, the second of x, and so on.
Performed == UNION {{x} \X (1..effects[x]) : x \in Execution}

(***************************************************************************)
(* Every execution of an action consumed a unit of the rate limiter of its *)
(* own: replays, lost races, crashes and retries execute nothing unpaid.   *)
(***************************************************************************)
EffectsPaidFor == Cardinality(Performed) <= paid

(***************************************************************************)
(* A call returns: the winner finishes, and whoever lost the race for the  *)
(* execution_id gets the winner's result without waiting for the timeout,  *)
(* in a process that does not crash.                                       *)
(***************************************************************************)
CallsReturn == \A t \in Thread : (pc[t] # "idle") ~> (pc[t] = "idle")

(***************************************************************************)
(* The envelope implements the ledger of executions: refused or claimed    *)
(* once, executed at most once, settled for good.                          *)
(***************************************************************************)
fateOf == [none |-> "new", blocked |-> "refused",
           executing |-> "claimed", verifying |-> "claimed",
           succeeded |-> "settled", execution_failed |-> "settled",
           verification_failed |-> "settled", rollback_available |-> "settled"]

fateBar == [x \in Execution |-> fateOf[row[x]]]

Ledger == INSTANCE ExecutionLedger WITH fate <- fateBar

ImplementsLedger == Ledger!Spec
=============================================================================
