--------------------------- MODULE ActionResponse ---------------------------
(***************************************************************************)
(* The life of a row of guardian_action_attempts: approved, executed by    *)
(* the safety envelope, and rolled back on request through                 *)
(* backend/api_guardian_phase3.py.  Envelope and rollback endpoint share   *)
(* the row, the rollback record and the audit, and no lock.                *)
(*                                                                         *)
(* SafetyEnvelope has the envelope in full; of it, this module keeps the   *)
(* approval gate and the commits that change the attempt.  One call owns   *)
(* an attempt, which is what ExecutedAtMostOnce shows there.  Calls that   *)
(* a pre-authorization grant lets through name no approval: not here.      *)
(***************************************************************************)
EXTENDS Approval

CONSTANTS
    Action,     \* action_ids
    ApprovalOf, \* the approval each action names
    Requester,  \* request threads of the rollback endpoint
    NoAction,   \* no action_id
    MaxCrashes  \* bound: restarts of the backend process

ASSUME ResponseAssumption ==
    /\ ApprovalOf \in [Action -> Request]
    /\ NoAction \notin Action
    /\ MaxCrashes \in Nat

VARIABLES
    attempt,  \* committed status of the attempt, or "none"
    restorable, \* the attempt has a snapshot_id and its action rolls back
    record,   \* committed status of the rollback record, or "none"
    audit,    \* status in the audit row of the rollback, or "none"
    call,     \* where the envelope's call for the action is
    stage,    \* where each rollback request is
    target,   \* the action of each rollback request
    crashes,
    unverified, \* history: actions whose verification failed
    undone    \* history: how often action.rollback ran

endpointVars == <<stage, target>>
vars == <<approvalVars, attempt, restorable, record, audit, call, endpointVars, crashes,
          unverified, undone>>

RollbackDone == {"rolled_back", "rollback_failed"}

AttemptStatus == RollbackDone \cup
    {"none", "executing", "verifying", "succeeded", "execution_failed",
     "verification_failed", "rollback_available", "rollback_requested",
     "rolling_back"}

TypeOK ==
    /\ ApprovalTypeOK
    /\ attempt \in [Action -> AttemptStatus]
    /\ restorable \in SUBSET Action
    /\ record \in [Action -> RollbackDone \cup {"none", "available", "requested"}]
    /\ audit \in [Action -> RollbackDone \cup {"none"}]
    /\ call \in [Action -> {"none", "claim", "execute", "verify", "offer", "over"}]
    /\ stage \in [Requester -> RollbackDone \cup
                      {"idle", "insert", "update", "requested", "running"}]
    /\ target \in [Requester -> Action \cup {NoAction}]
    /\ crashes \in Nat
    /\ unverified \in SUBSET Action
    /\ undone \in [Action -> Nat]

Init ==
    /\ ApprovalInit
    /\ attempt = [a \in Action |-> "none"]
    /\ restorable = {}
    /\ record = [a \in Action |-> "none"]
    /\ audit = [a \in Action |-> "none"]
    /\ call = [a \in Action |-> "none"]
    /\ stage = [q \in Requester |-> "idle"]
    /\ target = [q \in Requester |-> NoAction]
    /\ crashes = 0
    /\ unverified = {}
    /\ undone = [a \in Action |-> 0]

-----------------------------------------------------------------------------
(***************************************************************************)
(* The envelope's call, as far as the attempt is concerned.                *)
(***************************************************************************)
CallGoes(a, from, to) ==
    /\ call[a] = from
    /\ call' = [call EXCEPT ![a] = to]

PassApproval(a) ==
    /\ CallGoes(a, "none", "claim")
    /\ Valid(ApprovalOf[a])
    /\ UNCHANGED <<approvalVars, attempt, restorable, record, audit, endpointVars,
                   crashes, unverified, undone>>

\* The execution_id is blocked for good.
FailApproval(a) ==
    /\ CallGoes(a, "none", "over")
    /\ FailValidation(ApprovalOf[a])
    /\ UNCHANGED <<attempt, restorable, record, audit, endpointVars, crashes, unverified,
                   undone>>

Claim(a) ==
    /\ CallGoes(a, "claim", "execute")
    /\ attempt' = [attempt EXCEPT ![a] = "executing"]
    /\ UNCHANGED <<approvalVars, restorable, record, audit, endpointVars, crashes,
                   unverified, undone>>

\* Snapshot, action.execute, and the commit of its outcome.
Execute(a) ==
    /\ restorable' \in {restorable, restorable \cup {a}}
    /\ \/ /\ CallGoes(a, "execute", "verify")
          /\ attempt' = [attempt EXCEPT ![a] = "verifying"]
       \/ /\ CallGoes(a, "execute", "over")
          /\ attempt' = [attempt EXCEPT ![a] = "execution_failed"]
    /\ UNCHANGED <<approvalVars, record, audit, endpointVars, crashes, unverified, undone>>

Verify(a) ==
    /\ \/ /\ CallGoes(a, "verify", "over")
          /\ attempt' = [attempt EXCEPT ![a] = "succeeded"]
          /\ UNCHANGED unverified
       \/ /\ CallGoes(a, "verify", IF a \in restorable THEN "offer" ELSE "over")
          /\ attempt' = [attempt EXCEPT ![a] = "verification_failed"]
          /\ unverified' = unverified \cup {a}
    /\ UNCHANGED <<approvalVars, restorable, record, audit, endpointVars, crashes, undone>>

\* A request that came first has inserted the record: the transaction fails.
OfferRollback(a) ==
    /\ CallGoes(a, "offer", "over")
    /\ IF record[a] = "none"
       THEN /\ record' = [record EXCEPT ![a] = "available"]
            /\ attempt' = [attempt EXCEPT ![a] = "rollback_available"]
       ELSE UNCHANGED <<record, attempt>>
    /\ UNCHANGED <<approvalVars, restorable, audit, endpointVars, crashes, unverified,
                   undone>>

-----------------------------------------------------------------------------
(***************************************************************************)
(* request_rollback: reads, and three commits around action.rollback.      *)
(***************************************************************************)
Proceed(q, from, to) ==
    /\ stage[q] = from
    /\ stage' = [stage EXCEPT ![q] = to]
    /\ UNCHANGED target

Leave(q) ==
    /\ stage' = [stage EXCEPT ![q] = "idle"]
    /\ target' = [target EXCEPT ![q] = NoAction]

\* Mutant of MayRollBack: any attempt whose execution is over.
Finished(a) ==
    attempt[a] \in {"rollback_available", "verification_failed", "succeeded"} /\ a \in restorable

MayRollBack(a) ==
    attempt[a] \in {"rollback_available", "verification_failed"} /\ a \in restorable

BeginRollback(q, a) ==
    /\ stage[q] = "idle"
    /\ MayRollBack(a)
    /\ stage' = [stage EXCEPT ![q] = IF record[a] = "none" THEN "insert" ELSE "update"]
    /\ target' = [target EXCEPT ![q] = a]
    /\ UNCHANGED <<approvalVars, attempt, restorable, record, audit, call, crashes,
                   unverified, undone>>

CommitRequested(q) ==
    /\ stage[q] \in {"insert", "update"}
    /\ IF stage[q] = "insert" /\ record[target[q]] # "none"
       THEN Leave(q) /\ UNCHANGED <<attempt, record>>
       ELSE /\ Proceed(q, stage[q], "requested")
            /\ attempt' = [attempt EXCEPT ![target[q]] = "rollback_requested"]
            /\ record' = [record EXCEPT ![target[q]] = "requested"]
    /\ UNCHANGED <<approvalVars, restorable, audit, call, crashes, unverified, undone>>

CommitRunning(q) ==
    /\ Proceed(q, "requested", "running")
    /\ attempt' = [attempt EXCEPT ![target[q]] = "rolling_back"]
    /\ UNCHANGED <<approvalVars, restorable, record, audit, call, crashes, unverified,
                   undone>>

RollBack(q) ==
    /\ \E outcome \in RollbackDone : Proceed(q, "running", outcome)
    /\ undone' = [undone EXCEPT ![target[q]] = @ + 1]
    /\ UNCHANGED <<approvalVars, attempt, restorable, record, audit, call, crashes,
                   unverified>>

Settle(q) ==
    /\ attempt' = [attempt EXCEPT ![target[q]] = stage[q]]
    /\ record' = [record EXCEPT ![target[q]] = stage[q]]

\* Mutant of CommitOutcome: the audit has a transaction of its own.
SettleThenAudit(q) ==
    /\ stage[q] \in RollbackDone
    /\ Leave(q)
    /\ Settle(q)
    /\ audit' = [audit EXCEPT ![target[q]] = IF @ = "none" THEN stage[q] ELSE @]
    /\ UNCHANGED <<approvalVars, restorable, call, crashes, unverified, undone>>

\* The audit_id is unique per action: a second rollback is not recorded at all.
CommitOutcome(q) ==
    /\ stage[q] \in RollbackDone
    /\ Leave(q)
    /\ IF audit[target[q]] = "none"
       THEN Settle(q) /\ audit' = [audit EXCEPT ![target[q]] = stage[q]]
       ELSE UNCHANGED <<attempt, record, audit>>
    /\ UNCHANGED <<approvalVars, restorable, call, crashes, unverified, undone>>

-----------------------------------------------------------------------------
Approvals ==
    /\ ApprovalNext
    /\ UNCHANGED <<attempt, restorable, record, audit, call, endpointVars, crashes,
                   unverified, undone>>

\* The backend process dies and is started again.
Crash ==
    /\ crashes < MaxCrashes
    /\ crashes' = crashes + 1
    /\ ApprovalCrash
    /\ call' = [a \in Action |-> IF call[a] = "none" THEN "none" ELSE "over"]
    /\ stage' = [q \in Requester |-> "idle"]
    /\ target' = [q \in Requester |-> NoAction]
    /\ UNCHANGED <<attempt, restorable, record, audit, unverified, undone>>

Envelope(a) ==
    \/ PassApproval(a) \/ FailApproval(a) \/ Claim(a) \/ Execute(a) \/ Verify(a)
    \/ OfferRollback(a)

Rollback(q) ==
    \/ CommitRequested(q) \/ CommitRunning(q) \/ RollBack(q) \/ CommitOutcome(q)

Next ==
    \/ Approvals
    \/ \E a \in Action : Envelope(a)
    \/ \E q \in Requester : Rollback(q) \/ \E a \in Action : BeginRollback(q, a)
    \/ Crash

Spec == Init /\ [][Next]_vars

-----------------------------------------------------------------------------
(***************************************************************************)
(* A decision is never without its record: whichever of two handlers       *)
(* commits last, the status of the request is one that an approver has     *)
(* put on record (approve_request, reject_request).                        *)
(***************************************************************************)
DecisionIsRecorded ==
    \A r \in Request :
        request[r] \in Decision => \E p \in Approver : <<r, p, request[r]>> \in decisions

(***************************************************************************)
(* No action is attempted unless somebody has approved it, although the    *)
(* approval may be overwritten or expire between gate and execution.       *)
(***************************************************************************)
AttemptWasApproved ==
    \A a \in Action :
        attempt[a] # "none" =>
            \E p \in Approver : <<ApprovalOf[a], p, "approved">> \in decisions

(***************************************************************************)
(* Only an action whose verification failed is ever undone, however the    *)
(* rollback requests race with the envelope and with each other.           *)
(***************************************************************************)
UndoesOnlyFailures == \A a \in Action : undone[a] > 0 => a \in unverified

(***************************************************************************)
(* The row, the rollback record and the audit never contradict each other: *)
(* an attempt that is shown as rolled back, or failed to, is so in its     *)
(* record and its audit too, with any number of concurrent requests.       *)
(***************************************************************************)
OutcomeIsAudited ==
    \A a \in Action :
        attempt[a] \in RollbackDone => record[a] = attempt[a] /\ audit[a] = attempt[a]
=============================================================================
