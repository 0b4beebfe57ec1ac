------------------------------ MODULE Approval ------------------------------
(***************************************************************************)
(* Approval requests: ApprovalManager of guardian/approval/manager.py,     *)
(* behind the approve and reject endpoints of                              *)
(* backend/api_guardian_phase3.py.                                         *)
(*                                                                         *)
(* A handler reads the request, checks that it is pending, and writes the  *)
(* decision and its record in one transaction.  Nothing locks the row      *)
(* between the read and the write, so other handlers get in between; the   *)
(* write itself does not look at the status again.                         *)
(***************************************************************************)
EXTENDS Naturals, FiniteSets

CONSTANTS
    Request,  \* approval_ids
    Approver  \* users with a role that may decide

VARIABLES
    request,   \* column status of the request, or "none"
    overdue,   \* requests whose expires_at has passed
    decisions, \* rows of guardian_approvals: <<request, approver, decision>>
    open,      \* decisions of handlers that have read the row as pending
    expiring   \* approved requests a validation has read as overdue

approvalVars == <<request, overdue, decisions, open, expiring>>

Decision == {"approved", "rejected"}

ApprovalStatus == {"none", "pending", "expired"} \cup Decision

ApprovalTypeOK ==
    /\ request \in [Request -> ApprovalStatus]
    /\ overdue \in SUBSET Request
    /\ decisions \in SUBSET (Request \X Approver \X Decision)
    /\ open \in SUBSET (Request \X Approver \X Decision)
    /\ expiring \in SUBSET Request

ApprovalInit ==
    /\ request = [r \in Request |-> "none"]
    /\ overdue = {}
    /\ decisions = {}
    /\ open = {}
    /\ expiring = {}

-----------------------------------------------------------------------------
\* An approval_id that exists is returned as it is, also to the loser of a race.
CreateRequest(r) ==
    /\ request[r] = "none"
    /\ request' = [request EXCEPT ![r] = "pending"]
    /\ UNCHANGED <<overdue, decisions, open, expiring>>

\* An overdue request cannot be approved; that it has expired is written, but
\* never committed.  reject_request does not look at expires_at.
OpenDecision(r, p, d) ==
    /\ request[r] = "pending"
    /\ d = "approved" => r \notin overdue
    /\ open' = open \cup {<<r, p, d>>}
    /\ UNCHANGED <<request, overdue, decisions, expiring>>

\* Mutant of Decide: the status is committed and the record is not.
DecideUnrecorded(r, p, d) ==
    /\ <<r, p, d>> \in open
    /\ open' = open \ {<<r, p, d>>}
    /\ request' = [request EXCEPT ![r] = d]
    /\ UNCHANGED <<overdue, decisions, expiring>>

\* The record's id is unique per approver and decision: of two handlers of one
\* approver that decide alike, the second rolls back and has no effect.
Decide(r, p, d) ==
    /\ <<r, p, d>> \in open
    /\ open' = open \ {<<r, p, d>>}
    /\ request' = [request EXCEPT ![r] = d]
    /\ decisions' = decisions \cup {<<r, p, d>>}
    /\ UNCHANGED <<overdue, expiring>>

RequestExpires(r) ==
    /\ request[r] # "none"
    /\ r \notin overdue
    /\ overdue' = overdue \cup {r}
    /\ UNCHANGED <<request, decisions, open, expiring>>

\* Mutant of Valid: whatever is not rejected or expired will do.
NotRefused(r) == request[r] \in {"pending", "approved"} /\ r \notin overdue

\* validate_for_execution, for the decision, target and type of the request.
Valid(r) == request[r] = "approved" /\ r \notin overdue

\* A failed validation marks an overdue approval as expired...
FailValidation(r) ==
    /\ ~Valid(r)
    /\ expiring' = IF request[r] = "approved" THEN expiring \cup {r} ELSE expiring
    /\ UNCHANGED <<request, overdue, decisions, open>>

\* ...which its caller commits.
CommitExpired(r) ==
    /\ r \in expiring
    /\ expiring' = expiring \ {r}
    /\ request' = [request EXCEPT ![r] = "expired"]
    /\ UNCHANGED <<overdue, decisions, open>>

\* The handlers die with the process; what was committed stays.
ApprovalCrash ==
    /\ open' = {}
    /\ expiring' = {}
    /\ UNCHANGED <<request, overdue, decisions>>

ApprovalNext ==
    \E r \in Request :
        \/ CreateRequest(r) \/ RequestExpires(r) \/ CommitExpired(r)
        \/ \E p \in Approver, d \in Decision : OpenDecision(r, p, d) \/ Decide(r, p, d)
=============================================================================
