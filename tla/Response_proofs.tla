--------------------------- MODULE Response_proofs ---------------------------
(***************************************************************************)
(* Proofs about response actions, in two parts.                            *)
(*                                                                         *)
(* ActionResponse: the rows, for any number of requests, approvers,        *)
(* actions, concurrent rollback requests and crashes.                      *)
(*                                                                         *)
(* HostActions: the host, for any number of attempts on any set of         *)
(* entries; when the file of a startup entry can be lost, and what undoes  *)
(* an action that was verified.                                            *)
(***************************************************************************)
EXTENDS ActionResponse, HostActions, TLAPS

-----------------------------------------------------------------------------
(***************************************************************************)
(* The rows of an action: ActionResponse.                                  *)
(***************************************************************************)

\* A call past its approval gate, or the attempt it made, has been approved.
Engaged(a) ==
    \/ attempt[a] # "none"
    \/ call[a] \in {"claim", "execute", "verify", "offer"}
    \/ a \in unverified

ApprovedInv ==
    \A a \in Action :
        Engaged(a) => \E p \in Approver : <<ApprovalOf[a], p, "approved">> \in decisions

\* The statuses only an attempt whose verification failed can have.
Undoable == RollbackDone \cup
    {"verification_failed", "rollback_available", "rollback_requested", "rolling_back"}

FailureInv ==
    /\ \A a \in Action :
          attempt[a] \in Undoable \/ call[a] = "offer" \/ undone[a] > 0 => a \in unverified
    /\ \A q \in Requester : stage[q] # "idle" => target[q] \in unverified

IInv ==
    /\ TypeOK
    /\ DecisionIsRecorded
    /\ ApprovedInv
    /\ FailureInv
    /\ OutcomeIsAudited

-----------------------------------------------------------------------------
(***************************************************************************)
(* The approval rows: types and records are kept, records only grow.       *)
(***************************************************************************)
LEMMA ApprovalStep ==
    ASSUME ApprovalTypeOK, DecisionIsRecorded,
           ApprovalNext \/ ApprovalCrash \/ UNCHANGED approvalVars
               \/ \E r \in Request : FailValidation(r)
    PROVE  ApprovalTypeOK' /\ DecisionIsRecorded' /\ decisions \subseteq decisions'
<1>1. CASE ApprovalNext
  <2> PICK r \in Request :
          \/ CreateRequest(r) \/ RequestExpires(r) \/ CommitExpired(r)
          \/ \E p \in Approver, d \in Decision : OpenDecision(r, p, d) \/ Decide(r, p, d)
    BY <1>1 DEF ApprovalNext
  <2>1. CASE CreateRequest(r)
    BY <2>1 DEF CreateRequest, ApprovalTypeOK, ApprovalStatus, Decision, DecisionIsRecorded
  <2>2. CASE RequestExpires(r)
    BY <2>2 DEF RequestExpires, ApprovalTypeOK, DecisionIsRecorded
  <2>3. CASE CommitExpired(r)
    BY <2>3 DEF CommitExpired, ApprovalTypeOK, ApprovalStatus, Decision, DecisionIsRecorded
  <2>4. ASSUME NEW p \in Approver, NEW d \in Decision, OpenDecision(r, p, d)
        PROVE  ApprovalTypeOK' /\ DecisionIsRecorded' /\ decisions \subseteq decisions'
    <3>1. ApprovalTypeOK' /\ decisions \subseteq decisions'
      BY <2>4 DEF OpenDecision, ApprovalTypeOK
    <3>2. DecisionIsRecorded'
      BY <2>4 DEF OpenDecision, DecisionIsRecorded
    <3> QED
      BY <3>1, <3>2
  <2>5. ASSUME NEW p \in Approver, NEW d \in Decision, Decide(r, p, d)
        PROVE  ApprovalTypeOK' /\ DecisionIsRecorded' /\ decisions \subseteq decisions'
    <3>1. ApprovalTypeOK' /\ decisions \subseteq decisions'
      BY <2>5 DEF Decide, ApprovalTypeOK, ApprovalStatus
    <3>2. DecisionIsRecorded'
      BY <2>5 DEF Decide, ApprovalTypeOK, DecisionIsRecorded
    <3> QED
      BY <3>1, <3>2
  <2> QED
    BY <2>1, <2>2, <2>3, <2>4, <2>5
<1>2. CASE ApprovalCrash
  BY <1>2 DEF ApprovalCrash, ApprovalTypeOK, DecisionIsRecorded
<1>3. CASE UNCHANGED approvalVars
  BY <1>3 DEF approvalVars, ApprovalTypeOK, DecisionIsRecorded
<1>4. ASSUME NEW r \in Request, FailValidation(r)
      PROVE  ApprovalTypeOK' /\ DecisionIsRecorded' /\ decisions \subseteq decisions'
  BY <1>4 DEF FailValidation, ApprovalTypeOK, DecisionIsRecorded
<1> QED
  BY <1>1, <1>2, <1>3, <1>4

\* The invariant of the response holds at the start.
LEMMA InitInv == Init => IInv
<1> SUFFICES ASSUME Init PROVE IInv
  OBVIOUS
<1>1. TypeOK
  BY ResponseAssumption
  DEF Init, ApprovalInit, TypeOK, ApprovalTypeOK, ApprovalStatus, AttemptStatus
<1>2. DecisionIsRecorded /\ ApprovedInv
  BY DEF Init, ApprovalInit, DecisionIsRecorded, Decision, ApprovedInv, Engaged
<1>3. FailureInv /\ OutcomeIsAudited
  BY DEF Init, FailureInv, Undoable, OutcomeIsAudited, RollbackDone
<1> QED
  BY <1>1, <1>2, <1>3 DEF IInv

(***************************************************************************)
(* The envelope's steps.                                                   *)
(***************************************************************************)
LEMMA EnvelopeStep ==
    ASSUME IInv, NEW a \in Action, Envelope(a) PROVE IInv'
<1> USE DEF IInv
<1>1. ApprovalTypeOK' /\ DecisionIsRecorded' /\ decisions \subseteq decisions'
  <2>1. UNCHANGED approvalVars \/ FailValidation(ApprovalOf[a])
    BY DEF Envelope, PassApproval, FailApproval, Claim, Execute, Verify, OfferRollback
  <2> QED
    BY <2>1, ApprovalStep, ResponseAssumption DEF TypeOK
<1>2. TypeOK'
  BY <1>1
  DEF TypeOK, Envelope, PassApproval, FailApproval, Claim, Execute, Verify, OfferRollback,
      CallGoes, endpointVars, AttemptStatus
<1>3. ApprovedInv'
  <2>1. CASE PassApproval(a)
    <3>1. \E p \in Approver : <<ApprovalOf[a], p, "approved">> \in decisions
      BY <2>1, ResponseAssumption DEF PassApproval, Valid, DecisionIsRecorded, Decision
    <3>2. \A b \in Action : Engaged(b)' => b = a \/ Engaged(b)
      BY <2>1 DEF PassApproval, CallGoes, Engaged, TypeOK
    <3> QED
      BY <1>1, <3>1, <3>2 DEF ApprovedInv
  <2>2. CASE ~PassApproval(a)
    <3>1. \A b \in Action : Engaged(b)' => Engaged(b)
      BY <2>2
      DEF Envelope, FailApproval, Claim, Execute, Verify, OfferRollback, CallGoes,
          Engaged, TypeOK
    <3> QED
      BY <1>1, <3>1 DEF ApprovedInv
  <2> QED
    BY <2>1, <2>2
<1>4. FailureInv'
  BY DEF FailureInv, Undoable, RollbackDone, TypeOK, Envelope, PassApproval, FailApproval,
         Claim, Execute, Verify, OfferRollback, CallGoes, endpointVars
<1>5. OutcomeIsAudited'
  BY DEF OutcomeIsAudited, RollbackDone, TypeOK, Envelope, PassApproval, FailApproval,
         Claim, Execute, Verify, OfferRollback, CallGoes
<1> QED
  BY <1>1, <1>2, <1>3, <1>4, <1>5

(***************************************************************************)
(* The rollback endpoint's steps.                                          *)
(***************************************************************************)
LEMMA EndpointStep ==
    ASSUME IInv, NEW q \in Requester,
           Rollback(q) \/ \E a \in Action : BeginRollback(q, a)
    PROVE  IInv'
<1> USE DEF IInv
<1>1. UNCHANGED approvalVars /\ UNCHANGED <<call, restorable, crashes, unverified>>
  BY DEF Rollback, BeginRollback, CommitRequested, CommitRunning, RollBack, CommitOutcome
<1>2. ApprovalTypeOK' /\ DecisionIsRecorded' /\ decisions = decisions'
  BY <1>1, ApprovalStep DEF TypeOK, approvalVars
<1>3. CASE \E a \in Action : BeginRollback(q, a)
  <2> PICK a \in Action : BeginRollback(q, a)
    BY <1>3
  <2>1. TypeOK'
    BY <1>2 DEF BeginRollback, TypeOK
  <2>2. ApprovedInv' /\ OutcomeIsAudited'
    BY <1>2 DEF BeginRollback, ApprovedInv, Engaged, OutcomeIsAudited
  <2>3. FailureInv'
    BY DEF BeginRollback, MayRollBack, FailureInv, Undoable, TypeOK
  <2> QED
    BY <1>2, <2>1, <2>2, <2>3
<1>4. CASE Rollback(q)
  <2>1. stage[q] # "idle"
    BY <1>4
    DEF Rollback, CommitRequested, CommitRunning, RollBack, CommitOutcome, Proceed,
        RollbackDone
  <2>2. target[q] \in Action
    BY <2>1 DEF FailureInv, TypeOK
  <2>3. PICK a \in Action : a = target[q]
    BY <2>2
  <2>4. a \in unverified
    BY <2>1, <2>3 DEF FailureInv
  <2>5. TypeOK'
    <3>1. CASE CommitRequested(q)
      BY <1>2, <2>3, <3>1
      DEF CommitRequested, Proceed, Leave, TypeOK, AttemptStatus, RollbackDone
    <3>2. CASE CommitRunning(q)
      BY <1>2, <2>3, <3>2 DEF CommitRunning, Proceed, TypeOK, AttemptStatus
    <3>3. CASE RollBack(q)
      BY <1>2, <2>3, <3>3 DEF RollBack, Proceed, TypeOK, RollbackDone
    <3>4. CASE CommitOutcome(q)
      BY <1>2, <2>3, <3>4 DEF CommitOutcome, Leave, Settle, TypeOK, AttemptStatus
    <3> QED
      BY <1>4, <3>1, <3>2, <3>3, <3>4 DEF Rollback
  <2>6. \A b \in Action : attempt'[b] # attempt[b] \/ undone'[b] # undone[b] => b = a
    BY <1>4, <2>3
    DEF TypeOK, Rollback, CommitRequested, CommitRunning, RollBack, CommitOutcome, Settle
  <2>7. ApprovedInv'
    BY <1>1, <1>2, <2>4, <2>6 DEF ApprovedInv, Engaged
  <2>8. FailureInv'
    <3>1. \A b \in Action :
             attempt'[b] \in Undoable \/ call'[b] = "offer" \/ undone'[b] > 0
                 => b \in unverified'
      BY <1>1, <2>4, <2>6 DEF FailureInv
    <3>2. \A p \in Requester :
             stage'[p] # "idle" => stage[p] # "idle" /\ target'[p] = target[p]
      BY <1>4, <2>1
      DEF TypeOK, Rollback, CommitRequested, CommitRunning, RollBack, CommitOutcome,
          Proceed, Leave
    <3> QED
      BY <1>1, <3>1, <3>2 DEF FailureInv
  <2>9. OutcomeIsAudited'
    BY <1>4, <2>3
    DEF OutcomeIsAudited, RollbackDone, TypeOK, Rollback, CommitRequested, CommitRunning,
        RollBack, CommitOutcome, Settle
  <2> QED
    BY <1>2, <2>5, <2>7, <2>8, <2>9
<1> QED
  BY <1>3, <1>4

\* Every step keeps the invariant of the response.
LEMMA NextInv == IInv /\ [Next]_vars => IInv'
<1> SUFFICES ASSUME IInv, [Next]_vars PROVE IInv'
  OBVIOUS
<1>1. CASE Approvals
  <2>1. ApprovalTypeOK' /\ DecisionIsRecorded' /\ decisions \subseteq decisions'
    BY <1>1, ApprovalStep DEF Approvals, IInv, TypeOK
  <2> QED
    BY <1>1, <2>1
    DEF Approvals, endpointVars, IInv, TypeOK, ApprovedInv, Engaged, FailureInv,
        OutcomeIsAudited
<1>2. ASSUME NEW a \in Action, Envelope(a) PROVE IInv'
  BY <1>2, EnvelopeStep
<1>3. ASSUME NEW q \in Requester, Rollback(q) \/ \E a \in Action : BeginRollback(q, a)
      PROVE  IInv'
  BY <1>3, EndpointStep
<1>4. CASE Crash
  <2>1. ApprovalTypeOK' /\ DecisionIsRecorded' /\ decisions \subseteq decisions'
    BY <1>4, ApprovalStep DEF Crash, IInv, TypeOK
  <2>2. TypeOK'
    BY <1>4, <2>1 DEF Crash, IInv, TypeOK
  <2>3. ApprovedInv' /\ FailureInv' /\ OutcomeIsAudited'
    BY <1>4, <2>1
    DEF Crash, IInv, TypeOK, ApprovedInv, Engaged, FailureInv, OutcomeIsAudited
  <2> QED
    BY <2>1, <2>2, <2>3 DEF IInv
<1>5. CASE UNCHANGED vars
  <2>1. ApprovalTypeOK' /\ DecisionIsRecorded' /\ decisions \subseteq decisions'
    BY <1>5, ApprovalStep DEF vars, IInv, TypeOK
  <2> QED
    BY <1>5, <2>1
    DEF vars, endpointVars, IInv, TypeOK, ApprovedInv, Engaged, FailureInv,
        OutcomeIsAudited
<1> QED
  BY <1>1, <1>2, <1>3, <1>4, <1>5 DEF Next

\* The invariant of the response holds in every state.
LEMMA Invariance == Spec => []IInv
  BY InitInv, NextInv, PTL DEF Spec

-----------------------------------------------------------------------------
(***************************************************************************)
(* The variables keep their types.                                         *)
(***************************************************************************)
THEOREM ResponseTypes == Spec => []TypeOK
  BY Invariance, PTL DEF IInv

(***************************************************************************)
(* A request is never approved or rejected without a record of who did it, *)
(* whichever of the handlers that read it as pending commits last.         *)
(***************************************************************************)
THEOREM DecisionsAreOnRecord == Spec => []DecisionIsRecorded
  BY Invariance, PTL DEF IInv

(***************************************************************************)
(* No action is attempted that nobody approved, although its approval may  *)
(* be overwritten or expire between the gate and the attempt.              *)
(***************************************************************************)
THEOREM AttemptsAreApproved == Spec => []AttemptWasApproved
<1>1. IInv => AttemptWasApproved
  BY DEF IInv, ApprovedInv, Engaged, AttemptWasApproved
<1> QED
  BY Invariance, <1>1, PTL

(***************************************************************************)
(* Only what failed its verification is undone, for any number of rollback *)
(* requests racing with the envelope and with each other.                  *)
(***************************************************************************)
THEOREM OnlyFailuresAreUndone == Spec => []UndoesOnlyFailures
<1>1. IInv => UndoesOnlyFailures
  BY DEF IInv, FailureInv, UndoesOnlyFailures
<1> QED
  BY Invariance, <1>1, PTL

(***************************************************************************)
(* A settled rollback reads the same in the attempt, in the record and in  *)
(* the audit, for any number of requests that settle it.                   *)
(***************************************************************************)
THEOREM OutcomesAgree == Spec => []OutcomeIsAudited
  BY Invariance, PTL DEF IInv

-----------------------------------------------------------------------------
(***************************************************************************)
(* The host: HostActions.                                                  *)
(***************************************************************************)

\* Types.

HostType ==
    [files : [EntryName -> SUBSET Place], values : SUBSET (RunKey \X EntryName),
     exported : [EntryName -> SUBSET SUBSET (RunKey \X EntryName)],
     rules : SUBSET (Address \X Port), enabled : SUBSET Task, alive : SUBSET Process]

\* Where a job of each kind points.
LEMMA JobTypes ==
    ASSUME NEW j \in Job
    PROVE  /\ j.kind = "process" => j.at \in Process
           /\ j.kind = "block" => j.at \in Address \X Port
           /\ j.kind = "value" => j.at \in RunKey \X EntryName
           /\ j.kind = "task" => j.at \in Task
           /\ j.kind = "startup" => j.at \in EntryName /\ j = [kind |-> "startup", at |-> j.at]
  BY DEF Job

\* A command leaves the types alone if the work it does would.
LEMMA CommandTypes ==
    ASSUME HostTypeOK, NEW x \in Attempt, NEW done \in HostType, Command(x, done)
    PROVE  HostTypeOK'
<1>1. host' \in HostType
  BY DEF Command, HostTypeOK, HostType
<1>2. status' \in [Attempt -> Status]
  BY DEF Command, Becomes, HostTypeOK, Status
<1>3. UNCHANGED <<job, step, met>>
  BY DEF Command
<1> QED
  BY <1>1, <1>2, <1>3 DEF HostTypeOK, HostType

\* The actions that run commands.
LEMMA CommandsKeepTypes ==
    ASSUME HostTypeOK, NEW x \in Attempt,
           Terminate(x) \/ Block(x) \/ DisableTask(x) \/ DeleteValue(x)
    PROVE  HostTypeOK'
<1>0. job[x] \in Job /\ host \in HostType
  BY DEF HostTypeOK, HostType
<1>1. CASE Terminate(x)
  <2>1. [host EXCEPT !.alive = @ \ {job[x].at}] \in HostType
    BY <1>0 DEF HostType
  <2>2. CASE \E done \in HostType : Command(x, done)
    BY <2>2, CommandTypes
  <2>3. CASE Becomes(x, "execution_failed") /\ UNCHANGED <<job, step, host, met>>
    BY <2>3 DEF HostTypeOK, Becomes, Status
  <2> QED
    BY <1>0, <1>1, <2>1, <2>2, <2>3 DEF Terminate
<1>2. CASE Block(x)
  <2>1. [host EXCEPT !.rules = @ \cup {job[x].at}] \in HostType
    BY <1>0, <1>2, JobTypes DEF Block, Executing, HostType
  <2> QED
    BY <1>2, <2>1, CommandTypes DEF Block
<1>3. CASE DisableTask(x)
  <2>1. [host EXCEPT !.enabled = @ \ {job[x].at}] \in HostType
    BY <1>0 DEF HostType
  <2> QED
    BY <1>3, <2>1, CommandTypes DEF DisableTask
<1>4. CASE DeleteValue(x)
  <2> DEFINE name == job[x].at[2]
             Exported(f) == [host EXCEPT !.exported[name] = f]
             Deleted(f) == [Exported(f) EXCEPT !.values = @ \ {job[x].at}]
  <2>1. name \in EntryName
    BY <1>0, <1>4, JobTypes DEF DeleteValue, Executing
  <2>2. PICK f \in {{ValuesOf(job[x].at[1])}, host.exported[name]} :
          \/ Command(x, Deleted(f))
          \/ host' = Exported(f) /\ Becomes(x, "execution_failed") /\ UNCHANGED <<job, step, met>>
    BY <1>4 DEF DeleteValue
  <2>3. f \in SUBSET SUBSET (RunKey \X EntryName)
    BY <1>0, <2>1 DEF HostType, ValuesOf
  <2>4. Exported(f) \in HostType
    BY <1>0, <2>1, <2>3 DEF HostType
  <2>5. Deleted(f) \in HostType
    BY <2>4 DEF HostType
  <2>6. CASE Command(x, Deleted(f))
    BY <2>5, <2>6, CommandTypes
  <2>7. CASE host' = Exported(f) /\ Becomes(x, "execution_failed") /\ UNCHANGED <<job, step, met>>
    BY <2>4, <2>7 DEF HostTypeOK, HostType, Becomes, Status
  <2> QED
    BY <2>2, <2>6, <2>7
<1> QED
  BY <1>1, <1>2, <1>3, <1>4

\* The steps of disabling a startup entry.
LEMMA StartupKeepsTypes ==
    ASSUME HostTypeOK, NEW x \in Attempt, job[x].kind = "startup",
           \/ Found(x) \/ NotFound(x) \/ RemoveOld(x) \/ ToBackup(x)
           \/ ToDisabled(x) \/ RenameOnce(x) \/ Raises(x)
    PROVE  HostTypeOK'
<1>1. job[x].at \in EntryName
  BY JobTypes DEF HostTypeOK
<1>2. host' \in HostType
  <2>1. host \in HostType
    BY DEF HostTypeOK, HostType
  <2>2. CASE Found(x) \/ NotFound(x) \/ Raises(x)
    BY <2>1, <2>2 DEF Found, NotFound, Raises, Fails
  <2>3. CASE RemoveOld(x)
    BY <1>1, <2>1, <2>3 DEF RemoveOld, HostType
  <2>4. CASE ToBackup(x) \/ ToDisabled(x) \/ RenameOnce(x)
    BY <1>1, <2>1, <2>4 DEF ToBackup, ToDisabled, RenameOnce, Moved, HostType, Place
  <2> QED
    BY <2>2, <2>3, <2>4
<1>3. status' \in [Attempt -> Status]
  BY DEF HostTypeOK, Found, NotFound, RemoveOld, ToBackup, ToDisabled, RenameOnce, Raises, Fails, Becomes,
         Status
<1>4. step' \in [Attempt -> {"none", "remove", "backup", "disable", "rename"}]
  BY DEF HostTypeOK, Found, NotFound, RemoveOld, ToBackup, ToDisabled, RenameOnce, Raises, Fails, Goes
<1>5. met' \subseteq Attempt
  BY DEF HostTypeOK, Found, NotFound, RemoveOld, ToBackup, ToDisabled, RenameOnce, Raises, Fails, Others
<1>6. job' = job
  BY DEF Found, NotFound, RemoveOld, ToBackup, ToDisabled, RenameOnce, Raises, Fails
<1> QED
  BY <1>2, <1>3, <1>4, <1>5, <1>6 DEF HostTypeOK, HostType

\* Rolling back keeps the types of the host.
LEMMA RollBackKeepsTypes ==
    ASSUME HostTypeOK, NEW x \in Attempt, HostRollBack(x)
    PROVE  HostTypeOK'
<1>0. job[x] \in Job /\ host \in HostType
  BY DEF HostTypeOK, HostType
<1>1. host' \in HostType
  <2>1. CASE Unblock(x)
    BY <1>0, <2>1 DEF Unblock, Restored, HostType
  <2>2. CASE RestoreEntry(x) /\ job[x].kind = "value"
    <3>1. job[x].at[2] \in EntryName
      BY <1>0, <2>2, JobTypes
    <3>2. PICK f \in host.exported[job[x].at[2]] : host' = [host EXCEPT !.values = @ \cup f]
      BY <2>2 DEF RestoreEntry, Restored
    <3>3. f \subseteq RunKey \X EntryName
      BY <1>0, <3>1 DEF HostType
    <3> QED
      BY <1>0, <3>2, <3>3 DEF HostType
  <2>3. CASE RestoreEntry(x) /\ job[x].kind = "startup"
    <3>1. job[x].at \in EntryName
      BY <1>0, <2>3, JobTypes
    <3>2. host' = Moved(x, "backup", "entry") \/ host' = Moved(x, "disabled", "entry")
      BY <2>3 DEF RestoreEntry, Restored
    <3> QED
      BY <1>0, <3>1, <3>2 DEF Moved, HostType, Place
  <2> QED
    BY <1>0, <2>1, <2>2, <2>3 DEF HostRollBack, RestoreEntry
<1>2. status' \in [Attempt -> Status]
  BY DEF HostRollBack, Unblock, RestoreEntry, Restored, Becomes, HostTypeOK, Status
<1> QED
  BY <1>1, <1>2 DEF HostRollBack, HostTypeOK, HostType

-----------------------------------------------------------------------------
\* The invariant.

\* Who is between two file operations executes a startup attempt; and until somebody
\* has met it there it is alone, and the entry it found is there for it to rename.
AloneUntilMet ==
    \A x \in Attempt : step[x] # "none" =>
        /\ status[x] = "executing" /\ job[x].kind = "startup"
        /\ x \notin met => /\ \A y \in Attempt : step[y] # "none" /\ job[y] = job[x] => y = x
                           /\ step[x] = "remove" => "entry" \in Files(x)

HostInv == HostTypeOK /\ AloneUntilMet /\ LostOnlyInARace

\* The invariant of the host holds at the start.
LEMMA InitIInv == HostInit => HostInv
<1> SUFFICES ASSUME HostInit PROVE HostInv
  OBVIOUS
<1>1. HostTypeOK
  BY DEF HostInit, HostTypeOK, Status, Place
<1>2. AloneUntilMet
  BY DEF HostInit, AloneUntilMet
<1>3. LostOnlyInARace
  BY DEF HostInit, LostOnlyInARace
<1> QED
  BY <1>1, <1>2, <1>3 DEF HostInv

\* Every step keeps the types of the host.
LEMMA NextKeepsTypes ==
    ASSUME HostTypeOK, AloneUntilMet, HostNext PROVE HostTypeOK'
<1>1. ASSUME NEW x \in Attempt, Start(x) \/ HostVerify(x) PROVE HostTypeOK'
  BY <1>1 DEF HostTypeOK, Start, HostVerify, Becomes, Status
<1>2. ASSUME NEW x \in Attempt,
             \/ Found(x) \/ NotFound(x) \/ RemoveOld(x) \/ ToBackup(x)
             \/ ToDisabled(x) \/ RenameOnce(x) \/ Raises(x)
      PROVE  HostTypeOK'
  <2>1. job[x].kind = "startup"
    BY <1>2 DEF AloneUntilMet, Found, NotFound, Executing, RemoveOld, ToBackup, ToDisabled, RenameOnce, Raises
  <2> QED
    BY <1>2, <2>1, StartupKeepsTypes
<1>3. ASSUME ComesBack PROVE HostTypeOK'
  <2>1. host \in HostType
    BY DEF HostTypeOK, HostType
  <2>2. host' \in HostType
    BY <1>3, <2>1 DEF ComesBack, HostType, Place
  <2> QED
    BY <1>3, <2>2 DEF ComesBack, HostTypeOK, HostType
<1> QED
  BY <1>1, <1>2, <1>3, CommandsKeepTypes, RollBackKeepsTypes DEF HostNext

\* A step that touches no startup file and nobody's place in its execution, and the
\* status only of an attempt that is not in the middle of one.
LEMMA ElsewhereKeeps ==
    ASSUME AloneUntilMet, LostOnlyInARace, HostTypeOK,
           job' = job, step' = step, met' = met, host'.files = host.files,
           \A x \in Attempt : step[x] # "none" => status'[x] = status[x]
    PROVE  AloneUntilMet' /\ LostOnlyInARace'
<1>1. AloneUntilMet'
  BY DEF AloneUntilMet, Files
<1>2. LostOnlyInARace'
  BY DEF LostOnlyInARace
<1> QED
  BY <1>1, <1>2

\* The steps of that kind.
LEMMA CommandsStayElsewhere ==
    ASSUME HostTypeOK, AloneUntilMet, NEW x \in Attempt,
           \/ Start(x) \/ HostVerify(x)
           \/ Terminate(x) \/ Block(x) \/ DisableTask(x) \/ DeleteValue(x)
    PROVE  /\ UNCHANGED <<job, step, met>> /\ host'.files = host.files
           /\ \A z \in Attempt : step[z] # "none" => status'[z] = status[z]
<1>1. step[x] = "none"
  BY DEF AloneUntilMet, Start, HostVerify, Terminate, Block, DisableTask, DeleteValue, Executing
<1>2. \E s \in Status : status' = [status EXCEPT ![x] = s]
  BY DEF Start, HostVerify, Terminate, Block, DisableTask, DeleteValue, Command, Becomes, Status
<1>3. UNCHANGED <<job, step, met>>
  BY DEF Start, HostVerify, Terminate, Block, DisableTask, DeleteValue, Command
<1>4. host'.files = host.files
  <2> USE DEF HostTypeOK
  <2>1. CASE Start(x) \/ HostVerify(x)
    BY <2>1 DEF Start, HostVerify
  <2>2. CASE Terminate(x) \/ Block(x) \/ DisableTask(x)
    BY <2>2 DEF Terminate, Block, DisableTask, Command
  <2>3. CASE DeleteValue(x)
    BY <2>3 DEF DeleteValue, Command
  <2> QED
    BY <2>1, <2>2, <2>3
<1> QED
  BY <1>1, <1>2, <1>3, <1>4 DEF HostTypeOK

\* Finding the startup entry keeps both invariants of the files.
LEMMA FoundKeeps ==
    ASSUME HostInv, NEW x \in Attempt, Found(x)
    PROVE  AloneUntilMet' /\ LostOnlyInARace'
<1> USE DEF HostInv, HostTypeOK
<1>1. /\ UNCHANGED <<job, status, host>>
      /\ \E s \in {"remove", "rename"} : step' = [step EXCEPT ![x] = s]
      /\ status[x] = "executing" /\ job[x].kind = "startup" /\ "entry" \in Files(x)
  BY DEF Found, Executing, Goes
<1>2. met \subseteq met'
  BY DEF Found
<1>3. ASSUME NEW y \in Attempt, y # x, step[y] # "none", job[y] = job[x]
      PROVE  x \in met' /\ y \in met'
  <2>1. y \in Others(x)
    BY <1>3 DEF Others
  <2> QED
    BY <2>1 DEF Found
<1>4. LostOnlyInARace'
  BY <1>1, <1>2 DEF LostOnlyInARace
<1>5. AloneUntilMet'
  <2> SUFFICES ASSUME NEW z \in Attempt, step'[z] # "none"
               PROVE  /\ status'[z] = "executing" /\ job'[z].kind = "startup"
                      /\ z \notin met' =>
                           /\ \A y \in Attempt : step'[y] # "none" /\ job'[y] = job'[z] => y = z
                           /\ step'[z] = "remove" => "entry" \in Files(z)'
    BY DEF AloneUntilMet
  <2>1. CASE z = x
    <3>1. x \notin met' => \A y \in Attempt : step'[y] # "none" /\ job'[y] = job'[x] => y = x
      BY <1>1, <1>3
    <3>2. "entry" \in Files(x)'
      BY <1>1 DEF Files
    <3> QED
      BY <1>1, <2>1, <3>1, <3>2
  <2>2. CASE z # x
    <3>1. step'[z] = step[z]
      BY <1>1, <2>2
    <3>2. status[z] = "executing" /\ job[z].kind = "startup"
      BY <3>1 DEF AloneUntilMet
    <3>3. ASSUME z \notin met', NEW y \in Attempt, step'[y] # "none", job'[y] = job'[z]
          PROVE  y = z
      <4>1. CASE y = x
        BY <1>1, <1>3, <2>2, <3>1, <3>3, <4>1
      <4>2. CASE y # x
        BY <1>1, <1>2, <3>1, <3>3, <4>2 DEF AloneUntilMet
      <4> QED
        BY <4>1, <4>2
    <3>4. z \notin met' /\ step'[z] = "remove" => "entry" \in Files(z)'
      BY <1>1, <1>2, <3>1 DEF AloneUntilMet, Files
    <3> QED
      BY <1>1, <3>2, <3>3, <3>4
  <2> QED
    BY <2>1, <2>2
<1> QED
  BY <1>4, <1>5

\* Giving up leaves the files where they are.
LEMMA FailsKeeps ==
    ASSUME HostInv, NEW x \in Attempt, Fails(x)
    PROVE  AloneUntilMet' /\ LostOnlyInARace'
<1> USE DEF HostInv, HostTypeOK
<1>1. /\ UNCHANGED <<job, host, met>>
      /\ step' = [step EXCEPT ![x] = "none"]
      /\ status' = [status EXCEPT ![x] = "execution_failed"]
  BY DEF Fails, Goes, Becomes
<1>2. AloneUntilMet'
  BY <1>1 DEF AloneUntilMet, Files
<1>3. LostOnlyInARace'
  BY <1>1 DEF LostOnlyInARace
<1> QED
  BY <1>2, <1>3

\* The file operations move x on and change the files of its own entry only: what they
\* leave there decides, and the entry itself goes only from under one who was met.
LEMMA FileStepKeeps ==
    ASSUME HostInv, NEW x \in Attempt, step[x] # "none",
           NEW n \in EntryName, job[x] = [kind |-> "startup", at |-> n],
           NEW s \in {"none", "backup", "disable"}, step' = [step EXCEPT ![x] = s],
           NEW ps \in SUBSET Place, host'.files = [host.files EXCEPT ![n] = ps],
           UNCHANGED <<job, met>>,
           \A z \in Attempt : z # x => status'[z] = status[z],
           s # "none" => status'[x] = status[x],
           ps = {} => x \in met
    PROVE  AloneUntilMet' /\ LostOnlyInARace'
<1> USE DEF HostInv, HostTypeOK
<1>1. LostOnlyInARace'
  BY DEF LostOnlyInARace
<1>2. AloneUntilMet'
  <2> SUFFICES ASSUME NEW z \in Attempt, step'[z] # "none"
               PROVE  /\ status'[z] = "executing" /\ job'[z].kind = "startup"
                      /\ z \notin met' =>
                           /\ \A y \in Attempt : step'[y] # "none" /\ job'[y] = job'[z] => y = z
                           /\ step'[z] = "remove" => "entry" \in Files(z)'
    BY DEF AloneUntilMet
  <2>1. step[z] # "none"
    OBVIOUS
  <2>2. status'[z] = "executing" /\ job'[z].kind = "startup"
    BY <2>1 DEF AloneUntilMet
  <2>3. z \notin met' => \A y \in Attempt : step'[y] # "none" /\ job'[y] = job'[z] => y = z
    BY <2>1 DEF AloneUntilMet
  <2>4. ASSUME z \notin met', step'[z] = "remove" PROVE "entry" \in Files(z)'
    <3>1. z # x /\ step[z] = "remove"
      BY <2>4
    <3>2. job[z] # job[x]
      BY <2>1, <2>4, <3>1 DEF AloneUntilMet
    <3>3. job[z].at # n
      <4>1. job[z] \in Job /\ job[z].kind = "startup"
        BY <2>1 DEF AloneUntilMet
      <4> QED
        BY <3>2, <4>1, JobTypes
    <3> QED
      BY <2>1, <2>4, <3>1, <3>3 DEF AloneUntilMet, Files
  <2> QED
    BY <2>2, <2>3, <2>4
<1> QED
  BY <1>1, <1>2

\* The file operations of a disabling keep both.
LEMMA FileStepsKeep ==
    ASSUME HostInv, NEW x \in Attempt, RemoveOld(x) \/ ToBackup(x) \/ ToDisabled(x) \/ RenameOnce(x)
    PROVE  AloneUntilMet' /\ LostOnlyInARace'
<1> USE DEF HostInv
<1> DEFINE n == job[x].at
<1>1. step[x] # "none" /\ job[x].kind = "startup"
  BY DEF AloneUntilMet, RemoveOld, ToBackup, ToDisabled, RenameOnce
<1>2. n \in EntryName /\ job[x] = [kind |-> "startup", at |-> n]
  BY <1>1, JobTypes DEF HostTypeOK
<1>3. host.files \in [EntryName -> SUBSET Place] /\ status \in [Attempt -> Status]
  BY DEF HostTypeOK
<1>4. CASE RemoveOld(x)
  <2>1. host'.files = [host.files EXCEPT ![n] = Files(x) \ {"backup"}]
    BY <1>2, <1>4 DEF RemoveOld, Files, HostTypeOK
  <2>2. Files(x) \ {"backup"} = {} => x \in met
    BY <1>4 DEF RemoveOld, AloneUntilMet
  <2>3. Files(x) \ {"backup"} \in SUBSET Place
    BY <1>2, <1>3 DEF Files
  <2>4. step' = [step EXCEPT ![x] = "backup"] /\ UNCHANGED <<job, status, met>>
    BY <1>4 DEF RemoveOld, Goes
  <2> DEFINE ps == Files(x) \ {"backup"}
  <2> HIDE DEF ps
  <2>5. /\ host'.files = [host.files EXCEPT ![n] = ps] /\ ps \in SUBSET Place
        /\ ps = {} => x \in met
    BY <2>1, <2>2, <2>3 DEF ps
  <2> QED
    BY <1>1, <1>2, <2>4, <2>5, FileStepKeeps
<1>5. CASE ToBackup(x)
  <2> DEFINE ps == (Files(x) \ {"entry"}) \cup {"backup"}
  <2>1. host'.files = [host.files EXCEPT ![n] = ps]
    BY <1>2, <1>5 DEF ToBackup, Moved, Files, HostTypeOK
  <2>2. ps \in SUBSET Place /\ ps # {}
    BY <1>2, <1>3 DEF Files, Place
  <2>3. step' = [step EXCEPT ![x] = "disable"] /\ UNCHANGED <<job, status, met>>
    BY <1>5 DEF ToBackup, Goes
  <2> HIDE DEF ps
  <2> QED
    BY <1>1, <1>2, <2>1, <2>2, <2>3, FileStepKeeps
<1>6. CASE ToDisabled(x)
  <2> DEFINE ps == (Files(x) \ {"backup"}) \cup {"disabled"}
  <2>1. host'.files = [host.files EXCEPT ![n] = ps]
    BY <1>2, <1>6 DEF ToDisabled, Moved, Files, HostTypeOK
  <2>2. ps \in SUBSET Place /\ ps # {}
    BY <1>2, <1>3 DEF Files, Place
  <2>3. \A z \in Attempt : z # x => status'[z] = status[z]
    BY <1>3, <1>6 DEF ToDisabled, Becomes
  <2>4. step' = [step EXCEPT ![x] = "none"] /\ UNCHANGED <<job, met>>
    BY <1>6 DEF ToDisabled, Goes
  <2> HIDE DEF ps
  <2> QED
    BY <1>1, <1>2, <2>1, <2>2, <2>3, <2>4, FileStepKeeps
<1>7. CASE RenameOnce(x)
  <2> DEFINE ps == (Files(x) \ {"entry"}) \cup {"disabled"}
  <2>1. host'.files = [host.files EXCEPT ![n] = ps]
    BY <1>2, <1>7 DEF RenameOnce, Moved, Files, HostTypeOK
  <2>2. ps \in SUBSET Place /\ ps # {}
    BY <1>2, <1>3 DEF Files, Place
  <2>3. \A z \in Attempt : z # x => status'[z] = status[z]
    BY <1>3, <1>7 DEF RenameOnce, Becomes
  <2>4. step' = [step EXCEPT ![x] = "none"] /\ UNCHANGED <<job, met>>
    BY <1>7 DEF RenameOnce, Goes
  <2> HIDE DEF ps
  <2> QED
    BY <1>1, <1>2, <2>1, <2>2, <2>3, <2>4, FileStepKeeps
<1> QED
  BY <1>4, <1>5, <1>6, <1>7

\* What adds the entry, or adds a file, takes nothing from anyone.
LEMMA FilesReturn ==
    ASSUME AloneUntilMet, LostOnlyInARace, HostTypeOK, NEW n \in EntryName, NEW ps \in SUBSET Place,
           "entry" \in ps, host'.files = [host.files EXCEPT ![n] = ps],
           UNCHANGED <<job, step, met>>,
           \A x \in Attempt : step[x] # "none" => status'[x] = status[x]
    PROVE  AloneUntilMet' /\ LostOnlyInARace'
<1>1. LostOnlyInARace'
  BY DEF LostOnlyInARace, HostTypeOK
<1>2. ASSUME NEW x \in Attempt, "entry" \in Files(x), job[x] \in Job, job[x].kind = "startup"
      PROVE  "entry" \in Files(x)'
  BY <1>2 DEF Files, HostTypeOK
<1>3. AloneUntilMet'
  BY <1>2 DEF AloneUntilMet, HostTypeOK
<1> QED
  BY <1>1, <1>3

\* Rolling back keeps both.
LEMMA RollBackKeeps ==
    ASSUME HostInv, NEW x \in Attempt, HostRollBack(x)
    PROVE  AloneUntilMet' /\ LostOnlyInARace'
<1> USE DEF HostInv
<1>1. step[x] = "none" /\ UNCHANGED <<job, step, met>>
  BY DEF HostRollBack, AloneUntilMet
<1>2. \A z \in Attempt : step[z] # "none" => status'[z] = status[z]
  <2>1. \E s \in Status : status' = [status EXCEPT ![x] = s]
    BY DEF HostRollBack, Unblock, RestoreEntry, Restored, Becomes, Status
  <2> QED
    BY <1>1, <2>1 DEF HostTypeOK
<1>3. CASE host'.files = host.files
  BY <1>1, <1>2, <1>3, ElsewhereKeeps
<1>4. CASE RestoreEntry(x) /\ job[x].kind = "startup"
  <2> DEFINE n == job[x].at
  <2>1. n \in EntryName /\ host.files[n] \in SUBSET Place
    BY <1>4, JobTypes DEF HostTypeOK
  <2>2. PICK p \in Place : host' = Moved(x, p, "entry")
    BY <1>4 DEF RestoreEntry, Restored, Place
  <2>3. host'.files = [host.files EXCEPT ![n] = (host.files[n] \ {p}) \cup {"entry"}]
    BY <2>1, <2>2 DEF Moved, HostTypeOK
  <2>4. (host.files[n] \ {p}) \cup {"entry"} \in SUBSET Place
    BY <2>1 DEF Place
  <2> QED
    BY <1>1, <1>2, <2>1, <2>3, <2>4, FilesReturn
<1>5. host'.files = host.files \/ (RestoreEntry(x) /\ job[x].kind = "startup")
  BY DEF HostRollBack, Unblock, RestoreEntry, Restored, HostTypeOK
<1> QED
  BY <1>3, <1>4, <1>5

\* An entry that its owner puts back keeps both.
LEMMA ComesBackKeeps ==
    ASSUME HostInv, ComesBack PROVE AloneUntilMet' /\ LostOnlyInARace'
<1> USE DEF HostInv
<1>1. UNCHANGED <<job, status, step, met>>
  BY DEF ComesBack
<1>2. CASE host'.files = host.files
  BY <1>1, <1>2, ElsewhereKeeps
<1>3. ASSUME NEW n \in EntryName, host' = [host EXCEPT !.files[n] = @ \cup {"entry"}]
      PROVE  AloneUntilMet' /\ LostOnlyInARace'
  <2>1. host'.files = [host.files EXCEPT ![n] = host.files[n] \cup {"entry"}]
    BY <1>3 DEF HostTypeOK
  <2>2. host.files[n] \cup {"entry"} \in SUBSET Place
    BY DEF HostTypeOK, Place
  <2> QED
    BY <1>1, <2>1, <2>2, FilesReturn
<1>4. host'.files = host.files
      \/ \E n \in EntryName : host' = [host EXCEPT !.files[n] = @ \cup {"entry"}]
  BY DEF ComesBack, HostTypeOK
<1> QED
  BY <1>2, <1>3, <1>4

\* Every step keeps the invariant of the host.
LEMMA NextIInv == HostInv /\ [HostNext]_hostVars => HostInv'
<1> SUFFICES ASSUME HostInv, [HostNext]_hostVars PROVE HostInv'
  OBVIOUS
<1> USE DEF HostInv
<1>1. CASE UNCHANGED hostVars
  <2>1. HostTypeOK'
    BY <1>1 DEF hostVars, HostTypeOK
  <2>2. AloneUntilMet' /\ LostOnlyInARace'
    BY <1>1, ElsewhereKeeps DEF hostVars
  <2> QED
    BY <2>1, <2>2
<1>2. CASE HostNext
  <2>1. HostTypeOK'
    BY <1>2, NextKeepsTypes
  <2>2. ASSUME NEW x \in Attempt,
               \/ Start(x) \/ HostVerify(x)
               \/ Terminate(x) \/ Block(x) \/ DisableTask(x) \/ DeleteValue(x)
        PROVE  AloneUntilMet' /\ LostOnlyInARace'
    BY <2>2, CommandsStayElsewhere, ElsewhereKeeps
  <2>3. ASSUME NEW x \in Attempt, NotFound(x) \/ Raises(x)
        PROVE  AloneUntilMet' /\ LostOnlyInARace'
    BY <2>3, FailsKeeps DEF NotFound, Raises
  <2>4. AloneUntilMet' /\ LostOnlyInARace'
    BY <1>2, <2>2, <2>3, FoundKeeps, FileStepsKeep, RollBackKeeps, ComesBackKeeps DEF HostNext
  <2> QED
    BY <2>1, <2>4
<1> QED
  BY <1>1, <1>2

-----------------------------------------------------------------------------
\* What is in force.

\* An exported file holds values of keys that somebody exported under that name.
ExportedByName ==
    \A n \in EntryName : \A file \in host.exported[n] : \A v \in file :
        \E z \in Attempt : job[z] = [kind |-> "value", at |-> <<v[1], n>>]

\* Every step keeps exports under the name of their entry.
LEMMA ExportedByNameStep ==
    ASSUME HostTypeOK, ExportedByName, [HostNext]_hostVars
    PROVE  ExportedByName'
<1>1. job' = job
  BY DEF hostVars, HostNext, Start, Terminate, Block, DisableTask, DeleteValue, Command, Found, NotFound,
         Fails, RemoveOld, ToBackup, ToDisabled, RenameOnce, Raises, HostVerify, HostRollBack, ComesBack
<1>2. CASE host'.exported = host.exported
  BY <1>1, <1>2 DEF ExportedByName
<1>3. ASSUME NEW x \in Attempt, DeleteValue(x) PROVE ExportedByName'
  <2> DEFINE key == job[x].at[1]
             name == job[x].at[2]
  <2>1. /\ job[x] \in Job /\ job[x].kind = "value"
        /\ key \in RunKey /\ name \in EntryName /\ job[x].at = <<key, name>>
    BY <1>3, JobTypes DEF DeleteValue, Executing, HostTypeOK
  <2>2. job[x] = [kind |-> "value", at |-> <<key, name>>]
    BY <2>1 DEF Job
  <2>3. PICK file \in {{ValuesOf(key)}, host.exported[name]} :
            host'.exported = [host.exported EXCEPT ![name] = file]
    BY <1>3 DEF DeleteValue, Command, HostTypeOK
  <2>4. \A e \in file : \A v \in e :
            \E z \in Attempt : job[z] = [kind |-> "value", at |-> <<v[1], name>>]
    <3>1. CASE file = {ValuesOf(key)}
      <4>1. \A v \in ValuesOf(key) : v[1] = key
        BY DEF ValuesOf
      <4> QED BY <2>2, <3>1, <4>1
    <3>2. CASE file = host.exported[name]
      BY <2>1, <3>2 DEF ExportedByName
    <3> QED BY <2>3, <3>1, <3>2
  <2> HIDE DEF key, name
  <2> QED BY <1>1, <2>1, <2>3, <2>4 DEF ExportedByName, HostTypeOK
<1>4. host'.exported = host.exported \/ \E x \in Attempt : DeleteValue(x)
  <2> USE DEF HostTypeOK
  <2>1. CASE UNCHANGED hostVars
    BY <2>1 DEF hostVars
  <2>2. ASSUME NEW x \in Attempt,
               \/ Start(x) \/ Terminate(x) \/ Block(x) \/ DisableTask(x)
               \/ Found(x) \/ NotFound(x) \/ RemoveOld(x) \/ ToBackup(x)
               \/ ToDisabled(x) \/ RenameOnce(x) \/ Raises(x) \/ HostVerify(x) \/ HostRollBack(x)
        PROVE  host'.exported = host.exported
    BY <2>2 DEF Start, Terminate, Block, DisableTask, Command, Found, NotFound, Fails, RemoveOld,
                ToBackup, ToDisabled, RenameOnce, Moved, Raises, HostVerify, HostRollBack, Unblock,
                RestoreEntry, Restored
  <2>3. CASE ComesBack
    BY <2>3 DEF ComesBack
  <2> QED BY <2>1, <2>2, <2>3 DEF HostNext
<1> QED BY <1>2, <1>3, <1>4

\* More rules, fewer processes and values, and no startup file back in its place.
LEMMA MoreStaysInForce ==
    ASSUME NEW j \in Job, InForce(j),
           host'.alive \subseteq host.alive, host.rules \subseteq host'.rules,
           host'.values \subseteq host.values,
           j.kind = "startup" /\ "entry" \notin host.files[j.at] /\ "disabled" \in host.files[j.at]
              => "entry" \notin host'.files[j.at] /\ "disabled" \in host'.files[j.at]
    PROVE  InForce(j)'
BY DEF InForce, ProcessGone, RuleExists, EntryDisabled

\* The steps of an execution and of a verification undo nothing.
LEMMA ExecutionsUndoNothing ==
    ASSUME HostInv, NEW x \in Attempt, NEW j \in Job, InForce(j),
           \/ Start(x) \/ Terminate(x) \/ Block(x) \/ DisableTask(x) \/ DeleteValue(x)
           \/ Found(x) \/ NotFound(x) \/ RemoveOld(x) \/ ToBackup(x)
           \/ ToDisabled(x) \/ RenameOnce(x) \/ Raises(x) \/ HostVerify(x)
    PROVE  InForce(j)'
<1> USE DEF HostInv, HostTypeOK
<1>1. CASE host' = host
  BY <1>1, MoreStaysInForce
<1>2. CASE Terminate(x) \/ Block(x) \/ DisableTask(x) \/ DeleteValue(x)
  <2>1. /\ host'.alive \subseteq host.alive /\ host.rules \subseteq host'.rules
        /\ host'.values \subseteq host.values
    <3>1. CASE Terminate(x)
      BY <3>1 DEF Terminate, Command
    <3>2. CASE Block(x)
      BY <3>2 DEF Block, Command
    <3>3. CASE DisableTask(x)
      BY <3>3 DEF DisableTask, Command
    <3>4. CASE DeleteValue(x)
      <4> DEFINE Exported(f) == [host EXCEPT !.exported[job[x].at[2]] = f]
      <4>1. PICK f : \/ host' = host
                     \/ host' = Exported(f)
                     \/ host' = [Exported(f) EXCEPT !.values = @ \ {job[x].at}]
        BY <3>4 DEF DeleteValue, Command
      <4>2. /\ Exported(f).alive = host.alive /\ Exported(f).rules = host.rules
            /\ Exported(f).values = host.values
            /\ DOMAIN Exported(f) = DOMAIN host
        OBVIOUS
      <4>3. {"alive", "rules", "values"} \subseteq DOMAIN host
        OBVIOUS
      <4> HIDE DEF Exported
      <4> QED BY <4>1, <4>2, <4>3
    <3> QED BY <1>2, <3>1, <3>2, <3>3, <3>4
  <2>2. host'.files = host.files
    BY <1>2, CommandsStayElsewhere
  <2> QED BY <2>1, <2>2, MoreStaysInForce
<1>3. CASE RemoveOld(x) \/ ToBackup(x) \/ ToDisabled(x) \/ RenameOnce(x)
  <2>1. host'.alive = host.alive /\ host'.rules = host.rules /\ host'.values = host.values
    BY <1>3 DEF RemoveOld, ToBackup, ToDisabled, RenameOnce, Moved
  <2>2. ASSUME j.kind = "startup", "entry" \notin host.files[j.at], "disabled" \in host.files[j.at]
        PROVE  "entry" \notin host'.files[j.at] /\ "disabled" \in host'.files[j.at]
    <3>1. j.at \in EntryName /\ job[x].at \in EntryName
      <4>1. job[x].kind = "startup"
        BY <1>3 DEF AloneUntilMet, RemoveOld, ToBackup, ToDisabled, RenameOnce
      <4> QED BY <2>2, <4>1, JobTypes
    <3> QED BY <1>3, <2>2, <3>1 DEF RemoveOld, ToBackup, ToDisabled, RenameOnce, Moved, Files
  <2> QED BY <2>1, <2>2, MoreStaysInForce
<1>4. host' = host \/ Terminate(x) \/ Block(x) \/ DisableTask(x) \/ DeleteValue(x)
      \/ RemoveOld(x) \/ ToBackup(x) \/ ToDisabled(x) \/ RenameOnce(x)
  BY DEF Start, Found, NotFound, Fails, Raises, HostVerify
<1> QED BY <1>1, <1>2, <1>3, <1>4

\* A rollback undoes what it reaches, and it is one of a failed verification.
LEMMA RollBacksReach ==
    ASSUME HostInv, ExportedByName, NEW x \in Attempt, InForce(job[x]),
           NEW y \in Attempt, HostRollBack(y), ~ InForce(job[x])'
    PROVE  status[y] = "verification_failed" /\ status'[y] # status[y] /\ Reaches(y, x)
<1> USE DEF HostInv, HostTypeOK
<1>1. status[y] = "verification_failed" /\ status'[y] \in {"rolled_back", "rollback_failed"}
  BY DEF HostRollBack, Unblock, RestoreEntry, Restored, Becomes
<1>2. job[x] \in Job /\ job[y] \in Job /\ job' = job
  BY DEF HostRollBack
<1>3. PICK i \in Job : i = job[x] /\ InForce(i) /\ ~ InForce(i)'
  BY <1>2
<1>4. CASE host' = host
  BY <1>3, <1>4, MoreStaysInForce
<1>5. CASE job[y].kind = "block" /\ host' = [host EXCEPT !.rules = {r \in @ : r[1] # job[y].at[1]}]
  <2>1. host'.alive = host.alive /\ host'.values = host.values /\ host'.files = host.files
        /\ host'.rules = {r \in host.rules : r[1] # job[y].at[1]}
    BY <1>5
  <2>2. i.kind = "block" /\ i.at[1] = job[y].at[1]
    BY <1>3, <2>1 DEF InForce, ProcessGone, RuleExists, EntryDisabled
  <2> QED BY <1>1, <1>3, <1>5, <2>2 DEF Reaches
<1>6. ASSUME job[y].kind = "value", NEW file \in host.exported[job[y].at[2]],
             host' = [host EXCEPT !.values = @ \cup file]
      PROVE  Reaches(y, x)
  <2>1. host'.alive = host.alive /\ host'.rules = host.rules /\ host'.files = host.files
        /\ host'.values = host.values \cup file
    BY <1>6
  <2>2. i.kind = "value" /\ i.at \in file
    BY <1>3, <2>1 DEF InForce, ProcessGone, RuleExists, EntryDisabled
  <2>3. job[y].at[2] \in EntryName
    BY <1>2, <1>6, JobTypes
  <2>4. \E z \in Attempt : job[z] = [kind |-> "value", at |-> <<i.at[1], job[y].at[2]>>]
    BY <1>6, <2>2, <2>3 DEF ExportedByName
  <2> QED BY <1>3, <1>6, <2>2, <2>4 DEF Reaches
<1>7. ASSUME job[y].kind = "startup", NEW p \in Place, host' = Moved(y, p, "entry")
      PROVE  Reaches(y, x)
  <2>1. host'.alive = host.alive /\ host'.rules = host.rules /\ host'.values = host.values
        /\ \A n \in EntryName : n # job[y].at => host'.files[n] = host.files[n]
    BY <1>7 DEF Moved
  <2>2. i.kind = "startup" /\ i.at = job[y].at
    BY <1>3, <2>1, JobTypes DEF InForce, ProcessGone, RuleExists, EntryDisabled
  <2> QED BY <1>3, <1>7, <2>2 DEF Reaches
<1>8. \/ host' = host
      \/ job[y].kind = "block" /\ host' = [host EXCEPT !.rules = {r \in @ : r[1] # job[y].at[1]}]
      \/ /\ job[y].kind = "value"
         /\ \E file \in host.exported[job[y].at[2]] : host' = [host EXCEPT !.values = @ \cup file]
      \/ job[y].kind = "startup" /\ \E p \in Place : host' = Moved(y, p, "entry")
  BY DEF HostRollBack, Unblock, RestoreEntry, Restored, Place
<1> QED BY <1>1, <1>4, <1>5, <1>6, <1>7, <1>8

\* What is still in force, or who undid it.
Answered(x) ==
    \/ InForce(job[x])'
    \/ UNCHANGED <<status, step>>
    \/ \E y \in Attempt : /\ status[y] = "verification_failed" /\ status'[y] # status[y]
                          /\ Reaches(y, x)

\* Only a roll back that reaches a success, or the host itself, ends what the
\* success has put in force.
LEMMA StepsAnswer ==
    ASSUME HostInv, ExportedByName, [HostNext]_hostVars, NEW x \in Attempt, InForce(job[x])
    PROVE  Answered(x)
<1>1. CASE UNCHANGED hostVars \/ ComesBack
  BY <1>1 DEF hostVars, ComesBack, Answered
<1>2. ASSUME NEW y \in Attempt, HostRollBack(y) PROVE Answered(x)
  BY <1>2, RollBacksReach DEF Answered
<1>3. ASSUME NEW y \in Attempt,
             \/ Start(y) \/ Terminate(y) \/ Block(y) \/ DisableTask(y) \/ DeleteValue(y)
             \/ Found(y) \/ NotFound(y) \/ RemoveOld(y) \/ ToBackup(y)
             \/ ToDisabled(y) \/ RenameOnce(y) \/ Raises(y) \/ HostVerify(y)
      PROVE  Answered(x)
  <2>1. PICK j \in Job : j = job[x]
    BY DEF HostInv, HostTypeOK
  <2>2. InForce(j)'
    BY <1>3, <2>1, ExecutionsUndoNothing
  <2>3. job' = job
    BY <1>3 DEF Start, Terminate, Block, DisableTask, DeleteValue, Command, Found, NotFound,
                Fails, RemoveOld, ToBackup, ToDisabled, RenameOnce, Raises, HostVerify
  <2> QED BY <2>1, <2>2, <2>3 DEF Answered
<1> QED BY <1>1, <1>2, <1>3 DEF HostNext

\* What the model's variables hold, in every behaviour of the response actions.
THEOREM HostTypes == HostSpec => []HostTypeOK
<1>1. HostInv => HostTypeOK
  BY DEF HostInv
<1> QED
  BY InitIInv, NextIInv, <1>1, PTL DEF HostSpec

\* The file of a startup entry survives every sequence of attempts, failed renames,
\* rollbacks and returns, unless two attempts were in _disable_startup_entry for it at
\* once.
THEOREM FilesAreLostOnlyInARace == HostSpec => []LostOnlyInARace
<1>1. HostInv => LostOnlyInARace
  BY DEF HostInv
<1> QED
  BY InitIInv, NextIInv, <1>1, PTL DEF HostSpec

\* What a successful attempt has put in force is undone only from outside or by the
\* rollback of an attempt that reaches it, for any number of attempts, keys and names.
THEOREM SuccessStaysInForce == HostSpec => StaysInForce
<1>1. HostInit => HostInv /\ ExportedByName
  BY InitIInv DEF HostInit, ExportedByName
<1>2. HostInv /\ ExportedByName /\ [HostNext]_hostVars => (HostInv /\ ExportedByName)'
  BY NextIInv, ExportedByNameStep DEF HostInv
<1>3. HostInv /\ ExportedByName /\ [HostNext]_hostVars =>
        \A x \in Attempt :
         status[x] = "succeeded" /\ InForce(job[x]) =>
            \/ InForce(job[x])'
            \/ UNCHANGED <<status, step>>
            \/ \E y \in Attempt : /\ status[y] = "verification_failed" /\ status'[y] # status[y]
                                  /\ Reaches(y, x)
  BY StepsAnswer DEF Answered
<1> QED
  BY <1>1, <1>2, <1>3, PTL DEF HostSpec, StaysInForce
=============================================================================
