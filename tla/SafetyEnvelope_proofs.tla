----------------------- MODULE SafetyEnvelope_proofs ------------------------
(***************************************************************************)
(* Proofs about SafetyEnvelope, for every number of threads, every set of  *)
(* executions and every bound, and about the circuit breaker it asks, for  *)
(* any callers and any threshold.                                          *)
(***************************************************************************)
EXTENDS SafetyEnvelope, BreakerCallers, FiniteSetTheorems, TLAPS

-----------------------------------------------------------------------------
(* Types *)

\* A call that is not idle works on an execution.
JobSet == \A t \in Thread : pc[t] # "idle" => job[t] \in Execution

\* The kill switch's and the breaker's methods keep their variables in type.
LEMMA StopMethodsType ==
    ASSUME StopTypeOK, AdminStep \/ StopRestart
    PROVE  StopTypeOK'
<1> USE DEF StopTypeOK
<1>1. CASE BeginActivate
  <2>1. stops' \in Nat
    BY <1>1 DEF BeginActivate
  <2>2. admin' \in [Operation -> Stage]
    BY <1>1 DEF BeginActivate, MayBegin, Stage
  <2>3. stopMem' \in BOOLEAN /\ stopDb' \in BOOLEAN /\ stopHeld' \in BOOLEAN
    BY <1>1, Zenon DEF BeginActivate
  <2> QED
    BY <2>1, <2>2, <2>3
<1>2. CASE BeginDeactivate
  <2>1. admin' \in [Operation -> Stage]
    BY <1>2 DEF BeginDeactivate, MayBegin, Stage
  <2>2. stopMem' \in BOOLEAN /\ stopDb' \in BOOLEAN /\ stopHeld' \in BOOLEAN
    BY <1>2, Zenon DEF BeginDeactivate
  <2> QED
    BY <1>2, <2>1, <2>2 DEF BeginDeactivate
<1>3. CASE CommitActivate
  <2>1. admin' \in [Operation -> Stage]
    BY <1>3 DEF CommitActivate, Return, Stage
  <2>2. stopDb' \in BOOLEAN
    BY <1>3, Zenon DEF CommitActivate
  <2>3. stopHeld' \in BOOLEAN
    <3>1. stopHeld' = (admin["deactivate"] = "idle")
      BY <1>3, Zenon DEF CommitActivate
    <3> QED
      BY <3>1, Zenon
  <2>4. stopMem' \in BOOLEAN
    BY <1>3, Zenon DEF CommitActivate
  <2> QED
    BY <1>3, <2>1, <2>2, <2>3, <2>4 DEF CommitActivate
<1>4. CASE CommitDeactivate
  <2>1. admin' \in [Operation -> Stage]
    BY <1>4 DEF CommitDeactivate, Return, Stage
  <2>2. stopDb' \in BOOLEAN
    BY <1>4, Zenon DEF CommitDeactivate
  <2> QED
    BY <1>4, <2>1, <2>2 DEF CommitDeactivate
<1>5. ASSUME NEW op \in Operation, ReadRow(op) PROVE StopTypeOK'
  BY <1>5 DEF ReadRow, Stage
<1>6. ASSUME NEW op \in Operation, CommitFails(op) PROVE StopTypeOK'
  BY <1>6 DEF CommitFails, Return, Stage
<1>7. CASE StopRestart
  <2>1. admin' \in [Operation -> Stage]
    BY <1>7 DEF StopRestart, Stage
  <2>2. stopMem' \in BOOLEAN
    BY <1>7, Zenon DEF StopRestart
  <2> QED
    BY <1>7, <2>1, <2>2 DEF StopRestart
<1> QED
  BY <1>1, <1>2, <1>3, <1>4, <1>5, <1>6, <1>7 DEF AdminStep

\* The methods of the circuit breaker keep its types.
LEMMA BreakerMethodsType ==
    ASSUME BreakerTypeOK
    PROVE  RecordSuccess \/ RecordFailure \/ RecoveryTimePasses => BreakerTypeOK'
<1> USE DEF BreakerTypeOK, CircuitBreakerState, RecordSuccess, RecordFailure,
       RecoveryTimePasses
<1>1. RecordSuccess \/ RecordFailure \/ RecoveryTimePasses
        => failures' \in Nat /\ cbState' \in CircuitBreakerState
  OBVIOUS
<1>2. RecordSuccess \/ RecordFailure \/ RecoveryTimePasses => cooled' \in BOOLEAN
  BY Zenon
<1> QED
  BY <1>1, <1>2

\* The initial state is well typed.
LEMMA InitType == Init => TypeOK
<1> SUFFICES ASSUME Init PROVE TypeOK
  OBVIOUS
<1>1. StopTypeOK
  <2>1. stops \in Nat
    BY DEF Init, StopInit
  <2>2. stopMem \in BOOLEAN /\ stopDb \in BOOLEAN /\ stopHeld \in BOOLEAN
    BY Zenon DEF Init, StopInit
  <2>3. admin \in [Operation -> Stage]
    BY DEF Init, StopInit, Stage
  <2> QED
    BY <2>1, <2>2, <2>3 DEF StopTypeOK
<1>2. BreakerTypeOK
  <2>1. failures \in Nat /\ cbState \in CircuitBreakerState
    BY DEF Init, BreakerInit, CircuitBreakerState
  <2>2. cooled \in BOOLEAN
    BY Zenon DEF Init, BreakerInit
  <2> QED
    BY <2>1, <2>2 DEF BreakerTypeOK
<1>3. policyActive \in BOOLEAN
  BY Zenon DEF Init
<1> QED
  BY <1>1, <1>2, <1>3, EnvelopeAssumption
  DEF EnvelopeAssumption, Init, TypeOK, CallPC, GatePC, OwnerPC

\* Every step keeps the types.
LEMMA NextType == TypeOK /\ JobSet /\ [Next]_vars => TypeOK' /\ JobSet'
<1> SUFFICES ASSUME TypeOK, JobSet, [Next]_vars PROVE TypeOK' /\ JobSet'
  OBVIOUS
<1> USE EnvelopeAssumption
    DEF EnvelopeAssumption, TypeOK, JobSet, StopTypeOK, BreakerTypeOK, CircuitBreakerState, CallPC, GatePC,
        OwnerPC, InFlight, Settled, Goto, GateTo, Finish, SetStatus, stopVars,
        breakerVars, authVars, rowVars, callVars
<1>1. ASSUME NEW t \in Thread, NEW x \in Execution, Submit(t, x) PROVE TypeOK' /\ JobSet'
  BY <1>1 DEF Submit
<1>2. ASSUME NEW t \in Thread, Gate(t) PROVE TypeOK' /\ JobSet'
  <2>1. CASE PolicyGate(t)
    BY <2>1 DEF PolicyGate
  <2>2. CASE StopGate(t)
    BY <2>2 DEF StopGate
  <2>3. CASE BreakerGate(t)
    BY <2>3 DEF BreakerGate, AllowAction, Evaluate
  <2>4. CASE QuotaGate(t)
    BY <2>4 DEF QuotaGate
  <2>5. CASE CooldownGate(t)
    BY <2>5 DEF CooldownGate
  <2>6. CASE ApprovalGate(t)
    BY <2>6 DEF ApprovalGate
  <2> QED
    BY <1>2, <2>1, <2>2, <2>3, <2>4, <2>5, <2>6 DEF Gate
<1>3. ASSUME NEW t \in Thread, Run(t) PROVE TypeOK' /\ JobSet'
  <2>1. CASE Refuse(t)
    BY <2>1 DEF Refuse
  <2>2. CASE Claim(t)
    BY <2>2 DEF Claim
  <2>3. CASE Snapshot(t)
    BY <2>3 DEF Snapshot
  <2>4. CASE Perform(t)
    BY <2>4 DEF Perform
  <2>5. CASE RecordOutcome(t)
    BY <2>5 DEF RecordOutcome
  <2>6. CASE Verify(t)
    BY <2>6, BreakerMethodsType DEF Verify
  <2>7. CASE Penalise(t)
    BY <2>7, BreakerMethodsType DEF Penalise
  <2>8. CASE OfferRollback(t)
    BY <2>8 DEF OfferRollback
  <2>9. CASE FinalizeAudit(t)
    BY <2>9 DEF FinalizeAudit
  <2>10. CASE AuditFails(t)
    BY <2>10 DEF AuditFails
  <2>11. CASE Replay(t)
    BY <2>11 DEF Replay
  <2> QED
    BY <1>3, <2>1, <2>2, <2>3, <2>4, <2>5, <2>6, <2>7, <2>8, <2>9, <2>10, <2>11 DEF Run
<1>4. ASSUME NEW t \in Thread, ReplayTimesOut(t) PROVE TypeOK' /\ JobSet'
  BY <1>4 DEF ReplayTimesOut
<1>5. ASSUME NEW t \in Thread, Abort(t) PROVE TypeOK' /\ JobSet'
  <2>1. CASE UNCHANGED breakerVars
    BY <1>5, <2>1 DEF Abort
  <2>2. CASE RecordSuccess \/ RecordFailure
    BY <1>5, <2>2, BreakerMethodsType DEF Abort
  <2> QED
    BY <1>5, <2>1, <2>2 DEF Abort
<1>6. CASE Admin
  BY <1>6, StopMethodsType DEF Admin
<1>7. CASE PolicyChanges
  BY <1>7 DEF PolicyChanges
<1>8. ASSUME NEW x \in Execution, ApprovalChanges(x) PROVE TypeOK' /\ JobSet'
  BY <1>8 DEF ApprovalChanges
<1>9. CASE TimePasses
  BY <1>9, BreakerMethodsType DEF TimePasses
<1>10. CASE Crash
  <2>1. cooled' \in BOOLEAN
    BY <1>10, Zenon DEF Crash
  <2> QED
    BY <1>10, <2>1, StopMethodsType DEF Crash
<1>11. CASE UNCHANGED vars
  BY <1>11 DEF vars
<1> QED
  BY <1>1, <1>2, <1>3, <1>4, <1>5, <1>6, <1>7, <1>8, <1>9, <1>10, <1>11
  DEF Next, Environment

\* The types hold in every state.
LEMMA TypeInvariant == Spec => [](TypeOK /\ JobSet)
<1>1. Init => JobSet
  BY DEF Init, JobSet
<1> QED
  BY <1>1, InitType, NextType, PTL DEF Spec

(***************************************************************************)
(* Every variable of the envelope keeps its type; in particular the rate   *)
(* limiter's window never holds more than its limit, however many threads  *)
(* pass the gate.                                                          *)
(***************************************************************************)
THEOREM EnvelopeTypes == Spec => []TypeOK
  BY TypeInvariant, PTL

-----------------------------------------------------------------------------
(* Executions *)

(***************************************************************************)
(* Whoever inserted the row of an execution owns it: no two calls are past *)
(* the claim of one execution, the owner's place in run determines the row *)
(* and whether the action was executed, and what has no row, or a blocked  *)
(* one, was never executed.                                                *)
(***************************************************************************)
OneOwner ==
    \A t, u \in Thread :
        pc[t] \in OwnerPC /\ pc[u] \in OwnerPC /\ job[t] = job[u] => t = u

OwnerRow ==
    \A t \in Thread :
        /\ pc[t] \in {"snapshot", "execute"} => row[job[t]] = "executing" /\ effects[job[t]] = 0
        /\ pc[t] \in {"ran", "broke"} => row[job[t]] = "executing" /\ effects[job[t]] = 1
        /\ pc[t] = "verify" => row[job[t]] = "verifying" /\ effects[job[t]] = 1
        /\ pc[t] = "penalise" => row[job[t]] = "execution_failed"
        /\ pc[t] = "offer" => row[job[t]] = "verification_failed"
        /\ pc[t] = "audit" => row[job[t]] \in Settled \ {"blocked"}

Unexecuted == \A x \in Execution : row[x] \in {"none", "blocked"} => effects[x] = 0

OwnerInv == OneOwner /\ OwnerRow /\ Unexecuted

\* No thread owns an execution at the start.
LEMMA InitOwner == Init => OwnerInv
  BY DEF Init, OwnerInv, OneOwner, OwnerRow, Unexecuted, OwnerPC

\* Steps of calls that do not own a row, and of the environment, disturb nothing.
LEMMA OutsidersKeepOwners ==
    ASSUME TypeOK, OwnerInv, NEW t \in Thread, pc[t] \notin OwnerPC,
           NEW l \in CallPC \ OwnerPC, pc' = [pc EXCEPT ![t] = l],
           \A u \in Thread \ {t} : job'[u] = job[u],
           UNCHANGED <<row, effects>>
    PROVE  OwnerInv'
  BY DEF TypeOK, OwnerInv, OneOwner, OwnerRow, Unexecuted, CallPC, OwnerPC, GatePC

\* Every step keeps each execution owned by at most one thread.
LEMMA NextOwner == TypeOK /\ JobSet /\ OwnerInv /\ [Next]_vars => OwnerInv'
<1> SUFFICES ASSUME TypeOK, JobSet, OwnerInv, [Next]_vars PROVE OwnerInv'
  OBVIOUS
<1>0. ASSUME UNCHANGED <<row, effects, pc, job>> PROVE OwnerInv'
  BY <1>0 DEF OwnerInv, OneOwner, OwnerRow, Unexecuted
<1>1. ASSUME NEW t \in Thread, NEW x \in Execution, Submit(t, x) PROVE OwnerInv'
  BY <1>1, OutsidersKeepOwners DEF Submit, rowVars, TypeOK, CallPC, OwnerPC, GatePC
<1>2. ASSUME NEW t \in Thread, Gate(t) PROVE OwnerInv'
  <2>1. /\ UNCHANGED <<row, effects, job>>
        /\ pc[t] \in GatePC
        /\ \E l \in GatePC \cup {"claim", "refuse"} : pc' = [pc EXCEPT ![t] = l]
    BY <1>2 DEF Gate, PolicyGate, StopGate, BreakerGate, QuotaGate, CooldownGate,
       ApprovalGate, GateTo, Goto, GatePC, rowVars
  <2> QED
    BY <2>1, OutsidersKeepOwners DEF CallPC, OwnerPC, GatePC
<1>3. ASSUME NEW t \in Thread, Run(t) PROVE OwnerInv'
  <2> USE DEF TypeOK, JobSet, OwnerInv, OneOwner, OwnerRow, Unexecuted, CallPC, GatePC,
         OwnerPC, Settled, Goto, SetStatus, Finish, rowVars
  <2>1. CASE Refuse(t)
    BY <2>1 DEF Refuse
  <2>2. CASE Claim(t)
    BY <2>2 DEF Claim
  <2>3. CASE Snapshot(t)
    BY <2>3 DEF Snapshot
  <2>4. CASE Perform(t)
    BY <2>4 DEF Perform
  <2>5. CASE RecordOutcome(t)
    BY <2>5 DEF RecordOutcome
  <2>6. CASE Verify(t)
    BY <2>6 DEF Verify
  <2>7. CASE Penalise(t)
    BY <2>7 DEF Penalise
  <2>8. CASE OfferRollback(t)
    BY <2>8 DEF OfferRollback
  <2>9. CASE FinalizeAudit(t)
    BY <2>9 DEF FinalizeAudit
  <2>10. CASE AuditFails(t)
    BY <2>10 DEF AuditFails
  <2>11. CASE Replay(t)
    BY <2>11 DEF Replay
  <2> QED
    BY <1>3, <2>1, <2>2, <2>3, <2>4, <2>5, <2>6, <2>7, <2>8, <2>9, <2>10, <2>11 DEF Run
<1>4. ASSUME NEW t \in Thread, ReplayTimesOut(t) PROVE OwnerInv'
  BY <1>4, OutsidersKeepOwners
  DEF ReplayTimesOut, Finish, rowVars, TypeOK, CallPC, OwnerPC, GatePC
<1>5. ASSUME NEW t \in Thread, Abort(t) PROVE OwnerInv'
  BY <1>5 DEF Abort, Finish, rowVars, TypeOK, OwnerInv, OneOwner, OwnerRow, Unexecuted,
     CallPC, OwnerPC, GatePC
<1>6. CASE Admin
  BY <1>0, <1>6 DEF Admin, rowVars
<1>7. CASE PolicyChanges
  BY <1>0, <1>7 DEF PolicyChanges, rowVars, callVars
<1>8. ASSUME NEW x \in Execution, ApprovalChanges(x) PROVE OwnerInv'
  BY <1>0, <1>8 DEF ApprovalChanges, rowVars, callVars
<1>9. CASE TimePasses
  BY <1>0, <1>9 DEF TimePasses, rowVars, callVars
<1>10. CASE Crash
  BY <1>10 DEF Crash, rowVars, OwnerInv, OneOwner, OwnerRow, Unexecuted, OwnerPC
<1>11. CASE UNCHANGED vars
  BY <1>0, <1>11 DEF vars, rowVars, callVars
<1> QED
  BY <1>1, <1>2, <1>3, <1>4, <1>5, <1>6, <1>7, <1>8, <1>9, <1>10, <1>11
  DEF Next, Environment

\* At most one thread ever owns an execution.
LEMMA OwnerInvariant == Spec => []OwnerInv
<1> QED
  BY TypeInvariant, InitOwner, NextOwner, PTL DEF Spec

-----------------------------------------------------------------------------
(* The ledger *)

\* The initial state is an empty ledger.
LEMMA InitRefines == Init => Ledger!Init
  BY DEF Init, Ledger!Init, fateBar, fateOf

\* Setting the status of a row sets its fate.
LEMMA StatusSetsFate ==
    ASSUME TypeOK, NEW x \in Execution, NEW s \in {"none"} \cup InFlight \cup Settled,
           row' = [row EXCEPT ![x] = s]
    PROVE  fateBar' = [fateBar EXCEPT ![x] = fateOf[s]]
  BY DEF TypeOK, fateBar

Refines == [Ledger!Next]_(Ledger!ledgerVars)

\* A change of status that keeps the fate is a stutter of the ledger.
LEMMA SameFate ==
    ASSUME TypeOK, NEW x \in Execution, NEW s \in {"none"} \cup InFlight \cup Settled,
           row' = [row EXCEPT ![x] = s], effects' = effects, fateOf[s] = fateOf[row[x]]
    PROVE  Refines
<1>1. fateBar' = [fateBar EXCEPT ![x] = fateOf[s]]
  BY StatusSetsFate
<1>2. fateBar' = fateBar
  BY <1>1 DEF fateBar
<1> QED
  BY <1>2 DEF Refines, Ledger!ledgerVars

\* A row in flight whose action has run is settled by its outcome.
LEMMA OutcomeSettles ==
    ASSUME TypeOK, NEW x \in Execution, NEW s \in Settled \ {"blocked"},
           row' = [row EXCEPT ![x] = s], effects' = effects,
           row[x] \in InFlight, effects[x] = 1
    PROVE  Refines
<1>1. fateOf[s] = "settled"
  BY DEF Settled, fateOf
<1>2. fateBar' = [fateBar EXCEPT ![x] = "settled"]
  BY <1>1, StatusSetsFate
<1>3. fateBar[x] = "claimed"
  BY DEF InFlight, fateBar, fateOf
<1>4. Ledger!Settle(x)
  BY <1>2, <1>3 DEF Ledger!Settle
<1> QED
  BY <1>4 DEF Refines, Ledger!Next

\* Every step of the envelope is a step of the ledger or none.
LEMMA NextRefines == TypeOK /\ JobSet /\ OwnerInv /\ [Next]_vars => Refines
<1> SUFFICES ASSUME TypeOK, JobSet, OwnerInv, [Next]_vars PROVE Refines
  OBVIOUS
<1> USE DEF Refines
<1>0. ASSUME UNCHANGED <<row, effects>> PROVE Refines
  BY <1>0 DEF Ledger!ledgerVars, fateBar
<1>1. ASSUME NEW t \in Thread, NEW x \in Execution, Submit(t, x) PROVE Refines
  BY <1>0, <1>1 DEF Submit, rowVars
<1>2. ASSUME NEW t \in Thread, Gate(t) PROVE Refines
  BY <1>0, <1>2 DEF Gate, PolicyGate, StopGate, BreakerGate, QuotaGate, CooldownGate,
     ApprovalGate, rowVars
<1>3. ASSUME NEW t \in Thread, Run(t) PROVE Refines
  <2>j. pc[t] # "idle" /\ job[t] \in Execution
    BY <1>3 DEF Run, Refuse, Claim, Snapshot, Perform, RecordOutcome, Verify, Penalise,
       OfferRollback, FinalizeAudit, AuditFails, Replay, JobSet
  <2>1. CASE Refuse(t)
    <3>1. CASE row[job[t]] = "none"
      <4>1. fateBar' = [fateBar EXCEPT ![job[t]] = "refused"]
        BY <2>1, <2>j, <3>1, StatusSetsFate DEF Refuse, Settled, fateOf
      <4>2. Ledger!Refuse(job[t])
        BY <2>1, <2>j, <3>1, <4>1 DEF Refuse, Ledger!Refuse, Ledger!Decide, fateBar, fateOf
      <4> QED
        BY <2>j, <4>2 DEF Ledger!Next
    <3>2. CASE row[job[t]] # "none"
      BY <1>0, <2>1, <3>2 DEF Refuse
    <3> QED
      BY <3>1, <3>2
  <2>2. CASE Claim(t)
    <3>1. CASE row[job[t]] = "none"
      <4>1. fateBar' = [fateBar EXCEPT ![job[t]] = "claimed"]
        BY <2>2, <2>j, <3>1, StatusSetsFate DEF Claim, SetStatus, InFlight, fateOf
      <4>2. Ledger!Claim(job[t])
        BY <2>2, <2>j, <3>1, <4>1 DEF Claim, Ledger!Claim, Ledger!Decide, fateBar, fateOf
      <4> QED
        BY <2>j, <4>2 DEF Ledger!Next
    <3>2. CASE row[job[t]] # "none"
      BY <1>0, <2>2, <3>2 DEF Claim, rowVars
    <3> QED
      BY <3>1, <3>2
  <2>3. CASE Snapshot(t)
    BY <1>0, <2>3 DEF Snapshot
  <2>4. CASE Perform(t)
    <3>1. row[job[t]] = "executing" /\ effects[job[t]] = 0
      BY <2>4 DEF Perform, OwnerInv, OwnerRow
    <3>2. effects' = [effects EXCEPT ![job[t]] = 1] /\ fateBar' = fateBar
      BY <2>4, <2>j, <3>1 DEF Perform, rowVars, fateBar, TypeOK
    <3>3. Ledger!Perform(job[t])
      BY <2>j, <3>1, <3>2 DEF Ledger!Perform, fateBar, fateOf
    <3> QED
      BY <2>j, <3>3 DEF Ledger!Next
  <2>5. CASE RecordOutcome(t)
    <3>1. row[job[t]] = "executing" /\ effects[job[t]] = 1
      BY <2>5 DEF RecordOutcome, OwnerInv, OwnerRow
    <3>2. effects' = effects
      BY <2>5 DEF RecordOutcome
    <3>3. CASE SetStatus(job[t], "verifying")
      <4>1. row' = [row EXCEPT ![job[t]] = "verifying"]
        BY <3>3 DEF SetStatus
      <4>2. fateOf["verifying"] = fateOf[row[job[t]]]
        BY <3>1 DEF fateOf
      <4> QED
        BY <2>j, <3>2, <4>1, <4>2, SameFate DEF InFlight
    <3>4. CASE SetStatus(job[t], "execution_failed")
      <4>1. row' = [row EXCEPT ![job[t]] = "execution_failed"]
        BY <3>4 DEF SetStatus
      <4> QED
        BY <2>j, <3>1, <3>2, <4>1, OutcomeSettles DEF InFlight, Settled
    <3> QED
      BY <2>5, <3>3, <3>4 DEF RecordOutcome
  <2>6. CASE Verify(t)
    <3>1. row[job[t]] = "verifying" /\ effects[job[t]] = 1
      BY <2>6 DEF Verify, OwnerInv, OwnerRow
    <3>2. effects' = effects
      BY <2>6 DEF Verify
    <3>3. PICK s \in {"succeeded", "verification_failed"} : SetStatus(job[t], s)
      BY <2>6 DEF Verify
    <3>4. row' = [row EXCEPT ![job[t]] = s]
      BY <3>3 DEF SetStatus
    <3> QED
      BY <2>j, <3>1, <3>2, <3>4, OutcomeSettles DEF InFlight, Settled
  <2>7. CASE Penalise(t)
    BY <1>0, <2>7 DEF Penalise, rowVars
  <2>8. CASE OfferRollback(t)
    <3>1. row[job[t]] = "verification_failed"
      BY <2>8 DEF OfferRollback, OwnerInv, OwnerRow
    <3>2. effects' = effects
      BY <2>8 DEF OfferRollback
    <3>3. row' = [row EXCEPT ![job[t]] = "rollback_available"]
      BY <2>8 DEF OfferRollback, SetStatus
    <3>4. fateOf["rollback_available"] = fateOf[row[job[t]]]
      BY <3>1 DEF fateOf
    <3> QED
      BY <2>j, <3>2, <3>3, <3>4, SameFate DEF Settled
  <2>9. CASE FinalizeAudit(t)
    BY <1>0, <2>9 DEF FinalizeAudit
  <2>10. CASE AuditFails(t)
    <3>1. row[job[t]] \in Settled \ {"blocked"}
      BY <2>10 DEF AuditFails, OwnerInv, OwnerRow
    <3>2. PICK s \in Settled \ {"blocked"} : row' = [row EXCEPT ![job[t]] = s]
      BY <2>10, <3>1 DEF AuditFails, Settled
    <3>3. fateOf[s] = "settled" /\ fateOf[row[job[t]]] = "settled"
      BY <3>1, <3>2 DEF Settled, fateOf
    <3>4. effects' = effects
      BY <2>10 DEF AuditFails
    <3> QED
      BY <2>10, <2>j, <3>2, <3>3, <3>4, SameFate DEF Settled
  <2>11. CASE Replay(t)
    BY <1>0, <2>11 DEF Replay, rowVars
  <2> QED
    BY <1>3, <2>1, <2>2, <2>3, <2>4, <2>5, <2>6, <2>7, <2>8, <2>9, <2>10, <2>11 DEF Run
<1>4. ASSUME NEW t \in Thread, ReplayTimesOut(t) PROVE Refines
  BY <1>0, <1>4 DEF ReplayTimesOut, rowVars
<1>5. ASSUME NEW t \in Thread, Abort(t) PROVE Refines
  BY <1>0, <1>5 DEF Abort, rowVars
<1>6. CASE Admin
  BY <1>0, <1>6 DEF Admin, rowVars
<1>7. CASE PolicyChanges
  BY <1>0, <1>7 DEF PolicyChanges, rowVars
<1>8. ASSUME NEW x \in Execution, ApprovalChanges(x) PROVE Refines
  BY <1>0, <1>8 DEF ApprovalChanges, rowVars
<1>9. CASE TimePasses
  BY <1>0, <1>9 DEF TimePasses, rowVars
<1>10. CASE Crash
  BY <1>0, <1>10 DEF Crash, rowVars
<1>11. CASE UNCHANGED vars
  BY <1>0, <1>11 DEF vars, rowVars
<1> QED
  BY <1>1, <1>2, <1>3, <1>4, <1>5, <1>6, <1>7, <1>8, <1>9, <1>10, <1>11
  DEF Next, Environment

(***************************************************************************)
(* The envelope implements the ledger of executions: an execution_id is    *)
(* refused or claimed once, its action is executed at most once and only   *)
(* after the claim, whatever threads race, abort or crash.                 *)
(***************************************************************************)
THEOREM EnvelopeImplementsLedger == Spec => ImplementsLedger
<1>1. TypeOK /\ JobSet /\ OwnerInv /\ [Next]_vars => [Ledger!Next]_(Ledger!ledgerVars)
  BY NextRefines DEF Refines
<1> QED
  BY TypeInvariant, OwnerInvariant, InitRefines, <1>1, PTL
  DEF Spec, ImplementsLedger, Ledger!Spec

(***************************************************************************)
(* At most once: no interleaving of duplicate submissions, retries, aborts *)
(* and restarts executes the action of an execution_id twice.              *)
(***************************************************************************)
AtMostOnce == \A x \in Execution : effects[x] <= 1

\* AtMostOnce holds in every state: the ledger performs a claim once, and the
\* envelope implements the ledger.
THEOREM ExecutedAtMostOnce == Spec => []AtMostOnce
<1>1. Init => AtMostOnce
  BY DEF Init, AtMostOnce
<1>2. TypeOK /\ AtMostOnce /\ [Ledger!Next]_(Ledger!ledgerVars) => AtMostOnce'
  BY DEF TypeOK, AtMostOnce, Ledger!Next, Ledger!ledgerVars, Ledger!Refuse,
     Ledger!Claim, Ledger!Decide, Ledger!Perform, Ledger!Settle
<1>3. TypeOK /\ JobSet /\ OwnerInv /\ [Next]_vars => [Ledger!Next]_(Ledger!ledgerVars)
  BY NextRefines DEF Refines
<1> QED
  BY TypeInvariant, OwnerInvariant, <1>1, <1>2, <1>3, PTL DEF Spec

-----------------------------------------------------------------------------
(* The rate limiter *)

\* The calls that have consumed a unit and not yet executed the action.
Entitled == {t \in Thread : pc[t] \in {"cooldown", "approval", "claim", "snapshot", "execute"}}

(***************************************************************************)
(* Every unit is at most one execution, done or to come.                   *)
(***************************************************************************)
PaidInv ==
    /\ IsFiniteSet(Performed)
    /\ IsFiniteSet(Entitled)
    /\ Cardinality(Performed) + Cardinality(Entitled) <= paid

\* An element more makes the cardinality one more at most.
LEMMA OneMore ==
    ASSUME NEW S, NEW e, IsFiniteSet(S)
    PROVE  /\ IsFiniteSet(S \cup {e})
           /\ Cardinality(S \cup {e}) <= Cardinality(S) + 1
<1>1. Cardinality(S) \in Nat
  BY FS_CardinalityType
<1>2. /\ IsFiniteSet(S \cup {e})
      /\ Cardinality(S \cup {e}) = IF e \in S THEN Cardinality(S) ELSE Cardinality(S) + 1
  BY FS_AddElement
<1> QED
  BY <1>1, <1>2

\* What leaves the executions and the bill alone, and lets no call into the
\* set of the entitled.
LEMMA NobodyEnters ==
    ASSUME TypeOK, PaidInv, UNCHANGED <<effects, paid>>, Entitled' \subseteq Entitled
    PROVE  PaidInv'
<1>1. Performed' = Performed
  BY DEF Performed
<1>2. IsFiniteSet(Entitled') /\ Cardinality(Entitled') <= Cardinality(Entitled)
  BY FS_Subset DEF PaidInv
<1>3. /\ Cardinality(Performed) \in Nat
      /\ Cardinality(Entitled) \in Nat
      /\ Cardinality(Entitled') \in Nat
  BY <1>2, FS_CardinalityType DEF PaidInv
<1> HIDE DEF Performed, Entitled
<1> QED
  BY <1>1, <1>2, <1>3 DEF PaidInv, TypeOK

\* The step that consumes a unit lets its own call in.
LEMMA UnitEntitles ==
    ASSUME TypeOK, PaidInv, NEW t \in Thread, QuotaGate(t)
    PROVE  PaidInv'
<1>1. CASE used < MaxQuota
  <2>1. paid' = paid + 1 /\ effects' = effects
    BY <1>1 DEF QuotaGate
  <2>2. Performed' = Performed
    BY <2>1 DEF Performed
  <2>3. Entitled' \subseteq Entitled \cup {t}
    BY <1>1 DEF QuotaGate, GateTo, Goto, Entitled, TypeOK
  <2>4. /\ IsFiniteSet(Entitled \cup {t})
        /\ Cardinality(Entitled \cup {t}) <= Cardinality(Entitled) + 1
    BY OneMore DEF PaidInv
  <2>5. /\ IsFiniteSet(Entitled')
        /\ Cardinality(Entitled') <= Cardinality(Entitled \cup {t})
    BY <2>3, <2>4, FS_Subset
  <2>6. /\ Cardinality(Performed) \in Nat
        /\ Cardinality(Entitled) \in Nat
        /\ Cardinality(Entitled') \in Nat
        /\ Cardinality(Entitled \cup {t}) \in Nat
    BY <2>4, <2>5, FS_CardinalityType DEF PaidInv
  <2> QED
    BY <2>1, <2>2, <2>4, <2>5, <2>6 DEF PaidInv, TypeOK
<1>2. CASE ~(used < MaxQuota)
  <2>1. UNCHANGED <<effects, paid>>
    BY <1>2 DEF QuotaGate
  <2>2. Entitled' \subseteq Entitled
    BY <1>2 DEF QuotaGate, GateTo, Goto, Entitled, TypeOK
  <2> QED
    BY <2>1, <2>2, NobodyEnters
<1> QED
  BY <1>1, <1>2

\* The step that executes the action takes its call out.
LEMMA ExecutionSpendsUnit ==
    ASSUME TypeOK, JobSet, PaidInv, NEW t \in Thread, Perform(t)
    PROVE  PaidInv'
<1> DEFINE x == job[t]
           n == effects[x] + 1
<1>1. x \in Execution /\ effects[x] \in Nat /\ effects' = [effects EXCEPT ![x] = n]
  BY DEF Perform, JobSet, TypeOK
<1>2. Performed' \subseteq Performed \cup {<<x, n>>}
  <2> SUFFICES ASSUME NEW p \in Performed' PROVE p \in Performed \cup {<<x, n>>}
    OBVIOUS
  <2>1. PICK y \in Execution : p \in {y} \X (1..effects'[y])
    BY DEF Performed
  <2>2. PICK i \in 1..effects'[y] : p = <<y, i>>
    BY <2>1
  <2>3. CASE y = x /\ i = n
    BY <2>2, <2>3
  <2>4. CASE ~(y = x /\ i = n)
    <3>1. effects[y] \in Nat /\ effects'[y] = IF y = x THEN n ELSE effects[y]
      BY <1>1 DEF TypeOK
    <3>2. i \in 1..effects[y]
      BY <2>2, <2>4, <3>1, <1>1
    <3>3. p \in {y} \X (1..effects[y])
      BY <2>2, <3>2
    <3> QED
      BY <3>3 DEF Performed
  <2> QED
    BY <2>3, <2>4
<1>3. Entitled' \subseteq Entitled \ {t} /\ t \in Entitled
  BY DEF Perform, Goto, Entitled, TypeOK
<1>4. paid' = paid
  BY DEF Perform
<1> HIDE DEF x, n
<1>5. /\ IsFiniteSet(Performed \cup {<<x, n>>})
      /\ Cardinality(Performed \cup {<<x, n>>}) <= Cardinality(Performed) + 1
  BY OneMore DEF PaidInv
<1>6. /\ IsFiniteSet(Performed')
      /\ Cardinality(Performed') <= Cardinality(Performed \cup {<<x, n>>})
  BY <1>2, <1>5, FS_Subset
<1>7. /\ IsFiniteSet(Entitled \ {t})
      /\ Cardinality(Entitled \ {t}) = Cardinality(Entitled) - 1
  BY <1>3, FS_RemoveElement DEF PaidInv
<1>8. /\ IsFiniteSet(Entitled')
      /\ Cardinality(Entitled') <= Cardinality(Entitled \ {t})
  BY <1>3, <1>7, FS_Subset
<1>9. /\ Cardinality(Performed) \in Nat
      /\ Cardinality(Performed') \in Nat
      /\ Cardinality(Performed \cup {<<x, n>>}) \in Nat
      /\ Cardinality(Entitled) \in Nat
      /\ Cardinality(Entitled') \in Nat
      /\ Cardinality(Entitled \ {t}) \in Nat
  BY <1>5, <1>6, <1>7, <1>8, FS_CardinalityType DEF PaidInv
<1> QED
  BY <1>4, <1>5, <1>6, <1>7, <1>8, <1>9 DEF PaidInv, TypeOK

\* Every step keeps executions paid for.
LEMMA NextPaid == TypeOK /\ JobSet /\ PaidInv /\ [Next]_vars => PaidInv'
<1> SUFFICES ASSUME TypeOK, JobSet, PaidInv, [Next]_vars PROVE PaidInv'
  OBVIOUS
<1> USE DEF Goto, GateTo, Finish, callVars
<1>0. ASSUME UNCHANGED <<effects, paid>>,
             \A t \in Thread : \/ pc'[t] = pc[t]
                               \/ t \in Entitled
                               \/ t \notin Entitled'
      PROVE  PaidInv'
  BY <1>0, NobodyEnters DEF Entitled
<1>a. pc \in [Thread -> CallPC]
  BY DEF TypeOK
<1>1. ASSUME NEW t \in Thread, NEW x \in Execution, Submit(t, x) PROVE PaidInv'
  BY <1>0, <1>a, <1>1 DEF Submit, Entitled
<1>2. ASSUME NEW t \in Thread, Gate(t) PROVE PaidInv'
  <2>1. CASE PolicyGate(t) \/ StopGate(t)
    BY <1>0, <1>a, <2>1 DEF PolicyGate, StopGate, Entitled
  <2>2. CASE BreakerGate(t)
    BY <1>0, <1>a, <2>2 DEF BreakerGate, Entitled
  <2>3. CASE QuotaGate(t)
    BY <2>3, UnitEntitles
  <2>4. CASE CooldownGate(t) \/ ApprovalGate(t)
    BY <1>0, <1>a, <2>4 DEF CooldownGate, ApprovalGate, Entitled
  <2> QED
    BY <1>2, <2>1, <2>2, <2>3, <2>4 DEF Gate
<1>3. ASSUME NEW t \in Thread, Run(t) PROVE PaidInv'
  <2>1. CASE Refuse(t) \/ Claim(t) \/ Snapshot(t)
    BY <1>0, <1>a, <2>1 DEF Refuse, Claim, Snapshot, Entitled
  <2>2. CASE Perform(t)
    BY <2>2, ExecutionSpendsUnit
  <2>3. CASE RecordOutcome(t) \/ Verify(t) \/ Penalise(t) \/ OfferRollback(t)
    BY <1>0, <1>a, <2>3 DEF RecordOutcome, Verify, Penalise, OfferRollback, Entitled
  <2>4. CASE FinalizeAudit(t) \/ AuditFails(t) \/ Replay(t)
    BY <1>0, <1>a, <2>4 DEF FinalizeAudit, AuditFails, Replay, Entitled
  <2> QED
    BY <1>3, <2>1, <2>2, <2>3, <2>4 DEF Run
<1>4. ASSUME NEW t \in Thread, ReplayTimesOut(t) PROVE PaidInv'
  BY <1>0, <1>a, <1>4 DEF ReplayTimesOut, Entitled
<1>5. ASSUME NEW t \in Thread, Abort(t) PROVE PaidInv'
  BY <1>0, <1>a, <1>5 DEF Abort, Entitled
<1>6. ASSUME NEW x \in Execution, ApprovalChanges(x) PROVE PaidInv'
  BY <1>0, <1>6 DEF ApprovalChanges
<1>7. CASE Admin \/ PolicyChanges \/ TimePasses
  BY <1>0, <1>7 DEF Admin, PolicyChanges, TimePasses
<1>8. CASE Crash
  BY <1>0, <1>8 DEF Crash, Entitled
<1>9. CASE UNCHANGED vars
  BY <1>0, <1>9 DEF vars
<1> QED
  BY <1>1, <1>2, <1>3, <1>4, <1>5, <1>6, <1>7, <1>8, <1>9 DEF Next, Environment

(***************************************************************************)
(* Every execution of an action consumed a unit of the limiter of its own, *)
(* for any number of threads, executions, errors and restarts, and         *)
(* whatever the window forgets.                                            *)
(***************************************************************************)
THEOREM ExecutionsArePaidFor == Spec => []EffectsPaidFor
<1>1. Init => PaidInv
  <2> SUFFICES ASSUME Init PROVE PaidInv
    OBVIOUS
  <2>1. Performed = {}
    <3>1. \A x \in Execution : effects[x] = 0
      BY DEF Init
    <3>2. \A x \in Execution : 1..effects[x] = {}
      BY <3>1
    <3> QED
      BY <3>2 DEF Performed
  <2>2. Entitled = {}
    BY DEF Init, Entitled
  <2>3. paid = 0
    BY DEF Init
  <2> QED
    BY <2>1, <2>2, <2>3, FS_EmptySet DEF PaidInv
<1>2. TypeOK /\ PaidInv => EffectsPaidFor
  <2> SUFFICES ASSUME TypeOK, PaidInv PROVE EffectsPaidFor
    OBVIOUS
  <2>1. Cardinality(Performed) \in Nat /\ Cardinality(Entitled) \in Nat
    BY FS_CardinalityType DEF PaidInv
  <2> QED
    BY <2>1 DEF PaidInv, EffectsPaidFor, TypeOK
<1> QED
  BY TypeInvariant, NextPaid, <1>1, <1>2, PTL DEF Spec

-----------------------------------------------------------------------------
(* The kill switch *)

(***************************************************************************)
(* What one endpoint call at a time knows: the row is as the call has read *)
(* it, and nothing is held while a deactivation runs.                      *)
(***************************************************************************)
AdminInv ==
    /\ admin["activate"] = "idle" \/ admin["deactivate"] = "idle"
    /\ \A op \in Operation : /\ admin[op] = "read_on" => stopDb
                             /\ admin[op] = "read_off" => ~stopDb
    /\ admin["deactivate"] # "idle" => ~stopHeld

(***************************************************************************)
(* A held stop is in the database, a call is counted as stopped only while *)
(* the stop is held, and a stopped call stays before the gate.             *)
(***************************************************************************)
StopInv ==
    /\ AdminInv
    /\ ActivationPersists
    /\ stoppedSince # {} => stopHeld
    /\ StopPreventsEffects

\* Without overlapping admins every step of a call keeps the held and the
\* stored stop in agreement.
LEMMA AdminKeeps ==
    ASSUME ~AdminsOverlap, StopTypeOK, AdminInv, ActivationPersists, AdminStep
    PROVE  AdminInv' /\ ActivationPersists'
<1> USE DEF StopTypeOK, AdminInv, ActivationPersists, Operation, Stage, MayBegin, Return
<1>1. CASE BeginActivate
  BY <1>1 DEF BeginActivate
<1>2. CASE BeginDeactivate
  BY <1>2 DEF BeginDeactivate
<1>3. CASE CommitActivate
  <2>1. admin' = [admin EXCEPT !["activate"] = "idle"] /\ admin["deactivate"] = "idle"
    BY <1>3 DEF CommitActivate
  <2>2. stopDb'
    BY <1>3 DEF CommitActivate
  <2> QED
    BY <2>1, <2>2
<1>4. CASE CommitDeactivate
  BY <1>4 DEF CommitDeactivate
<1>5. ASSUME NEW op \in Operation, ReadRow(op) PROVE AdminInv' /\ ActivationPersists'
  BY <1>5 DEF ReadRow
<1>6. ASSUME NEW op \in Operation, CommitFails(op) PROVE AdminInv' /\ ActivationPersists'
  BY <1>6 DEF CommitFails
<1> QED
  BY <1>1, <1>2, <1>3, <1>4, <1>5, <1>6 DEF AdminStep

\* Without overlapping admins every step keeps the invariant of the stop.
LEMMA NextStop ==
    ASSUME ~AdminsOverlap PROVE TypeOK /\ StopInv /\ [Next]_vars => StopInv'
<1> SUFFICES ASSUME TypeOK, StopInv, [Next]_vars PROVE StopInv'
  OBVIOUS
<1> USE DEF StopInv, AdminInv, ActivationPersists, StopPreventsEffects, Goto, GateTo, Finish, stopVars, callVars
<1>t. pc \in [Thread -> CallPC] /\ stoppedSince \subseteq Thread
  BY DEF TypeOK
<1>0. ASSUME UNCHANGED <<stopVars, pc, stoppedSince>> PROVE StopInv'
  BY <1>0
<1>a. ASSUME NEW t \in Thread, Finish(t), UNCHANGED stopVars PROVE StopInv'
  BY <1>t, <1>a
<1>b. ASSUME NEW t \in Thread, NEW l, Goto(t, l), UNCHANGED stopVars, t \notin stoppedSince
      PROVE  StopInv'
  BY <1>t, <1>b
<1>1. ASSUME NEW t \in Thread, NEW x \in Execution, Submit(t, x) PROVE StopInv'
  BY <1>t, <1>1 DEF Submit
<1>2. ASSUME NEW t \in Thread, Gate(t) PROVE StopInv'
  <2>1. CASE PolicyGate(t)
    BY <1>t, <2>1 DEF PolicyGate
  <2>2. CASE StopGate(t)
    BY <1>t, <2>2 DEF StopGate, Blocked
  <2>3. CASE BreakerGate(t)
    BY <1>b, <2>3 DEF BreakerGate
  <2>4. CASE QuotaGate(t)
    BY <1>b, <2>4 DEF QuotaGate
  <2>5. CASE CooldownGate(t)
    BY <1>b, <2>5 DEF CooldownGate
  <2>6. CASE ApprovalGate(t)
    BY <1>b, <2>6 DEF ApprovalGate
  <2> QED
    BY <1>2, <2>1, <2>2, <2>3, <2>4, <2>5, <2>6 DEF Gate
<1>3. ASSUME NEW t \in Thread, Run(t) PROVE StopInv'
  <2>1. CASE Refuse(t)
    BY <1>t, <1>a, <2>1 DEF Refuse
  <2>2. CASE Claim(t)
    BY <1>b, <2>2 DEF Claim
  <2>3. CASE Snapshot(t)
    BY <1>b, <2>3 DEF Snapshot
  <2>4. CASE Perform(t)
    BY <1>b, <2>4 DEF Perform
  <2>5. CASE RecordOutcome(t)
    BY <1>b, <2>5 DEF RecordOutcome
  <2>6. CASE Verify(t)
    BY <1>b, <2>6 DEF Verify
  <2>7. CASE Penalise(t)
    BY <1>b, <2>7 DEF Penalise
  <2>8. CASE OfferRollback(t)
    BY <1>b, <2>8 DEF OfferRollback
  <2>9. CASE FinalizeAudit(t)
    BY <1>a, <2>9 DEF FinalizeAudit
  <2>10. CASE AuditFails(t)
    BY <1>a, <2>10 DEF AuditFails
  <2>11. CASE Replay(t)
    BY <1>a, <2>11 DEF Replay
  <2> QED
    BY <1>3, <2>1, <2>2, <2>3, <2>4, <2>5, <2>6, <2>7, <2>8, <2>9, <2>10, <2>11 DEF Run
<1>4. ASSUME NEW t \in Thread, ReplayTimesOut(t) PROVE StopInv'
  BY <1>a, <1>4 DEF ReplayTimesOut
<1>5. ASSUME NEW t \in Thread, Abort(t) PROVE StopInv'
  BY <1>a, <1>5 DEF Abort
<1>6. CASE Admin
  <2>1. AdminInv' /\ ActivationPersists'
    BY <1>6, AdminKeeps DEF Admin, TypeOK
  <2>2. stoppedSince' = IF stopHeld' THEN stoppedSince ELSE {}
    BY <1>6 DEF Admin
  <2>3. pc' = pc
    BY <1>6 DEF Admin
  <2>4. stopHeld' \/ ~stopHeld'
    OBVIOUS
  <2> QED
    BY <2>1, <2>2, <2>3, <2>4
<1>7. CASE PolicyChanges
  BY <1>0, <1>7 DEF PolicyChanges
<1>8. ASSUME NEW x \in Execution, ApprovalChanges(x) PROVE StopInv'
  BY <1>0, <1>8 DEF ApprovalChanges
<1>9. CASE TimePasses
  BY <1>0, <1>9 DEF TimePasses
<1>10. CASE Crash
  <2>1. admin' = [op \in Operation |-> "idle"] /\ stopDb' = stopDb /\ stopHeld' = stopHeld
    BY <1>10 DEF Crash, StopRestart
  <2>2. AdminInv' /\ ActivationPersists'
    BY <2>1 DEF Operation
  <2> QED
    BY <1>10, <2>2 DEF Crash
<1>11. CASE UNCHANGED vars
  BY <1>0, <1>11 DEF vars
<1> QED
  BY <1>1, <1>2, <1>3, <1>4, <1>5, <1>6, <1>7, <1>8, <1>9, <1>10, <1>11
  DEF Next, Environment

\* Without overlapping admins it holds in every state.
LEMMA StopInvariant ==
    ASSUME ~AdminsOverlap PROVE Spec => []StopInv
<1>1. Init => StopInv
  <2> SUFFICES ASSUME Init PROVE StopInv
    OBVIOUS
  <2>1. AdminInv /\ ActivationPersists
    BY DEF Init, StopInit, AdminInv, ActivationPersists, Operation
  <2> QED
    BY <2>1 DEF Init, StopInv, StopPreventsEffects
<1>2. TypeOK /\ StopInv /\ [Next]_vars => StopInv'
  BY NextStop
<1> QED
  BY TypeInvariant, <1>1, <1>2, PTL DEF Spec

(***************************************************************************)
(* A stop is a stop: a call submitted while an activated kill switch is    *)
(* held never reaches the action while it stays held, across restarts that *)
(* lose the in-memory switch, when no activation and deactivation of the   *)
(* same switch are in progress at once.                                    *)
(***************************************************************************)
THEOREM StopHolds ==
    ASSUME ~AdminsOverlap PROVE Spec => []StopPreventsEffects
<1>1. StopInv => StopPreventsEffects
  BY DEF StopInv
<1> QED
  BY StopInvariant, <1>1, PTL

(***************************************************************************)
(* Under the same assumption an activation that returned is persisted:     *)
(* activate_persisted does what its docstring says.                        *)
(***************************************************************************)
THEOREM StopIsPersisted ==
    ASSUME ~AdminsOverlap PROVE Spec => []ActivationPersists
<1>1. StopInv => ActivationPersists
  BY DEF StopInv
<1> QED
  BY StopInvariant, <1>1, PTL

-----------------------------------------------------------------------------
(* The circuit breaker *)

\* The two facts about the breaker's state that support each other.
CallersInv == CallersTypeOK /\ TrippedByFailures

\* The invariant of the breaker holds at the start.
LEMMA CallersInitInv == CallersInit => CallersInv
<1> SUFFICES ASSUME CallersInit PROVE CallersInv
  OBVIOUS
<1>1. BreakerTypeOK
  BY DEF CallersInit, BreakerInit, BreakerTypeOK, CircuitBreakerState
<1>2. TrippedByFailures
  BY BreakerAssumption DEF CallersInit, BreakerInit, TrippedByFailures
<1> QED
  BY <1>1, <1>2 DEF CallersInit, CallersInv, CallersTypeOK

\* What the breaker's methods do to its own state, whoever calls them.
BreakerInv == BreakerTypeOK /\ TrippedByFailures

\* Asking the breaker keeps its invariant.
LEMMA AllowActionKeeps ==
    ASSUME BreakerInv, NEW allowed \in BOOLEAN, AllowAction(allowed) PROVE BreakerInv'
<1>1. BreakerTypeOK'
  BY DEF BreakerInv, BreakerTypeOK, AllowAction, Evaluate, CircuitBreakerState
<1>2. TrippedByFailures'
  BY DEF BreakerInv, AllowAction, Evaluate, TrippedByFailures
<1> QED
  BY <1>1, <1>2 DEF BreakerInv

\* Recording a success keeps it.
LEMMA RecordSuccessKeeps ==
    ASSUME BreakerInv, RecordSuccess PROVE BreakerInv'
  BY BreakerAssumption DEF BreakerInv, BreakerTypeOK, RecordSuccess, TrippedByFailures,
     CircuitBreakerState

\* Recording a failure keeps it: the last failure trips.
LEMMA RecordFailureKeeps ==
    ASSUME BreakerInv, RecordFailure PROVE BreakerInv'
<1>1. failures' \in Nat
  BY DEF BreakerInv, BreakerTypeOK, RecordFailure
<1>2. cbState' \in CircuitBreakerState
  BY DEF BreakerInv, BreakerTypeOK, RecordFailure, CircuitBreakerState
<1>3. cooled' \in BOOLEAN
  BY DEF RecordFailure
<1>4. TrippedByFailures'
  BY BreakerAssumption DEF BreakerInv, BreakerTypeOK, RecordFailure, TrippedByFailures
<1> QED
  BY <1>1, <1>2, <1>3, <1>4 DEF BreakerInv, BreakerTypeOK

\* Resetting keeps it.
LEMMA ResetKeeps ==
    ASSUME BreakerInv, Reset PROVE BreakerInv'
<1>1. BreakerTypeOK'
  BY DEF BreakerTypeOK, Reset, CircuitBreakerState
<1>2. TrippedByFailures'
  BY BreakerAssumption DEF Reset, TrippedByFailures
<1> QED
  BY <1>1, <1>2 DEF BreakerInv

\* The passing of the recovery time keeps it.
LEMMA TimeKeeps ==
    ASSUME BreakerInv, RecoveryTimePasses PROVE BreakerInv'
  BY DEF BreakerInv, BreakerTypeOK, RecoveryTimePasses, TrippedByFailures

\* Every call keeps it, whoever makes it.
LEMMA CallersNextInv == CallersInv /\ [CallersNext]_callersVars => CallersInv'
<1> SUFFICES ASSUME CallersInv, [CallersNext]_callersVars PROVE CallersInv'
  OBVIOUS
<1>0. BreakerInv
  BY DEF CallersInv, CallersTypeOK, BreakerInv
<1>1. CASE SomeoneAsks
  <2> PICK c \in Caller : Ask(c)
    BY <1>1 DEF SomeoneAsks
  <2>1. BreakerInv'
    BY <1>0, AllowActionKeeps DEF Ask
  <2>2. acting' \subseteq Caller
    BY DEF CallersInv, CallersTypeOK, Ask
  <2> QED
    BY <2>1, <2>2 DEF CallersInv, CallersTypeOK, BreakerInv
<1>2. ASSUME NEW c \in Caller,
             ReportSuccess(c) \/ ReportFailure(c) \/ StoppedByLaterGate(c)
      PROVE  CallersInv'
  <2>1. acting' \subseteq Caller
    BY <1>2 DEF CallersInv, CallersTypeOK, ReportSuccess, ReportFailure, StoppedByLaterGate, Leave
  <2>2. CASE ReportSuccess(c)
    BY <1>0, <2>1, <2>2, RecordSuccessKeeps DEF ReportSuccess, CallersInv, CallersTypeOK, BreakerInv
  <2>3. CASE ReportFailure(c)
    BY <1>0, <2>1, <2>3, RecordFailureKeeps DEF ReportFailure, CallersInv, CallersTypeOK, BreakerInv
  <2>4. CASE StoppedByLaterGate(c)
    BY <2>1, <2>4
    DEF StoppedByLaterGate, breakerVars, CallersInv, CallersTypeOK, BreakerTypeOK, TrippedByFailures
  <2> QED
    BY <1>2, <2>2, <2>3, <2>4
<1>3. CASE ManualReset
  BY <1>0, <1>3, ResetKeeps DEF ManualReset, CallersInv, CallersTypeOK, BreakerInv
<1>4. CASE CooldownPasses
  BY <1>0, <1>4, TimeKeeps DEF CooldownPasses, CallersInv, CallersTypeOK, BreakerInv
<1>5. CASE UNCHANGED callersVars
  BY <1>5 DEF callersVars, breakerVars, CallersInv, CallersTypeOK, BreakerTypeOK, TrippedByFailures
<1> QED
  BY <1>1, <1>2, <1>3, <1>4, <1>5 DEF CallersNext

(***************************************************************************)
(* For any number of callers and any threshold, the breaker is tripped     *)
(* exactly while the consecutive failures have reached the threshold: no   *)
(* order of late successes, late failures, probes and resets leaves a      *)
(* closed breaker with a full count, or a tripped one with room.           *)
(***************************************************************************)
THEOREM TripsAtThreshold == CallersSpec => []TrippedByFailures
<1>1. CallersInv => TrippedByFailures
  BY DEF CallersInv
<1> QED
  BY CallersInitInv, CallersNextInv, <1>1, PTL DEF CallersSpec

\* A closed breaker without failures is as it should be.
LEMMA ClosedIsUntripped ==
    ASSUME BreakerTypeOK, cbState = "closed", failures = 0
    PROVE  BreakerInv
  BY BreakerAssumption DEF BreakerInv, TrippedByFailures

\* What the steps of the envelope do to the breaker.
LEMMA EnvelopeUsesBreaker ==
    ASSUME [Next]_vars
    PROVE  \/ UNCHANGED breakerVars
           \/ \E allowed \in BOOLEAN : AllowAction(allowed)
           \/ RecordSuccess
           \/ RecordFailure
           \/ RecoveryTimePasses
           \/ cbState' = "closed" /\ failures' = 0 /\ cooled' = FALSE
<1> USE DEF breakerVars
<1>1. ASSUME NEW t \in Thread, Gate(t) \/ Run(t) \/ ReplayTimesOut(t) \/ Abort(t)
      PROVE  \/ UNCHANGED breakerVars
             \/ \E allowed \in BOOLEAN : AllowAction(allowed)
             \/ RecordSuccess
             \/ RecordFailure
  <2>1. CASE Gate(t)
    BY <2>1 DEF Gate, PolicyGate, StopGate, BreakerGate, QuotaGate, CooldownGate, ApprovalGate
  <2>2. CASE Run(t)
    BY <2>2 DEF Run, Refuse, Claim, Snapshot, Perform, RecordOutcome, Verify, Penalise,
       OfferRollback, FinalizeAudit, AuditFails, Replay
  <2>3. CASE ReplayTimesOut(t) \/ Abort(t)
    BY <2>3 DEF ReplayTimesOut, Abort
  <2> QED
    BY <1>1, <2>1, <2>2, <2>3
<1>2. ASSUME NEW t \in Thread, NEW x \in Execution, Submit(t, x) PROVE UNCHANGED breakerVars
  BY <1>2 DEF Submit
<1>3. ASSUME NEW x \in Execution, ApprovalChanges(x) PROVE UNCHANGED breakerVars
  BY <1>3 DEF ApprovalChanges
<1>4. CASE Admin \/ PolicyChanges \/ TimePasses
  BY <1>4 DEF Admin, PolicyChanges, TimePasses
<1>5. CASE Crash
  BY <1>5 DEF Crash
<1>6. CASE UNCHANGED vars
  BY <1>6 DEF vars
<1> QED
  BY <1>1, <1>2, <1>3, <1>4, <1>5, <1>6 DEF Next, Environment

(***************************************************************************)
(* The same of the breaker as the envelope uses it, with calls aborted     *)
(* before or after their report and processes that die with a breaker      *)
(* tripped.                                                                *)
(***************************************************************************)
THEOREM EnvelopeTripsAtThreshold == Spec => []TrippedByFailures
<1>1. Init => BreakerInv
  <2> SUFFICES ASSUME Init PROVE BreakerInv
    OBVIOUS
  <2>1. BreakerTypeOK
    BY InitType DEF TypeOK
  <2> QED
    BY <2>1, ClosedIsUntripped DEF Init, BreakerInit
<1>2. BreakerInv /\ [Next]_vars => BreakerInv'
  <2> SUFFICES ASSUME BreakerInv, [Next]_vars PROVE BreakerInv'
    OBVIOUS
  <2>1. CASE UNCHANGED breakerVars
    BY <2>1 DEF BreakerInv, breakerVars, BreakerTypeOK, TrippedByFailures
  <2>2. CASE \E allowed \in BOOLEAN : AllowAction(allowed)
    BY <2>2, AllowActionKeeps
  <2>3. CASE RecordSuccess \/ RecordFailure \/ RecoveryTimePasses
    BY <2>3, RecordSuccessKeeps, RecordFailureKeeps, TimeKeeps
  <2>4. CASE cbState' = "closed" /\ failures' = 0 /\ cooled' = FALSE
    <3>1. BreakerTypeOK'
      BY <2>4 DEF BreakerTypeOK, CircuitBreakerState
    <3>2. TrippedByFailures'
      BY <2>4, BreakerAssumption DEF TrippedByFailures
    <3> QED
      BY <3>1, <3>2 DEF BreakerInv
  <2> QED
    BY <2>1, <2>2, <2>3, <2>4, EnvelopeUsesBreaker
<1>3. BreakerInv => TrippedByFailures
  BY DEF BreakerInv
<1> QED
  BY <1>1, <1>2, <1>3, PTL DEF Spec
=============================================================================
