------------------------ MODULE SyncPipeline_proofs ------------------------
(***************************************************************************)
(* Proofs about SyncPipeline, for every set of events and every bound.     *)
(***************************************************************************)
EXTENDS SyncPipeline, FiniteSetTheorems, TLAPS

-----------------------------------------------------------------------------
(* Types *)

\* The queue's methods keep its columns in their types.
LEMMA QueueMethodsType ==
    ASSUME QueueTypeOK
    PROVE  /\ \A e \in Event : Enqueue(e) => QueueTypeOK'
           /\ \A B \in SUBSET Event : Dequeue(B) => QueueTypeOK'
           /\ RecoverExpiredLeases => QueueTypeOK'
           /\ \A S \in SUBSET Event : MarkSent(S) => QueueTypeOK'
           /\ \A S \in SUBSET Event, p \in BOOLEAN : MarkFailed(S, p) => QueueTypeOK'
           /\ \A S \in SUBSET Event : LeaseElapses(S) => QueueTypeOK'
<1> USE DEF QueueTypeOK, RowStatus, LeaseState
<1>1. ASSUME NEW e \in Event, Enqueue(e) PROVE QueueTypeOK'
  BY <1>1 DEF Enqueue
<1>2. ASSUME NEW B \in SUBSET Event, Dequeue(B) PROVE QueueTypeOK'
  BY <1>2 DEF Dequeue
<1>3. ASSUME RecoverExpiredLeases PROVE QueueTypeOK'
  BY <1>3 DEF RecoverExpiredLeases
<1>4. ASSUME NEW S \in SUBSET Event, MarkSent(S) PROVE QueueTypeOK'
  BY <1>4 DEF MarkSent
<1>5. ASSUME NEW S \in SUBSET Event, NEW p \in BOOLEAN, MarkFailed(S, p)
      PROVE QueueTypeOK'
  BY <1>5 DEF MarkFailed, FailedStatus
<1>6. ASSUME NEW S \in SUBSET Event, LeaseElapses(S) PROVE QueueTypeOK'
  BY <1>6 DEF LeaseElapses
<1> QED
  BY <1>1, <1>2, <1>3, <1>4, <1>5, <1>6

\* The initial state is well typed.
LEMMA InitType == Init => TypeOK
  BY DEF Init, QueueInit, TypeOK, QueueTypeOK, RowStatus, LeaseState, WorkerPC, ReplyKind

\* Every step keeps the types.
LEMMA NextType == TypeOK /\ [Next]_vars => TypeOK'
<1> SUFFICES ASSUME TypeOK, [Next]_vars PROVE TypeOK'
  OBVIOUS
<1> USE DEF TypeOK, WorkerPC, ReplyKind, EndCycle
<1>1. ASSUME NEW e \in Event, Collect(e) PROVE TypeOK'
  BY <1>1, QueueMethodsType DEF Collect, workerVars
<1>2. CASE DequeueBatch
  BY <1>2, QueueMethodsType DEF DequeueBatch, Oldest, Pending
<1>3. CASE TrimToByteBound
  BY <1>3, QueueMethodsType DEF TrimToByteBound, Kept
<1>4. CASE PostBatch
  BY <1>4 DEF PostBatch, queueVars, QueueTypeOK
<1>5. CASE ReceiveResults
  BY <1>5, QueueMethodsType DEF ReceiveResults
<1>6. CASE MarkQuarantined
  BY <1>6, QueueMethodsType DEF MarkQuarantined
<1>7. CASE ReceivePermanent
  BY <1>7, QueueMethodsType DEF ReceivePermanent
<1>8. CASE ReceiveTransient
  BY <1>8 DEF ReceiveTransient, queueVars, QueueTypeOK
<1>9. CASE RequestTimesOut
  BY <1>9 DEF RequestTimesOut, queueVars, QueueTypeOK
<1>10. CASE MarkTransientFailure
  BY <1>10, QueueMethodsType DEF MarkTransientFailure
<1>11. CASE CycleAborts
  BY <1>11 DEF CycleAborts, queueVars, QueueTypeOK
<1>12. CASE Ingest
  BY <1>12 DEF Ingest, queueVars, QueueTypeOK
<1>13. CASE RejectBatch
  BY <1>13 DEF RejectBatch, queueVars, QueueTypeOK
<1>14. CASE FailRequest
  BY <1>14 DEF FailRequest, queueVars, QueueTypeOK
<1>15. ASSUME NEW b \in SUBSET Event, IngestOrphan(b) PROVE TypeOK'
  BY <1>15 DEF IngestOrphan, queueVars, workerVars, QueueTypeOK
<1>16. CASE LeaseTimePasses
  BY <1>16, QueueMethodsType DEF LeaseTimePasses, LiveLeases, workerVars
<1>17. CASE Crash
  BY <1>17 DEF Crash, queueVars, QueueTypeOK
<1>18. CASE Restart
  BY <1>18, QueueMethodsType DEF Restart
<1>19. CASE UNCHANGED vars
  BY <1>19 DEF vars, queueVars, workerVars, QueueTypeOK
<1> QED
  BY <1>1, <1>2, <1>3, <1>4, <1>5, <1>6, <1>7, <1>8, <1>9, <1>10, <1>11, <1>12,
     <1>13, <1>14, <1>15, <1>16, <1>17, <1>18, <1>19 DEF Next, Worker, Backend

(***************************************************************************)
(* Every variable of the pipeline keeps its type.                          *)
(***************************************************************************)
THEOREM PipelineTypes == Spec => []TypeOK
  BY InitType, NextType, PTL DEF Spec

-----------------------------------------------------------------------------
(* Acknowledgements *)

\* What the worker keeps for a retry is of its batch.
LEMMA KeptInBatch == Kept \subseteq batch
  BY Zenon DEF Kept

(***************************************************************************)
(* What the worker holds of a reply is backed by the backend: acknowledged *)
(* events are stored, refused ones were refused.                           *)
(***************************************************************************)
ReplyBacked ==
    /\ acked \subseteq ingested
    /\ quarantined \subseteq refused
    /\ reply = "permanent" => pc = "waiting" /\ batch \subseteq refused

SafeInv == NoFalseAck /\ QuarantineHasCause /\ RetryBudget /\ ReplyBacked

\* The invariant of the acknowledgements holds at the start.
LEMMA InitSafe == Init => SafeInv
  BY QueueAssumption DEF Init, QueueInit, SafeInv, NoFalseAck, QuarantineHasCause,
     RetryBudget, ReplyBacked

\* Every step keeps it.
LEMMA NextSafe == TypeOK /\ SafeInv /\ [Next]_vars => SafeInv'
<1> SUFFICES ASSUME TypeOK, SafeInv, [Next]_vars PROVE SafeInv'
  OBVIOUS
<1> USE QueueAssumption DEF TypeOK, QueueTypeOK, SafeInv, NoFalseAck, QuarantineHasCause,
       RetryBudget, ReplyBacked
<1>1. ASSUME NEW e \in Event, Collect(e) PROVE SafeInv'
  BY <1>1 DEF Collect, Enqueue, workerVars
<1>2. CASE DequeueBatch
  BY <1>2 DEF DequeueBatch, Dequeue, Oldest, Pending, queueVars
<1>3. CASE TrimToByteBound
  BY <1>3, KeptInBatch DEF TrimToByteBound, MarkFailed, FailedStatus, queueVars
<1>4. CASE PostBatch
  BY <1>4 DEF PostBatch, queueVars
<1>5. CASE ReceiveResults
  BY <1>5 DEF ReceiveResults, MarkSent, queueVars
<1>6. CASE MarkQuarantined
  BY <1>6 DEF MarkQuarantined, MarkFailed, FailedStatus, EndCycle, queueVars
<1>7. CASE ReceivePermanent
  BY <1>7 DEF ReceivePermanent, MarkFailed, FailedStatus, EndCycle, queueVars
<1>8. CASE ReceiveTransient
  BY <1>8 DEF ReceiveTransient, queueVars
<1>9. CASE RequestTimesOut
  BY <1>9 DEF RequestTimesOut, queueVars
<1>10. CASE MarkTransientFailure
  BY <1>10 DEF MarkTransientFailure, MarkFailed, FailedStatus, EndCycle, queueVars
<1>11. CASE CycleAborts
  BY <1>11 DEF CycleAborts, EndCycle, queueVars
<1>12. CASE Ingest
  BY <1>12 DEF Ingest, queueVars
<1>13. CASE RejectBatch
  BY <1>13 DEF RejectBatch, queueVars
<1>14. CASE FailRequest
  BY <1>14 DEF FailRequest, queueVars
<1>15. CASE LeaseTimePasses
  BY <1>15 DEF LeaseTimePasses, LeaseElapses, LiveLeases, workerVars
<1>16. CASE Crash
  BY <1>16 DEF Crash, EndCycle, queueVars
<1>17. CASE Restart
  BY <1>17 DEF Restart, RecoverExpiredLeases, Recoverable, queueVars
<1>18. ASSUME NEW b \in SUBSET Event, IngestOrphan(b) PROVE SafeInv'
  BY <1>18 DEF IngestOrphan, queueVars, workerVars
<1>19. CASE UNCHANGED vars
  BY <1>19 DEF vars, queueVars, workerVars
<1> QED
  BY <1>1, <1>2, <1>3, <1>4, <1>5, <1>6, <1>7, <1>8, <1>9, <1>10, <1>11,
     <1>12, <1>13, <1>14, <1>15, <1>16, <1>17, <1>18, <1>19
  DEF Next, Worker, Backend

\* It holds in every state.
LEMMA SafeInvariant == Spec => []SafeInv
  BY PipelineTypes, InitSafe, NextSafe, PTL DEF Spec

(***************************************************************************)
(* A row is marked sent only when the backend has stored the event, for    *)
(* any backend behaviour the worker can meet (partial answers included),   *)
(* any timeouts and any number of crashes.                                 *)
(***************************************************************************)
THEOREM SentOnlyIfStored == Spec => []NoFalseAck
  BY SafeInvariant, PTL DEF SafeInv

(***************************************************************************)
(* An event fails only after its retries or an explicit refusal.           *)
(***************************************************************************)
THEOREM FailedOnlyForCause == Spec => []QuarantineHasCause
  BY SafeInvariant, PTL DEF SafeInv

(***************************************************************************)
(* A row that can still be transmitted has attempts left.                  *)
(***************************************************************************)
THEOREM RetriesAreBounded == Spec => []RetryBudget
  BY SafeInvariant, PTL DEF SafeInv

-----------------------------------------------------------------------------
(* A backend that answers for every event of the request *)

(***************************************************************************)
(* Inductive strengthening of BatchLeased: a reply with results covers the *)
(* whole batch, so the cycle that marks rows sent never reaches the        *)
(* transient path, which would mark them a second time.                    *)
(***************************************************************************)
LeaseInv ==
    /\ BatchLeased
    /\ reply = "results" =>
          pc \in {"waiting", "quarantine"} /\ acked = batch /\ quarantined = {}
    /\ pc = "quarantine" => reply = "results"

\* The invariant of the leases holds at the start.
LEMMA InitLease == Init => LeaseInv
  BY DEF Init, QueueInit, LeaseInv, BatchLeased

\* Without partial acknowledgements every step keeps it.
LEMMA NextLease ==
    ASSUME ~PartialAcks
    PROVE  TypeOK /\ LeaseInv /\ [Next]_vars => LeaseInv'
<1> SUFFICES ASSUME TypeOK, LeaseInv, [Next]_vars PROVE LeaseInv'
  OBVIOUS
<1> USE DEF TypeOK, QueueTypeOK, WorkerPC, LeaseInv, BatchLeased
<1>1. ASSUME NEW e \in Event, Collect(e) PROVE LeaseInv'
  BY <1>1 DEF Collect, Enqueue, workerVars
<1>2. CASE DequeueBatch
  BY <1>2 DEF DequeueBatch, Dequeue, Oldest, Pending, queueVars
<1>3. CASE TrimToByteBound
  BY <1>3, KeptInBatch DEF TrimToByteBound, MarkFailed, FailedStatus, queueVars
<1>4. CASE PostBatch
  BY <1>4 DEF PostBatch, queueVars
<1>5. CASE ReceiveResults
  BY <1>5 DEF ReceiveResults, MarkSent, queueVars
<1>6. CASE MarkQuarantined
  BY <1>6 DEF MarkQuarantined, MarkFailed, FailedStatus, EndCycle, queueVars
<1>7. CASE ReceivePermanent
  BY <1>7 DEF ReceivePermanent, MarkFailed, FailedStatus, EndCycle, queueVars
<1>8. CASE ReceiveTransient
  BY <1>8 DEF ReceiveTransient, queueVars
<1>9. CASE RequestTimesOut
  BY <1>9 DEF RequestTimesOut, queueVars
<1>10. CASE MarkTransientFailure
  BY <1>10 DEF MarkTransientFailure, MarkFailed, FailedStatus, EndCycle, queueVars
<1>11. CASE CycleAborts
  BY <1>11 DEF CycleAborts, EndCycle, queueVars
<1>12. CASE Ingest
  BY <1>12 DEF Ingest, queueVars
<1>13. CASE RejectBatch
  BY <1>13 DEF RejectBatch, queueVars
<1>14. CASE FailRequest
  BY <1>14 DEF FailRequest, queueVars
<1>15. CASE LeaseTimePasses
  BY <1>15 DEF LeaseTimePasses, LeaseElapses, LiveLeases, workerVars
<1>16. CASE Crash
  BY <1>16 DEF Crash, EndCycle, queueVars
<1>17. CASE Restart
  BY <1>17 DEF Restart, RecoverExpiredLeases, Recoverable, queueVars
<1>18. ASSUME NEW b \in SUBSET Event, IngestOrphan(b) PROVE LeaseInv'
  BY <1>18 DEF IngestOrphan, queueVars, workerVars
<1>19. CASE UNCHANGED vars
  BY <1>19 DEF vars, queueVars, workerVars
<1> QED
  BY <1>1, <1>2, <1>3, <1>4, <1>5, <1>6, <1>7, <1>8, <1>9, <1>10, <1>11,
     <1>12, <1>13, <1>14, <1>15, <1>16, <1>17, <1>18, <1>19
  DEF Next, Worker, Backend

(***************************************************************************)
(* With complete answers the worker only ever marks rows it has leased.    *)
(***************************************************************************)
THEOREM WorkerHoldsItsBatch ==
    ASSUME ~PartialAcks
    PROVE  Spec => []BatchLeased
<1>1. TypeOK /\ LeaseInv /\ [Next]_vars => LeaseInv'
  BY NextLease
<1>2. LeaseInv => BatchLeased
  BY DEF LeaseInv
<1> QED
  BY PipelineTypes, InitLease, <1>1, <1>2, PTL DEF Spec

-----------------------------------------------------------------------------
(* Capacity *)

\* No step but a collection adds a row to those that count.
LEMMA OnlyCollectionAdds ==
    ASSUME TypeOK, LeaseInv, ~PartialAcks, [Next]_vars,
           ~ \E e \in Event : Collect(e)
    PROVE  Active' \subseteq Active
<1> USE DEF TypeOK, QueueTypeOK, LeaseInv, BatchLeased, Active
<1>1. CASE DequeueBatch
  BY <1>1 DEF DequeueBatch, Dequeue, Oldest, Pending, queueVars
<1>2. CASE TrimToByteBound
  BY <1>2, KeptInBatch DEF TrimToByteBound, MarkFailed, FailedStatus, queueVars
<1>3. CASE PostBatch
  BY <1>3 DEF PostBatch, queueVars
<1>4. CASE ReceiveResults
  BY <1>4 DEF ReceiveResults, MarkSent, queueVars
<1>5. CASE MarkQuarantined
  BY <1>5 DEF MarkQuarantined, MarkFailed, FailedStatus, EndCycle, queueVars
<1>6. CASE ReceivePermanent
  BY <1>6 DEF ReceivePermanent, MarkFailed, FailedStatus, EndCycle, queueVars
<1>7. CASE ReceiveTransient
  BY <1>7 DEF ReceiveTransient, queueVars
<1>8. CASE RequestTimesOut
  BY <1>8 DEF RequestTimesOut, queueVars
<1>9. CASE MarkTransientFailure
  BY <1>9 DEF MarkTransientFailure, MarkFailed, FailedStatus, EndCycle, queueVars
<1>10. CASE CycleAborts
  BY <1>10 DEF CycleAborts, EndCycle, queueVars
<1>11. CASE Ingest
  BY <1>11 DEF Ingest, queueVars
<1>12. CASE RejectBatch
  BY <1>12 DEF RejectBatch, queueVars
<1>13. CASE FailRequest
  BY <1>13 DEF FailRequest, queueVars
<1>14. CASE LeaseTimePasses
  BY <1>14 DEF LeaseTimePasses, LeaseElapses, LiveLeases, queueVars
<1>15. CASE Crash
  BY <1>15 DEF Crash, EndCycle, queueVars
<1>16. CASE Restart
  BY <1>16 DEF Restart, RecoverExpiredLeases, Recoverable, queueVars
<1>17. ASSUME NEW b \in SUBSET Event, IngestOrphan(b) PROVE Active' \subseteq Active
  BY <1>17 DEF IngestOrphan, queueVars
<1>18. CASE UNCHANGED vars
  BY <1>18 DEF vars, queueVars
<1> QED
  BY <1>1, <1>2, <1>3, <1>4, <1>5, <1>6, <1>7, <1>8, <1>9, <1>10, <1>11,
     <1>12, <1>13, <1>14, <1>15, <1>16, <1>17, <1>18
  DEF Next, Worker, Backend

\* Without partial acknowledgements every step keeps the queue within its
\* capacity.
LEMMA NextCapacity ==
    ASSUME ~PartialAcks
    PROVE  TypeOK /\ LeaseInv /\ CapacityBound /\ [Next]_vars => CapacityBound'
<1> SUFFICES ASSUME TypeOK, LeaseInv, CapacityBound, [Next]_vars PROVE CapacityBound'
  OBVIOUS
<1>1. IsFiniteSet(Active)
  <2>1. Active \subseteq Event
    BY DEF Active
  <2> QED
    BY <2>1, FS_Subset, QueueAssumption
<1>2. Cardinality(Active) \in Nat
  BY <1>1, FS_CardinalityType
<1>3. CASE ~ \E e \in Event : Collect(e)
  <2>1. Active' \subseteq Active
    BY <1>3, OnlyCollectionAdds
  <2>2. Cardinality(Active') <= Cardinality(Active) /\ IsFiniteSet(Active')
    BY <1>1, <2>1, FS_Subset
  <2>3. Cardinality(Active') \in Nat
    BY <2>2, FS_CardinalityType
  <2> QED
    BY <1>2, <2>2, <2>3, QueueAssumption DEF CapacityBound
<1>4. ASSUME NEW e \in Event, Collect(e) PROVE CapacityBound'
  <2>1. Active' = Active \cup {e} /\ e \notin Active
    BY <1>4 DEF Collect, Enqueue, Active, TypeOK, QueueTypeOK
  <2>2. Cardinality(Active') = Cardinality(Active) + 1
    BY <1>1, <2>1, FS_AddElement
  <2>3. ~(Cardinality(Active) >= MaxSize)
    BY <1>4 DEF Collect, Enqueue, Full
  <2> QED
    BY <1>2, <2>2, <2>3, QueueAssumption DEF CapacityBound
<1> QED
  BY <1>3, <1>4

(***************************************************************************)
(* With complete answers the queue never exceeds its configured size.      *)
(***************************************************************************)
THEOREM QueueIsBounded ==
    ASSUME ~PartialAcks
    PROVE  Spec => []CapacityBound
<1>1. Init => CapacityBound
  <2> SUFFICES ASSUME Init PROVE CapacityBound
    OBVIOUS
  <2>1. Active = {}
    BY DEF Init, QueueInit, Active
  <2> QED
    BY <2>1, FS_EmptySet, QueueAssumption DEF CapacityBound
<1>2. TypeOK /\ LeaseInv /\ [Next]_vars => LeaseInv'
  BY NextLease
<1>3. TypeOK /\ LeaseInv /\ CapacityBound /\ [Next]_vars => CapacityBound'
  BY NextCapacity
<1> QED
  BY PipelineTypes, InitLease, <1>1, <1>2, <1>3, PTL DEF Spec

-----------------------------------------------------------------------------
(* Refinement *)

Refines == Box!Next \/ UNCHANGED Box!outboxVars

\* The initial state is an empty outbox.
LEMMA InitRefines == Init => Box!Init
  BY DEF Init, QueueInit, Box!Init, fateBar, fateOf

\* The fate of an event by the status of its row.
LEMMA FateOfRow ==
    ASSUME TypeOK, NEW e \in Event
    PROVE  /\ fateBar \in [Event -> {"new", "held", "confirmed", "abandoned"}]
           /\ status[e] = "absent" <=> fateBar[e] = "new"
           /\ status[e] \in {"pending", "sending"} <=> fateBar[e] = "held"
           /\ status[e] = "sent" <=> fateBar[e] = "confirmed"
           /\ status[e] = "failed" <=> fateBar[e] = "abandoned"
  BY DEF TypeOK, QueueTypeOK, RowStatus, fateBar, fateOf

\* What the outbox holds unconfirmed is what the queue counts as active.
LEMMA UnconfirmedAreActive == TypeOK => Box!Unconfirmed = Active
  BY FateOfRow DEF Box!Unconfirmed, Active, TypeOK, QueueTypeOK, RowStatus

\* A step that marks leased rows failed is an Abandon of those given up.
LEMMA MarkFailedAbandons ==
    ASSUME TypeOK, TypeOK', NEW S \in SUBSET Event, NEW p \in BOOLEAN,
           MarkFailed(S, p), \A e \in S : status[e] = "sending",
           UNCHANGED ingested
    PROVE  Box!Next
<1> DEFINE G == {e \in S : FailedStatus(e, p) = "failed"}
<1>1. \A e \in G : fateBar[e] = "held"
  BY FateOfRow
<1>2. \A e \in Event : status'[e] = IF e \in S THEN FailedStatus(e, p) ELSE status[e]
  BY DEF MarkFailed
<1>3. fateBar' = [e \in Event |-> IF e \in G THEN "abandoned" ELSE fateBar[e]]
  <2>1. ASSUME NEW e \in Event
        PROVE  fateBar'[e] = IF e \in G THEN "abandoned" ELSE fateBar[e]
    BY <1>2 DEF fateBar, fateOf, FailedStatus
  <2> QED
    BY <2>1 DEF fateBar
<1>4. Box!Abandon(G)
  BY <1>1, <1>3 DEF Box!Abandon
<1> QED
  BY <1>4 DEF Box!Next

\* Storing events the queue has accepted is a Deliver.
LEMMA StoringDelivers ==
    ASSUME TypeOK, UNCHANGED queueVars, NEW S \in SUBSET Event,
           ingested' = ingested \cup S,
           \A e \in S : status[e] # "absent"
    PROVE  Box!Next
<1>1. Box!Deliver(S)
  BY FateOfRow DEF Box!Deliver, fateBar, queueVars
<1> QED
  BY <1>1 DEF Box!Next

\* Every request still on its way carries rows of the queue.
OrphanRows == \A b \in orphans : \A e \in b : status[e] # "absent"

\* Without partial acknowledgements every step keeps requests on their way
\* carrying rows of the queue.
LEMMA NextOrphanRows ==
    ASSUME ~PartialAcks
    PROVE  TypeOK /\ LeaseInv /\ OrphanRows /\ [Next]_vars => OrphanRows'
<1> SUFFICES ASSUME TypeOK, LeaseInv, OrphanRows, [Next]_vars PROVE OrphanRows'
  OBVIOUS
<1> USE DEF TypeOK, QueueTypeOK, LeaseInv, BatchLeased, OrphanRows
<1>1. ASSUME NEW e \in Event, Collect(e) PROVE OrphanRows'
  BY <1>1 DEF Collect, Enqueue
<1>2. CASE DequeueBatch
  BY <1>2 DEF DequeueBatch, Dequeue, Oldest, Pending, queueVars
<1>3. CASE TrimToByteBound
  BY <1>3, KeptInBatch DEF TrimToByteBound, MarkFailed, FailedStatus, queueVars
<1>4. CASE PostBatch
  BY <1>4 DEF PostBatch, queueVars
<1>5. CASE ReceiveResults
  BY <1>5 DEF ReceiveResults, MarkSent, queueVars
<1>6. CASE MarkQuarantined
  BY <1>6 DEF MarkQuarantined, MarkFailed, FailedStatus, EndCycle, queueVars
<1>7. CASE ReceivePermanent
  BY <1>7 DEF ReceivePermanent, MarkFailed, FailedStatus, EndCycle, queueVars
<1>8. CASE ReceiveTransient
  BY <1>8 DEF ReceiveTransient, queueVars
<1>9. CASE RequestTimesOut
  BY <1>9 DEF RequestTimesOut, queueVars
<1>10. CASE MarkTransientFailure
  BY <1>10 DEF MarkTransientFailure, MarkFailed, FailedStatus, EndCycle, queueVars
<1>11. CASE CycleAborts
  BY <1>11 DEF CycleAborts, EndCycle, queueVars
<1>12. CASE Ingest
  BY <1>12 DEF Ingest, queueVars
<1>13. CASE RejectBatch
  BY <1>13 DEF RejectBatch, queueVars
<1>14. CASE FailRequest
  BY <1>14 DEF FailRequest, queueVars
<1>15. CASE LeaseTimePasses
  BY <1>15 DEF LeaseTimePasses, LeaseElapses, LiveLeases, queueVars, workerVars
<1>16. CASE Crash
  BY <1>16 DEF Crash, EndCycle, queueVars
<1>17. CASE Restart
  BY <1>17 DEF Restart, RecoverExpiredLeases, Recoverable, queueVars
<1>18. ASSUME NEW b \in SUBSET Event, IngestOrphan(b) PROVE OrphanRows'
  BY <1>18 DEF IngestOrphan, queueVars
<1>19. CASE UNCHANGED vars
  BY <1>19 DEF vars, queueVars
<1> QED
  BY <1>1, <1>2, <1>3, <1>4, <1>5, <1>6, <1>7, <1>8, <1>9, <1>10, <1>11,
     <1>12, <1>13, <1>14, <1>15, <1>16, <1>17, <1>18, <1>19
  DEF Next, Worker, Backend

\* Without partial acknowledgements every step of the pipeline is a step of the
\* outbox or none.
LEMMA NextRefines ==
    ASSUME ~PartialAcks
    PROVE  TypeOK /\ TypeOK' /\ LeaseInv /\ SafeInv /\ OrphanRows /\ [Next]_vars
             => Refines
<1> SUFFICES ASSUME TypeOK, TypeOK', LeaseInv, SafeInv, OrphanRows, [Next]_vars
             PROVE  Refines
  OBVIOUS
<1> USE DEF Refines
<1>0. ASSUME UNCHANGED status, UNCHANGED ingested PROVE Refines
  BY <1>0 DEF Box!outboxVars, fateBar
<1>1. ASSUME NEW e \in Event, Collect(e) PROVE Refines
  <2>1. fateBar' = [fateBar EXCEPT ![e] = "held"]
    BY <1>1 DEF Collect, Enqueue, fateBar, fateOf, TypeOK, QueueTypeOK
  <2>2. fateBar[e] = "new"
    BY <1>1, FateOfRow DEF Collect, Enqueue
  <2>3. Cardinality(Active) < MaxSize
    <3>1. IsFiniteSet(Active)
      BY FS_Subset, QueueAssumption DEF Active
    <3>2. Cardinality(Active) \in Nat
      BY <3>1, FS_CardinalityType
    <3> QED
      BY <1>1, <3>2, QueueAssumption DEF Collect, Enqueue, Full
  <2>4. Box!Cardinality(Box!Unconfirmed) < MaxSize
    BY <2>3, UnconfirmedAreActive, Zenon DEF Box!Cardinality, Cardinality
  <2>5. Box!Accept(e)
    BY <1>1, <2>1, <2>2, <2>4 DEF Box!Accept, Collect
  <2> QED
    BY <2>5 DEF Box!Next
<1>2. CASE DequeueBatch
  <2>1. PICK B \in Oldest(BatchSize) : Dequeue(B)
    BY <1>2 DEF DequeueBatch
  <2>2. fateBar' = fateBar
    BY <2>1 DEF Dequeue, Oldest, Pending, fateBar, fateOf
  <2> QED
    BY <1>2, <2>2 DEF DequeueBatch, Box!outboxVars
<1>3. CASE TrimToByteBound
  <2>1. \A e \in batch \ Kept : status[e] = "sending"
    BY <1>3 DEF TrimToByteBound, LeaseInv, BatchLeased
  <2> QED
    BY <1>3, <2>1, MarkFailedAbandons DEF TrimToByteBound, TypeOK
<1>4. CASE PostBatch
  BY <1>0, <1>4 DEF PostBatch, queueVars
<1>5. CASE ReceiveResults
  <2>1. acked = batch /\ \A e \in acked : status[e] = "sending"
    BY <1>5 DEF ReceiveResults, LeaseInv, BatchLeased
  <2>2. acked \subseteq ingested
    BY DEF SafeInv, ReplyBacked
  <2>3. fateBar' = [e \in Event |-> IF e \in acked THEN "confirmed" ELSE fateBar[e]]
    BY <1>5, <2>1 DEF ReceiveResults, MarkSent, fateBar, fateOf
  <2>4. Box!Confirm(acked)
    BY <1>5, <2>1, <2>2, <2>3, FateOfRow DEF Box!Confirm, ReceiveResults, TypeOK
  <2> QED
    BY <2>4 DEF Box!Next, TypeOK
<1>6. CASE MarkQuarantined
  <2>1. quarantined = {}
    BY <1>6 DEF MarkQuarantined, LeaseInv
  <2>2. UNCHANGED status
    BY <1>6, <2>1 DEF MarkQuarantined, MarkFailed, TypeOK, QueueTypeOK
  <2> QED
    BY <1>0, <1>6, <2>2 DEF MarkQuarantined
<1>7. CASE ReceivePermanent
  <2>1. \A e \in batch : status[e] = "sending"
    BY <1>7 DEF ReceivePermanent, LeaseInv, BatchLeased
  <2> QED
    BY <1>7, <2>1, MarkFailedAbandons DEF ReceivePermanent, TypeOK
<1>8. CASE ReceiveTransient
  BY <1>0, <1>8 DEF ReceiveTransient, queueVars
<1>9. CASE RequestTimesOut
  BY <1>0, <1>9 DEF RequestTimesOut, queueVars
<1>10. CASE MarkTransientFailure
  <2>1. \A e \in batch : status[e] = "sending"
    BY <1>10 DEF MarkTransientFailure, LeaseInv, BatchLeased
  <2> QED
    BY <1>10, <2>1, MarkFailedAbandons DEF MarkTransientFailure, TypeOK
<1>11. CASE CycleAborts
  BY <1>0, <1>11 DEF CycleAborts, queueVars
<1>12. CASE Ingest
  <2>1. \A e \in batch : status[e] # "absent"
    BY <1>12 DEF Ingest, LeaseInv, BatchLeased
  <2> QED
    BY <1>12, <2>1, StoringDelivers DEF Ingest, TypeOK
<1>13. CASE RejectBatch
  BY <1>0, <1>13 DEF RejectBatch, queueVars
<1>14. CASE FailRequest
  <2>1. \A e \in batch : status[e] # "absent"
    BY <1>14 DEF FailRequest, LeaseInv, BatchLeased
  <2>2. CASE ingested' = ingested
    BY <1>0, <1>14, <2>2 DEF FailRequest, queueVars
  <2>3. CASE ingested' = ingested \cup batch
    BY <1>14, <2>1, <2>3, StoringDelivers DEF FailRequest, TypeOK
  <2> QED
    BY <1>14, <2>2, <2>3 DEF FailRequest
<1>15. ASSUME NEW b \in SUBSET Event, IngestOrphan(b) PROVE Refines
  <2>1. \A e \in b : status[e] # "absent"
    BY <1>15 DEF IngestOrphan, OrphanRows
  <2>2. CASE ingested' = ingested
    BY <1>0, <1>15, <2>2 DEF IngestOrphan, queueVars
  <2>3. CASE ingested' = ingested \cup b
    BY <1>15, <2>1, <2>3, StoringDelivers DEF IngestOrphan
  <2> QED
    BY <1>15, <2>2, <2>3 DEF IngestOrphan
<1>16. CASE LeaseTimePasses
  BY <1>0, <1>16 DEF LeaseTimePasses, LeaseElapses
<1>17. CASE Crash
  BY <1>0, <1>17 DEF Crash, queueVars
<1>18. CASE Restart
  <2>1. fateBar' = fateBar
    BY <1>18 DEF Restart, RecoverExpiredLeases, Recoverable, fateBar, fateOf
  <2> QED
    BY <1>18, <2>1 DEF Restart, Box!outboxVars
<1>19. CASE UNCHANGED vars
  BY <1>0, <1>19 DEF vars, queueVars
<1> QED
  BY <1>1, <1>2, <1>3, <1>4, <1>5, <1>6, <1>7, <1>8, <1>9, <1>10, <1>11, <1>12,
     <1>13, <1>14, <1>15, <1>16, <1>17, <1>18, <1>19 DEF Next, Worker, Backend

(***************************************************************************)
(* With complete answers the pipeline implements the outbox: settled       *)
(* events stay settled, only stored events are confirmed, and the          *)
(* unconfirmed ones never exceed the capacity when one is accepted.        *)
(***************************************************************************)
THEOREM PipelineImplementsOutbox ==
    ASSUME ~PartialAcks
    PROVE  Spec => ImplementsOutbox
<1>1. Init => OrphanRows
  BY DEF Init, OrphanRows
<1>2. TypeOK /\ LeaseInv /\ [Next]_vars => LeaseInv'
  BY NextLease
<1>3. TypeOK /\ LeaseInv /\ OrphanRows /\ [Next]_vars => OrphanRows'
  BY NextOrphanRows
<1>4. TypeOK /\ TypeOK' /\ LeaseInv /\ SafeInv /\ OrphanRows /\ [Next]_vars
        => [Box!Next]_(Box!outboxVars)
  BY NextRefines DEF Refines
<1> QED
  BY PipelineTypes, SafeInvariant, InitLease, InitRefines, <1>1, <1>2, <1>3, <1>4, PTL
  DEF Spec, ImplementsOutbox, Box!Spec
=============================================================================
