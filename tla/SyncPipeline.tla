---------------------------- MODULE SyncPipeline ----------------------------
(***************************************************************************)
(* The agent's store-and-forward path: the collection loop of              *)
(* guardian/agent/main.py enqueues, the SyncWorker thread of               *)
(* guardian/transport/sync.py drains the EventQueue, and the ingestion     *)
(* endpoint of backend/api_guardian.py stores each event once.             *)
(*                                                                         *)
(* The two agent threads interleave at the queue's lock.  The worker's     *)
(* cycle (_sync_once) is split where another thread, the network or a      *)
(* crash can get in between: after dequeue, after the byte trim, while the *)
(* request is out, and between the marks that follow the reply.  A request *)
(* the worker stopped waiting for may still be processed by the backend.   *)
(***************************************************************************)
EXTENDS EventQueue, FiniteSetsExt

CONSTANTS
    BatchSize,     \* sync_batch_size
    MaxBytes,      \* sync_max_batch_bytes
    Size,          \* encoded size of each event
    Invalid,       \* events the backend's request schema rejects
    PartialAcks,   \* does the backend answer for some events only?
    MaxFaults      \* bound: crashes and unexpected exceptions of a sync cycle

ASSUME PipelineAssumption ==
    /\ BatchSize \in Nat \ {0}
    /\ MaxBytes \in Nat
    /\ Size \in [Event -> Nat]
    /\ Invalid \subseteq Event
    /\ PartialAcks \in BOOLEAN
    /\ MaxFaults \in Nat

VARIABLES
    pc,          \* where the worker thread is in _sync_once; "down": no process
    batch,       \* the events of the cycle
    reply,       \* outcome of the request the worker waits for
    acked,       \* events the reply acknowledges
    quarantined, \* events the reply refuses one by one
    orphans,     \* batches of requests nobody waits for any more
    ingested,    \* event_ids in the backend's guardian_events table
    faults,      \* crashes, and cycles cut short by an unexpected exception, so far
    refused      \* history: events the backend rejected permanently

workerVars == <<pc, batch, reply, acked, quarantined>>
vars == <<queueVars, workerVars, orphans, ingested, faults, refused>>

WorkerPC == {"down", "idle", "leased", "ready", "waiting", "quarantine", "transient"}
ReplyKind == {"none", "results", "permanent", "transient"}

TypeOK ==
    /\ QueueTypeOK
    /\ pc \in WorkerPC
    /\ batch \in SUBSET Event
    /\ reply \in ReplyKind
    /\ acked \in SUBSET Event
    /\ quarantined \in SUBSET Event
    /\ orphans \in SUBSET (SUBSET Event)
    /\ ingested \in SUBSET Event
    /\ faults \in Nat
    /\ refused \in SUBSET Event

Init ==
    /\ QueueInit
    /\ pc = "idle"
    /\ batch = {}
    /\ reply = "none"
    /\ acked = {}
    /\ quarantined = {}
    /\ orphans = {}
    /\ ingested = {}
    /\ faults = 0
    /\ refused = {}

-----------------------------------------------------------------------------
(***************************************************************************)
(* The collection loop (main thread).  On QueueOverflow it logs the rest   *)
(* of the cycle's events and drops them, which changes no state here.      *)
(***************************************************************************)
Collect(e) ==
    /\ pc # "down"
    /\ Enqueue(e)
    /\ UNCHANGED <<workerVars, orphans, ingested, faults, refused>>

-----------------------------------------------------------------------------
(***************************************************************************)
(* The worker thread.                                                      *)
(***************************************************************************)
DequeueBatch ==
    /\ pc = "idle"
    /\ \E B \in Oldest(BatchSize) :
          /\ Dequeue(B)
          /\ batch' = B
    /\ pc' = "leased"
    /\ UNCHANGED <<reply, acked, quarantined, orphans, ingested, faults, refused>>

\* The FIFO prefix of the batch up to and including e.
Prefix(e) == {f \in batch : born[f] <= born[e]}

\* _trim_to_byte_bound keeps the first event whatever its size.
Kept == {e \in batch : \/ Prefix(e) = {e}
                       \/ MapThenSumSet(LAMBDA f : Size[f], Prefix(e)) <= MaxBytes}

\* The rest of the batch goes through mark_failed, which costs it an attempt.
TrimToByteBound ==
    /\ pc = "leased"
    /\ MarkFailed(batch \ Kept, FALSE)
    /\ batch' = Kept
    /\ pc' = "ready"
    /\ UNCHANGED <<reply, acked, quarantined, orphans, ingested, faults, refused>>

PostBatch ==
    /\ pc = "ready"
    /\ pc' = "waiting"
    /\ reply' = "none"
    /\ UNCHANGED <<queueVars, batch, acked, quarantined, orphans, ingested, faults, refused>>

\* A 200 reply whose body parses: acknowledged rows are marked sent.
ReceiveResults ==
    /\ pc = "waiting"
    /\ reply = "results"
    /\ MarkSent(acked)
    /\ pc' = "quarantine"
    /\ UNCHANGED <<batch, reply, acked, quarantined, orphans, ingested, faults, refused>>

EndCycle ==
    /\ batch' = {}
    /\ reply' = "none"
    /\ acked' = {}
    /\ quarantined' = {}

\* Mutant of MarkQuarantined: every cycle takes the transient path.
AlwaysTransient ==
    /\ pc = "quarantine"
    /\ MarkFailed(quarantined, TRUE)
    /\ pc' = "transient"
    /\ UNCHANGED <<batch, reply, acked, quarantined, orphans, ingested, faults, refused>>

\* Refused rows are quarantined; an event with no result at all makes the
\* whole cycle a transient failure.
MarkQuarantined ==
    /\ pc = "quarantine"
    /\ MarkFailed(quarantined, TRUE)
    /\ IF batch \subseteq acked \cup quarantined
       THEN pc' = "idle" /\ EndCycle
       ELSE pc' = "transient" /\ UNCHANGED <<batch, reply, acked, quarantined>>
    /\ UNCHANGED <<orphans, ingested, faults, refused>>

\* 401, 403, 422: every event of the batch is failed for good.
ReceivePermanent ==
    /\ pc = "waiting"
    /\ reply = "permanent"
    /\ MarkFailed(batch, TRUE)
    /\ pc' = "idle"
    /\ EndCycle
    /\ UNCHANGED <<orphans, ingested, faults, refused>>

\* Mutant of ReceiveTransient: any answer counts as acceptance.
AcceptAnyAnswer ==
    /\ pc = "waiting"
    /\ reply = "transient"
    /\ MarkSent(batch)
    /\ pc' = "idle"
    /\ EndCycle
    /\ UNCHANGED <<orphans, ingested, faults, refused>>

\* 429, 5xx, an unparseable body.
ReceiveTransient ==
    /\ pc = "waiting"
    /\ reply = "transient"
    /\ pc' = "transient"
    /\ UNCHANGED <<queueVars, batch, reply, acked, quarantined, orphans, ingested, faults,
                   refused>>

\* No answer in time: the request may still be on its way, or its answer lost.
RequestTimesOut ==
    /\ pc = "waiting"
    /\ pc' = "transient"
    /\ orphans' = IF reply = "none" THEN orphans \cup {batch} ELSE orphans
    /\ reply' = "transient"
    /\ acked' = {}
    /\ quarantined' = {}
    /\ UNCHANGED <<queueVars, batch, ingested, faults, refused>>

\* Mutant of MarkTransientFailure: the rows are left to lease expiry.
LeaveLeased ==
    /\ pc = "transient"
    /\ pc' = "idle"
    /\ EndCycle
    /\ UNCHANGED <<queueVars, orphans, ingested, faults, refused>>

\* Mutant of MarkTransientFailure: a transient failure is final.
TransientIsFinal ==
    /\ pc = "transient"
    /\ MarkFailed(batch, TRUE)
    /\ pc' = "idle"
    /\ EndCycle
    /\ UNCHANGED <<orphans, ingested, faults, refused>>

\* except TransientSyncError: mark_failed for every event of the batch.
MarkTransientFailure ==
    /\ pc = "transient"
    /\ MarkFailed(batch, FALSE)
    /\ pc' = "idle"
    /\ EndCycle
    /\ UNCHANGED <<orphans, ingested, faults, refused>>

\* Any other exception (a body cut short raises IncompleteRead): _run_loop
\* logs it, nothing is marked and the rows stay leased.
CycleAborts ==
    /\ pc = "waiting"
    /\ faults < MaxFaults
    /\ faults' = faults + 1
    /\ pc' = "idle"
    /\ orphans' = IF reply = "none" THEN orphans \cup {batch} ELSE orphans
    /\ EndCycle
    /\ UNCHANGED <<queueVars, ingested, refused>>

-----------------------------------------------------------------------------
(***************************************************************************)
(* The backend's POST /api/v1/guardian/events.                             *)
(***************************************************************************)
\* One commit for the batch; an event already stored answers "duplicate".  A
\* partial answer acknowledges A, refuses Q, and omits X although it is stored.
Ingest ==
    /\ pc = "waiting"
    /\ reply = "none"
    /\ batch \cap Invalid = {}
    /\ reply' = "results"
    /\ \E A, Q, X \in SUBSET batch :
          /\ A \cap Q = {}
          /\ X \cap (A \cup Q) = {}
          /\ ~PartialAcks => A = batch
          /\ ingested' = ingested \cup A \cup X
          /\ acked' = A
          /\ quarantined' = Q
          /\ refused' = refused \cup Q
    /\ UNCHANGED <<queueVars, pc, batch, orphans, faults>>

\* The whole batch is refused: for an event that breaks the schema (422), or for the
\* agent's credentials, whatever it holds (401, 403).
RejectBatch ==
    /\ pc = "waiting"
    /\ reply = "none"
    /\ reply' = "permanent"
    /\ refused' = refused \cup batch
    /\ UNCHANGED <<queueVars, pc, batch, acked, quarantined, orphans, ingested, faults>>

\* 429, 5xx; a 5xx may come after the commit (the response was lost).
FailRequest ==
    /\ pc = "waiting"
    /\ reply = "none"
    /\ ingested' \in {ingested} \cup
          (IF batch \cap Invalid = {} THEN {ingested \cup batch} ELSE {})
    /\ reply' = "transient"
    /\ UNCHANGED <<queueVars, pc, batch, acked, quarantined, orphans, faults, refused>>

\* A request nobody waits for is processed, or lost.
IngestOrphan(b) ==
    /\ b \in orphans
    /\ orphans' = orphans \ {b}
    /\ ingested' \in {ingested} \cup
          (IF b \cap Invalid = {} THEN {ingested \cup b} ELSE {})
    /\ UNCHANGED <<queueVars, workerVars, faults, refused>>

-----------------------------------------------------------------------------
(***************************************************************************)
(* Time and crashes.                                                       *)
(***************************************************************************)
LiveLeases == {e \in Event : lease[e] = "live"}

\* The leases of earlier cycles expire before those of the current batch.
LeaseTimePasses ==
    /\ LeaseElapses(LiveLeases) \/ LeaseElapses(LiveLeases \ batch)
    /\ UNCHANGED <<workerVars, orphans, ingested, faults, refused>>

Crash ==
    /\ pc # "down"
    /\ faults < MaxFaults
    /\ faults' = faults + 1
    /\ orphans' = IF pc = "waiting" /\ reply = "none" THEN orphans \cup {batch} ELSE orphans
    /\ pc' = "down"
    /\ EndCycle
    /\ UNCHANGED <<queueVars, ingested, refused>>

\* GuardianAgent.start: the only caller of recover_expired_leases.
Restart ==
    /\ pc = "down"
    /\ RecoverExpiredLeases
    /\ pc' = "idle"
    /\ UNCHANGED <<batch, reply, acked, quarantined, orphans, ingested, faults, refused>>

-----------------------------------------------------------------------------
Worker ==
    \/ DequeueBatch \/ TrimToByteBound \/ PostBatch
    \/ ReceiveResults \/ MarkQuarantined \/ ReceivePermanent \/ ReceiveTransient
    \/ RequestTimesOut \/ MarkTransientFailure

Backend ==
    \/ Ingest \/ RejectBatch \/ FailRequest
    \/ \E b \in SUBSET Event : IngestOrphan(b)

Next ==
    \/ \E e \in Event : Collect(e)
    \/ Worker
    \/ CycleAborts
    \/ Backend
    \/ LeaseTimePasses
    \/ Crash
    \/ Restart

Spec == Init /\ [][Next]_vars

(***************************************************************************)
(* The worker is a loop that is never blocked for good: every wait has a   *)
(* timeout.  The service manager restarts a crashed agent, time passes,    *)
(* and nothing is assumed of the collectors, of the backend or of crashes. *)
(***************************************************************************)
FairSpec ==
    /\ Spec
    /\ WF_vars(Worker)
    /\ WF_vars(Restart)
    /\ WF_vars(LeaseTimePasses)

-----------------------------------------------------------------------------
(***************************************************************************)
(* No false acknowledgement: a row is 'sent' only if the backend has the   *)
(* event, through timeouts, late requests, retries and crashes             *)
(* (sync.py: "only acknowledged events are marked sent").                  *)
(***************************************************************************)
NoFalseAck == \A e \in Event : status[e] = "sent" => e \in ingested

(***************************************************************************)
(* Bounded capacity: the rows that count against the queue's limit never   *)
(* exceed it, although retries return rows to 'pending' while the          *)
(* collector fills the room that acknowledgements make.                    *)
(***************************************************************************)
CapacityBound == Cardinality(Active) <= MaxSize

(***************************************************************************)
(* The worker works on rows it holds: from dequeue to the mark that ends   *)
(* the cycle every event of the batch is a leased row, so no mark of this  *)
(* cycle lands on a row that has moved on.                                 *)
(***************************************************************************)
BatchLeased ==
    pc \in {"leased", "ready", "waiting", "transient"} =>
        \A e \in batch : status[e] = "sending"

(***************************************************************************)
(* An event is given up only for a cause: its retries are spent or the     *)
(* backend refused it (alone or with the batch it was in).                 *)
(***************************************************************************)
QuarantineHasCause ==
    \A e \in Event : status[e] = "failed" => attempts[e] >= MaxRetries \/ e \in refused

(***************************************************************************)
(* Every queued event is settled: confirmed, or failed after a bounded     *)
(* number of attempts, whatever the backend answers, as long as no cycle   *)
(* is cut short by a crash or an unexpected exception.                     *)
(***************************************************************************)
EventuallySettled ==
    \A e \in Event :
        status[e] = "pending" ~> status[e] \in {"sent", "failed"} \/ faults > 0

(***************************************************************************)
(* The pipeline implements the outbox: settled events stay settled, and    *)
(* the confirmed ones are delivered.                                       *)
(***************************************************************************)
fateOf == [absent |-> "new", pending |-> "held", sending |-> "held",
           sent |-> "confirmed", failed |-> "abandoned"]

fateBar == [e \in Event |-> fateOf[status[e]]]

Box == INSTANCE Outbox WITH Capacity <- MaxSize, fate <- fateBar, delivered <- ingested

ImplementsOutbox == Box!Spec
=============================================================================
