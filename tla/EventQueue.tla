----------------------------- MODULE EventQueue -----------------------------
(***************************************************************************)
(* The agent's durable event queue, guardian/transport/local_queue.py.     *)
(*                                                                         *)
(* EventQueue is a SQLite table guarded by one threading.Lock.  Every      *)
(* public method takes the lock, runs its statements and commits, so a     *)
(* method is one atomic step, and what has been committed survives a       *)
(* crash of the agent.  A row is identified by its UNIQUE event_id; the    *)
(* columns kept here are the ones a method branches on.  The order of      *)
(* created_at is the order of insertion (the AUTOINCREMENT id).  The two   *)
(* purge methods, which nothing in the agent calls, are left out.          *)
(***************************************************************************)
EXTENDS Naturals, FiniteSets

CONSTANTS
    Event,       \* the event_ids the collectors can produce
    MaxSize,     \* EventQueue._max_size
    MaxRetries,  \* the column max_retries (default 5)
    MaxInserts   \* bound: rows ever inserted, ids run from 1 to MaxInserts

ASSUME QueueAssumption ==
    /\ IsFiniteSet(Event)
    /\ MaxSize \in Nat \ {0}
    /\ MaxRetries \in Nat \ {0}
    /\ MaxInserts \in Nat

VARIABLES
    status,    \* column status, or "absent" when there is no row
    attempts,  \* column attempt_count
    born,      \* column id: the rank of created_at
    lease,     \* column lease_expires_at against the clock
    nextId     \* the next AUTOINCREMENT id

queueVars == <<status, attempts, born, lease, nextId>>

RowStatus == {"pending", "sending", "failed", "sent"}

\* lease_expires_at is NULL, in the future, or in the past.
LeaseState == {"none", "live", "expired"}

QueueTypeOK ==
    /\ status \in [Event -> RowStatus \cup {"absent"}]
    /\ attempts \in [Event -> Nat]
    /\ born \in [Event -> Nat]
    /\ lease \in [Event -> LeaseState]
    /\ nextId \in Nat

QueueInit ==
    /\ status = [e \in Event |-> "absent"]
    /\ attempts = [e \in Event |-> 0]
    /\ born = [e \in Event |-> 0]
    /\ lease = [e \in Event |-> "none"]
    /\ nextId = 1

-----------------------------------------------------------------------------
Pending == {e \in Event : status[e] = "pending"}

\* Mutant of Full: leased and failed rows are not counted.
PendingFull == Cardinality(Pending) >= MaxSize

\* SELECT COUNT(*) ... WHERE status != 'sent': what the capacity test counts.
Active == {e \in Event : status[e] \notin {"absent", "sent"}}

Full == Cardinality(Active) >= MaxSize

\* ORDER BY created_at ASC LIMIT n
Oldest(n) ==
    {B \in SUBSET Pending :
        /\ Cardinality(B) <= n
        /\ B # Pending => Cardinality(B) = n
        /\ \A b \in B, p \in Pending \ B : born[b] < born[p]}

(***************************************************************************)
(* The methods.  A duplicate event_id leaves the table unchanged and a     *)
(* full queue raises QueueOverflow, so enqueue changes the table only for  *)
(* an unknown event while there is room.                                   *)
(***************************************************************************)
Enqueue(e) ==
    /\ status[e] = "absent"
    /\ ~Full
    /\ nextId <= MaxInserts
    /\ status' = [status EXCEPT ![e] = "pending"]
    /\ attempts' = [attempts EXCEPT ![e] = 0]
    /\ born' = [born EXCEPT ![e] = nextId]
    /\ lease' = [lease EXCEPT ![e] = "none"]
    /\ nextId' = nextId + 1

\* The batch B moves to 'sending' under a fresh lease.
Dequeue(B) ==
    /\ B # {}
    /\ status' = [e \in Event |-> IF e \in B THEN "sending" ELSE status[e]]
    /\ lease' = [e \in Event |-> IF e \in B THEN "live" ELSE lease[e]]
    /\ UNCHANGED <<attempts, born, nextId>>

Recoverable(e) == status[e] = "sending" /\ lease[e] # "live"

\* Also a step when nothing is recoverable: the UPDATE then matches no row.
RecoverExpiredLeases ==
    /\ status' = [e \in Event |-> IF Recoverable(e) THEN "pending" ELSE status[e]]
    /\ lease' = [e \in Event |-> IF Recoverable(e) THEN "none" ELSE lease[e]]
    /\ UNCHANGED <<attempts, born, nextId>>

MarkSent(S) ==
    /\ status' = [e \in Event |->
                    IF e \in S /\ status[e] = "sending" THEN "sent" ELSE status[e]]
    /\ UNCHANGED <<attempts, born, lease, nextId>>

\* The status mark_failed writes; the row's current status is not consulted.
FailedStatus(e, permanent) ==
    IF permanent \/ attempts[e] + 1 >= MaxRetries THEN "failed" ELSE "pending"

MarkFailed(S, permanent) ==
    LET hit == {e \in S : status[e] # "absent"}
    IN  /\ status' = [e \in Event |->
                        IF e \in hit THEN FailedStatus(e, permanent) ELSE status[e]]
        /\ attempts' = [e \in Event |->
                        IF e \in hit THEN attempts[e] + 1 ELSE attempts[e]]
        /\ UNCHANGED <<born, lease, nextId>>

\* The clock passes the lease_expires_at of the rows S.
LeaseElapses(S) ==
    /\ S # {}
    /\ \A e \in S : lease[e] = "live"
    /\ lease' = [e \in Event |-> IF e \in S THEN "expired" ELSE lease[e]]
    /\ UNCHANGED <<status, attempts, born, nextId>>

-----------------------------------------------------------------------------
(***************************************************************************)
(* Retry budget: whatever cycles, crashes and recoveries it goes through,  *)
(* a row that can still be transmitted has used fewer than MaxRetries      *)
(* attempts, so no event is retried for ever (mark_failed against dequeue  *)
(* and recovery).                                                          *)
(***************************************************************************)
RetryBudget ==
    \A e \in Event : status[e] \in {"pending", "sending"} => attempts[e] < MaxRetries

=============================================================================
