------------------------------- MODULE Outbox -------------------------------
(***************************************************************************)
(* What the agent's store-and-forward path promises, without queue rows,   *)
(* leases, batches, retries or crashes: an accepted event is held until it *)
(* is settled once and for all, either confirmed, which needs the backend  *)
(* to have stored it, or abandoned; and no more than Capacity events are   *)
(* unconfirmed at a time.  SyncPipeline implements this specification.     *)
(***************************************************************************)
EXTENDS Naturals, FiniteSets

CONSTANTS Event, Capacity

VARIABLES
    fate,      \* "new", "held", "confirmed" or "abandoned", for each event
    delivered  \* the events the backend has stored

outboxVars == <<fate, delivered>>

Unconfirmed == {e \in Event : fate[e] \in {"held", "abandoned"}}

Init ==
    /\ fate = [e \in Event |-> "new"]
    /\ delivered = {}

Accept(e) ==
    /\ fate[e] = "new"
    /\ Cardinality(Unconfirmed) < Capacity
    /\ fate' = [fate EXCEPT ![e] = "held"]
    /\ UNCHANGED delivered

\* Delivery needs no confirmation: the acknowledgement may be lost, and a
\* request the agent gave up on may still be processed.
Deliver(S) ==
    /\ \A e \in S : fate[e] # "new"
    /\ delivered' = delivered \cup S
    /\ UNCHANGED fate

Confirm(S) ==
    /\ S \subseteq delivered
    /\ \A e \in S : fate[e] = "held"
    /\ fate' = [e \in Event |-> IF e \in S THEN "confirmed" ELSE fate[e]]
    /\ UNCHANGED delivered

Abandon(S) ==
    /\ \A e \in S : fate[e] = "held"
    /\ fate' = [e \in Event |-> IF e \in S THEN "abandoned" ELSE fate[e]]
    /\ UNCHANGED delivered

Next ==
    \/ \E e \in Event : Accept(e)
    \/ \E S \in SUBSET Event : Deliver(S) \/ Confirm(S) \/ Abandon(S)

Spec == Init /\ [][Next]_outboxVars
=============================================================================
