------------------------ MODULE GuardianAgent_proofs ------------------------
(***************************************************************************)
(* Proofs about the agent process and its collectors, for any number of    *)
(* collectors, events, configurations and launches, and a crash anywhere.  *)
(***************************************************************************)
EXTENDS GuardianAgent, FiniteSetTheorems, SequenceTheorems, TLAPS

-----------------------------------------------------------------------------
(* Types *)

\* The steps of a collector, whichever thread takes them.
CollectorMoves(k) ==
    \/ BeginStart(k) \/ NotInstalled(k) \/ FirstOpen(k) \/ FirstOpenFails(k) \/ ReportRunning(k)
    \/ Session(k) \/ Reconnecting(k)
    \/ SignalStop(k) \/ CloseSession(k) \/ ForgetSession(k) \/ MarkStopped(k)

\* The buffer after one more event: as long as before, or one longer.
LEMMA EvictLength ==
    ASSUME NEW s \in Seq(1..MaxEvents), Len(s) <= MaxQueue, NEW e \in 1..MaxEvents
    PROVE  /\ Evict(s, e) \in Seq(1..MaxEvents)
           /\ Len(Evict(s, e)) <= MaxQueue
           /\ Len(Evict(s, e)) = IF Len(s) >= MaxQueue THEN Len(s) ELSE Len(s) + 1
<1>1. CASE Len(s) < MaxQueue
  BY <1>1, CollectorAssumption, AppendProperties DEF Evict, CollectorAssumption
<1>2. CASE ~(Len(s) < MaxQueue)
  <2>1. s # << >>
    BY <1>2, CollectorAssumption DEF CollectorAssumption
  <2>2. Tail(s) \in Seq(1..MaxEvents) /\ Len(Tail(s)) = Len(s) - 1
    BY <2>1, HeadTailProperties
  <2> DEFINE t == Tail(s)
  <2>3. Evict(s, e) = Append(t, e)
    BY <1>2 DEF Evict
  <2>4. t \in Seq(1..MaxEvents) /\ Len(t) = Len(s) - 1 /\ Len(s) \in Nat
    BY <2>2
  <2> HIDE DEF t
  <2>5. Append(t, e) \in Seq(1..MaxEvents) /\ Len(Append(t, e)) = Len(t) + 1
    BY <2>4, AppendProperties
  <2> QED
    BY <1>2, <2>3, <2>4, <2>5, CollectorAssumption DEF CollectorAssumption
<1> QED
  BY <1>1, <1>2

\* One row replaces another.
LEMMA RowReplaced ==
    ASSUME CollectorTypeOK, NEW k \in Kind, NEW row \in CollectorRow, Len(row.pending) <= MaxQueue,
           collector' = [collector EXCEPT ![k] = row],
           emitted' \in [Kind -> 0..MaxEvents]
    PROVE  CollectorTypeOK'
  BY DEF CollectorTypeOK, CollectorRow

\* Two rows of a collector agree on its events and its statistics.
SameStatistics(d, c) ==
    /\ d.pending = c.pending /\ d.counting = c.counting
    /\ d.received = c.received /\ d.dropped = c.dropped /\ d.handed = c.handed

\* What starts, reconnects and stops a collector leaves its events and statistics.
LEMMA StatusMoves ==
    ASSUME CollectorTypeOK, NEW k \in Kind,
           \/ BeginStart(k) \/ NotInstalled(k) \/ FirstOpen(k) \/ FirstOpenFails(k) \/ ReportRunning(k)
           \/ Reconnecting(k)
           \/ SignalStop(k) \/ CloseSession(k) \/ ForgetSession(k) \/ MarkStopped(k)
    PROVE  \E row \in CollectorRow :
              /\ SameStatistics(row, collector[k])
              /\ collector' = [collector EXCEPT ![k] = row]
              /\ UNCHANGED emitted
<1> DEFINE c == collector[k]
<1>0. c \in CollectorRow
  BY DEF CollectorTypeOK
<1> USE DEF Health, Worker
<1>1. CASE BeginStart(k)
  <2> DEFINE row == [c EXCEPT !.health = "starting", !.stop = FALSE, !.etw = "idle"]
  <2>1. row \in CollectorRow /\ SameStatistics(row, c)
    BY <1>0 DEF CollectorRow, SameStatistics
  <2>2. collector' = [collector EXCEPT ![k] = row] /\ UNCHANGED emitted
    BY <1>1 DEF BeginStart
  <2> HIDE DEF row
  <2> QED
    BY <2>1, <2>2
<1>2. CASE NotInstalled(k)
  <2> DEFINE row == [c EXCEPT !.health = "degraded"]
  <2>1. row \in CollectorRow /\ SameStatistics(row, c)
    BY <1>0 DEF CollectorRow, SameStatistics
  <2>2. collector' = [collector EXCEPT ![k] = row] /\ UNCHANGED emitted
    BY <1>2 DEF NotInstalled
  <2> HIDE DEF row
  <2> QED
    BY <2>1, <2>2
<1>3. CASE FirstOpen(k)
  <2> DEFINE row == [c EXCEPT !.etw = "live"]
  <2>1. row \in CollectorRow /\ SameStatistics(row, c)
    BY <1>0 DEF CollectorRow, SameStatistics
  <2>2. collector' = [collector EXCEPT ![k] = row] /\ UNCHANGED emitted
    BY <1>3 DEF FirstOpen
  <2> HIDE DEF row
  <2> QED
    BY <2>1, <2>2
<1>4. CASE FirstOpenFails(k)
  <2>w. PICK w \in Worker : w = IF c.stop THEN "none" ELSE "waiting"
    BY DEF Worker
  <2> DEFINE row == [c EXCEPT !.health = "degraded", !.worker = w]
  <2>1. row \in CollectorRow /\ SameStatistics(row, c)
    BY <1>0 DEF CollectorRow, SameStatistics
  <2>2. collector' = [collector EXCEPT ![k] = row] /\ UNCHANGED emitted
    BY <1>4, <2>w DEF FirstOpenFails
  <2> HIDE DEF row
  <2> QED
    BY <2>1, <2>2
<1>5. CASE ReportRunning(k)
  <2> DEFINE row == [c EXCEPT !.health = "running"]
  <2>1. row \in CollectorRow /\ SameStatistics(row, c)
    BY <1>0 DEF CollectorRow, SameStatistics
  <2>2. collector' = [collector EXCEPT ![k] = row] /\ UNCHANGED emitted
    BY <1>5 DEF ReportRunning
  <2> HIDE DEF row
  <2> QED
    BY <2>1, <2>2
<1>6. CASE Wake(k)
  <2>w. PICK w \in Worker : w = IF c.stop THEN "none" ELSE "renewing"
    BY DEF Worker
  <2> DEFINE row == [c EXCEPT !.worker = w]
  <2>1. row \in CollectorRow /\ SameStatistics(row, c)
    BY <1>0 DEF CollectorRow, SameStatistics
  <2>2. collector' = [collector EXCEPT ![k] = row] /\ UNCHANGED emitted
    BY <1>6, <2>w DEF Wake
  <2> HIDE DEF row
  <2> QED
    BY <2>1, <2>2
<1>7. CASE Reopen(k)
  <2> DEFINE row == [c EXCEPT !.etw = "live", !.worker = "reporting"]
  <2>1. row \in CollectorRow /\ SameStatistics(row, c)
    BY <1>0 DEF CollectorRow, SameStatistics
  <2>2. collector' = [collector EXCEPT ![k] = row] /\ UNCHANGED emitted
    BY <1>7 DEF Reopen
  <2> HIDE DEF row
  <2> QED
    BY <2>1, <2>2
<1>8. CASE ReopenFails(k)
  <2> DEFINE row == [c EXCEPT !.worker = "waiting"]
  <2>1. row \in CollectorRow /\ SameStatistics(row, c)
    BY <1>0 DEF CollectorRow, SameStatistics
  <2>2. collector' = [collector EXCEPT ![k] = row] /\ UNCHANGED emitted
    BY <1>8 DEF ReopenFails
  <2> HIDE DEF row
  <2> QED
    BY <2>1, <2>2
<1>9. CASE Reconnected(k)
  <2> DEFINE row == [c EXCEPT !.health = "running", !.worker = "none"]
  <2>1. row \in CollectorRow /\ SameStatistics(row, c)
    BY <1>0 DEF CollectorRow, SameStatistics
  <2>2. collector' = [collector EXCEPT ![k] = row] /\ UNCHANGED emitted
    BY <1>9 DEF Reconnected
  <2> HIDE DEF row
  <2> QED
    BY <2>1, <2>2
<1>10. CASE SignalStop(k)
  <2> DEFINE row == [c EXCEPT !.stop = TRUE]
  <2>1. row \in CollectorRow /\ SameStatistics(row, c)
    BY <1>0 DEF CollectorRow, SameStatistics
  <2>2. collector' = [collector EXCEPT ![k] = row] /\ UNCHANGED emitted
    BY <1>10 DEF SignalStop
  <2> HIDE DEF row
  <2> QED
    BY <2>1, <2>2
<1>11. CASE CloseSession(k)
  <2> DEFINE row == [c EXCEPT !.etw = "idle"]
  <2>1. row \in CollectorRow /\ SameStatistics(row, c)
    BY <1>0 DEF CollectorRow, SameStatistics
  <2>2. collector' = [collector EXCEPT ![k] = row] /\ UNCHANGED emitted
    BY <1>11 DEF CloseSession
  <2> HIDE DEF row
  <2> QED
    BY <2>1, <2>2
<1>12. CASE MarkStopped(k)
  <2> DEFINE row == [c EXCEPT !.health = "stopped"]
  <2>1. row \in CollectorRow /\ SameStatistics(row, c)
    BY <1>0 DEF CollectorRow, SameStatistics
  <2>2. collector' = [collector EXCEPT ![k] = row] /\ UNCHANGED emitted
    BY <1>12 DEF MarkStopped
  <2> HIDE DEF row
  <2> QED
    BY <2>1, <2>2
<1>13. CASE Renew(k)
  <2> DEFINE fresh == [c EXCEPT !.etw = "idle", !.worker = "opening"]
             back == [c EXCEPT !.worker = "waiting"]
  <2>1. /\ fresh \in CollectorRow /\ SameStatistics(fresh, c)
        /\ back \in CollectorRow /\ SameStatistics(back, c)
    BY <1>0 DEF CollectorRow, SameStatistics
  <2>2. /\ UNCHANGED emitted
        /\ \/ collector' = [collector EXCEPT ![k] = fresh]
           \/ collector' = [collector EXCEPT ![k] = back]
    BY <1>13 DEF Renew
  <2> HIDE DEF fresh, back
  <2> QED
    BY <2>1, <2>2
<1>14. CASE ForgetSession(k)
  <2>o. PICK o \in Nat : o = IF c.etw = "live" THEN c.orphans + 1 ELSE c.orphans
    BY <1>0 DEF CollectorRow, SameStatistics
  <2> DEFINE row == [c EXCEPT !.etw = "none", !.orphans = o]
  <2>1. row \in CollectorRow /\ SameStatistics(row, c)
    BY <1>0 DEF CollectorRow, SameStatistics
  <2>2. collector' = [collector EXCEPT ![k] = row] /\ UNCHANGED emitted
    BY <1>14, <2>o DEF ForgetSession
  <2> HIDE DEF row
  <2> QED
    BY <2>1, <2>2
<1> QED
  BY <1>1, <1>2, <1>3, <1>4, <1>5, <1>6, <1>7, <1>8, <1>9, <1>10, <1>11, <1>12, <1>13, <1>14 DEF Reconnecting

\* A step of a collector keeps its buffer bounded.
LEMMA CollectorTypes ==
    ASSUME CollectorTypeOK, NEW k \in Kind, CollectorMoves(k)
    PROVE  CollectorTypeOK'
<1> DEFINE c == collector[k]
<1>1. c \in CollectorRow /\ Len(c.pending) <= MaxQueue
  BY DEF CollectorTypeOK, CollectorRow
<1>2. emitted \in [Kind -> 0..MaxEvents]
  BY DEF CollectorTypeOK
<1>3. CASE \/ BeginStart(k) \/ NotInstalled(k) \/ FirstOpen(k) \/ FirstOpenFails(k) \/ ReportRunning(k)
           \/ Reconnecting(k)
           \/ SignalStop(k) \/ CloseSession(k) \/ ForgetSession(k) \/ MarkStopped(k)
  <2>1. PICK row \in CollectorRow : /\ SameStatistics(row, c)
                                   /\ collector' = [collector EXCEPT ![k] = row]
                                   /\ UNCHANGED emitted
    BY <1>3, StatusMoves
  <2> QED
    BY <1>1, <1>2, <2>1, RowReplaced DEF SameStatistics
<1>4. CASE Session(k)
  <2>0. ASSUME emitted[k] < MaxEvents, emitted' = [emitted EXCEPT ![k] = @ + 1]
        PROVE  emitted' \in [Kind -> 0..MaxEvents]
    BY <2>0, <1>2, CollectorAssumption DEF CollectorAssumption
  <2>1. CASE Emit(k)
    <3>1. PICK id \in Identity(k) : collector' = [collector EXCEPT
           ![k].pending = Evict(@, id),
           ![k].counting = IF Len(collector[k].pending) >= MaxQueue THEN "evicted" ELSE "kept"]
      BY <2>1 DEF Emit
    <3>2. id \in 1..MaxEvents
      BY <1>2, <2>1, CollectorAssumption DEF Identity, Emit, CollectorAssumption
    <3>3. PICK s \in Seq(1..MaxEvents) : s = Evict(c.pending, id) /\ Len(s) <= MaxQueue
      BY <1>1, <3>2, EvictLength DEF CollectorRow
    <3>4. PICK what \in Counting : what = IF Len(c.pending) >= MaxQueue THEN "evicted" ELSE "kept"
      BY DEF Counting
    <3>5. collector' = [collector EXCEPT ![k] = [c EXCEPT !.pending = s, !.counting = what]]
      BY <3>1, <3>3, <3>4
    <3>6. [c EXCEPT !.pending = s, !.counting = what] \in CollectorRow
      BY <1>1, <3>3, <3>4 DEF CollectorRow
    <3>7. [c EXCEPT !.pending = s, !.counting = what].pending = s
      BY <1>1 DEF CollectorRow
    <3> QED
      BY <2>0, <2>1, <3>3, <3>5, <3>6, <3>7, RowReplaced DEF Emit
  <2>2. CASE Count(k)
    <3>a. PICK r \in Nat : r = c.received + 1
      BY <1>1 DEF CollectorRow
    <3>b. PICK d \in Nat : d = IF c.counting = "evicted" THEN c.dropped + 1 ELSE c.dropped
      BY <1>1 DEF CollectorRow
    <3> DEFINE row == [c EXCEPT !.received = r, !.dropped = d, !.counting = "none"]
    <3>1. row \in CollectorRow /\ row.pending = c.pending
      BY <1>1 DEF CollectorRow, Counting
    <3>2. collector' = [collector EXCEPT ![k] = row]
      BY <2>2, <3>a, <3>b DEF Count
    <3> HIDE DEF row
    <3> QED
      BY <1>1, <1>2, <2>2, <3>1, <3>2, RowReplaced DEF Count
  <2> QED
    BY <1>4, <2>1, <2>2 DEF Session
<1> QED
  BY <1>3, <1>4 DEF CollectorMoves

\* collect empties the buffer.
LEMMA DrainTypes ==
    ASSUME CollectorTypeOK, NEW k \in Kind, Drain(k)
    PROVE  CollectorTypeOK'
<1> DEFINE c == collector[k]
<1>1. c \in CollectorRow
  BY DEF CollectorTypeOK, CollectorRow
<1>2. PICK none \in Seq(1..MaxEvents) : none = << >> /\ Len(none) = 0
  BY EmptySeq
<1>a. PICK h \in Nat : h = c.handed + Len(c.pending)
  BY <1>1 DEF CollectorRow
<1> DEFINE row == [c EXCEPT !.pending = none, !.handed = h]
<1>3. row \in CollectorRow /\ row.pending = none
  BY <1>1 DEF CollectorRow
<1>4. collector' = [collector EXCEPT ![k] = row]
  BY <1>2, <1>a DEF Drain
<1>5. Len(row.pending) <= MaxQueue
  BY <1>2, <1>3, CollectorAssumption DEF CollectorAssumption
<1> HIDE DEF row
<1> QED
  BY <1>3, <1>4, <1>5, RowReplaced DEF Drain, CollectorTypeOK

\* A process that starts, and the sessions of one that ends.
LEMMA NewCollectorTypes ==
    ASSUME NEW inst \in BOOLEAN
    PROVE  /\ [k \in Kind |-> NewCollector(inst)] \in [Kind -> CollectorRow]
           /\ Len(NewCollector(inst).pending) = 0
<1>1. << >> \in Seq(1..MaxEvents) /\ Len(<< >>) = 0
  BY EmptySeq
<1> QED
  BY <1>1 DEF NewCollector, CollectorRow, Health, Worker, Counting

\* A process that is not there has the fields of one that is.
LEMMA DownRow ==
    ASSUME NEW launches \in 0..MaxLaunches, NEW c \in Config
    PROVE  Down(launches, c) \in AgentRow
<1>1. 1 \in DOMAIN StartOrder
  BY AgentAssumption DEF AgentAssumption
<1>2. << >> \in Seq(EventId)
  BY EmptySeq
<1> QED
  BY <1>1, <1>2 DEF Down, AgentRow, Phase

\* The thread is always at one of the collectors.
LEMMA HereIsKind ==
    ASSUME agent \in AgentRow
    PROVE  Here \in Kind
  BY AgentAssumption DEF AgentAssumption, AgentRow, Here

\* The step to the next collector, or past the last one.
LEMMA NextOrTypes ==
    ASSUME agent \in AgentRow, NEW pc \in Phase, NEW after \in Phase, NextOr(pc, after)
    PROVE  agent' \in AgentRow
<1>1. agent.at \in 1..Len(StartOrder) /\ DOMAIN StartOrder = 1..Len(StartOrder) /\ Len(StartOrder) \in Nat
  BY AgentAssumption DEF AgentAssumption, AgentRow
<1>2. CASE agent.at < Len(StartOrder)
  <2>1. PICK at \in DOMAIN StartOrder : at = agent.at + 1
    BY <1>1, <1>2
  <2>2. agent' = [agent EXCEPT !.pc = pc, !.at = at]
    BY <1>2, <2>1 DEF NextOr
  <2> QED
    BY <2>2 DEF AgentRow
<1>3. CASE ~(agent.at < Len(StartOrder))
  <2>1. PICK at \in DOMAIN StartOrder : at = 1
    BY <1>1
  <2>2. agent' = [agent EXCEPT !.pc = after, !.at = at]
    BY <1>3, <2>1 DEF NextOr
  <2> QED
    BY <2>2 DEF AgentRow
<1> QED
  BY <1>2, <1>3

-----------------------------------------------------------------------------
(* The agent's variables keep their types.  The events dealt with are at   *)
(* least those stored, so that what a full queue reports is a number; and  *)
(* who it is the agent knows from its second step on.                      *)
AgentInv ==
    /\ agent \in AgentRow
    /\ agent.count < agent.pos
    /\ agent.pc \notin {"down", "identify"} => agent.identity \in Identities

TypeInv ==
    /\ TypeOK
    /\ IsFiniteSet(unsent)
    /\ AgentInv

\* The types hold before the first launch,
LEMMA InitTypes == Init => TypeInv
<1> SUFFICES ASSUME Init PROVE TypeInv
  OBVIOUS
<1>1. CollectorTypeOK
  <2>1. TRUE \in BOOLEAN
    OBVIOUS
  <2>2. collector \in [Kind -> CollectorRow]
    BY <2>1, NewCollectorTypes DEF Init, CollectorInit
  <2>3. \A k \in Kind : Len(collector[k].pending) = 0
    BY <2>1, NewCollectorTypes DEF Init, CollectorInit
  <2>4. emitted \in [Kind -> 0..MaxEvents]
    BY CollectorAssumption DEF Init, CollectorInit, CollectorAssumption
  <2> QED
    BY <2>2, <2>3, <2>4, CollectorAssumption DEF CollectorTypeOK, CollectorAssumption
<1>2. PICK c \in Config : agent = Down(0, c)
  BY DEF Init
<1>3. agent \in AgentRow
  BY <1>2, DownRow, AgentAssumption DEF AgentAssumption
<1>4. AgentInv
  BY <1>2, <1>3 DEF Down, AgentInv
<1>5. IsFiniteSet(unsent) /\ Cardinality(unsent) <= QueueSize
  BY FS_EmptySet, AgentAssumption DEF Init, AgentAssumption
<1>6. registered \in Seq([key : Key, host : Host])
  BY EmptySeq DEF Init
<1> QED
  BY <1>1, <1>3, <1>4, <1>5, <1>6 DEF Init, TypeInv, TypeOK

\* The process ends, with its sessions.
LEMMA GoneTypes ==
    ASSUME TypeInv, Gone
    PROVE  CollectorTypeOK' /\ AgentInv'
<1>1. agent.launches \in 0..MaxLaunches /\ agent.config \in Config
  BY DEF TypeInv, TypeOK, AgentRow
<1>2. agent' = Down(agent.launches, agent.config)
  BY DEF Gone
<1>3. agent' \in AgentRow
  BY <1>1, <1>2, DownRow
<1>4. AgentInv'
  BY <1>2, <1>3 DEF Down, AgentInv
<1>5. CollectorTypeOK'
  <2>1. TRUE \in BOOLEAN
    OBVIOUS
  <2>2. collector' = [k \in Kind |-> NewCollector(TRUE)] /\ UNCHANGED emitted
    BY DEF Gone
  <2>3. collector' \in [Kind -> CollectorRow]
    BY <2>1, <2>2, NewCollectorTypes
  <2>4. \A k \in Kind : Len(collector'[k].pending) = 0
    BY <2>1, <2>2, NewCollectorTypes
  <2>5. \A k \in Kind : Len(collector'[k].pending) <= MaxQueue
    BY <2>4, CollectorAssumption DEF CollectorAssumption
  <2>6. emitted' \in [Kind -> 0..MaxEvents]
    BY <2>2 DEF TypeInv, TypeOK, CollectorTypeOK
  <2> QED
    BY <2>3, <2>5, <2>6 DEF CollectorTypeOK
<1> QED
  BY <1>4, <1>5

\* The rows of the queue move to the sent ones.
LEMMA DeliverTypes ==
    ASSUME TypeInv, Deliver
    PROVE  TypeInv'
<1>1. PICK S \in SUBSET unsent : unsent' = unsent \ S /\ sent' = sent \cup S
  BY DEF Deliver
<1>2. IsFiniteSet(unsent') /\ Cardinality(unsent') <= Cardinality(unsent)
  BY <1>1, FS_Subset DEF TypeInv
<1>3. Cardinality(unsent) \in Nat /\ Cardinality(unsent') \in Nat
  BY <1>2, FS_CardinalityType DEF TypeInv
<1>4. Cardinality(unsent') <= QueueSize
  BY <1>2, <1>3, AgentAssumption DEF TypeInv, TypeOK, AgentAssumption
<1> QED
  BY <1>1, <1>2, <1>4 DEF Deliver, TypeInv, AgentInv, TypeOK, CollectorTypeOK

\* A registration adds a record, or changes the host of those of its key.
LEMMA UpsertTypes ==
    ASSUME TypeInv, NEW key \in Key, NEW host \in Host, Upsert(key, host)
    PROVE  /\ registered' \in Seq([key : Key, host : Host])
           /\ Len(registered') >= Len(registered)
<1> DEFINE Row == [key : Key, host : Host]
<1>1. registered \in Seq(Row) /\ Len(registered) \in Nat
  BY DEF TypeInv, TypeOK
<1>2. CASE RecordsOf(key) = {}
  <2>1. PICK row \in Row : row = [key |-> key, host |-> host]
    OBVIOUS
  <2>2. registered' = Append(registered, row)
    BY <1>2, <2>1 DEF Upsert
  <2> HIDE DEF Row
  <2>3. registered' \in Seq(Row) /\ Len(registered') = Len(registered) + 1
    BY <1>1, <2>2, AppendProperties
  <2> QED
    BY <1>1, <2>3 DEF Row
<1>3. CASE RecordsOf(key) # {}
  <2>1. registered' = [i \in 1..Len(registered) |->
                  IF i \in RecordsOf(key) THEN [registered[i] EXCEPT !.host = host] ELSE registered[i]]
    <3>1. DOMAIN registered = 1..Len(registered)
      BY <1>1, LenProperties
    <3> QED
      BY <1>3, <3>1 DEF Upsert
  <2>2. \A i \in 1..Len(registered) :
           (IF i \in RecordsOf(key) THEN [registered[i] EXCEPT !.host = host] ELSE registered[i]) \in Row
    <3> SUFFICES ASSUME NEW i \in 1..Len(registered)
                 PROVE  registered[i] \in Row /\ [registered[i] EXCEPT !.host = host] \in Row
      OBVIOUS
    <3>1. registered[i] \in Row
      <4> HIDE DEF Row
      <4> QED
        BY <1>1, ElementOfSeq
    <3> QED
      BY <3>1
  <2>3. registered' \in [1..Len(registered) -> Row]
    BY <2>1, <2>2
  <2> HIDE DEF Row
  <2>4. registered' \in Seq(Row) /\ Len(registered') = Len(registered)
    BY <1>1, <2>3, LenProperties
  <2> QED
    BY <1>1, <2>4 DEF Row
<1> QED
  BY <1>2, <1>3

\* A step that leaves the queue and the backend alone.
LEMMA OwnStepTypes ==
    ASSUME TypeInv, AgentInv', CollectorTypeOK',
           file' \in Identities \cup {NoIdentity}, UNCHANGED <<unsent, sent, registered>>
    PROVE  TypeInv'
  BY DEF TypeInv, TypeOK, AgentInv

\* What may change in the agent's row while the cycle's counters stay.
LEMMA PhaseTypes ==
    ASSUME AgentInv, agent.pc \notin {"down", "identify"}, NEW pc \in Phase, Goto(pc)
    PROVE  AgentInv'
  BY DEF AgentInv, AgentRow, Goto

\* and when the thread goes on to the next collector.
LEMMA NextCollectorTypes ==
    ASSUME AgentInv, agent.pc \notin {"down", "identify"},
           NEW pc \in Phase, NEW after \in Phase, NextOr(pc, after)
    PROVE  AgentInv'
<1>1. agent' \in AgentRow
  BY NextOrTypes DEF AgentInv
<1>2. agent'.count = agent.count /\ agent'.pos = agent.pos /\ agent'.identity = agent.identity
  BY DEF AgentInv, AgentRow, NextOr
<1> QED
  BY <1>1, <1>2 DEF AgentInv

\* They are kept by the steps of start,
LEMMA StartTypes ==
    ASSUME TypeInv, Launch \/ Identify \/ Create \/ Open \/ Report \/ Enter
    PROVE  TypeInv'
<1>0. /\ agent \in AgentRow /\ CollectorTypeOK /\ file \in Identities \cup {NoIdentity}
      /\ Here \in Kind /\ AgentInv
  BY HereIsKind DEF TypeInv, TypeOK
<1>1. CASE Launch
  <2>1. PICK c \in Config, inst \in BOOLEAN :
          /\ agent' = [Down(agent.launches + 1, c) EXCEPT !.pc = "identify"]
          /\ collector' = [k \in Kind |-> NewCollector(inst)]
    BY <1>1 DEF Launch
  <2>2. PICK n \in 0..MaxLaunches : n = agent.launches + 1
    BY <1>0, <1>1, AgentAssumption DEF Launch, AgentRow, AgentAssumption
  <2>3. Down(n, c) \in AgentRow /\ Down(n, c).count = 0 /\ Down(n, c).pos = 1
    BY DownRow DEF Down
  <2>4. agent' = [Down(n, c) EXCEPT !.pc = "identify"]
    BY <2>1, <2>2
  <2>5. AgentInv'
    BY <2>3, <2>4 DEF AgentInv, AgentRow, Phase
  <2>6. collector' \in [Kind -> CollectorRow] /\ \A k \in Kind : Len(collector'[k].pending) = 0
    BY <2>1, NewCollectorTypes
  <2>7. \A k \in Kind : Len(collector'[k].pending) <= MaxQueue
    BY <2>6, CollectorAssumption DEF CollectorAssumption
  <2>8. CollectorTypeOK'
    BY <1>0, <1>1, <2>6, <2>7 DEF Launch, CollectorTypeOK
  <2> QED
    BY <1>0, <1>1, <2>5, <2>8, OwnStepTypes DEF Launch, durable
<1>2. CASE Identify
  <2>1. CollectorTypeOK'
    BY <1>0, <1>2 DEF Identify, CollectorTypeOK
  <2>2. agent.launches \in 0..MaxLaunches /\ agent.config \in Config
    BY <1>0 DEF AgentRow
  <2>4. Ensured(agent.config) \in Identities
    BY <1>0, <2>2 DEF Ensured, Identities, Key, Host
  <2>5. CASE agent' = [agent EXCEPT !.pc = "create", !.identity = Ensured(agent.config)]
             /\ file' = Ensured(agent.config)
    <3>1. AgentInv'
      BY <1>0, <2>4, <2>5 DEF AgentInv, AgentRow, Phase
    <3> QED
      BY <1>2, <2>1, <2>4, <2>5, <3>1, OwnStepTypes DEF Identify
  <2>6. CASE agent' = Down(agent.launches, agent.config) /\ UNCHANGED file
    <3>1. AgentInv'
      BY <2>2, <2>6, DownRow DEF Down, AgentInv
    <3> QED
      BY <1>0, <1>2, <2>1, <2>6, <3>1, OwnStepTypes DEF Identify
  <2> QED
    BY <1>2, <2>5, <2>6 DEF Identify
<1>3. CASE Create
  <2>1. CollectorTypeOK'
    BY <1>0, <1>3, CollectorTypes DEF Create, CollectorMoves
  <2> QED
    BY <1>0, <1>3, <2>1, PhaseTypes, OwnStepTypes DEF Create, Phase, durable
<1>4. CASE Open
  <2>1. CollectorTypeOK'
    BY <1>0, <1>4, CollectorTypes DEF Open, CollectorMoves
  <2>2. AgentInv'
    BY <1>0, <1>4, PhaseTypes, NextCollectorTypes DEF Open, Phase
  <2> QED
    BY <1>0, <1>4, <2>1, <2>2, OwnStepTypes DEF Open, durable
<1>5. CASE Report
  <2>1. CollectorTypeOK'
    BY <1>0, <1>5, CollectorTypes DEF Report, CollectorMoves
  <2>2. AgentInv'
    BY <1>0, <1>5, NextCollectorTypes DEF Report, Phase
  <2> QED
    BY <1>0, <1>5, <2>1, <2>2, OwnStepTypes DEF Report, durable
<1>6. CASE Enter
  <2>1. CollectorTypeOK'
    BY <1>0, <1>6 DEF Enter, CollectorTypeOK
  <2>2. AgentInv'
    BY <1>0, <1>6 DEF Enter, AgentRow, Phase, AgentInv
  <2> QED
    BY <1>0, <1>6, <2>1, <2>2, OwnStepTypes DEF Enter, durable
<1> QED
  BY <1>1, <1>2, <1>3, <1>4, <1>5, <1>6

\* by what the agent asks of the backend,
LEMMA RegistrationTypes ==
    ASSUME TypeInv, Register \/ SaveServerId
    PROVE  TypeInv'
<1> DEFINE Records == Seq([key : Key, host : Host])
<1>0. /\ AgentInv /\ agent \in AgentRow /\ CollectorTypeOK /\ file \in Identities \cup {NoIdentity}
      /\ registered \in Records /\ agent.config \in Config
  BY DEF TypeInv, TypeOK, AgentRow
<1>l. Len(registered) \in Nat /\ DOMAIN registered = 1..Len(registered)
  BY <1>0
<1> HIDE DEF Records
<1>1. ASSUME UNCHANGED <<collector, emitted>> PROVE CollectorTypeOK'
  BY <1>0, <1>1 DEF CollectorTypeOK
<1>2. CASE Register
  <2>1. AgentInv'
    BY <1>0, <1>2 DEF Register, Goto, AgentRow, Phase, AgentInv
  <2>2. registered' \in Records
    <3>1. CASE UNCHANGED registered
      BY <1>0, <1>2, <3>1 DEF Register
    <3>2. CASE Upsert(agent.config.key, agent.identity.host)
      <4>1. agent.identity \in Identities
        BY <1>0, <1>2 DEF AgentInv, Register
      <4>2. agent.config.key \in Key /\ agent.identity.host \in Host
        BY <1>0, <4>1 DEF Key, Identities
      <4>3. registered' \in Records /\ Len(registered') >= Len(registered)
        BY <3>2, <4>2, UpsertTypes DEF Records
      <4>4. Len(registered') \in Nat
        BY <4>3 DEF Records
      <4> QED
        BY <1>0, <1>2, <1>l, <4>3, <4>4 DEF Register
    <3> QED
      BY <1>2, <3>1, <3>2 DEF Register
  <2> QED
    BY <1>1, <1>2, <2>1, <2>2 DEF Register, TypeInv, TypeOK, AgentInv, durable, Records
<1>3. CASE SaveServerId
  <2>1. PICK i \in RecordsOf(agent.config.key) :
          /\ agent' = [agent EXCEPT !.pc = "enter", !.identity = [agent.identity EXCEPT !.server = i]]
          /\ file' \in {[agent.identity EXCEPT !.server = i], file}
    BY <1>3 DEF SaveServerId
  <2>2. agent.identity \in Identities
    BY <1>0, <1>3 DEF AgentInv, SaveServerId
  <2>5. i \in Nat
    BY <1>l, <2>1 DEF RecordsOf
  <2>3. [agent.identity EXCEPT !.server = i] \in Identities
    BY <2>2, <2>5 DEF Identities
  <2>4. AgentInv'
    BY <1>0, <2>1, <2>3 DEF AgentInv, AgentRow, Phase
  <2> QED
    BY <1>0, <1>1, <1>3, <2>1, <2>3, <2>4, OwnStepTypes DEF SaveServerId
<1> QED
  BY <1>2, <1>3

\* What the cycle holds back is put into the queue, event by event.
LEMMA CycleTypes ==
    ASSUME TypeInv, Check \/ DrainHere \/ Enqueue \/ CycleEnds
    PROVE  TypeInv'
<1>0. /\ AgentInv /\ agent \in AgentRow /\ CollectorTypeOK /\ file \in Identities \cup {NoIdentity}
      /\ Here \in Kind
  BY HereIsKind DEF TypeInv, TypeOK
<1>1. ASSUME UNCHANGED <<collector, emitted>> PROVE CollectorTypeOK'
  BY <1>0, <1>1 DEF CollectorTypeOK
<1>2. CASE Check
  <2>1. AgentInv'
    BY <1>0, <1>2 DEF Check, AgentInv, AgentRow, Phase
  <2> QED
    BY <1>0, <1>1, <1>2, <2>1, OwnStepTypes DEF Check, durable
<1>3. CASE DrainHere
  <2> DEFINE pending == collector[Here].pending
             more == [i \in DOMAIN pending |-> <<Here, pending[i]>>]
  <2>1. CollectorTypeOK'
    BY <1>0, <1>3, DrainTypes DEF DrainHere
  <2>2. more \in Seq(EventId)
    <3>1. pending \in Seq(1..MaxEvents)
      BY <1>0 DEF CollectorTypeOK, CollectorRow
    <3>2. PICK n \in Nat : n = Len(pending) /\ DOMAIN pending = 1..n
      BY <3>1
    <3>5. \A i \in 1..n : pending[i] \in 1..MaxEvents
      BY <3>1, <3>2, ElementOfSeq
    <3>3. \A i \in 1..n : <<Here, pending[i]>> \in EventId
      <4> HIDE DEF pending
      <4> QED
        BY <1>0, <3>5 DEF EventId
    <3>4. more \in [1..n -> EventId]
      BY <3>2, <3>3
    <3> HIDE DEF more
    <3> QED
      BY <3>4
  <2>3. agent.batch \o more \in Seq(EventId)
    <3> HIDE DEF more
    <3> QED
      BY <1>0, <2>2, ConcatProperties DEF AgentRow
  <2>4. PICK batch \in Seq(EventId) : batch = agent.batch \o more
    BY <2>3
  <2>5. PICK pc \in {"drain", "enqueue"}, at \in DOMAIN StartOrder :
          agent' = [agent EXCEPT !.batch = batch, !.pc = pc, !.at = at]
    <3>1. agent.at \in 1..Len(StartOrder) /\ DOMAIN StartOrder = 1..Len(StartOrder)
          /\ Len(StartOrder) \in Nat
      BY <1>0, AgentAssumption DEF AgentAssumption, AgentRow
    <3>2. CASE agent.at < Len(StartOrder)
      <4>1. agent.at + 1 \in DOMAIN StartOrder
        BY <3>1, <3>2
      <4>2. agent' = [agent EXCEPT !.batch = batch, !.pc = "drain", !.at = agent.at + 1]
        BY <1>3, <2>4, <3>2 DEF DrainHere
      <4> QED
        BY <4>1, <4>2
    <3>3. CASE ~(agent.at < Len(StartOrder))
      <4>1. 1 \in DOMAIN StartOrder
        BY <3>1
      <4>2. agent' = [agent EXCEPT !.batch = batch, !.pc = "enqueue", !.at = 1]
        BY <1>3, <2>4, <3>3 DEF DrainHere
      <4> QED
        BY <4>1, <4>2
    <3> QED
      BY <3>2, <3>3
  <2>6. AgentInv'
    BY <1>0, <1>3, <2>5 DEF DrainHere, AgentInv, AgentRow, Phase
  <2> QED
    BY <1>0, <1>3, <2>1, <2>6, OwnStepTypes DEF DrainHere, durable
<1>4. CASE Enqueue
  <2> DEFINE e == agent.batch[agent.pos]
  <2>1. /\ agent.pos \in Nat /\ agent.count \in Nat /\ agent.reported \in Nat
        /\ agent.count < agent.pos /\ agent.batch \in Seq(EventId) /\ Len(agent.batch) \in Nat
        /\ agent.identity \in Identities
    BY <1>0, <1>4 DEF AgentRow, AgentInv, Enqueue
  <2>2. e \in EventId
    BY <1>4, <2>1 DEF Enqueue
  <2>3. PICK pos \in Nat, count \in Nat, reported \in Nat :
          /\ agent' = [agent EXCEPT !.pos = pos, !.count = count, !.reported = reported]
          /\ count < pos
    <3>1. agent.pos + 1 \in Nat /\ agent.count + 1 \in Nat /\ agent.reported + 1 \in Nat
          /\ agent.count < agent.pos + 1 /\ agent.count + 1 < agent.pos + 1
      BY <2>1
    <3>2. /\ agent.reported + OverflowLoss(agent.batch, agent.pos, agent.count) \in Nat
          /\ Len(agent.batch) + 1 \in Nat /\ agent.count < Len(agent.batch) + 1
      BY <1>4, <2>1 DEF Enqueue, OverflowLoss
    <3>3. \/ agent' = [agent EXCEPT !.pos = agent.pos + 1, !.count = agent.count, !.reported = agent.reported]
          \/ agent' = [agent EXCEPT !.pos = agent.pos + 1, !.count = agent.count + 1, !.reported = agent.reported]
          \/ agent' = [agent EXCEPT !.pos = Len(agent.batch) + 1, !.count = agent.count,
                         !.reported = agent.reported + OverflowLoss(agent.batch, agent.pos, agent.count)]
          \/ agent' = [agent EXCEPT !.pos = agent.pos + 1, !.count = agent.count, !.reported = agent.reported + 1]
      BY <1>0, <1>4 DEF Enqueue, AgentRow
    <3> QED
      BY <2>1, <3>1, <3>2, <3>3
  <2>4. AgentInv'
    BY <1>0, <2>1, <2>3 DEF AgentInv, AgentRow
  <2>5. unsent' \subseteq EventId /\ IsFiniteSet(unsent') /\ Cardinality(unsent') <= QueueSize
    <3>1. IsFiniteSet(unsent) /\ Cardinality(unsent) \in Nat /\ unsent \subseteq EventId
          /\ Cardinality(unsent) <= QueueSize
      BY FS_CardinalityType DEF TypeInv, TypeOK
    <3>2. CASE unsent' = unsent
      BY <3>1, <3>2
    <3>3. CASE unsent' = unsent \cup {e} /\ e \notin unsent /\ ~(Cardinality(unsent) >= QueueSize)
      <4>1. IsFiniteSet(unsent') /\ Cardinality(unsent') = Cardinality(unsent) + 1
        BY <3>1, <3>3, FS_AddElement
      <4>2. unsent' \subseteq EventId
        BY <2>2, <3>1, <3>3
      <4> QED
        BY <3>1, <3>3, <4>1, <4>2, AgentAssumption DEF AgentAssumption
    <3> QED
      BY <1>4, <3>2, <3>3 DEF Enqueue
  <2> QED
    BY <1>1, <1>4, <2>4, <2>5 DEF Enqueue, TypeInv, TypeOK, AgentInv
<1>5. CASE CycleEnds
  <2>1. agent' = [agent EXCEPT !.pc = "check", !.batch = << >>, !.pos = 1, !.count = 0, !.reported = 0]
    BY <1>5 DEF CycleEnds
  <2>3. PICK none \in Seq(EventId) : none = << >>
    BY EmptySeq
  <2>4. PICK one \in Nat, zero \in Nat : one = 1 /\ zero = 0 /\ zero < one
    OBVIOUS
  <2>5. agent' = [agent EXCEPT !.pc = "check", !.batch = none, !.pos = one, !.count = zero, !.reported = zero]
    BY <2>1, <2>3, <2>4
  <2>2. AgentInv'
    BY <1>0, <1>5, <2>4, <2>5 DEF CycleEnds, AgentInv, AgentRow, Phase
  <2> QED
    BY <1>0, <1>1, <1>5, <2>2, OwnStepTypes DEF CycleEnds, durable
<1> QED
  BY <1>2, <1>3, <1>4, <1>5

\* by a stop, however it comes about,
LEMMA StopTypes ==
    ASSUME TypeInv, StopSync \/ StopHere \/ Finish \/ Signal \/ Crash
    PROVE  TypeInv'
<1>0. /\ AgentInv /\ agent \in AgentRow /\ CollectorTypeOK /\ file \in Identities \cup {NoIdentity}
      /\ Here \in Kind
  BY HereIsKind DEF TypeInv, TypeOK
<1>1. ASSUME UNCHANGED <<collector, emitted>> PROVE CollectorTypeOK'
  BY <1>0, <1>1 DEF CollectorTypeOK
<1>2. CASE StopSync
  <2>1. 1 \in DOMAIN StartOrder
    BY AgentAssumption DEF AgentAssumption
  <2>2. AgentInv'
    BY <1>0, <1>2, <2>1 DEF StopSync, AgentInv, AgentRow, Phase
  <2> QED
    BY <1>0, <1>1, <1>2, <2>2, OwnStepTypes DEF StopSync, durable
<1>3. CASE StopHere
  <2>1. CollectorTypeOK'
    BY <1>0, <1>1, <1>3, CollectorTypes DEF StopHere, CollectorMoves
  <2>2. AgentInv'
    BY <1>0, <1>3, PhaseTypes, NextCollectorTypes DEF StopHere, Phase
  <2> QED
    BY <1>0, <1>3, <2>1, <2>2, OwnStepTypes DEF StopHere, durable
<1>4. CASE Finish
  BY <1>0, <1>4, GoneTypes, OwnStepTypes DEF Finish, durable
<1>5. CASE Crash
  <2>1. file' = file
    BY <1>5 DEF Crash, TornSave
  <2> QED
    BY <1>0, <1>5, <2>1, GoneTypes, OwnStepTypes DEF Crash
<1>6. CASE Signal
  <2>1. AgentInv'
    BY <1>0, <1>6 DEF Signal, AgentInv, AgentRow
  <2> QED
    BY <1>0, <1>1, <1>6, <2>1, OwnStepTypes DEF Signal, durable
<1> QED
  BY <1>2, <1>3, <1>4, <1>5, <1>6

\* and so by every step.
LEMMA NextTypes == TypeInv /\ [Next]_vars => TypeInv'
<1> SUFFICES ASSUME TypeInv, [Next]_vars PROVE TypeInv'
  OBVIOUS
<1>1. CASE CollectorStep
  <2>1. PICK k \in Kind : Session(k) \/ Reconnecting(k)
    BY <1>1 DEF CollectorStep
  <2>2. CollectorTypeOK'
    BY <2>1, CollectorTypes DEF CollectorMoves, TypeInv, TypeOK
  <2> QED
    BY <1>1, <2>2 DEF CollectorStep, TypeInv, TypeOK, AgentInv, durable
<1>2. CASE UNCHANGED vars
  BY <1>2 DEF vars, TypeInv, TypeOK, AgentInv, CollectorTypeOK
<1> QED
  BY <1>1, <1>2, StartTypes, RegistrationTypes, CycleTypes, StopTypes, DeliverTypes
  DEF Next, AgentStep

\* The strengthened types are an invariant.
LEMMA TypeInvariant == Spec => []TypeInv
  BY InitTypes, NextTypes, PTL DEF Spec

(***************************************************************************)
(* The agent, its collectors, its queue and the backend keep their types:  *)
(* the buffers and the queue are bounded for any number of events, crashes *)
(* and launches.                                                           *)
(***************************************************************************)
THEOREM AgentTypes == Spec => []TypeOK
<1>1. TypeInv => TypeOK
  BY DEF TypeInv
<1> QED
  BY TypeInvariant, <1>1, PTL

-----------------------------------------------------------------------------
(* The statistics of the collectors *)

\* What came in is what went out, is in the buffer or was dropped, but for the one
\* event whose callback is between the buffer and the statistics.
Balanced(c) ==
    /\ c.counting = "none" => c.received = c.handed + Len(c.pending) + c.dropped
    /\ c.counting = "kept" => c.received + 1 = c.handed + Len(c.pending) + c.dropped
    /\ c.counting = "evicted" => c.received = c.handed + Len(c.pending) + c.dropped

\* That is the property, case by case.
LEMMA BalanceIsDropsCounted ==
    ASSUME CollectorTypeOK
    PROVE  DropsAreCounted <=> \A k \in Kind : Balanced(collector[k])
<1>1. ASSUME NEW c \in CollectorRow
      PROVE  (c.received + (IF c.counting \in {"kept", "evicted"} THEN 1 ELSE 0)
               = c.handed + Len(c.pending) + c.dropped + (IF c.counting \in {"evicted"} THEN 1 ELSE 0))
              <=> Balanced(c)
  <2>1. c.received \in Nat /\ c.handed \in Nat /\ c.dropped \in Nat /\ Len(c.pending) \in Nat
    BY <1>1 DEF CollectorRow
  <2>2. c.counting = "none" \/ c.counting = "kept" \/ c.counting = "evicted"
    BY <1>1 DEF CollectorRow, Counting
  <2> QED
    BY <2>1, <2>2 DEF Balanced
<1>2. \A k \in Kind : collector[k] \in CollectorRow
  BY DEF CollectorTypeOK
<1> QED
  BY <1>1, <1>2 DEF DropsAreCounted

\* The statistics that a balanced row keeps are balanced.
LEMMA BalanceKept ==
    ASSUME NEW c, NEW d, Balanced(c), SameStatistics(d, c)
    PROVE  Balanced(d)
  BY DEF Balanced, SameStatistics

\* An event goes in, or is counted, one collector at a time.
LEMMA SessionBalanced ==
    ASSUME CollectorTypeOK, NEW k \in Kind, Balanced(collector[k]), Session(k)
    PROVE  /\ Balanced(collector'[k])
           /\ \A j \in Kind \ {k} : collector'[j] = collector[j]
<1> DEFINE c == collector[k]
<1>1. c \in CollectorRow /\ Len(c.pending) <= MaxQueue
  BY DEF CollectorTypeOK
<1>2. /\ c.received \in Nat /\ c.handed \in Nat /\ c.dropped \in Nat
      /\ Len(c.pending) \in Nat /\ c.pending \in Seq(1..MaxEvents)
  BY <1>1 DEF CollectorRow
<1> DEFINE r == c.received
           h == c.handed
           l == Len(c.pending)
           d == c.dropped
<1>6. r = h + l + d => r + 1 = h + (l + 1) + d /\ r + 1 = h + l + (d + 1)
  <2>1. r \in Nat /\ h \in Nat /\ l \in Nat /\ d \in Nat
    BY <1>2
  <2> HIDE DEF r, h, l, d
  <2> QED
    BY <2>1
<1>3. CASE Emit(k)
  <2>1. PICK id \in Identity(k) : collector' = [collector EXCEPT
         ![k].pending = Evict(@, id),
         ![k].counting = IF Len(collector[k].pending) >= MaxQueue THEN "evicted" ELSE "kept"]
    BY <1>3 DEF Emit
  <2>2. id \in 1..MaxEvents
    BY <1>3, CollectorAssumption DEF Identity, Emit, CollectorTypeOK, CollectorAssumption
  <2>3. PICK s : s = Evict(c.pending, id) /\ Len(s) = IF Len(c.pending) >= MaxQueue THEN Len(c.pending)
                                                       ELSE Len(c.pending) + 1
    BY <1>1, <1>2, <2>2, EvictLength
  <2>4. PICK what : what = IF Len(c.pending) >= MaxQueue THEN "evicted" ELSE "kept"
    OBVIOUS
  <2>5. collector' = [collector EXCEPT ![k] = [c EXCEPT !.pending = s, !.counting = what]]
    BY <2>1, <2>3, <2>4
  <2>6. /\ collector'[k].pending = s /\ collector'[k].counting = what
        /\ collector'[k].received = c.received /\ collector'[k].handed = c.handed
        /\ collector'[k].dropped = c.dropped
        /\ \A j \in Kind \ {k} : collector'[j] = collector[j]
    BY <1>1, <2>5 DEF CollectorTypeOK, CollectorRow
  <2>7. c.received = c.handed + Len(c.pending) + c.dropped
    BY <1>3 DEF Emit, Balanced
  <2>8. Balanced(collector'[k])
    <3>1. CASE Len(c.pending) >= MaxQueue
      <4>1. what = "evicted" /\ Len(s) = Len(c.pending)
        BY <2>3, <2>4, <3>1
      <4> QED
        BY <2>6, <2>7, <4>1 DEF Balanced
    <3>2. CASE ~(Len(c.pending) >= MaxQueue)
      <4>1. what = "kept" /\ Len(s) = Len(c.pending) + 1
        BY <2>3, <2>4, <3>2
      <4>2. c.received + 1 = c.handed + (Len(c.pending) + 1) + c.dropped
        BY <1>6, <2>7
      <4>3. c.received + 1 = c.handed + Len(s) + c.dropped
        BY <4>1, <4>2
      <4> QED
        BY <2>6, <4>1, <4>3 DEF Balanced
    <3> QED
      BY <3>1, <3>2
  <2> QED
    BY <2>6, <2>8
<1>4. CASE Count(k)
  <2>1. /\ collector'[k].pending = c.pending /\ collector'[k].counting = "none"
        /\ collector'[k].received = c.received + 1 /\ collector'[k].handed = c.handed
        /\ collector'[k].dropped = IF c.counting = "evicted" THEN c.dropped + 1 ELSE c.dropped
        /\ \A j \in Kind \ {k} : collector'[j] = collector[j]
    BY <1>1, <1>4 DEF Count, CollectorTypeOK, CollectorRow
  <2>2. CASE c.counting = "evicted"
    <3>1. c.received = c.handed + Len(c.pending) + c.dropped
      BY <2>2 DEF Balanced
    <3>2. c.received + 1 = c.handed + Len(c.pending) + (c.dropped + 1)
      BY <1>6, <3>1
    <3> QED
      BY <2>1, <2>2, <3>2 DEF Balanced
  <2>3. CASE c.counting = "kept"
    BY <1>2, <2>1, <2>3 DEF Balanced
  <2> QED
    BY <1>1, <1>4, <2>2, <2>3 DEF Count, CollectorRow, Counting
<1> QED
  BY <1>3, <1>4 DEF Session

\* collect hands out what the buffer held.
LEMMA DrainBalanced ==
    ASSUME CollectorTypeOK, NEW k \in Kind, Balanced(collector[k]), Drain(k)
    PROVE  /\ Balanced(collector'[k])
           /\ \A j \in Kind \ {k} : collector'[j] = collector[j]
<1> DEFINE c == collector[k]
<1>1. c \in CollectorRow
  BY DEF CollectorTypeOK
<1>2. /\ c.received \in Nat /\ c.handed \in Nat /\ c.dropped \in Nat /\ Len(c.pending) \in Nat
  BY <1>1 DEF CollectorRow
<1>3. /\ collector'[k].pending = << >> /\ collector'[k].counting = c.counting
      /\ collector'[k].received = c.received /\ collector'[k].dropped = c.dropped
      /\ collector'[k].handed = c.handed + Len(c.pending)
      /\ \A j \in Kind \ {k} : collector'[j] = collector[j]
  BY <1>1 DEF Drain, CollectorTypeOK, CollectorRow
<1>4. Len(collector'[k].pending) = 0
  BY <1>3, EmptySeq
<1> QED
  BY <1>2, <1>3, <1>4 DEF Balanced

\* Every collector of every process accounts for its events.
DropInv == \A k \in Kind : Balanced(collector[k])

\* A new process has nothing to account for.
LEMMA NewProcessBalanced ==
    ASSUME NEW inst \in BOOLEAN, NEW k \in Kind
    PROVE  Balanced(NewCollector(inst))
  BY EmptySeq DEF NewCollector, Balanced

\* Every step keeps the accounts.
LEMMA DropStep == TypeInv /\ DropInv /\ [Next]_vars => DropInv'
<1> SUFFICES ASSUME TypeInv, DropInv, [Next]_vars PROVE DropInv'
  OBVIOUS
<1>0. CollectorTypeOK /\ Here \in Kind
  BY HereIsKind DEF TypeInv, TypeOK
<1>1. ASSUME NEW k \in Kind,
             \/ BeginStart(k) \/ NotInstalled(k) \/ FirstOpen(k) \/ FirstOpenFails(k) \/ ReportRunning(k)
             \/ Reconnecting(k)
             \/ SignalStop(k) \/ CloseSession(k) \/ ForgetSession(k) \/ MarkStopped(k)
      PROVE  DropInv'
  <2> SUFFICES ASSUME NEW j \in Kind PROVE Balanced(collector'[j])
    BY DEF DropInv
  <2>1. Balanced(collector[j])
    BY DEF DropInv
  <2>2. PICK row \in CollectorRow : /\ SameStatistics(row, collector[k])
                                   /\ collector' = [collector EXCEPT ![k] = row]
    BY <1>0, <1>1, StatusMoves
  <2>3. collector'[j] = IF j = k THEN row ELSE collector[j]
    BY <1>0, <2>2 DEF CollectorTypeOK
  <2> QED
    BY <2>1, <2>2, <2>3, BalanceKept
<1>2. ASSUME NEW k \in Kind, Session(k) PROVE DropInv'
  BY <1>0, <1>2, SessionBalanced DEF DropInv
<1>3. CASE DrainHere
  BY <1>0, <1>3, DrainBalanced DEF DrainHere, DropInv
<1>4. CASE Launch
  <2>1. PICK inst \in BOOLEAN : collector' = [k \in Kind |-> NewCollector(inst)]
    BY <1>4 DEF Launch
  <2> QED
    BY <2>1, NewProcessBalanced DEF DropInv
<1>5. CASE Finish \/ Crash
  <2>1. TRUE \in BOOLEAN /\ collector' = [k \in Kind |-> NewCollector(TRUE)]
    BY <1>5 DEF Finish, Crash, Gone
  <2> QED
    BY <2>1, NewProcessBalanced DEF DropInv
<1>6. ASSUME UNCHANGED collector PROVE DropInv'
  BY <1>6 DEF DropInv
<1>7. CASE Create \/ Open \/ Report \/ StopHere
  BY <1>0, <1>1, <1>6, <1>7 DEF Create, Open, Report, StopHere
<1>8. CASE CollectorStep
  BY <1>1, <1>2, <1>8 DEF CollectorStep
<1> QED
  BY <1>3, <1>4, <1>5, <1>6, <1>7, <1>8
  DEF Next, AgentStep, vars, Identify, Register, SaveServerId, Enter, Check, Enqueue, CycleEnds,
      StopSync, Signal, Deliver

(***************************************************************************)
(* The statistics of the collectors: whatever the callback, collect, a     *)
(* stop, a reconnection and a crash interleave, every event that came in   *)
(* was handed out, is in the buffer or is counted as dropped.              *)
(***************************************************************************)
THEOREM DropsStayCounted == Spec => []DropsAreCounted
<1>1. Init => DropInv
  <2>1. TRUE \in BOOLEAN
    OBVIOUS
  <2> QED
    BY <2>1, NewProcessBalanced DEF Init, CollectorInit, DropInv
<1>2. TypeInv /\ DropInv => DropsAreCounted
  BY BalanceIsDropsCounted DEF TypeInv, TypeOK, DropInv
<1> QED
  BY TypeInvariant, DropStep, <1>1, <1>2, PTL DEF Spec

-----------------------------------------------------------------------------
(* What a cycle reports *)

\* The events of a batch that are dealt with before p and that the queue does not know.
Lost(batch, p, known) == {i \in 1..(p - 1) : i <= Len(batch) /\ batch[i] \notin known}

\* They are finitely many.
LEMMA LostIsFinite ==
    ASSUME NEW batch, NEW p \in Nat, NEW known
    PROVE  IsFiniteSet(Lost(batch, p, known)) /\ Cardinality(Lost(batch, p, known)) \in Nat
<1>1. IsFiniteSet(1..(p - 1))
  BY FS_Interval
<1>2. Lost(batch, p, known) \subseteq 1..(p - 1)
  BY DEF Lost
<1> QED
  BY <1>1, <1>2, FS_Subset, FS_CardinalityType

\* Nothing more is lost when the queue knows more, and when the next event is known.
LEMMA LostShrinks ==
    ASSUME NEW batch, NEW p \in Nat, NEW q \in Nat, NEW known, NEW more,
           Lost(batch, q, more) \subseteq Lost(batch, p, known)
    PROVE  Cardinality(Lost(batch, q, more)) <= Cardinality(Lost(batch, p, known))
  BY LostIsFinite, FS_Subset

\* One event more is at most one lost event more.
LEMMA LostByOne ==
    ASSUME NEW batch, NEW p \in Nat \ {0}, NEW known
    PROVE  Cardinality(Lost(batch, p + 1, known)) <= Cardinality(Lost(batch, p, known)) + 1
<1> DEFINE before == Lost(batch, p, known)
<1>1. Lost(batch, p + 1, known) \subseteq before \cup {p}
  BY DEF Lost
<1>2. IsFiniteSet(before) /\ Cardinality(before) \in Nat
  BY LostIsFinite
<1>3. IsFiniteSet(Lost(batch, p + 1, known)) /\ Cardinality(Lost(batch, p + 1, known)) \in Nat
  BY LostIsFinite
<1> HIDE DEF before
<1>4. IsFiniteSet(before \cup {p}) /\ Cardinality(before \cup {p}) <= Cardinality(before) + 1
  BY <1>2, FS_AddElement
<1>5. Cardinality(before \cup {p}) \in Nat
  BY <1>4, FS_CardinalityType
<1>6. Cardinality(Lost(batch, p + 1, known)) <= Cardinality(before \cup {p})
  BY <1>1, <1>4, FS_Subset
<1> QED
  BY <1>2, <1>3, <1>4, <1>5, <1>6 DEF before

\* The events that are left are at most those from p on.
LEMMA LostAtEnd ==
    ASSUME NEW batch, NEW p \in Nat \ {0}, NEW known, Len(batch) \in Nat, p <= Len(batch)
    PROVE  Cardinality(Lost(batch, Len(batch) + 1, known))
             <= Cardinality(Lost(batch, p, known)) + (Len(batch) - p + 1)
<1> DEFINE before == Lost(batch, p, known)
           rest == p..Len(batch)
           all == Lost(batch, Len(batch) + 1, known)
<1>1. all \subseteq before \cup rest
  BY DEF Lost
<1>2. IsFiniteSet(before) /\ Cardinality(before) \in Nat /\ IsFiniteSet(all) /\ Cardinality(all) \in Nat
  BY LostIsFinite
<1>3. IsFiniteSet(rest) /\ Cardinality(rest) = Len(batch) - p + 1
  BY FS_Interval
<1> HIDE DEF before, rest, all
<1>4. /\ IsFiniteSet(before \cup rest)
      /\ Cardinality(before \cup rest)
           = Cardinality(before) + Cardinality(rest) - Cardinality(before \cap rest)
  BY <1>2, <1>3, FS_Union
<1>5. IsFiniteSet(before \cap rest)
  BY <1>2, FS_Subset
<1>6. Cardinality(before \cap rest) \in Nat /\ Cardinality(before \cup rest) \in Nat
  BY <1>4, <1>5, FS_CardinalityType
<1>7. Cardinality(all) <= Cardinality(before \cup rest)
  BY <1>1, <1>4, FS_Subset
<1> QED
  BY <1>2, <1>3, <1>4, <1>6, <1>7 DEF before, all

\* In a cycle the events stored are among those dealt with, and those lost are reported;
\* outside one the counters are at rest.
LossInv ==
    IF agent.pc = "enqueue"
      THEN /\ agent.pos \in 1..(Len(agent.batch) + 1)
           /\ agent.count <= agent.pos - 1
           /\ Cardinality(Lost(agent.batch, agent.pos, unsent \cup sent)) <= agent.reported
      ELSE agent.pos = 1 /\ agent.count = 0 /\ agent.reported = 0

\* A step that leaves the cycle alone, while the queue forgets nothing.
LEMMA CycleKept ==
    ASSUME TypeInv, LossInv,
           agent'.pc = agent.pc, agent'.batch = agent.batch, agent'.pos = agent.pos,
           agent'.count = agent.count, agent'.reported = agent.reported,
           unsent \cup sent \subseteq unsent' \cup sent'
    PROVE  LossInv'
<1>1. CASE agent.pc = "enqueue"
  <2>1. agent.pos \in Nat /\ agent.reported \in Nat
    BY DEF TypeInv, TypeOK, AgentRow
  <2> DEFINE batch == agent.batch
             pos == agent.pos
             reported == agent.reported
             known == unsent \cup sent
             more == unsent' \cup sent'
  <2>2. pos \in Nat /\ reported \in Nat /\ known \subseteq more
    BY <2>1
  <2>3. Cardinality(Lost(batch, pos, known)) <= reported
    BY <1>1 DEF LossInv
  <2> HIDE DEF batch, pos, reported, known, more
  <2>4. Lost(batch, pos, more) \subseteq Lost(batch, pos, known)
    BY <2>2 DEF Lost
  <2>5. Cardinality(Lost(batch, pos, more)) <= Cardinality(Lost(batch, pos, known))
    BY <2>2, <2>4, LostShrinks
  <2>6. Cardinality(Lost(batch, pos, more)) \in Nat /\ Cardinality(Lost(batch, pos, known)) \in Nat
    BY <2>2, LostIsFinite
  <2>7. Cardinality(Lost(batch, pos, more)) <= reported
    BY <2>2, <2>3, <2>5, <2>6
  <2> QED
    BY <1>1, <2>7 DEF LossInv, batch, pos, reported, more
<1>2. CASE agent.pc # "enqueue"
  BY <1>2 DEF LossInv
<1> QED
  BY <1>1, <1>2

\* One event of the cycle.
LEMMA EnqueueLoss ==
    ASSUME TypeInv, LossInv, Enqueue
    PROVE  LossInv'
<1> DEFINE batch == agent.batch
           pos == agent.pos
           n == Len(agent.batch)
           count == agent.count
           reported == agent.reported
           known == unsent \cup sent
           more == unsent' \cup sent'
           lost == Cardinality(Lost(batch, pos, more))
<1>1. /\ agent \in AgentRow /\ agent.pc = "enqueue"
      /\ pos \in Nat \ {0} /\ count \in Nat /\ reported \in Nat /\ n \in Nat
      /\ pos <= n /\ count <= pos - 1
      /\ Cardinality(Lost(batch, pos, known)) <= reported
  BY DEF TypeInv, TypeOK, AgentRow, Enqueue, LossInv
<1>2. known \subseteq more
  BY DEF Enqueue
<1>3. lost <= reported /\ lost \in Nat
  <2> HIDE DEF batch, pos, reported, known, more
  <2>1. Lost(batch, pos, more) \subseteq Lost(batch, pos, known)
    BY <1>2 DEF Lost
  <2>2. lost <= Cardinality(Lost(batch, pos, known))
    BY <1>1, <2>1, LostShrinks
  <2>3. lost \in Nat /\ Cardinality(Lost(batch, pos, known)) \in Nat
    BY <1>1, LostIsFinite
  <2> HIDE DEF lost
  <2> QED
    BY <1>1, <2>2, <2>3
<1>4. ASSUME NEW p \in 1..(n + 1), NEW c \in Nat, NEW r \in Nat, c <= p - 1,
             agent' = [agent EXCEPT !.pos = p, !.count = c, !.reported = r],
             Cardinality(Lost(batch, p, more)) <= r
      PROVE  LossInv'
  <2>1. /\ agent'.pos = p /\ agent'.count = c /\ agent'.reported = r
        /\ agent'.batch = agent.batch /\ agent'.pc = "enqueue"
    BY <1>1, <1>4 DEF AgentRow
  <2> QED
    BY <1>4, <2>1 DEF LossInv
<1>5. /\ pos + 1 \in 1..(n + 1) /\ n + 1 \in 1..(n + 1)
      /\ count <= (pos + 1) - 1 /\ count + 1 \in Nat /\ count + 1 <= (pos + 1) - 1
      /\ count <= (n + 1) - 1 /\ reported + 1 \in Nat /\ reported + (n - count) \in Nat
  <2> HIDE DEF batch, pos, n, count, reported
  <2> QED
    BY <1>1
<1>6. \/ batch[pos] \in more /\ agent' = [agent EXCEPT !.pos = pos + 1, !.count = count, !.reported = reported]
      \/ batch[pos] \in more /\ agent' = [agent EXCEPT !.pos = pos + 1, !.count = count + 1, !.reported = reported]
      \/ agent' = [agent EXCEPT !.pos = n + 1, !.count = count, !.reported = reported + (n - count)]
      \/ agent' = [agent EXCEPT !.pos = pos + 1, !.count = count, !.reported = reported + 1]
  BY <1>1 DEF Enqueue, AgentRow, OverflowLoss
<1>7. CASE /\ batch[pos] \in more
          /\ \/ agent' = [agent EXCEPT !.pos = pos + 1, !.count = count, !.reported = reported]
             \/ agent' = [agent EXCEPT !.pos = pos + 1, !.count = count + 1, !.reported = reported]
  <2>1. Lost(batch, pos + 1, more) \subseteq Lost(batch, pos, more)
    <3> HIDE DEF batch, pos, more
    <3> QED
      BY <1>1, <1>7 DEF Lost
  <2>2. Cardinality(Lost(batch, pos + 1, more)) <= lost /\ Cardinality(Lost(batch, pos + 1, more)) \in Nat
    <3> HIDE DEF batch, pos, more
    <3>1. pos + 1 \in Nat
      BY <1>1
    <3> QED
      BY <1>1, <2>1, <3>1, LostShrinks, LostIsFinite
  <2>3. Cardinality(Lost(batch, pos + 1, more)) <= reported
    <3> HIDE DEF batch, pos, more, lost, reported
    <3> QED
      BY <1>1, <1>3, <2>2
  <2> QED
    BY <1>1, <1>4, <1>5, <1>7, <2>3
<1>8. CASE agent' = [agent EXCEPT !.pos = n + 1, !.count = count, !.reported = reported + (n - count)]
  <2>1. Cardinality(Lost(batch, n + 1, more)) <= lost + (n - pos + 1)
    <3> HIDE DEF pos, more
    <3> QED
      BY <1>1, LostAtEnd
  <2>2. Cardinality(Lost(batch, n + 1, more)) \in Nat
    <3> HIDE DEF batch, n, more
    <3>1. n + 1 \in Nat
      BY <1>1
    <3> QED
      BY <3>1, LostIsFinite
  <2>3. Cardinality(Lost(batch, n + 1, more)) <= reported + (n - count)
    <3> HIDE DEF batch, pos, n, count, reported, more, lost
    <3> QED
      BY <1>1, <1>3, <2>1, <2>2
  <2> QED
    BY <1>1, <1>4, <1>5, <1>8, <2>3
<1>9. CASE agent' = [agent EXCEPT !.pos = pos + 1, !.count = count, !.reported = reported + 1]
  <2>1. Cardinality(Lost(batch, pos + 1, more)) <= lost + 1 /\ Cardinality(Lost(batch, pos + 1, more)) \in Nat
    <3> HIDE DEF batch, pos, more
    <3>1. pos + 1 \in Nat
      BY <1>1
    <3> QED
      BY <1>1, <3>1, LostByOne, LostIsFinite
  <2>2. Cardinality(Lost(batch, pos + 1, more)) <= reported + 1
    <3> HIDE DEF batch, pos, reported, more, lost
    <3> QED
      BY <1>1, <1>3, <2>1
  <2> QED
    BY <1>1, <1>4, <1>5, <1>9, <2>2
<1> QED
  BY <1>6, <1>7, <1>8, <1>9

\* Every step keeps the reports.
LEMMA LossStep == TypeInv /\ LossInv /\ [Next]_vars => LossInv'
<1> SUFFICES ASSUME TypeInv, LossInv, [Next]_vars PROVE LossInv'
  OBVIOUS
<1>0. agent \in AgentRow
  BY DEF TypeInv, TypeOK
<1>1. ASSUME agent'.pc # "enqueue", agent'.pos = 1, agent'.count = 0, agent'.reported = 0
      PROVE  LossInv'
  BY <1>1 DEF LossInv
<1>2. ASSUME agent.pc # "enqueue", agent'.pc # "enqueue", agent'.pos = agent.pos,
             agent'.count = agent.count, agent'.reported = agent.reported
      PROVE  LossInv'
  BY <1>2 DEF LossInv
<1>d. ASSUME NEW n, NEW c
      PROVE  Down(n, c).pc = "down" /\ Down(n, c).pos = 1 /\ Down(n, c).count = 0 /\ Down(n, c).reported = 0
  BY DEF Down
<1>3. CASE Launch \/ Finish \/ Crash
  <2>1. CASE Launch
    <3>1. PICK c : agent' = [Down(agent.launches + 1, c) EXCEPT !.pc = "identify"]
      BY <2>1 DEF Launch
    <3>2. agent'.pc = "identify" /\ agent'.pos = 1 /\ agent'.count = 0 /\ agent'.reported = 0
      BY <3>1 DEF Down
    <3> QED
      BY <1>1, <3>2
  <2>2. CASE Finish \/ Crash
    <3>1. agent' = Down(agent.launches, agent.config)
      BY <2>2 DEF Finish, Crash, Gone
    <3> QED
      BY <1>1, <1>d, <3>1
  <2> QED
    BY <1>3, <2>1, <2>2
<1>4. CASE Identify
  <2>1. agent' = Down(agent.launches, agent.config)
        \/ agent' = [agent EXCEPT !.pc = "create", !.identity = Ensured(agent.config)]
    BY <1>4 DEF Identify
  <2>2. agent.pc # "enqueue"
    BY <1>4 DEF Identify
  <2>3. CASE agent' = Down(agent.launches, agent.config)
    BY <1>1, <1>d, <2>3
  <2>4. CASE agent' = [agent EXCEPT !.pc = "create", !.identity = Ensured(agent.config)]
    BY <1>0, <1>2, <2>2, <2>4 DEF AgentRow
  <2> QED
    BY <2>1, <2>3, <2>4
<1>5. CASE Create \/ Open \/ Report
  BY <1>0, <1>2, <1>5 DEF Create, Open, Report, Goto, NextOr, AgentRow
<1>6. CASE Register \/ SaveServerId \/ Enter \/ Check
  BY <1>0, <1>2, <1>6 DEF Register, SaveServerId, Enter, Check, Goto, AgentRow
<1>7. CASE StopSync \/ StopHere
  BY <1>0, <1>2, <1>7 DEF StopSync, StopHere, Goto, NextOr, AgentRow
<1>8. CASE DrainHere
  <2>1. /\ agent.pc = "drain" /\ agent.pos = 1 /\ agent.count = 0 /\ agent.reported = 0
    BY <1>8 DEF DrainHere, LossInv
  <2>2. agent'.pos = 1 /\ agent'.count = 0 /\ agent'.reported = 0
    BY <1>0, <1>8, <2>1 DEF DrainHere, AgentRow
  <2>3. Lost(agent'.batch, 1, unsent' \cup sent') = {}
    BY DEF Lost
  <2>4. Cardinality(Lost(agent'.batch, 1, unsent' \cup sent')) = 0
    BY <2>3, FS_EmptySet
  <2>5. Len(agent'.batch) \in Nat
    BY <1>8, CycleTypes DEF TypeInv, TypeOK, AgentRow
  <2> QED
    BY <2>2, <2>4, <2>5 DEF LossInv
<1>9. CASE CycleEnds
  <2>1. agent'.pc # "enqueue" /\ agent'.pos = 1 /\ agent'.count = 0 /\ agent'.reported = 0
    BY <1>0, <1>9 DEF CycleEnds, AgentRow
  <2> QED
    BY <1>1, <2>1
<1>10. CASE Signal \/ Deliver \/ CollectorStep \/ UNCHANGED vars
  <2>1. /\ agent'.pc = agent.pc /\ agent'.batch = agent.batch /\ agent'.pos = agent.pos
        /\ agent'.count = agent.count /\ agent'.reported = agent.reported
    BY <1>0, <1>10 DEF Signal, Deliver, CollectorStep, vars, AgentRow
  <2>2. unsent \cup sent \subseteq unsent' \cup sent'
    BY <1>10 DEF Signal, Deliver, CollectorStep, vars, durable
  <2> QED
    BY <2>1, <2>2, CycleKept
<1> QED
  BY <1>3, <1>4, <1>5, <1>6, <1>7, <1>8, <1>9, <1>10, EnqueueLoss DEF Next, AgentStep

(***************************************************************************)
(* "Overflow and per-event failures are reported explicitly": of a cycle's *)
(* events those that are dealt with and not in the queue are no more than  *)
(* what the cycle reports, for queues and batches of any size.             *)
(***************************************************************************)
THEOREM LossesAreReported == Spec => []LossesReported
<1>1. Init => LossInv
  BY DEF Init, Down, LossInv
<1>2. LossInv => LossesReported
  BY DEF LossInv, LossesReported, Lost
<1> QED
  BY TypeInvariant, LossStep, <1>1, <1>2, PTL DEF Spec

-----------------------------------------------------------------------------
(* One machine, one host *)

\* The identity the agent works with is the one of the file, but for a server id that
\* could not be saved; the records of this machine carry its host.
HostInv ==
    /\ agent.identity # NoIdentity =>
          /\ file # NoIdentity /\ file.host = agent.identity.host
          /\ agent.identity.server # 0 => agent.identity.server \in DOMAIN registered
    /\ file = NoIdentity => registered = << >>
    /\ file # NoIdentity =>
          /\ \A i \in DOMAIN registered : registered[i].host = file.host
          /\ file.server # 0 => file.server \in DOMAIN registered

\* An identity is not the lack of one.
LEMMA IdentityIsKnown ==
    ASSUME NEW identity \in Identities
    PROVE  identity # NoIdentity
  BY NoIdentityAssumption DEF NoIdentityAssumption

\* A registration under the host of the file.
LEMMA UpsertKeepsHost ==
    ASSUME TypeInv, HostInv, file # NoIdentity,
           NEW c \in Config, Upsert(c.key, file.host), UNCHANGED file
    PROVE  /\ DOMAIN registered \subseteq DOMAIN registered'
           /\ \A i \in DOMAIN registered' : registered'[i].host = file.host
<1> DEFINE Row == [key : Key, host : Host]
<1>1. registered \in Seq(Row) /\ Len(registered) \in Nat /\ DOMAIN registered = 1..Len(registered)
  BY DEF TypeInv, TypeOK
<1>2. \A i \in DOMAIN registered : registered[i].host = file.host
  BY DEF HostInv
<1>3. CASE RecordsOf(c.key) = {}
  <2> DEFINE row == [key |-> c.key, host |-> file.host]
  <2>1. registered' = Append(registered, row)
    BY <1>3 DEF Upsert
  <2>2. row.host = file.host
    OBVIOUS
  <2> HIDE DEF row, Row
  <2>3. /\ DOMAIN registered' = 1..(Len(registered) + 1)
        /\ \A i \in 1..Len(registered) : registered'[i] = registered[i]
        /\ registered'[Len(registered) + 1] = row
    BY <1>1, <2>1
  <2>4. \A i \in DOMAIN registered' : i \in DOMAIN registered \/ i = Len(registered) + 1
    BY <1>1, <2>3
  <2> QED
    BY <1>1, <1>2, <2>2, <2>3, <2>4
<1>4. CASE RecordsOf(c.key) # {}
  <2>1. registered' = [i \in DOMAIN registered |->
            IF i \in RecordsOf(c.key) THEN [registered[i] EXCEPT !.host = file.host] ELSE registered[i]]
    BY <1>4 DEF Upsert
  <2>2. \A i \in DOMAIN registered : registered[i] \in Row
    BY <1>1, ElementOfSeq
  <2>3. DOMAIN registered' = DOMAIN registered
    BY <2>1
  <2>4. \A i \in DOMAIN registered :
           /\ registered'[i].key = registered[i].key
           /\ registered'[i].host = IF i \in RecordsOf(c.key) THEN file.host ELSE registered[i].host
    BY <2>1, <2>2
  <2> QED
    BY <1>2, <2>3, <2>4
<1> QED
  BY <1>3, <1>4

\* Every step keeps the host.
LEMMA HostStep == TypeInv /\ HostInv /\ [Next]_vars => HostInv'
<1> SUFFICES ASSUME TypeInv, HostInv, [Next]_vars PROVE HostInv'
  OBVIOUS
<1>0. /\ agent \in AgentRow /\ agent.config \in Config
      /\ agent.identity \in Identities \cup {NoIdentity} /\ file \in Identities \cup {NoIdentity}
      /\ agent.pc \notin {"down", "identify"} => agent.identity \in Identities
  BY DEF TypeInv, TypeOK, AgentRow, AgentInv
<1>1. ASSUME agent'.identity = agent.identity \/ agent'.identity = NoIdentity,
             UNCHANGED <<file, registered>>
      PROVE  HostInv'
  BY <1>1 DEF HostInv
<1>2. CASE Launch \/ Finish \/ Crash
  <2>1. agent'.identity = NoIdentity
    <3>1. CASE Launch
      <4>1. PICK c : agent' = [Down(agent.launches + 1, c) EXCEPT !.pc = "identify"]
        BY <3>1 DEF Launch
      <4> QED
        BY <4>1 DEF Down
    <3>2. CASE Finish \/ Crash
      <4>1. agent' = Down(agent.launches, agent.config)
        BY <3>2 DEF Finish, Crash, Gone
      <4> QED
        BY <4>1 DEF Down
    <3> QED
      BY <1>2, <3>1, <3>2
  <2>2. UNCHANGED <<file, registered>>
    BY <1>2 DEF Launch, Finish, Crash, TornSave, durable
  <2> QED
    BY <1>1, <2>1, <2>2
<1>3. CASE Identify
  <2>1. UNCHANGED registered
    BY <1>3 DEF Identify
  <2>2. CASE agent' = [agent EXCEPT !.pc = "create", !.identity = Ensured(agent.config)]
             /\ file' = Ensured(agent.config)
    <3>1. agent'.identity = Ensured(agent.config)
      BY <1>0, <2>2 DEF AgentRow
    <3>2. CASE file # NoIdentity
      <4>1. Ensured(agent.config) = file
        BY <3>2 DEF Ensured
      <4> QED
        BY <2>1, <2>2, <3>1, <3>2, <4>1 DEF HostInv
    <3>3. CASE file = NoIdentity
      <4>1. Ensured(agent.config).server = 0 /\ Ensured(agent.config) \in Identities
        BY <1>0, <3>3 DEF Ensured, Identities, Key, Host
      <4>2. registered' = << >>
        BY <2>1, <3>3 DEF HostInv
      <4> QED
        BY <2>2, <3>1, <4>1, <4>2, IdentityIsKnown DEF HostInv
    <3> QED
      BY <3>2, <3>3
  <2>3. CASE agent' = Down(agent.launches, agent.config) /\ UNCHANGED file
    <3>1. agent'.identity = NoIdentity
      BY <2>3 DEF Down
    <3> QED
      BY <1>1, <2>1, <2>3, <3>1
  <2> QED
    BY <1>3, <2>2, <2>3 DEF Identify
<1>4. CASE Register
  <2>1. agent.identity \in Identities
    BY <1>0, <1>4 DEF Register
  <2>2. file # NoIdentity /\ file.host = agent.identity.host
    BY <2>1, IdentityIsKnown DEF HostInv
  <2>3. agent'.identity = agent.identity /\ UNCHANGED file
    BY <1>0, <1>4 DEF Register, Goto, AgentRow, durable
  <2>4. CASE Upsert(agent.config.key, agent.identity.host)
    <3>1. DOMAIN registered \subseteq DOMAIN registered' /\ \A i \in DOMAIN registered' : registered'[i].host = file.host
      BY <1>0, <2>2, <2>3, <2>4, UpsertKeepsHost
    <3> QED
      BY <2>2, <2>3, <3>1 DEF HostInv
  <2>5. CASE UNCHANGED registered
    BY <1>1, <2>3, <2>5
  <2> QED
    BY <1>4, <2>4, <2>5 DEF Register
<1>5. CASE SaveServerId
  <2>1. PICK i \in RecordsOf(agent.config.key) :
          /\ agent' = [agent EXCEPT !.pc = "enter", !.identity = [agent.identity EXCEPT !.server = i]]
          /\ file' \in {[agent.identity EXCEPT !.server = i], file}
    BY <1>5 DEF SaveServerId
  <2>2. agent.identity \in Identities
    BY <1>0, <1>5 DEF SaveServerId
  <2>3. i \in DOMAIN registered /\ i \in Nat
    <3>1. i \in DOMAIN registered
      BY <2>1 DEF RecordsOf
    <3>2. DOMAIN registered = 1..Len(registered) /\ Len(registered) \in Nat
      BY DEF TypeInv, TypeOK
    <3> QED
      BY <3>1, <3>2
  <2> DEFINE known == [agent.identity EXCEPT !.server = i]
  <2>4. known \in Identities /\ known.host = agent.identity.host /\ known.server = i
    BY <2>2, <2>3 DEF Identities
  <2>5. agent'.identity = known /\ UNCHANGED registered
    BY <1>0, <1>5, <2>1 DEF AgentRow, SaveServerId
  <2>6. file' = known \/ file' = file
    BY <2>1
  <2> HIDE DEF known
  <2>7. agent.identity # NoIdentity /\ known # NoIdentity
    BY <2>2, <2>4, IdentityIsKnown
  <2> QED
    BY <2>3, <2>4, <2>5, <2>6, <2>7 DEF HostInv
<1>6. CASE Create \/ Open \/ Report \/ Enter \/ Check \/ DrainHere \/ Enqueue \/ CycleEnds
  <2>1. agent'.identity = agent.identity
    BY <1>0, <1>6 DEF Create, Open, Report, Enter, Check, DrainHere, Enqueue, CycleEnds, Goto,
       NextOr, AgentRow
  <2> QED
    BY <1>1, <1>6, <2>1 DEF Create, Open, Report, Enter, Check, DrainHere, Enqueue, CycleEnds, durable
<1>7. CASE StopSync \/ StopHere \/ Signal \/ CollectorStep \/ Deliver \/ UNCHANGED vars
  <2>1. agent'.identity = agent.identity
    BY <1>0, <1>7 DEF StopSync, StopHere, Signal, CollectorStep, Deliver, vars, Goto, NextOr, AgentRow
  <2> QED
    BY <1>1, <1>7, <2>1 DEF StopSync, StopHere, Signal, CollectorStep, Deliver, vars, durable
<1> QED
  BY <1>2, <1>3, <1>4, <1>5, <1>6, <1>7 DEF Next, AgentStep

(***************************************************************************)
(* One machine, one host: for any configurations, launches and crashes the *)
(* records this machine has at the backend carry one host, the identity    *)
(* file never names another, and its server id is one of those records.    *)
(***************************************************************************)
THEOREM MachineHasOneHost == Spec => []OneHost
<1>1. Init => HostInv
  <2> SUFFICES ASSUME Init PROVE HostInv
    OBVIOUS
  <2>1. agent.identity = NoIdentity /\ file = NoIdentity
    BY DEF Init, Down
  <2>2. registered = << >>
    BY DEF Init
  <2> QED
    BY <2>1, <2>2 DEF HostInv
<1>2. HostInv => OneHost
  <2> SUFFICES ASSUME HostInv PROVE OneHost
    OBVIOUS
  <2>1. \A i, j \in DOMAIN registered : registered[i].host = registered[j].host
    BY DEF HostInv
  <2> QED
    BY <2>1 DEF HostInv, OneHost
<1> QED
  BY TypeInvariant, HostStep, <1>1, <1>2, PTL DEF Spec

=============================================================================
