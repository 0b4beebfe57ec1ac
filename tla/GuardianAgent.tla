--------------------------- MODULE GuardianAgent ---------------------------
(***************************************************************************)
(* The agent process, guardian/agent/main.py and identity.py: it settles   *)
(* who it is, starts the collectors, registers with the backend, and then  *)
(* moves events from the collectors to the durable queue until a signal    *)
(* stops it.  It may crash anywhere.  Heartbeats change nothing that the   *)
(* other steps read, and are left out.                                     *)
(*                                                                         *)
(* What survives a crash: the identity file, the queue, the backend.  The  *)
(* queue is EventQueue's, cut down to what the agent's own thread sees:    *)
(* which ids it knows and how many rows are not sent.  One machine: no     *)
(* request of another one touches its records.                             *)
(***************************************************************************)
EXTENDS Collector, FiniteSets

CONSTANTS
    StartOrder,    \* the collectors in the order start takes them
    Config,        \* what a launch may find configured: [key, host]
    NoIdentity,    \* no identity file, or one that cannot be read
    QueueSize,     \* queue_max_size
    MaxLaunches    \* bound: starts of the process

ASSUME AgentAssumption ==
    /\ StartOrder \in Seq(Kind) /\ {StartOrder[i] : i \in DOMAIN StartOrder} = Kind
    /\ StartOrder # << >>
    /\ QueueSize \in Nat \ {0} /\ MaxLaunches \in Nat

VARIABLES
    agent,       \* the agent's thread
    file,        \* agent_identity.json
    unsent,      \* the ids of the queue's rows that are not sent
    sent,        \* the ids of its sent rows
    registered   \* the backend's agents, in the order of created_at

vars == <<collector, emitted, agent, file, unsent, sent, registered>>

EventId == Kind \X (1..MaxEvents)
Key == {c.key : c \in Config}
Host == {c.host : c \in Config}
Identities == [key : Key, host : Host, server : Nat]

ASSUME NoIdentityAssumption == NoIdentity \notin Identities

Phase == {"down", "identify", "create", "open", "report", "register", "save", "enter",
          "check", "drain", "enqueue", "sync", "signal", "close", "forget", "mark", "finish"}

\* The agent: its thread, what its launch found configured, who it is, whether run and
\* the sync worker go on, and the cycle it is in.
AgentRow ==
    [pc : Phase, launches : 0..MaxLaunches, config : Config, identity : Identities \cup {NoIdentity},
     at : DOMAIN StartOrder, running : BOOLEAN, sync : BOOLEAN,
     batch : Seq(EventId), pos : Nat, count : Nat, reported : Nat]

TypeOK ==
    /\ CollectorTypeOK
    /\ agent \in AgentRow
    /\ file \in Identities \cup {NoIdentity}
    /\ unsent \subseteq EventId /\ sent \subseteq EventId
    /\ Cardinality(unsent) <= QueueSize
    /\ registered \in Seq([key : Key, host : Host])

\* A process that is not there.
Down(launches, c) ==
    [pc |-> "down", launches |-> launches, config |-> c, identity |-> NoIdentity, at |-> 1,
     running |-> FALSE, sync |-> FALSE,
     batch |-> << >>, pos |-> 1, count |-> 0, reported |-> 0]

Init ==
    /\ CollectorInit
    /\ \E c \in Config : agent = Down(0, c)
    /\ file = NoIdentity
    /\ unsent = {} /\ sent = {}
    /\ registered = << >>

durable == <<file, unsent, sent>>

Goto(pc) == agent' = [agent EXCEPT !.pc = pc]

\* The collector the thread is at, and the step to the next one.
Here == StartOrder[agent.at]
NextOr(pc, after) ==
    IF agent.at < Len(StartOrder)
      THEN agent' = [agent EXCEPT !.pc = pc, !.at = @ + 1]
      ELSE agent' = [agent EXCEPT !.pc = after, !.at = 1]

-----------------------------------------------------------------------------
\* start.

Launch ==
    /\ agent.pc = "down" /\ agent.launches < MaxLaunches
    /\ \E c \in Config, inst \in BOOLEAN :
         /\ agent' = [Down(agent.launches + 1, c) EXCEPT !.pc = "identify"]
         /\ collector' = [k \in Kind |-> NewCollector(inst)]
    /\ UNCHANGED <<emitted, durable, registered>>

\* ensure_identity: the file wins over the configuration.
Ensured(c) ==
    IF file # NoIdentity THEN file ELSE [key |-> c.key, host |-> c.host, server |-> 0]

\* save_identity writes a temporary file and replaces: a step.  It may refuse, and
\* then start raises.
Identify ==
    /\ agent.pc = "identify"
    /\ \/ /\ agent' = [agent EXCEPT !.pc = "create", !.identity = Ensured(agent.config)]
          /\ file' = Ensured(agent.config)
       \/ /\ file = NoIdentity
          /\ agent' = Down(agent.launches, agent.config)
          /\ UNCHANGED file
    /\ UNCHANGED <<collector, emitted, unsent, sent, registered>>

Create ==
    /\ agent.pc = "create"
    /\ BeginStart(Here)
    /\ Goto("open")
    /\ UNCHANGED <<durable, registered>>

Open ==
    /\ agent.pc = "open"
    /\ \/ FirstOpen(Here) /\ Goto("report")
       \/ (FirstOpenFails(Here) \/ NotInstalled(Here)) /\ NextOr("create", "register")
    /\ UNCHANGED <<durable, registered>>

Report ==
    /\ agent.pc = "report"
    /\ ReportRunning(Here)
    /\ NextOr("create", "register")
    /\ UNCHANGED <<durable, registered>>

-----------------------------------------------------------------------------
\* The backend: register_agent.

RecordsOf(key) == {i \in DOMAIN registered : registered[i].key = key}

Upsert(key, host) ==
    registered' =
        IF RecordsOf(key) = {}
          THEN Append(registered, [key |-> key, host |-> host])
          ELSE [i \in DOMAIN registered |->
                  IF i \in RecordsOf(key) THEN [registered[i] EXCEPT !.host = host] ELSE registered[i]]

-----------------------------------------------------------------------------
\* Registration: under the configured key and the persisted host.

Register ==
    /\ agent.pc = "register"
    /\ \/ Upsert(agent.config.key, agent.identity.host) /\ agent' \in {
              [agent EXCEPT !.pc = "save"],       \* answered
              [agent EXCEPT !.pc = "enter"]}      \* the answer is lost
       \/ Goto("enter") /\ UNCHANGED registered   \* the request is lost: offline
    /\ UNCHANGED <<collector, emitted, durable>>

\* The server id of the answer joins the identity; a save that fails is passed over.
SaveServerId ==
    /\ agent.pc = "save"
    /\ \E i \in RecordsOf(agent.config.key) :
         LET known == [agent.identity EXCEPT !.server = i]
         IN  /\ agent' = [agent EXCEPT !.pc = "enter", !.identity = known]
             /\ file' \in {known, file}
    /\ UNCHANGED <<collector, emitted, unsent, sent, registered>>

Enter ==
    /\ agent.pc = "enter"
    /\ agent' = [agent EXCEPT !.pc = "check", !.sync = TRUE, !.running = TRUE]
    /\ UNCHANGED <<collector, emitted, durable, registered>>

-----------------------------------------------------------------------------
\* run.

\* SIGINT or SIGTERM; before the loop the handlers are not there, and it is a crash.
Signal ==
    /\ agent.running
    /\ agent' = [agent EXCEPT !.running = FALSE]
    /\ UNCHANGED <<collector, emitted, durable, registered>>

Check ==
    /\ agent.pc = "check"
    /\ agent' = IF agent.running
                  THEN [agent EXCEPT !.pc = "drain"]
                  ELSE [agent EXCEPT !.pc = "sync"]
    /\ UNCHANGED <<collector, emitted, durable, registered>>

DrainHere ==
    /\ agent.pc = "drain"
    /\ Drain(Here)
    /\ LET more == [i \in DOMAIN collector[Here].pending |-> <<Here, collector[Here].pending[i]>>]
       IN  agent' = [agent EXCEPT
               !.batch = @ \o more,
               !.pc = IF agent.at < Len(StartOrder) THEN "drain" ELSE "enqueue",
               !.at = IF agent.at < Len(StartOrder) THEN @ + 1 ELSE 1]
    /\ UNCHANGED <<durable, registered>>

\* Mutant of OverflowLoss: the event that met the full queue, as for a database error.
OneRefused(batch, pos, count) == 1

\* What the cycle reports when the queue is full.
OverflowLoss(batch, pos, count) == Len(batch) - count

\* One event of the cycle: known, stored, refused by a full queue (which ends the
\* cycle), or lost to an error of the database.
Enqueue ==
    /\ agent.pc = "enqueue" /\ agent.pos <= Len(agent.batch)
    /\ LET e == agent.batch[agent.pos]
           full == Cardinality(unsent) >= QueueSize
       IN  \/ /\ e \in unsent \cup sent
              /\ agent' = [agent EXCEPT !.pos = @ + 1]
              /\ UNCHANGED unsent
           \/ /\ e \notin unsent \cup sent /\ ~full
              /\ unsent' = unsent \cup {e}
              /\ agent' = [agent EXCEPT !.pos = @ + 1, !.count = @ + 1]
           \/ /\ e \notin unsent \cup sent /\ full
              /\ agent' = [agent EXCEPT
                     !.reported = @ + OverflowLoss(agent.batch, agent.pos, agent.count),
                     !.pos = Len(agent.batch) + 1]
              /\ UNCHANGED unsent
           \/ /\ agent' = [agent EXCEPT !.reported = @ + 1, !.pos = @ + 1]
              /\ UNCHANGED unsent
    /\ UNCHANGED <<collector, emitted, file, sent, registered>>

\* The cycle is over.
CycleEnds ==
    /\ agent.pc = "enqueue" /\ agent.pos > Len(agent.batch)
    /\ agent' = [agent EXCEPT !.pc = "check", !.batch = << >>, !.pos = 1, !.count = 0, !.reported = 0]
    /\ UNCHANGED <<collector, emitted, durable, registered>>

\* The sync worker delivers some rows, as SyncPipeline has it.
Deliver ==
    /\ agent.sync
    /\ \E S \in SUBSET unsent \ {{}} : unsent' = unsent \ S /\ sent' = sent \cup S
    /\ UNCHANGED <<collector, emitted, agent, file, registered>>

-----------------------------------------------------------------------------
\* stop.

StopSync ==
    /\ agent.pc = "sync"
    /\ agent' = [agent EXCEPT !.pc = "signal", !.at = 1, !.sync = FALSE]
    /\ UNCHANGED <<collector, emitted, durable, registered>>

\* self._etw is None: there is nothing to close and to forget.
StopHere ==
    /\ \/ agent.pc = "signal" /\ SignalStop(Here) /\ Goto("close")
       \/ agent.pc = "close" /\ CloseSession(Here) /\ Goto("forget")
       \/ /\ agent.pc = "close" /\ collector[Here].etw = "none"
          /\ Goto("mark") /\ UNCHANGED <<collector, emitted>>
       \/ agent.pc = "forget" /\ ForgetSession(Here) /\ Goto("mark")
       \/ agent.pc = "mark" /\ MarkStopped(Here) /\ NextOr("signal", "finish")
    /\ UNCHANGED <<durable, registered>>

\* The process ends, its sessions with it.
Gone ==
    /\ agent' = Down(agent.launches, agent.config)
    /\ collector' = [k \in Kind |-> NewCollector(TRUE)]
    /\ UNCHANGED emitted

Finish ==
    /\ agent.pc = "finish"
    /\ Gone
    /\ UNCHANGED <<durable, registered>>

\* What a crash leaves of the file when it comes in the middle of a save: the old
\* one, since only the temporary file was being written.  Mutant: the file itself was.
TornInPlace == NoIdentity
TornSave == file

Crash ==
    /\ agent.pc # "down"
    /\ Gone
    /\ file' = IF agent.pc \in {"identify", "save"} THEN TornSave ELSE file
    /\ UNCHANGED <<unsent, sent, registered>>

-----------------------------------------------------------------------------
\* The threads of the collectors.
Session(k) == Emit(k) \/ Count(k)
Reconnecting(k) == Wake(k) \/ Renew(k) \/ Reopen(k) \/ ReopenFails(k) \/ Reconnected(k)

CollectorStep ==
    /\ agent.pc # "down"
    /\ \E k \in Kind : Session(k) \/ Reconnecting(k)
    /\ UNCHANGED <<agent, durable, registered>>

AgentStep ==
    \/ Identify \/ Create \/ Open \/ Report \/ Register \/ SaveServerId \/ Enter
    \/ Check \/ DrainHere \/ Enqueue \/ CycleEnds
    \/ StopSync \/ StopHere \/ Finish

Next ==
    \/ Launch \/ AgentStep \/ Signal \/ Crash
    \/ CollectorStep \/ Deliver

Spec == Init /\ [][Next]_vars

(***************************************************************************)
(* Fairness.  The threads run; the operating system lets a session start   *)
(* that is asked for again and again.  Nothing makes it bring events, a    *)
(* signal come or a process be launched.                                   *)
(***************************************************************************)
Worked(A) == agent.pc # "down" /\ A /\ UNCHANGED <<agent, durable, registered>>

FairSpec ==
    /\ Spec
    /\ WF_vars(AgentStep)
    /\ \A k \in Kind : /\ WF_vars(Worked(Wake(k) \/ Renew(k) \/ Reconnected(k) \/ Count(k)))
                       /\ SF_vars(Worked(Reopen(k)))
                       /\ WF_vars(Worked(Reopen(k) \/ ReopenFails(k)))

-----------------------------------------------------------------------------
(***************************************************************************)
(* Properties.                                                             *)
(***************************************************************************)

\* "Overflow and per-event failures are reported explicitly" (_collect_cycle): of
\* the events of a cycle, those dealt with and not in the queue are no more than
\* the cycle reported, whatever mixture of ids known before, full queue,
\* deliveries meanwhile and database errors it met.
LossesReported ==
    agent.pc = "enqueue" =>
        Cardinality({i \in 1..(agent.pos - 1) :
                        i <= Len(agent.batch) /\ agent.batch[i] \notin unsent \cup sent})
          <= agent.reported

\* One machine, one host: however the configuration changes between launches, and
\* wherever a crash falls, the records this machine has at the backend carry one
\* host id, the identity file never names another, and a server id in it is the id
\* of one of them (ensure_identity, _register_agent and register_agent together).
OneHost ==
    /\ \A i, j \in DOMAIN registered : registered[i].host = registered[j].host
    /\ file # NoIdentity =>
          /\ \A i \in DOMAIN registered : registered[i].host = file.host
          /\ file.server # 0 => file.server \in DOMAIN registered

\* A session that could not be started is started in the end: a degraded collector
\* does not stay degraded, unless the library is missing, the stop is signalled or
\* the process goes down.
Reconnects ==
    \A k \in Kind :
        [](collector[k].health = "degraded" /\ collector[k].installed
             => <>(collector[k].health # "degraded" \/ collector[k].stop))

=============================================================================
