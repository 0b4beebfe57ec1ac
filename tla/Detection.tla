----------------------------- MODULE Detection -----------------------------
(***************************************************************************)
(* The detection pipeline behind the ingest endpoint: an agent registers   *)
(* and posts batches of events; the events are committed, and then each is *)
(* dispatched by the thread that stored it: detections, recurrence count,  *)
(* incidents, risk score, decision, links, with a commit after each.  The  *)
(* code is backend/api_guardian.py and guardian/detection.                 *)
(*                                                                         *)
(* Every step below ends at a commit, or at a read that a later commit of  *)
(* the same thread relies on; the steps of other threads come in between,  *)
(* and the backend may die between any two.                                *)
(***************************************************************************)
EXTENDS Detectors, Sequences

CONSTANTS
    Worker,             \* threads of the backend
    Event,              \* event ids
    Content,            \* Event -> SecurityEvent
    Batch,              \* what an agent may post: sequences of event ids
    Window,             \* seconds a recurrence row lives after its last event
    ProcessThreshold,   \* PROCESS_EVENT_THRESHOLD
    HostThreshold,      \* HOST_EVENT_THRESHOLD
    MaxTime,            \* bound: the clock
    MaxPosts,           \* bound: batches posted
    MaxCrashes          \* bound: restarts of the backend

ASSUME DetectionAssumption ==
    /\ Content \in [Event -> SecurityEvent]
    /\ \A b \in Batch : b \in Seq(Event) \ {<< >>}
    /\ Window \in Nat /\ MaxTime \in Nat /\ MaxPosts \in Nat /\ MaxCrashes \in Nat

VARIABLES
    agents,        \* guardian_agents, in the order of registration
    stored,        \* guardian_events: per event the host it is stored under, or None
    detections,    \* guardian_detections: what was found, of the events that were examined
    recurrence,    \* guardian_recurrence_state: a sequence of rows
    incidents,     \* guardian_incidents: per correlation key a row, or None
    risks,         \* guardian_risk_scores
    decisions,     \* guardian_response_decisions
    request,       \* per thread the request it serves, or None
    bumps,         \* history: what increment returned, for which event, and when
    now, posts, crashes

rows == <<agents, stored, detections, recurrence, incidents, risks, decisions>>
bounds == <<now, posts, crashes>>
vars == <<rows, request, bumps, bounds>>

CorrelationKeys == (Host \cup {"unknown"})
                   \X (Process \cup Address \cup {"generic", "persistence"})

Step == {"check", "commit", "detect", "count", "recount", "candidates", "incidents", "risk",
         "decision", "link"}

\* The rows of the tables.
RecurrenceRow ==
    [host : Host, entity : Process \cup Address, count : Nat, start : Nat, expires : Nat]
IncidentRow == [event : Event, risk : Nat \cup {None}, decision : Nat \cup {None}]
RiskRow ==
    [event : Event, score : 0..100, severity : {"low", "medium", "high", "critical"},
     incident : CorrelationKeys \cup {None}]
DecisionRow ==
    [event : Event, incident : CorrelationKeys \cup {None},
     action : {"monitor", "investigate", "approve_containment", "prepare_containment"}]

\* A request: the events it has not looked up, those it stores and then has to dispatch,
\* the counters of its dispatcher, and what the dispatch of the first one holds between
\* its commits: the recurrence row it read, if any, and when, the count, the incidents
\* to create, its risk and decision.
RequestRow ==
    [pc : Step, host : Host, unread : Seq(Event), todo : Seq(Event),
     seenProcess : Seq(Process), seenHost : Nat,
     row : Nat \cup {None}, at : Nat, entity : Process \cup Address \cup {None}, count : Nat,
     create : SUBSET CorrelationKeys, risk : Nat, decision : Nat]

\* None is no row, no number and no key.
ASSUME NoneAssumption == None \notin IncidentRow \cup RequestRow \cup Nat \cup CorrelationKeys

\* The events the detectors have been run on.
Examined == DOMAIN detections

TypeOK ==
    /\ agents \in Seq(Host)
    /\ stored \in [Event -> Host \cup {None}]
    /\ Examined \subseteq Event /\ detections \in [Examined -> SUBSET DetectionRow]
    /\ recurrence \in Seq(RecurrenceRow)
    /\ incidents \in [CorrelationKeys -> IncidentRow \cup {None}]
    /\ risks \in Seq(RiskRow)
    /\ decisions \in Seq(DecisionRow)
    /\ request \in [Worker -> RequestRow \cup {None}]
    /\ bumps \in Seq([event : Event, host : Host, entity : Process \cup Address, at : Nat, count : Nat])
    /\ now \in 0..MaxTime /\ posts \in 0..MaxPosts /\ crashes \in 0..MaxCrashes

Init ==
    /\ agents = << >>
    /\ stored = [e \in Event |-> None]
    /\ detections = [e \in {} |-> {}]
    /\ recurrence = << >>
    /\ incidents = [k \in CorrelationKeys |-> None]
    /\ risks = << >>
    /\ decisions = << >>
    /\ request = [w \in Worker |-> None]
    /\ bumps = << >>
    /\ now = 0 /\ posts = 0 /\ crashes = 0

-----------------------------------------------------------------------------
\* Agents.

Registered(h) == \E i \in DOMAIN agents : agents[i] = h

\* Registration is idempotent, and an agent goes on without it.
RegisterAgent(h) ==
    /\ ~Registered(h)
    /\ agents' = Append(agents, h)
    /\ UNCHANGED <<stored, detections, recurrence, incidents, risks, decisions, request, bumps,
                   bounds>>

\* An unknown agent key stands for the agent that was registered last.
ResolvedAgent(h) == IF Registered(h) THEN h ELSE agents[Len(agents)]

-----------------------------------------------------------------------------
\* Ingestion.

\* A request with nothing held between two commits.
NewRequest(pc, host, todo, seenProcess, seenHost) ==
    [pc |-> pc, host |-> host, unread |-> << >>, todo |-> todo,
     seenProcess |-> seenProcess, seenHost |-> seenHost,
     row |-> None, at |-> 0, entity |-> None, count |-> 0, create |-> {}, risk |-> 0, decision |-> 0]

At(w, pc) == request[w] # None /\ request[w].pc = pc

ReceiveBatch(w, h, b) ==
    /\ request[w] = None
    /\ agents # << >>
    /\ posts < MaxPosts
    /\ posts' = posts + 1
    /\ request' = [request EXCEPT ![w] =
           [NewRequest("check", ResolvedAgent(h), << >>, << >>, 0) EXCEPT !.unread = b]]
    /\ UNCHANGED <<rows, bumps, now, crashes>>

\* An event that is stored is a duplicate.
CheckEvent(w) ==
    /\ At(w, "check")
    /\ LET e == Head(request[w].unread)
       IN  request' = [request EXCEPT
               ![w].unread = Tail(@),
               ![w].todo = IF stored[e] = None THEN Append(@, e) ELSE @,
               ![w].pc = IF Len(request[w].unread) = 1 THEN "commit" ELSE "check"]
    /\ UNCHANGED <<rows, bumps, bounds>>

\* One transaction for the batch; event_id is unique.
CommitBatch(w) ==
    /\ At(w, "commit")
    /\ LET r == request[w]
           fresh == {r.todo[i] : i \in DOMAIN r.todo}
           unique == /\ \A i, j \in DOMAIN r.todo : r.todo[i] = r.todo[j] => i = j
                     /\ \A e \in fresh : stored[e] = None
       IN  IF unique /\ r.todo # << >>
           THEN /\ stored' = [e \in Event |-> IF e \in fresh THEN r.host ELSE stored[e]]
                /\ request' = [request EXCEPT ![w].pc = "detect"]
           ELSE /\ request' = [request EXCEPT ![w] = None]
                /\ UNCHANGED stored
    /\ UNCHANGED <<agents, detections, recurrence, incidents, risks, decisions, bumps, bounds>>

-----------------------------------------------------------------------------
\* The dispatch of the first event of todo.

Current(w) == request[w].todo[1]

Advance(w, pc) == request' = [request EXCEPT ![w].pc = pc]

\* The next event of the batch, with the counters of the dispatcher kept.
NextEvent(w) ==
    request' = [request EXCEPT ![w] =
        IF Len(@.todo) = 1 THEN None
        ELSE NewRequest("detect", @.host, Tail(@.todo), @.seenProcess, @.seenHost)]

\* Mutant of FailEvent: the failure of an event ends the request.
FailBatch(w) == request' = [request EXCEPT ![w] = None]

\* The endpoint logs the exception, rolls back and goes on.
FailEvent(w) == NextEvent(w)

\* Detectors, their persistence, and the creation of the recurrence table.
PersistDetections(w) ==
    /\ At(w, "detect")
    /\ LET r == request[w]
           e == Content[Current(w)]
           seen == IF e.process = None THEN r.seenProcess ELSE Append(r.seenProcess, e.process)
           times == Len(SelectSeq(seen, LAMBDA p : p = e.process))
           found == StatelessDetections(e)
                    \cup RecurrenceDetections(times, r.seenHost + 1, ProcessThreshold,
                                              HostThreshold)
       IN  /\ detections' = [x \in Examined \cup {Current(w)} |->
                                IF x = Current(w) THEN found ELSE detections[x]]
           /\ request' = [request EXCEPT ![w] =
                  NewRequest("count", r.host, r.todo, seen, r.seenHost + 1)]
    /\ UNCHANGED <<agents, stored, recurrence, incidents, risks, decisions, bumps, bounds>>

\* What is counted: a process, or else an address, or nothing.
Counted(e) == IF e.process # None THEN e.process ELSE e.ip

\* Mutant of Live: rows never expire.
Eternal(row, host, entity) == row.host = host /\ row.entity = entity

Live(row, host, entity) == row.host = host /\ row.entity = entity /\ row.expires > now

ReadCount(w) ==
    /\ At(w, "count")
    /\ LET entity == Counted(Content[Current(w)])
           live == {i \in DOMAIN recurrence : Live(recurrence[i], request[w].host, entity)}
           latest == {i \in live : \A j \in live : recurrence[j].start <= recurrence[i].start}
       IN  IF entity = None
           THEN Advance(w, "candidates")
           ELSE \E i \in IF live = {} THEN {None} ELSE latest :
                    request' = [request EXCEPT
                        ![w].pc = "recount", ![w].row = i, ![w].at = now, ![w].entity = entity,
                        ![w].count = IF i = None THEN 1 ELSE recurrence[i].count + 1]
    /\ UNCHANGED <<rows, bumps, bounds>>

\* The window a thread is about to open has a row: (host, entity, start) is unique.
SameWindow(r) ==
    \E i \in DOMAIN recurrence :
        recurrence[i].host = r.host /\ recurrence[i].entity = r.entity /\ recurrence[i].start = r.at

\* The count that was read is written back one higher.  Of two threads that found no row,
\* the later insertion is refused when both read the clock in the same microsecond, which
\* a tick of the model leaves open; the refused event is not dispatched any further.
WriteCount(w) ==
    /\ At(w, "recount")
    /\ LET r == request[w]
       IN  \/ /\ r.row = None /\ SameWindow(r)
              /\ FailEvent(w)
              /\ UNCHANGED <<recurrence, bumps>>
           \/ /\ recurrence' =
                     IF r.row = None
                     THEN Append(recurrence, [host |-> r.host, entity |-> r.entity, count |-> 1,
                                              start |-> r.at, expires |-> r.at + Window])
                     ELSE [recurrence EXCEPT ![r.row].count = r.count,
                                             ![r.row].expires = r.at + Window]
              /\ bumps' = Append(bumps, [event |-> Current(w), host |-> r.host, entity |-> r.entity,
                                         at |-> r.at, count |-> r.count])
              /\ Advance(w, "candidates")
    /\ UNCHANGED <<agents, stored, detections, incidents, risks, decisions, bounds>>

EventCandidates(e) == CandidateKeys(Content[e], stored[e], detections[e])

\* Without detections there is nothing to persist.
ReadIncidents(w) ==
    /\ At(w, "candidates")
    /\ IF detections[Current(w)] = {}
       THEN NextEvent(w)
       ELSE request' = [request EXCEPT
                ![w].pc = "incidents",
                ![w].create = {k \in EventCandidates(Current(w)) : incidents[k] = None}]
    /\ UNCHANGED <<rows, bumps, bounds>>

\* candidate_id is unique: of two threads that found no incident, one fails,
\* and its event gets no risk score and no decision.
PersistIncidents(w) ==
    /\ At(w, "incidents")
    /\ IF \E k \in request[w].create : incidents[k] # None
       THEN FailEvent(w) /\ UNCHANGED incidents
       ELSE /\ incidents' = [k \in CorrelationKeys |->
                   IF k \in request[w].create
                   THEN [event |-> Current(w), risk |-> None, decision |-> None]
                   ELSE incidents[k]]
            /\ Advance(w, "risk")
    /\ UNCHANGED <<agents, stored, detections, recurrence, risks, decisions, bumps, bounds>>

\* The risk names the incident of the first group.
PersistRisk(w) ==
    /\ At(w, "risk")
    /\ LET e == Current(w)
           found == detections[e]
           keys == EventCandidates(e)
           score == RiskScore(found, Cardinality(Keys(Content[e], stored[e], found)),
                              request[w].count)
       IN  \E k \in IF keys = {} THEN {None} ELSE keys :
               /\ risks' = Append(risks, [event |-> e, score |-> score,
                                       severity |-> RiskSeverity(score), incident |-> k])
               /\ request' = [request EXCEPT ![w].pc = "decision", ![w].risk = Len(risks) + 1]
    /\ UNCHANGED <<agents, stored, detections, recurrence, incidents, decisions, bumps, bounds>>

PersistDecision(w) ==
    /\ At(w, "decision")
    /\ LET risk == risks[request[w].risk]
       IN  decisions' = Append(decisions, [event |-> Current(w), incident |-> risk.incident,
                                           action |-> RecommendedAction(risk.score)])
    /\ request' = [request EXCEPT ![w].pc = "link", ![w].decision = Len(decisions) + 1]
    /\ UNCHANGED <<agents, stored, detections, recurrence, incidents, risks, bumps, bounds>>

\* Mutant of LinkIncidents: an incident keeps its first risk score.
LinkOnce(w) ==
    /\ At(w, "link")
    /\ LET r == request[w]
           k == risks[r.risk].incident
       IN  incidents' = IF k = None THEN incidents
                        ELSE [incidents EXCEPT
                                ![k].risk = IF @ = None THEN r.risk ELSE @,
                                ![k].decision = r.decision]
    /\ NextEvent(w)
    /\ UNCHANGED <<agents, stored, detections, recurrence, risks, decisions, bumps, bounds>>

\* The incident the risk names takes this risk and this decision.
LinkIncidents(w) ==
    /\ At(w, "link")
    /\ LET r == request[w]
           k == risks[r.risk].incident
       IN  incidents' = IF k = None THEN incidents
                        ELSE [incidents EXCEPT ![k].risk = r.risk, ![k].decision = r.decision]
    /\ NextEvent(w)
    /\ UNCHANGED <<agents, stored, detections, recurrence, risks, decisions, bumps, bounds>>

-----------------------------------------------------------------------------
\* The backend dies: its requests are gone.  An agent posts again what it has
\* no answer for, and finds the events stored.
Crash ==
    /\ crashes < MaxCrashes
    /\ crashes' = crashes + 1
    /\ request' = [w \in Worker |-> None]
    /\ UNCHANGED <<rows, bumps, now, posts>>

TimePasses ==
    /\ now < MaxTime
    /\ now' = now + 1
    /\ UNCHANGED <<rows, request, bumps, posts, crashes>>

Serve(w) ==
    \/ CheckEvent(w) \/ CommitBatch(w) \/ PersistDetections(w) \/ ReadCount(w) \/ WriteCount(w)
    \/ ReadIncidents(w) \/ PersistIncidents(w) \/ PersistRisk(w) \/ PersistDecision(w)
    \/ LinkIncidents(w)

Next ==
    \/ \E h \in Host : RegisterAgent(h)
    \/ \E w \in Worker : (\E h \in Host, b \in Batch : ReceiveBatch(w, h, b)) \/ Serve(w)
    \/ Crash
    \/ TimePasses

Spec == Init /\ [][Next]_vars

\* A thread that serves a request runs on.
FairSpec == Spec /\ \A w \in Worker : WF_vars(Serve(w))

-----------------------------------------------------------------------------
\* Properties.

InFlight(e) ==
    \E w \in Worker : request[w] # None /\ \E i \in DOMAIN request[w].todo : request[w].todo[i] = e

\* Increment never returned for an event, and another event opened a window of its
\* host and entity.
WindowTaken(e) ==
    /\ \A i \in DOMAIN bumps : bumps[i].event # e
    /\ \E i \in DOMAIN bumps :
           /\ bumps[i].host = stored[e] /\ bumps[i].entity = Counted(Content[e])
           /\ bumps[i].count = 1

\* A stored event whose request has ended has its risk score, unless the
\* backend died, or another event created the incident or opened the recurrence
\* window it was about to create: the failure of one event of a batch does not
\* touch the others.
UnscoredHasCause ==
    \A e \in Event :
        /\ stored[e] # None /\ ~InFlight(e)
        /\ crashes = 0
        => /\ e \in Examined
           /\ \/ detections[e] = {}
              \/ \E i \in DOMAIN risks : risks[i].event = e
              \/ \E k \in EventCandidates(e) : incidents[k] # None /\ incidents[k].event # e
              \/ WindowTaken(e)

\* The risk score and the decision of an incident come from one dispatch of an
\* event of that incident, although threads link the same incident at once.
LinkedPair ==
    \A k \in CorrelationKeys :
        LET i == incidents[k]
        IN  i # None /\ i.risk # None =>
                /\ i.decision # None
                /\ risks[i.risk].event = decisions[i.decision].event
                /\ risks[i.risk].incident = k /\ decisions[i.decision].incident = k

\* A recurrence count above one has an earlier event of the host and entity
\* within the window.
CountIsRecent ==
    \A i \in DOMAIN bumps : bumps[i].count > 1 =>
        \E j \in DOMAIN bumps \ {i} :
            /\ bumps[j].host = bumps[i].host /\ bumps[j].entity = bumps[i].entity
            /\ bumps[j].at + Window > bumps[i].at

\* Every stored event is examined by the detectors, unless the backend dies.
EventuallyDetected ==
    \A e \in Event : stored[e] # None ~> e \in Examined \/ crashes > 0
=============================================================================
