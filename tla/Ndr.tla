-------------------------------- MODULE Ndr --------------------------------
(***************************************************************************)
(* The network pipeline: workers that consume Kafka partitions, clients of *)
(* POST /api/v1/events, the shared tables, the analyst who closes          *)
(* incidents and the retention job.  Code: backend/worker.py, pipeline.py, *)
(* correlation.py, the handlers of main.py and retention.py.               *)
(*                                                                         *)
(* A transaction is two steps: Analyze reads the tables, and Store writes  *)
(* and commits; others commit in between.  A unique constraint that is     *)
(* broken by then makes the flush raise.                                   *)
(***************************************************************************)
EXTENDS NdrDetectors

CONSTANTS
    Worker, Client,
    Log,           \* Worker -> sequence of messages in its partition
    Unreadable,    \* a message that is null or not UTF-8; None is one that is not JSON
    Request,       \* payloads a client may post
    HourLength,    \* the hour in an incident's key
    IncidentSpan,  \* window_minutes of correlate_alert
    MaxRequests,   \* bound: posts
    MaxFaults,     \* bound: failed publications and dead letters, slow look-ups, crashes
    MaxEdits       \* bound: analyst updates, clean-ups, cache expiries

ASSUME ProcessAssumption ==
    /\ Worker \cap Client = {} /\ HourLength \in Nat \ {0}
    /\ Log \in [Worker -> Seq(Payload \cup {None, Unreadable})] /\ Request \subseteq Payload

VARIABLES
    events,        \* normalized_events
    detections,    \* detections
    alerts,        \* alerts
    incidents,     \* incidents
    links,         \* incident_alerts: <<alert, incident key>>
    intel,         \* threat_intel_cache: addresses with a live row
    deadLetters,   \* dead_letter_events: <<worker, offset>>
    published,     \* event ids on the detections topic
    committed,     \* consumer group offsets
    tx,            \* per process, the message or request it handles
    dropped,       \* history: <<worker, offset>> whose dead letter failed
    requests, faults, edits

tables  == <<events, detections, alerts, incidents, links, intel>>
outputs == <<deadLetters, published, committed, dropped>>
bounds  == <<requests, faults, edits>>
vars    == <<tables, outputs, tx, bounds>>

Process == Worker \cup Client
Step == {"idle", "analyze", "store", "publish", "failed", "settle"}
Idle == [step |-> "idle", payload |-> None, plan |-> None]

Alert ==
    [id : EventKey \cup Digest, class : Class, severity : Severity,
     techniques : SUBSET Technique, src : Address, dst : Address, at : Nat, owned : BOOLEAN]

Incident ==
    [key : Address \X Address \X Class \X Int, src : Address, dst : Address, class : Class,
     severity : Severity, techniques : SUBSET Technique, status : {"open", "closed"}, last : Nat]

(* What a transaction will write, and the incident it has read.            *)
Plan ==
    [event : Payload, detection : Detection, fetched : SUBSET Address, alert : {None} \cup Alert,
     raises : BOOLEAN, was : {None} \cup Incident, incident : {None} \cup Incident]

ASSUME NoneAssumption == None \notin Payload \cup Alert \cup Incident \cup Plan

TypeOK ==
    /\ events \subseteq Payload /\ detections \subseteq Detection
    /\ alerts \subseteq Alert /\ incidents \subseteq Incident
    /\ links \subseteq {a.id : a \in alerts} \X {i.key : i \in incidents}
    /\ intel \subseteq Address
    /\ committed \in [Worker -> Nat] /\ \A w \in Worker : committed[w] \in 0..Len(Log[w])
    /\ tx \in [Process -> [step : Step, payload : {None} \cup Payload, plan : {None} \cup Plan]]

Init ==
    /\ events = {} /\ detections = {} /\ alerts = {} /\ incidents = {} /\ links = {} /\ intel = {}
    /\ deadLetters = {} /\ published = {} /\ dropped = {}
    /\ committed = [w \in Worker |-> 0]
    /\ tx = [p \in Process |-> Idle]
    /\ requests = 0 /\ faults = 0 /\ edits = 0

Goto(p, step) == tx' = [tx EXCEPT ![p].step = step]
Done(p)       == tx' = [tx EXCEPT ![p] = Idle]

-----------------------------------------------------------------------------
(* A worker takes the next message; one that is not JSON is dead-lettered. *)
(* The deserializer raises on one it cannot read, outside of the handler:  *)
(* the worker dies with nothing done, and meets the message again.         *)
Fetch(w) ==
    /\ tx[w].step = "idle" /\ committed[w] < Len(Log[w])
    /\ LET message == Log[w][committed[w] + 1]
       IN  /\ message # Unreadable
           /\ tx' = [tx EXCEPT ![w] = [Idle EXCEPT !.payload = message,
                         !.step = IF message = None THEN "failed" ELSE "analyze"]]
    /\ UNCHANGED <<tables, outputs, bounds>>

(* A client posts one payload.                                             *)
Submit(c) ==
    /\ tx[c].step = "idle" /\ requests < MaxRequests
    /\ \E p \in Request : tx' = [tx EXCEPT ![c] = [Idle EXCEPT !.payload = p,
                                                                !.step = "analyze"]]
    /\ requests' = requests + 1
    /\ UNCHANGED <<tables, outputs, faults, edits>>

-----------------------------------------------------------------------------
StoredAs(p) ==
    LET same == {e \in events : EventId(e) = EventId(p)}
    IN  IF same = {} THEN p ELSE CHOOSE e \in same : TRUE

AlertOf(e, det) ==
    [id |-> det.id, class |-> det.class, severity |-> det.severity, techniques |-> det.techniques,
     src |-> e.src, dst |-> e.dst, at |-> e.at, owned |-> TRUE]

IncidentKey(a) == <<a.src, a.dst, a.class, a.at \div HourLength>>

Matches(a, i) ==
    /\ i.status = "open" /\ a.src = i.src /\ a.dst = i.dst
    /\ a.class = i.class \/ a.techniques \cap i.techniques # {}

(* The matching incidents in the window, the most recent ones.             *)
Matching(a) ==
    LET found == {i \in incidents : i.last >= a.at - IncidentSpan /\ Matches(a, i)}
    IN  {i \in found : \A j \in found : j.last <= i.last}

NewIncident(a) ==
    [key |-> IncidentKey(a), src |-> a.src, dst |-> a.dst, class |-> a.class,
     severity |-> a.severity, techniques |-> a.techniques, status |-> "open", last |-> a.at]

Merged(i, a) ==
    [i EXCEPT !.severity = Max({@, a.severity}), !.last = Max({@, a.at}),
              !.techniques = @ \cup a.techniques]

(* As Correlations, without the look at the alert's existing link.         *)
CorrelateAgain(a) ==
    IF Matching(a) = {} THEN {<<None, NewIncident(a)>>}
    ELSE {<<i, Merged(i, a)>> : i \in Matching(a)}

(* correlate_alert: the incident as read (None to create it) and as left.  *)
Correlations(a) ==
    IF \E l \in links : l[1] = a.id THEN {<<None, None>>}
    ELSE IF Matching(a) = {} THEN {<<None, NewIncident(a)>>}
    ELSE {<<i, Merged(i, a)>> : i \in Matching(a)}

(* process_payload up to its first write: what it will store for an event  *)
(* and its detection.                                                      *)
Plans(e, det, fetched) ==
    LET prior == {a \in alerts : a.id = det.id}
        alert == IF prior = {} THEN AlertOf(e, det) ELSE CHOOSE a \in prior : TRUE
    IN  {[event |-> e, detection |-> det, fetched |-> fetched,
          alert |-> IF det.alerting THEN alert ELSE None,
          raises |-> det.alerting /\ prior = {},
          was |-> c[1], incident |-> c[2]] :
         c \in IF det.alerting THEN Correlations(alert) ELSE {<<None, None>>}}

(* What process_payload reads: a detection of the event ends it there.     *)
Analyze(p) ==
    /\ tx[p].step = "analyze"
    /\ \/ ~Normalizes(tx[p].payload) /\ Goto(p, "failed") /\ UNCHANGED faults
       \/ /\ Normalizes(tx[p].payload)
          /\ \E d \in detections : d.id = EventId(tx[p].payload)
          /\ Goto(p, "store") /\ UNCHANGED faults
       \/ /\ Normalizes(tx[p].payload)
          /\ ~ \E d \in detections : d.id = EventId(tx[p].payload)
          /\ \E slow \in BOOLEAN, e \in {StoredAs(tx[p].payload)} :
             /\ IF slow THEN faults < MaxFaults /\ faults' = faults + 1 ELSE UNCHANGED faults
             /\ \E det \in {Detect(e, events \cup {e}, alerts, intel, slow)},
                  fetched \in {Fetched(e, intel, slow)} :
               \E plan \in Plans(e, det, fetched) :
                 tx' = [tx EXCEPT ![p].step = "store", ![p].plan = plan]
    /\ UNCHANGED <<tables, outputs, requests, edits>>

(* A row that another transaction committed since has the same unique key. *)
Collides(plan) ==
    \/ \E e \in events : EventId(e) = plan.detection.id /\ e # plan.event
    \/ \E d \in detections : d.id = plan.detection.id
    \/ plan.raises /\ \E a \in alerts : a.id = plan.alert.id
    \/ plan.incident # None /\ plan.was = None /\ \E i \in incidents : i.key = plan.incident.key

(* The update of an incident names the columns that changed since the read.*)
Updated(i, plan) ==
    IF plan.was = None \/ i.key # plan.was.key THEN i
    ELSE [c \in DOMAIN i |-> IF plan.incident[c] # plan.was[c] THEN plan.incident[c] ELSE i[c]]

StorePlan(plan) ==
    /\ events' = events \cup {plan.event}
    /\ detections' = detections \cup {plan.detection}
    /\ alerts' = alerts \cup (IF plan.raises THEN {plan.alert} ELSE {})
    /\ incidents' = {Updated(i, plan) : i \in incidents}
                    \cup (IF plan.incident # None /\ plan.was = None THEN {plan.incident} ELSE {})
    /\ links' = links \cup (IF plan.incident = None THEN {}
                            ELSE {<<plan.alert.id, plan.incident.key>>})
    /\ intel' = intel \cup plan.fetched

(* As Store, but the record is sent before the commit.                     *)
PublishThenStore(p) ==
    /\ tx[p].step = "store"
    /\ published' = published \cup {EventId(tx[p].payload)}
    /\ IF tx[p].plan # None /\ ~Collides(tx[p].plan)
       THEN Goto(p, "publish") /\ StorePlan(tx[p].plan)
       ELSE Goto(p, "failed") /\ UNCHANGED tables
    /\ UNCHANGED <<deadLetters, committed, dropped, bounds>>

Store(p) ==
    /\ tx[p].step = "store"
    /\ IF tx[p].plan = None
       THEN Goto(p, "publish") /\ UNCHANGED tables
       ELSE IF Collides(tx[p].plan)
       THEN Goto(p, "failed") /\ UNCHANGED tables
       ELSE Goto(p, "publish") /\ StorePlan(tx[p].plan)
    /\ UNCHANGED <<outputs, bounds>>

-----------------------------------------------------------------------------
(* Publication, after the commit; a failure may come after the broker got  *)
(* the record, and dead-letters an event that is stored.                   *)
Publish(w) ==
    LET id     == EventId(tx[w].payload)
        exists == \E d \in detections : d.id = id
    IN  /\ tx[w].step = "publish"
        /\ \/ /\ exists
              /\ published' = published \cup {id}
              /\ Goto(w, "settle") /\ UNCHANGED faults
           \/ /\ IF exists THEN faults < MaxFaults /\ faults' = faults + 1
                 ELSE UNCHANGED faults
              /\ published' \in {published} \cup (IF exists THEN {published \cup {id}} ELSE {})
              /\ Goto(w, "failed")
        /\ UNCHANGED <<tables, deadLetters, committed, dropped, requests, edits>>


(* The dead letter has a session of its own; when that fails too, the      *)
(* error is printed and the offset is committed all the same.              *)
DeadLetter(w) ==
    /\ tx[w].step = "failed"
    /\ LET place == <<w, committed[w] + 1>>
       IN  \/ deadLetters' = deadLetters \cup {place} /\ UNCHANGED <<dropped, faults>>
           \/ /\ faults < MaxFaults /\ faults' = faults + 1
              /\ dropped' = dropped \cup {place} /\ UNCHANGED deadLetters
    /\ Goto(w, "settle")
    /\ UNCHANGED <<tables, published, committed, requests, edits>>

CommitOffset(w) ==
    /\ tx[w].step = "settle"
    /\ committed' = [committed EXCEPT ![w] = @ + 1]
    /\ Done(w)
    /\ UNCHANGED <<tables, deadLetters, published, dropped, bounds>>

(* The client's answer: the rows, or an error after the rollback.          *)
Respond(c) ==
    /\ tx[c].step \in {"publish", "failed"}
    /\ Done(c)
    /\ UNCHANGED <<tables, outputs, bounds>>

(* As Crash, with enable_auto_commit left on.                              *)
CrashAfterAutoCommit(p) ==
    /\ tx[p].step # "idle" /\ faults < MaxFaults
    /\ Done(p)
    /\ faults' = faults + 1
    /\ committed' = [w \in Worker |-> IF w = p THEN committed[w] + 1 ELSE committed[w]]
    /\ UNCHANGED <<tables, deadLetters, published, dropped, requests, edits>>

(* A process dies; a restarted worker resumes at the committed offset.     *)
Crash(p) ==
    /\ tx[p].step # "idle" /\ faults < MaxFaults
    /\ Done(p)
    /\ faults' = faults + 1
    /\ UNCHANGED <<tables, outputs, requests, edits>>

-----------------------------------------------------------------------------
SetIncidentStatus ==
    /\ edits < MaxEdits /\ edits' = edits + 1
    /\ \E i \in incidents, s \in {"open", "closed"} :
         incidents' = (incidents \ {i}) \cup {[i EXCEPT !.status = s]}
    /\ UNCHANGED <<events, detections, alerts, links, intel, outputs, tx, requests, faults>>

(* Deleting detections clears detection_id in their alerts.  An incident   *)
(* has alerts, its links cannot lose their incident_id, and the category   *)
(* is rolled back: no incident is ever deleted.                            *)
Cleanup ==
    /\ edits < MaxEdits /\ edits' = edits + 1
    /\ \E gone \in SUBSET detections \ {{}} :
         /\ detections' = detections \ gone
         /\ alerts' = {[a EXCEPT !.owned = @ /\ ~ \E d \in gone : d.id = a.id] : a \in alerts}
    /\ UNCHANGED <<events, incidents, links, intel, outputs, tx, requests, faults>>

IntelExpires ==
    /\ edits < MaxEdits /\ edits' = edits + 1
    /\ \E a \in intel : intel' = intel \ {a}
    /\ UNCHANGED <<events, detections, alerts, incidents, links, outputs, tx, requests, faults>>

Handle(w) == Fetch(w) \/ Analyze(w) \/ Store(w) \/ Publish(w) \/ DeadLetter(w) \/ CommitOffset(w)

Next ==
    \/ \E w \in Worker : Handle(w)
    \/ \E c \in Client : Submit(c) \/ Analyze(c) \/ Store(c) \/ Respond(c)
    \/ \E p \in Process : Crash(p)
    \/ SetIncidentStatus \/ Cleanup \/ IntelExpires

Spec == Init /\ [][Next]_vars

Readable(w) == \A n \in DOMAIN Log[w] : Log[w][n] # Unreadable

(* The consumer loop keeps running, and a dead worker is restarted.  A     *)
(* poll reads many messages, so that an unreadable one also keeps those    *)
(* before it from the handler: nothing is assumed of its partition.        *)
FairSpec == Spec /\ \A w \in {v \in Worker : Readable(v)} : WF_vars(Handle(w))

-----------------------------------------------------------------------------
(* An alert is due for the event alone, whether or not the provider is slow. *)
Suspicious(e) == \A slow \in BOOLEAN : Detect(e, {e}, {}, {}, slow).alerting

(* A message the group has moved past is stored or dead-lettered, unless   *)
(* the dead letter itself failed; and if it is suspicious by itself, its   *)
(* event has an alert.  _handle_message commits the offset on every path.  *)
MessagesAccountedFor ==
    \A w \in Worker : \A n \in 1..committed[w] :
        \/ <<w, n>> \in deadLetters \cup dropped
        \/ \E e \in events : /\ EventId(e) = EventId(Log[w][n])
                             /\ Suspicious(e) => \E a \in alerts : a.id = EventId(e)

(* Redelivery, a post of the same event, retention in between: an alert    *)
(* belongs to exactly one incident, and to one of its pair of addresses.   *)
AlertInOneIncident ==
    \A a \in alerts :
        \E i \in incidents : /\ {l \in links : l[1] = a.id} = {<<a.id, i.key>>}
                             /\ a.src = i.src /\ a.dst = i.dst

(* What is on the detections topic was committed first: a consumer never   *)
(* hears of an event that a rollback undid.                                *)
PublishedWasStored == \A id \in published : \E e \in events : EventId(e) = id

=============================================================================
