---------------------------- MODULE NdrDetectors ----------------------------
(***************************************************************************)
(* What the network pipeline computes from one payload: the normalized     *)
(* event's key, the threat-intelligence hits, the three detectors, the     *)
(* classification, the risk score and whether an alert is raised.  Code:   *)
(* backend/telemetry.py, rules_engine.py, anomaly.py, inference.py,        *)
(* threat_intel_service.py, risk.py and the pure part of pipeline.py.      *)
(*                                                                         *)
(* Probabilities are percentages, risk scores are hundredths of a point,   *)
(* severities are ranks: 0 informational ... 4 critical.                   *)
(***************************************************************************)
EXTENDS Integers, FiniteSets, Sequences, FiniteSetsExt

CONSTANTS
    None,          \* Python's None
    Address,       \* IP addresses
    EventKey,      \* what a sensor may put in event_id, uid or flow_id
    Digest,        \* hashes of payloads
    Technique,     \* MITRE technique ids
    RuleFile,      \* the rules of default_rules.json, in order
    Indicators,    \* local indicator list: Address -> confidence, 0 when not listed
    Mapping,       \* MITRE mapping: name of a class or of a rule -> techniques
    ContextSpan,   \* the 5 minutes of _context_for_event
    RepeatSpan     \* the 24 hours of _repeat_count

Severity == 0..4

(* What _parse_rule and _matches take from a rule, and the context's keys. *)
Rule ==
    [id : STRING, name : STRING, severity : Nat, enabled : BOOLEAN, operator : STRING,
     field : STRING, threshold : Nat, techniques : SUBSET Technique]

ASSUME RuleAssumption ==
    /\ RuleFile \in Seq(Rule)
    /\ Indicators \in [Address -> 0..100] /\ Mapping \in [DOMAIN Mapping -> SUBSET Technique]
    /\ \A i \in DOMAIN RuleFile :
        RuleFile[i].operator = "context_gte" => RuleFile[i].field \in {"connections", "ports"}

Payload ==
    [sensor : {"zeek", "suricata", "synthetic", "pcap"}, event_id : EventKey \cup {None},
     flow : EventKey \cup {None}, digest : Digest, wellFormed : BOOLEAN,
     src : Address, dst : Address, port : Nat, at : Nat,
     bytes : Nat, attack : 0..100, anomaly : 0..100]

Class ==
    {"Known Malicious Indicator", "ATTACK", "Anomalous Network Activity", "BENIGN"}
    \cup {RuleFile[i].name : i \in DOMAIN RuleFile}

(* A row of the detections table.                                          *)
Detection ==
    [id : EventKey \cup Digest, class : Class, score : 0..10000, severity : Severity,
     techniques : SUBSET Technique, alerting : BOOLEAN]

(* normalize_event raises on a malformed address and on a PCAP hint.       *)
Normalizes(p) == p.wellFormed /\ p.sensor # "pcap"

(* The explicit id, else the flow's uid or flow_id, else a hash of it all. *)
EventId(p) ==
    IF p.event_id # None THEN p.event_id
    ELSE IF p.sensor # "synthetic" /\ p.flow # None THEN p.flow
    ELSE p.digest

-----------------------------------------------------------------------------
(* Threat intelligence: a cached row answers alone; a slow provider counts *)
(* as a hit of confidence 0, which is not cached.                          *)
Lookup(a, cached, slow) ==
    IF a \in cached THEN {[indicator |-> a, confidence |-> Indicators[a], fresh |-> FALSE]}
    ELSE IF slow THEN {[indicator |-> a, confidence |-> 0, fresh |-> FALSE]}
    ELSE IF Indicators[a] = 0 THEN {}
    ELSE {[indicator |-> a, confidence |-> Indicators[a], fresh |-> TRUE]}

Hits(p, cached, slow) == UNION {Lookup(a, cached, slow) : a \in {p.src, p.dst}}

Fetched(p, cached, slow) ==
    {h.indicator : h \in {x \in Hits(p, cached, slow) : x.fresh}}

-----------------------------------------------------------------------------
(* One bad rule, or two rules of one id, and no rule is loaded.            *)
Loaded ==
    IF /\ \A i \in DOMAIN RuleFile : RuleFile[i].severity \in Severity
       /\ \A i, j \in DOMAIN RuleFile : RuleFile[i].id = RuleFile[j].id => i = j
    THEN RuleFile
    ELSE <<>>

(* events are the stored payloads, this one included.                      *)
Context(p, events) ==
    LET recent == {e \in events : e.src = p.src /\ e.at >= p.at - ContextSpan}
    IN  [connections |-> Cardinality(recent),
         ports |-> Cardinality({e.port : e \in recent} \ {0})]

RuleMatches(r, p, context, hits) ==
    /\ r.enabled
    /\ \/ r.operator = "threat_intel_match" /\ \E h \in hits : h.confidence >= r.threshold
       \/ r.operator = "context_gte" /\ context[r.field] >= r.threshold
       \/ r.operator = "gte" /\ p[r.field] >= r.threshold
       \/ r.operator = "lte" /\ p[r.field] <= r.threshold
       \/ r.operator = "equals" /\ p[r.field] = r.threshold

(* The places of the rules that match.                                     *)
Triggered(p, context, hits) ==
    {i \in DOMAIN Loaded : RuleMatches(Loaded[i], p, context, hits)}

-----------------------------------------------------------------------------
(* The model's label at the default threshold of the heuristic fallback.   *)
ModelLabel(p) == IF p.attack >= 55 THEN "ATTACK" ELSE "BENIGN"

ModelSeverity(p) ==
    IF ModelLabel(p) = "BENIGN" THEN 0
    ELSE IF p.attack >= 90 THEN 4 ELSE IF p.attack >= 75 THEN 3 ELSE 2

AnomalyLabel(p) == IF p.anomaly >= 60 THEN "ANOMALY" ELSE "NORMAL"

AnomalySeverity(p) == IF p.anomaly >= 85 THEN 3 ELSE IF p.anomaly >= 60 THEN 2 ELSE 0

Classification(p, hits, triggered) ==
    IF hits # {} /\ triggered # {} THEN "Known Malicious Indicator"
    ELSE IF ModelLabel(p) # "BENIGN" THEN ModelLabel(p)
    ELSE IF AnomalyLabel(p) = "ANOMALY" THEN "Anomalous Network Activity"
    ELSE IF triggered # {} THEN Loaded[Min(triggered)].name
    ELSE "BENIGN"

Techniques(p, class, triggered) ==
    LET rules == {Loaded[i] : i \in triggered}
        names == {class, ModelLabel(p), AnomalyLabel(p)} \cup {r.id : r \in rules}
    IN  (UNION {Mapping[n] : n \in names \cap DOMAIN Mapping})
        \cup (UNION {r.techniques : r \in rules})

-----------------------------------------------------------------------------
SeverityPoints == [s \in Severity |-> <<0, 20, 45, 70, 90>>[s + 1]]

AtMost(limit, n) == IF n > limit THEN limit ELSE n

(* RiskScorer.score with the default asset criticality of one half.        *)
RiskScore(p, hits, triggered, repeats) ==
    AtMost(10000,
        35 * p.attack + 20 * p.anomaly
        + 25 * Max({0} \cup {SeverityPoints[Loaded[i].severity] : i \in triggered})
        + 15 * Max({0} \cup {h.confidence : h \in hits})
        + 250
        + AtMost(1000, 200 * repeats))

SeverityFromScore(score) ==
    Cardinality({limit \in {1500, 4000, 6500, 8500} : score >= limit})

(* alerts are the stored ones; those of the class and the pair count.      *)
RepeatCount(p, class, alerts) ==
    Cardinality({a \in alerts : /\ a.class = class /\ a.src = p.src /\ a.dst = p.dst
                                /\ a.at >= p.at - RepeatSpan})

(* The hybrid detection of an event, from what the tables hold.            *)
Detect(p, events, alerts, cached, slow) ==
    LET hits      == Hits(p, cached, slow)
        triggered == Triggered(p, Context(p, events), hits)
        class     == Classification(p, hits, triggered)
        score     == RiskScore(p, hits, triggered, RepeatCount(p, class, alerts))
        severities == {SeverityFromScore(score), ModelSeverity(p), AnomalySeverity(p)}
                      \cup {Loaded[i].severity : i \in triggered}
    IN  [id |-> EventId(p), class |-> class, score |-> score,
         severity |-> IF score < 1500 /\ class = "BENIGN" THEN SeverityFromScore(score)
                      ELSE Max(severities),
         techniques |-> Techniques(p, class, triggered),
         alerting |-> class # "BENIGN" \/ score >= 1500 \/ triggered # {}]
=============================================================================
