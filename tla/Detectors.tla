----------------------------- MODULE Detectors -----------------------------
(***************************************************************************)
(* The pure part of the detection pipeline: which detectors fire on an     *)
(* event (guardian/detectors), how detections are correlated               *)
(* (guardian/evidence/aggregator.py), how they are scored                  *)
(* (guardian/risk/engine.py) and what is recommended                       *)
(* (guardian/policy/engine.py).                                            *)
(*                                                                         *)
(* An event carries the signals the detectors look for instead of names,   *)
(* paths and ports.                                                        *)
(***************************************************************************)
EXTENDS Integers, FiniteSets

CONSTANTS
    Host,          \* agents of the backend
    Process,       \* names of processes, in lower case
    Address,       \* destination addresses
    None           \* a field that is not set

ASSUME DetectorsAssumption ==
    /\ None \notin Host \cup Process \cup Address
    /\ Process \cap Address = {} /\ "unknown" \notin Host

Signals ==
    [process |-> {"listed", "pair", "location"},
     network |-> {"dport", "sport", "dns"},
     persistence |-> {"autorun", "type"},
     file |-> {}]

SecurityEvent ==
    UNION {[category : {c}, process : Process \cup {None}, ip : Address \cup {None},
            signals : SUBSET Signals[c]] : c \in DOMAIN Signals}

Technique == {"T1059", "T1571", "T1071.004", "T1547", "none"}

\* What a detection is about: the key of its evidence.  The evidence of the
\* parent-child detector names no process, and no evidence but that of the
\* host counter names a host.
Entity(e, detector) ==
    IF detector = "recurrence_host" THEN "generic"
    ELSE IF detector = "suspicious_parent_child" THEN "generic"
    ELSE IF e.category # "network" /\ e.process # None THEN e.process
    ELSE IF e.category = "network" /\ e.ip # None THEN e.ip
    ELSE IF e.category = "persistence" THEN "persistence"
    ELSE "generic"

CorrelationKey(e, host, detector) ==
    <<IF detector = "recurrence_host" THEN host ELSE "unknown", Entity(e, detector)>>

Detector ==
    {"suspicious_process", "suspicious_parent_child", "unusual_process_location", "suspicious_port",
     "suspicious_port_src", "unusual_protocol", "persistence_modification", "recurrence_process",
     "recurrence_host"}

DetectionRow == [detector : Detector, severity : {"low", "medium", "high"}, technique : Technique]

Found(detector, severity, technique) ==
    [detector |-> detector, severity |-> severity, technique |-> technique]

If(cond, d) == IF cond THEN {d} ELSE {}

ProcessDetections(e) ==
    If("listed" \in e.signals, Found("suspicious_process", "high", "T1059"))
    \cup If("pair" \in e.signals, Found("suspicious_parent_child", "high", "T1059"))
    \cup If("location" \in e.signals, Found("unusual_process_location", "medium", "T1059"))

\* A connection to and one from a suspicious port are two detections.
NetworkDetections(e) ==
    If("dport" \in e.signals, Found("suspicious_port", "high", "T1571"))
    \cup If("sport" \in e.signals, Found("suspicious_port_src", "medium", "T1571"))
    \cup If("dns" \in e.signals, Found("unusual_protocol", "medium", "T1071.004"))

\* Every change of a persistence mechanism is found, an autorun path is worse.
PersistenceDetections(e) ==
    If("type" \in e.signals,
       Found("persistence_modification", IF "autorun" \in e.signals THEN "high" ELSE "medium",
             "T1547"))

StatelessDetections(e) ==
    CASE e.category = "process" -> ProcessDetections(e)
      [] e.category = "network" -> NetworkDetections(e)
      [] e.category = "persistence" -> PersistenceDetections(e)
      [] e.category = "file" -> {}

\* The counters of a dispatcher, after they have counted the event.
RecurrenceDetections(processCount, hostCount, processThreshold, hostThreshold) ==
    If(processCount = processThreshold, Found("recurrence_process", "medium", "T1059"))
    \cup If(hostCount = hostThreshold, Found("recurrence_host", "low", "none"))

-----------------------------------------------------------------------------
\* Correlation.

Keys(e, host, found) == {CorrelationKey(e, host, d.detector) : d \in found}

\* Two detections of one key make an incident.
CandidateKeys(e, host, found) ==
    {k \in Keys(e, host, found) :
        Cardinality({d \in found : CorrelationKey(e, host, d.detector) = k}) >= 2}

-----------------------------------------------------------------------------
\* Risk score, and the recommendation.

BaseScore == [low |-> 15, medium |-> 40, high |-> 70, critical |-> 90]

Worth(cond, n) == IF cond THEN n ELSE 0

\* Each technique counts once.
Bonus(techniques) ==
    Worth("T1059" \in techniques, 10) + Worth("T1571" \in techniques, 8)
    + Worth("T1071.004" \in techniques, 10) + Worth("T1547" \in techniques, 12)

AtMost(n, cap) == IF n < cap THEN n ELSE cap

HighestBase(found) ==
    CHOOSE b \in {BaseScore[d.severity] : d \in found} : \A d \in found : b >= BaseScore[d.severity]

RiskScore(found, groups, recurrence) ==
    IF found = {} THEN 0
    ELSE AtMost(HighestBase(found)
                + Bonus({d.technique : d \in found})
                + AtMost((Cardinality(found) - 1) * 5, 20)
                + Worth(groups > 1, AtMost((groups - 1) * 3, 15))
                + Worth(recurrence > 1, AtMost((recurrence - 1) * 2, 10)),
                100)

RiskSeverity(score) ==
    IF score >= 80 THEN "critical" ELSE IF score >= 60 THEN "high"
    ELSE IF score >= 35 THEN "medium" ELSE "low"

RecommendedAction(score) ==
    IF score >= 85 THEN "prepare_containment" ELSE IF score >= 65 THEN "approve_containment"
    ELSE IF score >= 40 THEN "investigate" ELSE "monitor"
=============================================================================
