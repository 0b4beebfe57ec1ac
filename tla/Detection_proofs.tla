-------------------------- MODULE Detection_proofs --------------------------
(***************************************************************************)
(* Proofs about the detection pipeline, for any number of hosts, events,   *)
(* batches and threads, and a crash between any two commits.               *)
(***************************************************************************)
EXTENDS Detection, FiniteSetTheorems, SequenceTheorems, TLAPS

-----------------------------------------------------------------------------
(* The detectors *)

\* What a submitted event has, whatever its category.
LEMMA EventFields ==
    ASSUME NEW e \in SecurityEvent
    PROVE  /\ e.category \in {"process", "network", "persistence", "file"}
           /\ e.process \in Process \cup {None} /\ e.ip \in Address \cup {None}
<1>1. DOMAIN Signals = {"process", "network", "persistence", "file"}
  BY DEF Signals
<1>2. PICK c \in DOMAIN Signals : e \in [category : {c}, process : Process \cup {None},
                                         ip : Address \cup {None}, signals : SUBSET Signals[c]]
  BY DEF SecurityEvent
<1> QED
  BY <1>1, <1>2

\* A correlation key has the host or an unknown one, and the entity the event names.
LEMMA KeyOfDetection ==
    ASSUME NEW e \in SecurityEvent, NEW host \in Host, NEW detector
    PROVE  CorrelationKey(e, host, detector) \in CorrelationKeys
<1>1. e.process \in Process \cup {None} /\ e.ip \in Address \cup {None}
  BY EventFields
<1>2. Entity(e, detector) \in Process \cup Address \cup {"generic", "persistence"}
  BY <1>1 DEF Entity
<1>3. (IF detector = "recurrence_host" THEN host ELSE "unknown") \in Host \cup {"unknown"}
  OBVIOUS
<1> QED
  BY <1>2, <1>3 DEF CorrelationKey, CorrelationKeys

\* A detector adds one row, or none.
LEMMA OneOrNone ==
    ASSUME NEW S, IsFiniteSet(S), S \subseteq DetectionRow, NEW d \in DetectionRow, NEW cond
    PROVE  S \cup If(cond, d) \subseteq DetectionRow /\ IsFiniteSet(S \cup If(cond, d))
<1>1. S \cup If(cond, d) = S \/ S \cup If(cond, d) = S \cup {d}
  BY DEF If
<1>2. IsFiniteSet(S \cup {d})
  BY FS_AddElement
<1> QED
  BY <1>1, <1>2

\* What the detectors find is finitely many rows.
LEMMA StatelessRows ==
    ASSUME NEW e \in SecurityEvent
    PROVE  StatelessDetections(e) \subseteq DetectionRow /\ IsFiniteSet(StatelessDetections(e))
<1>0. IsFiniteSet({}) /\ {} \subseteq DetectionRow
  BY FS_EmptySet
<1>1. ASSUME NEW c1, NEW d1 \in DetectionRow, NEW c2, NEW d2 \in DetectionRow,
             NEW c3, NEW d3 \in DetectionRow
      PROVE  LET all == If(c1, d1) \cup If(c2, d2) \cup If(c3, d3)
             IN  all \subseteq DetectionRow /\ IsFiniteSet(all)
  <2> DEFINE one == {} \cup If(c1, d1)
             two == one \cup If(c2, d2)
             all == two \cup If(c3, d3)
  <2>1. one \subseteq DetectionRow /\ IsFiniteSet(one)
    BY <1>0, OneOrNone
  <2> HIDE DEF one
  <2>2. two \subseteq DetectionRow /\ IsFiniteSet(two)
    BY <2>1, OneOrNone
  <2> HIDE DEF two
  <2>3. all \subseteq DetectionRow /\ IsFiniteSet(all)
    BY <2>2, OneOrNone
  <2>4. all = If(c1, d1) \cup If(c2, d2) \cup If(c3, d3)
    BY DEF one, two
  <2> QED
    BY <2>3, <2>4
<1>2. ProcessDetections(e) \subseteq DetectionRow /\ IsFiniteSet(ProcessDetections(e))
  <2>1. /\ Found("suspicious_process", "high", "T1059") \in DetectionRow
        /\ Found("suspicious_parent_child", "high", "T1059") \in DetectionRow
        /\ Found("unusual_process_location", "medium", "T1059") \in DetectionRow
    BY DEF Found, DetectionRow, Detector, Technique
  <2> QED
    BY <1>1, <2>1 DEF ProcessDetections
<1>3. NetworkDetections(e) \subseteq DetectionRow /\ IsFiniteSet(NetworkDetections(e))
  <2>1. /\ Found("suspicious_port", "high", "T1571") \in DetectionRow
        /\ Found("suspicious_port_src", "medium", "T1571") \in DetectionRow
        /\ Found("unusual_protocol", "medium", "T1071.004") \in DetectionRow
    BY DEF Found, DetectionRow, Detector, Technique
  <2> QED
    BY <1>1, <2>1 DEF NetworkDetections
<1>4. PersistenceDetections(e) \subseteq DetectionRow /\ IsFiniteSet(PersistenceDetections(e))
  <2> DEFINE d == Found("persistence_modification",
                        IF "autorun" \in e.signals THEN "high" ELSE "medium", "T1547")
  <2>1. d \in DetectionRow
    BY DEF Found, DetectionRow, Detector, Technique
  <2>2. PersistenceDetections(e) = {} \cup If("type" \in e.signals, d)
    BY DEF PersistenceDetections
  <2> HIDE DEF d
  <2> QED
    BY <1>0, <2>1, <2>2, OneOrNone
<1>5. e.category = "process" \/ e.category = "network" \/ e.category = "persistence" \/ e.category = "file"
  BY EventFields
<1>6. CASE e.category = "process"
  BY <1>2, <1>6 DEF StatelessDetections
<1>7. CASE e.category = "network"
  BY <1>3, <1>7 DEF StatelessDetections
<1>8. CASE e.category = "persistence"
  BY <1>4, <1>8 DEF StatelessDetections
<1>9. CASE e.category = "file"
  BY <1>0, <1>9 DEF StatelessDetections
<1> QED
  BY <1>5, <1>6, <1>7, <1>8, <1>9

\* And so are those with the recurrence detections.
LEMMA RecurrenceRows ==
    ASSUME NEW S, IsFiniteSet(S), S \subseteq DetectionRow, NEW p, NEW h, NEW pt, NEW ht
    PROVE  LET all == S \cup RecurrenceDetections(p, h, pt, ht)
           IN  all \subseteq DetectionRow /\ IsFiniteSet(all)
<1> DEFINE d1 == Found("recurrence_process", "medium", "T1059")
           d2 == Found("recurrence_host", "low", "none")
           one == S \cup If(p = pt, d1)
<1>1. d1 \in DetectionRow /\ d2 \in DetectionRow
  BY DEF Found, DetectionRow, Detector, Technique
<1>2. S \cup RecurrenceDetections(p, h, pt, ht) = one \cup If(h = ht, d2)
  BY DEF RecurrenceDetections
<1> HIDE DEF d1, d2
<1>3. one \subseteq DetectionRow /\ IsFiniteSet(one)
  BY <1>1, OneOrNone
<1> HIDE DEF one
<1>4. one \cup If(h = ht, d2) \subseteq DetectionRow /\ IsFiniteSet(one \cup If(h = ht, d2))
  BY <1>1, <1>3, OneOrNone
<1> QED
  BY <1>2, <1>4

\* The incidents that can be about an event are among the correlation keys.
LEMMA CandidatesAreKeys ==
    ASSUME NEW e \in SecurityEvent, NEW host \in Host, NEW found
    PROVE  CandidateKeys(e, host, found) \subseteq CorrelationKeys
  BY KeyOfDetection DEF CandidateKeys, Keys

\* The bases of the severities.
LEMMA BaseIsNumber ==
    ASSUME NEW found, found # {}, found \subseteq DetectionRow
    PROVE  HighestBase(found) \in Nat
<1> DEFINE base(d) == BaseScore[d.severity]
           B == {base(d) : d \in found}
<1>1. \A d \in found : base(d) = 15 \/ base(d) = 40 \/ base(d) = 70
  BY DEF DetectionRow, BaseScore
<1>2. \E b \in B : \A d \in found : b >= base(d)
  <2>1. CASE \E d \in found : base(d) = 70
    <3>1. PICK d \in found : base(d) = 70
      BY <2>1
    <3> HIDE DEF base
    <3> QED
      BY <1>1, <3>1
  <2>2. CASE (\A d \in found : base(d) # 70) /\ \E d \in found : base(d) = 40
    <3>1. PICK d \in found : base(d) = 40
      BY <2>2
    <3> HIDE DEF base
    <3> QED
      BY <1>1, <2>2, <3>1
  <2>3. CASE \A d \in found : base(d) # 70 /\ base(d) # 40
    <3>1. PICK d \in found : TRUE
      OBVIOUS
    <3> HIDE DEF base
    <3> QED
      BY <1>1, <2>3, <3>1
  <2> QED
    BY <2>1, <2>2, <2>3
<1>3. HighestBase(found) = CHOOSE b \in B : \A d \in found : b >= base(d)
  BY DEF HighestBase
<1>4. HighestBase(found) \in B
  <2> HIDE DEF B, base
  <2> QED
    BY <1>2, <1>3
<1> HIDE DEF base
<1> QED
  BY <1>1, <1>4

\* The score is on its scale for whatever detections, incidents and recurrences.
LEMMA ScoreOnScale ==
    ASSUME NEW found, IsFiniteSet(found), found \subseteq DetectionRow,
           NEW groups \in Nat, NEW recurrences \in Nat
    PROVE  RiskScore(found, groups, recurrences) \in 0..100
<1>1. CASE found = {}
  BY <1>1 DEF RiskScore
<1>2. CASE found # {}
  <2>1. PICK b \in Nat : b = HighestBase(found)
    BY <1>2, BaseIsNumber
  <2>2. PICK t \in Nat : t = Bonus({d.technique : d \in found})
    BY DEF Bonus, Worth
  <2>3. PICK n \in Nat : n = Cardinality(found)
    BY FS_CardinalityType
  <2>4. n # 0
    BY <1>2, <2>3, FS_EmptySet
  <2>5. PICK c \in Nat : c = AtMost((n - 1) * 5, 20)
    BY <2>4 DEF AtMost
  <2>6. PICK g \in Nat : g = Worth(groups > 1, AtMost((groups - 1) * 3, 15))
    BY DEF AtMost, Worth
  <2>7. PICK r \in Nat : r = Worth(recurrences > 1, AtMost((recurrences - 1) * 2, 10))
    BY DEF AtMost, Worth
  <2>8. RiskScore(found, groups, recurrences) = AtMost(b + t + c + g + r, 100)
    BY <1>2, <2>1, <2>2, <2>3, <2>5, <2>6, <2>7 DEF RiskScore
  <2>9. AtMost(b + t + c + g + r, 100) \in 0..100
    BY DEF AtMost
  <2> QED
    BY <2>8, <2>9
<1> QED
  BY <1>1, <1>2

-----------------------------------------------------------------------------
(* Types, and what a request holds between two commits *)

\* A row at the end of a table.
LEMMA Appended ==
    ASSUME NEW S, NEW s \in Seq(S), NEW x \in S
    PROVE  /\ Append(s, x) \in Seq(S)
           /\ \A i \in DOMAIN s : i \in DOMAIN Append(s, x) /\ Append(s, x)[i] = s[i]
           /\ Len(s) + 1 \in DOMAIN Append(s, x) /\ Append(s, x)[Len(s) + 1] = x
           /\ \A i \in DOMAIN Append(s, x) : i \in DOMAIN s \/ i = Len(s) + 1
           /\ Len(s) + 1 \notin DOMAIN s /\ Len(s) \in Nat
  BY AppendProperties

\* A recurrence row has the expiry of an event that was counted.
Supported(i) ==
    \E j \in DOMAIN bumps :
        /\ bumps[j].host = recurrence[i].host /\ bumps[j].entity = recurrence[i].entity
        /\ bumps[j].at + Window = recurrence[i].expires

\* And it was opened by an event that was counted as the first.
Opened(i) ==
    \E j \in DOMAIN bumps :
        /\ bumps[j].host = recurrence[i].host /\ bumps[j].entity = recurrence[i].entity
        /\ bumps[j].count = 1

Bump == [event : Event, host : Host, entity : Process \cup Address, at : Nat, count : Nat]

\* The tables.
TablesInv ==
    /\ agents \in Seq(Host)
    /\ stored \in [Event -> Host \cup {None}]
    /\ Examined \subseteq Event /\ detections \in [Examined -> SUBSET DetectionRow]
    /\ \A e \in Examined : IsFiniteSet(detections[e])
    /\ recurrence \in Seq(RecurrenceRow)
    /\ incidents \in [CorrelationKeys -> IncidentRow \cup {None}]
    /\ risks \in Seq(RiskRow)
    /\ decisions \in Seq(DecisionRow)
    /\ bumps \in Seq(Bump)
    /\ now \in 0..MaxTime /\ posts \in 0..MaxPosts /\ crashes \in 0..MaxCrashes
    /\ \A i \in DOMAIN recurrence : Supported(i) /\ Opened(i)
    /\ CountIsRecent

\* A request: an event to look up, or different stored events to dispatch; and what the
\* dispatch of the first of them has done by the step it is at.
RequestInv(r) ==
    /\ r \in RequestRow
    /\ r.pc = "check" => r.unread # << >>
    /\ r.pc \notin {"check", "commit"} =>
          /\ r.todo # << >>
          /\ \A i, j \in DOMAIN r.todo : r.todo[i] = r.todo[j] => i = j
          /\ \A i \in DOMAIN r.todo : stored[r.todo[i]] # None /\ stored[r.todo[i]] = r.host
    /\ r.pc \notin {"check", "commit", "detect"} => r.todo[1] \in Examined
    /\ r.pc = "recount" =>
          /\ r.entity \in Process \cup Address /\ r.entity = Counted(Content[r.todo[1]])
          /\ r.row = None => r.count = 1
          /\ r.row # None =>
                /\ r.row \in DOMAIN recurrence
                /\ recurrence[r.row].host = r.host /\ recurrence[r.row].entity = r.entity
                /\ \E j \in DOMAIN bumps :
                      /\ bumps[j].host = r.host /\ bumps[j].entity = r.entity
                      /\ bumps[j].at + Window > r.at
    /\ r.pc \in {"decision", "link"} =>
          r.risk \in DOMAIN risks /\ risks[r.risk].event = r.todo[1]
    /\ r.pc = "link" =>
          /\ r.decision \in DOMAIN decisions
          /\ decisions[r.decision].event = r.todo[1]
          /\ decisions[r.decision].incident = risks[r.risk].incident

TypeInv ==
    /\ TablesInv
    /\ request \in [Worker -> RequestRow \cup {None}]
    /\ \A w \in Worker : request[w] = None \/ RequestInv(request[w])

\* No step takes anything out of the tables.
Grown ==
    /\ \A e \in Event : stored[e] # None => stored'[e] = stored[e]
    /\ Examined \subseteq Examined'
    /\ \A i \in DOMAIN recurrence :
          /\ i \in DOMAIN recurrence'
          /\ recurrence'[i].host = recurrence[i].host /\ recurrence'[i].entity = recurrence[i].entity
    /\ \A i \in DOMAIN risks : i \in DOMAIN risks' /\ risks'[i] = risks[i]
    /\ \A i \in DOMAIN decisions : i \in DOMAIN decisions' /\ decisions'[i] = decisions[i]
    /\ \A j \in DOMAIN bumps : j \in DOMAIN bumps' /\ bumps'[j] = bumps[j]

\* So a request keeps what it relies on.
LEMMA RequestKept ==
    ASSUME TablesInv, Grown, NEW r, RequestInv(r)
    PROVE  RequestInv(r)'
<1>1. r \in RequestRow /\ r.todo \in Seq(Event)
  BY DEF RequestInv, RequestRow
<1>2. \A i \in DOMAIN r.todo : r.todo[i] \in Event
  BY <1>1, ElementOfSeq
<1>3. r.pc \notin {"check", "commit"} =>
          /\ r.todo # << >>
          /\ \A i, j \in DOMAIN r.todo : r.todo[i] = r.todo[j] => i = j
          /\ \A i \in DOMAIN r.todo : stored'[r.todo[i]] # None /\ stored'[r.todo[i]] = r.host
  BY <1>2 DEF RequestInv, Grown
<1>4. r.pc = "recount" =>
          /\ r.entity \in Process \cup Address /\ r.entity = Counted(Content[r.todo[1]])
          /\ r.row = None => r.count = 1
          /\ r.row # None =>
                /\ r.row \in DOMAIN recurrence'
                /\ recurrence'[r.row].host = r.host /\ recurrence'[r.row].entity = r.entity
                /\ \E j \in DOMAIN bumps' :
                      /\ bumps'[j].host = r.host /\ bumps'[j].entity = r.entity
                      /\ bumps'[j].at + Window > r.at
  BY DEF RequestInv, Grown
<1>5. /\ r.pc = "check" => r.unread # << >>
      /\ r.pc \notin {"check", "commit", "detect"} => r.todo[1] \in Examined'
      /\ r.pc \in {"decision", "link"} =>
            r.risk \in DOMAIN risks' /\ risks'[r.risk].event = r.todo[1]
      /\ r.pc = "link" =>
            /\ r.decision \in DOMAIN decisions'
            /\ decisions'[r.decision].event = r.todo[1]
            /\ decisions'[r.decision].incident = risks'[r.risk].incident
  BY DEF RequestInv, Grown
<1> QED
  BY <1>1, <1>3, <1>4, <1>5 DEF RequestInv

\* One thread takes a step.
LEMMA ThreadStep ==
    ASSUME TypeInv, TablesInv', Grown, NEW w \in Worker, NEW row,
           request' = [request EXCEPT ![w] = row],
           row = None \/ RequestInv(row)'
    PROVE  TypeInv'
<1>1. row \in RequestRow \cup {None}
  BY DEF RequestInv
<1>2. request' \in [Worker -> RequestRow \cup {None}]
  BY <1>1 DEF TypeInv
<1>3. ASSUME NEW v \in Worker PROVE (request[v] = None \/ RequestInv(request[v]))'
  <2>1. CASE v = w
    <3>1. request'[v] = row
      BY <2>1 DEF TypeInv
    <3> QED
      BY <3>1 DEF RequestInv
  <2>2. CASE v # w
    <3>1. request'[v] = request[v] /\ (request[v] = None \/ RequestInv(request[v]))
      BY <2>2 DEF TypeInv
    <3>2. PICK r : r = request[v]
      OBVIOUS
    <3>3. r = None \/ RequestInv(r)'
      BY <3>1, <3>2, RequestKept DEF TypeInv
    <3>4. request'[v] = r
      BY <3>1, <3>2
    <3> QED
      BY <3>3, <3>4 DEF RequestInv
  <2> QED
    BY <2>1, <2>2
<1> QED
  BY <1>2, <1>3 DEF TypeInv

\* The tables stay as they are.
LEMMA TablesKept ==
    ASSUME TablesInv, UNCHANGED <<rows, bumps>>,
           now' \in 0..MaxTime, posts' \in 0..MaxPosts, crashes' \in 0..MaxCrashes
    PROVE  TablesInv' /\ Grown
  BY DEF TablesInv, Grown, rows, Examined, Supported, Opened, CountIsRecent

\* A request with nothing held between two commits.
LEMMA NewRequestRow ==
    ASSUME NEW pc \in Step, NEW host \in Host, NEW todo \in Seq(Event),
           NEW seenProcess \in Seq(Process), NEW seenHost \in Nat
    PROVE  LET r == NewRequest(pc, host, todo, seenProcess, seenHost)
           IN  /\ r \in RequestRow /\ r.pc = pc /\ r.host = host /\ r.todo = todo
               /\ r.seenProcess = seenProcess /\ r.seenHost = seenHost
<1>1. << >> \in Seq(Event)
  BY EmptySeq
<1> QED
  BY <1>1 DEF NewRequest, RequestRow

\* The event a request is at.
LEMMA CurrentEvent ==
    ASSUME TablesInv, NEW r, RequestInv(r), r.pc \notin {"check", "commit"}
    PROVE  /\ Len(r.todo) \in Nat \ {0} /\ 1 \in DOMAIN r.todo /\ DOMAIN r.todo = 1..Len(r.todo)
           /\ r.todo[1] \in Event /\ stored[r.todo[1]] \in Host
           /\ Content[r.todo[1]] \in SecurityEvent
<1>1. r.todo \in Seq(Event) /\ r.todo # << >>
  BY DEF RequestInv, RequestRow
<1>2. Len(r.todo) \in Nat \ {0} /\ DOMAIN r.todo = 1..Len(r.todo)
  BY <1>1, EmptySeq
<1>3. 1 \in DOMAIN r.todo
  BY <1>2
<1>4. r.todo[1] \in Event
  BY <1>1, <1>2, ElementOfSeq
<1>5. stored[r.todo[1]] # None
  BY <1>3 DEF RequestInv
<1> QED
  BY <1>2, <1>3, <1>4, <1>5, DetectionAssumption DEF TablesInv, DetectionAssumption

\* What is left of a request when the dispatch of its first event is over.
Rest(r) == NewRequest("detect", r.host, Tail(r.todo), r.seenProcess, r.seenHost)

\* It has the other events, in their order, and relies on nothing but the tables.
LEMMA RestOfRequest ==
    ASSUME TablesInv, NEW r, RequestInv(r), r.pc \notin {"check", "commit"}, Len(r.todo) # 1
    PROVE  /\ RequestInv(Rest(r)) /\ Rest(r).todo = Tail(r.todo)
           /\ Len(Tail(r.todo)) = Len(r.todo) - 1
           /\ \A i \in DOMAIN Tail(r.todo) : i + 1 \in DOMAIN r.todo /\ Tail(r.todo)[i] = r.todo[i + 1]
<1>1. Len(r.todo) \in Nat \ {0} /\ DOMAIN r.todo = 1..Len(r.todo)
  BY CurrentEvent
<1>2. r.todo \in Seq(Event) /\ r.todo # << >> /\ r \in RequestRow
  BY DEF RequestInv, RequestRow
<1> DEFINE n == Len(r.todo)
           t == Tail(r.todo)
<1>3. t \in Seq(Event) /\ Len(t) = n - 1 /\ \A i \in 1..Len(t) : t[i] = r.todo[i + 1]
  BY <1>2, HeadTailProperties
<1>4. DOMAIN t = 1..(n - 1)
  BY <1>3
<1>5. \A i \in DOMAIN t : i \in 1..Len(t) /\ i \in Nat /\ i + 1 \in DOMAIN r.todo /\ t[i] = r.todo[i + 1]
  BY <1>1, <1>3, <1>4
<1>6. t # << >>
  <2>1. Len(t) # 0
    BY <1>1, <1>3
  <2> QED
    BY <2>1, EmptySeq
<1>7. PICK q : q = Rest(r)
  OBVIOUS
<1>8. q \in RequestRow /\ q.pc = "detect" /\ q.todo = t /\ q.host = r.host
  <2>1. "detect" \in Step
    BY DEF Step
  <2>2. r.host \in Host /\ r.seenProcess \in Seq(Process) /\ r.seenHost \in Nat
    BY <1>2 DEF RequestRow
  <2>3. q = NewRequest("detect", r.host, t, r.seenProcess, r.seenHost)
    BY <1>7 DEF Rest
  <2> HIDE DEF t
  <2>4. PICK pc \in Step, host \in Host, seen \in Seq(Process), n0 \in Nat :
          pc = "detect" /\ host = r.host /\ seen = r.seenProcess /\ n0 = r.seenHost
    BY <2>1, <2>2
  <2>5. q = NewRequest(pc, host, t, seen, n0)
    BY <2>3, <2>4
  <2> QED
    BY <1>3, <2>4, <2>5, NewRequestRow
<1>9. RequestInv(q)
  <2> HIDE DEF t
  <2>1. \A i, j \in DOMAIN t : t[i] = t[j] => i = j
    <3> SUFFICES ASSUME NEW i \in DOMAIN t, NEW j \in DOMAIN t, t[i] = t[j] PROVE i = j
      OBVIOUS
    <3>1. r.todo[i + 1] = r.todo[j + 1] /\ i + 1 \in DOMAIN r.todo /\ j + 1 \in DOMAIN r.todo
      BY <1>5
    <3>2. i + 1 = j + 1
      BY <3>1 DEF RequestInv
    <3> QED
      BY <1>5, <3>2
  <2>2. \A i \in DOMAIN t : stored[t[i]] # None /\ stored[t[i]] = r.host
    BY <1>5 DEF RequestInv
  <2> QED
    BY <1>6, <1>8, <2>1, <2>2 DEF RequestInv
<1> QED
  BY <1>3, <1>5, <1>7, <1>8, <1>9

\* The next event, or the end of the request.
LEMMA NextEventRow ==
    ASSUME TypeInv, TablesInv', Grown, NEW w \in Worker, request[w] # None,
           request[w].pc \notin {"check", "commit"}, NextEvent(w)
    PROVE  TypeInv' /\ Grown
<1>1. PICK r : r = request[w] /\ RequestInv(r) /\ r.pc \notin {"check", "commit"}
  BY DEF TypeInv
<1>2. PICK row : row = IF Len(r.todo) = 1 THEN None ELSE Rest(r)
  OBVIOUS
<1>3. request' = [request EXCEPT ![w] = row]
  BY <1>1, <1>2 DEF NextEvent, Rest
<1>4. row = None \/ RequestInv(row)
  BY <1>1, <1>2, RestOfRequest DEF TypeInv
<1>5. row = None \/ RequestInv(row)'
  BY <1>4, RequestKept DEF TypeInv
<1> QED
  BY <1>3, <1>5, ThreadStep

\* A request goes on with other fields; what it relies on is in the tables before.
LEMMA RowStep ==
    ASSUME TypeInv, NEW w \in Worker, NEW row, RequestInv(row),
           request' = [request EXCEPT ![w] = row], UNCHANGED <<rows, bumps>>,
           now' \in 0..MaxTime, posts' \in 0..MaxPosts, crashes' \in 0..MaxCrashes
    PROVE  TypeInv' /\ Grown /\ request'[w] \in RequestRow
<1>1. TablesInv' /\ Grown
  BY TablesKept DEF TypeInv
<1>2. RequestInv(row)'
  BY <1>1, RequestKept DEF TypeInv
<1>3. request'[w] = row /\ row \in RequestRow
  BY DEF TypeInv, RequestInv
<1> QED
  BY <1>1, <1>2, <1>3, ThreadStep

\* The clock and the bounds.
LEMMA BoundsTyped ==
    ASSUME TypeInv
    PROVE  now \in 0..MaxTime /\ posts \in 0..MaxPosts /\ crashes \in 0..MaxCrashes
  BY DEF TypeInv, TablesInv

\* A batch comes in, and its events are looked up.
LEMMA IngestTypes ==
    ASSUME TypeInv, NEW w \in Worker,
           (\E h \in Host, b \in Batch : ReceiveBatch(w, h, b)) \/ CheckEvent(w)
    PROVE  TypeInv' /\ Grown
<1>1. CASE \E h \in Host, b \in Batch : ReceiveBatch(w, h, b)
  <2>1. PICK h \in Host, b \in Batch : ReceiveBatch(w, h, b)
    BY <1>1
  <2>2. ResolvedAgent(h) \in Host
    <3>1. agents \in Seq(Host) /\ agents # << >>
      BY <2>1 DEF ReceiveBatch, TypeInv, TablesInv
    <3>2. Len(agents) \in 1..Len(agents)
      BY <3>1, EmptySeq
    <3> QED
      BY <3>1, <3>2, ElementOfSeq DEF ResolvedAgent
  <2>3. PICK old : old = NewRequest("check", ResolvedAgent(h), << >>, << >>, 0)
    OBVIOUS
  <2>4. old \in RequestRow /\ old.pc = "check"
    <3>1. << >> \in Seq(Event) /\ << >> \in Seq(Process) /\ "check" \in Step /\ 0 \in Nat
      BY EmptySeq DEF Step
    <3>2. PICK pc \in Step, host \in Host, none \in Seq(Event), seen \in Seq(Process), zero \in Nat :
            pc = "check" /\ host = ResolvedAgent(h) /\ none = << >> /\ seen = << >> /\ zero = 0
      BY <2>2, <3>1
    <3>3. old = NewRequest(pc, host, none, seen, zero)
      BY <2>3, <3>2
    <3>4. /\ NewRequest(pc, host, none, seen, zero) \in RequestRow
          /\ NewRequest(pc, host, none, seen, zero).pc = pc
      BY NewRequestRow
    <3> QED
      BY <3>2, <3>3, <3>4
  <2>5. b \in Seq(Event) /\ b # << >>
    BY DetectionAssumption DEF DetectionAssumption
  <2>6. PICK row : row = [old EXCEPT !.unread = b]
    OBVIOUS
  <2>7. row \in RequestRow /\ row.pc = "check" /\ row.unread = b
    BY <2>4, <2>5, <2>6 DEF RequestRow
  <2>8. RequestInv(row)
    BY <2>5, <2>7 DEF RequestInv
  <2>9. request' = [request EXCEPT ![w] = row] /\ UNCHANGED <<rows, bumps, now, crashes>>
    BY <2>1, <2>3, <2>6 DEF ReceiveBatch
  <2>10. posts' \in 0..MaxPosts
    BY <2>1, BoundsTyped, DetectionAssumption DEF ReceiveBatch, DetectionAssumption
  <2> QED
    BY <2>8, <2>9, <2>10, BoundsTyped, RowStep
<1>2. CASE CheckEvent(w)
  <2>1. PICK r : r = request[w] /\ RequestInv(r) /\ r.pc = "check"
    BY <1>2 DEF CheckEvent, At, TypeInv
  <2>2. r.unread \in Seq(Event) /\ r.unread # << >> /\ r.todo \in Seq(Event) /\ r \in RequestRow
    BY <2>1 DEF RequestInv, RequestRow
  <2>3. PICK e \in Event, t \in Seq(Event) : /\ e = Head(r.unread) /\ t = Tail(r.unread)
                                             /\ Len(t) = Len(r.unread) - 1
    BY <2>2, HeadTailProperties
  <2>4. PICK todo \in Seq(Event) : todo = IF stored[e] = None THEN Append(r.todo, e) ELSE r.todo
    BY <2>2, Appended
  <2>5. PICK pc \in {"check", "commit"} : pc = IF Len(r.unread) = 1 THEN "commit" ELSE "check"
    OBVIOUS
  <2>6. PICK row : row = [r EXCEPT !.unread = t, !.todo = todo, !.pc = pc]
    OBVIOUS
  <2>7. row \in RequestRow /\ row.pc = pc /\ row.unread = t
    BY <2>2, <2>6 DEF RequestRow, Step
  <2>8. pc = "check" => t # << >>
    <3>1. Len(r.unread) \in Nat
      BY <2>2
    <3>2. Len(t) = 0 => Len(r.unread) = 1
      BY <2>3, <3>1
    <3>3. t = << >> => Len(t) = 0
      BY EmptySeq
    <3> QED
      BY <2>5, <3>2, <3>3
  <2>9. RequestInv(row)
    BY <2>7, <2>8 DEF RequestInv
  <2>10. request' = [request EXCEPT ![w] = row] /\ UNCHANGED <<rows, bumps, bounds>>
    BY <1>2, <2>1, <2>3, <2>4, <2>5, <2>6 DEF CheckEvent
  <2> QED
    BY <2>9, <2>10, BoundsTyped, RowStep DEF bounds
<1> QED
  BY <1>1, <1>2

\* The batch is stored, as a whole or not at all.
LEMMA CommitTypes ==
    ASSUME TypeInv, NEW w \in Worker, CommitBatch(w)
    PROVE  TypeInv' /\ Grown
<1>1. PICK r : r = request[w] /\ RequestInv(r) /\ r.pc = "commit"
  BY DEF CommitBatch, At, TypeInv
<1>2. r \in RequestRow /\ r.todo \in Seq(Event) /\ r.host \in Host
  BY <1>1 DEF RequestInv, RequestRow
<1> DEFINE fresh == {r.todo[i] : i \in DOMAIN r.todo}
           unique == /\ \A i, j \in DOMAIN r.todo : r.todo[i] = r.todo[j] => i = j
                     /\ \A e \in fresh : stored[e] = None
<1>3. CASE unique /\ r.todo # << >>
  <2>1. PICK row : row = [r EXCEPT !.pc = "detect"]
    OBVIOUS
  <2>2. /\ stored' = [e \in Event |-> IF e \in fresh THEN r.host ELSE stored[e]]
        /\ request' = [request EXCEPT ![w] = row]
        /\ UNCHANGED <<agents, detections, recurrence, incidents, risks, decisions, bumps, bounds>>
    BY <1>1, <1>3, <2>1 DEF CommitBatch, Advance
  <2>3. row \in RequestRow /\ row.pc = "detect" /\ row.todo = r.todo /\ row.host = r.host
    BY <1>2, <2>1 DEF RequestRow, Step
  <2>4. \A i \in DOMAIN r.todo : r.todo[i] \in Event /\ r.todo[i] \in fresh
    BY <1>2, ElementOfSeq
  <2>5. r.host # None
    BY <1>2, DetectorsAssumption DEF DetectorsAssumption
  <2>6. \A i \in DOMAIN r.todo : stored'[r.todo[i]] # None /\ stored'[r.todo[i]] = r.host
    <3> HIDE DEF fresh
    <3> QED
      BY <2>2, <2>4, <2>5
  <2>7. RequestInv(row)'
    BY <1>3, <2>3, <2>6 DEF RequestInv
  <2>8. \A e \in Event : stored[e] # None => stored'[e] = stored[e]
    <3>1. \A e \in Event : stored[e] # None => e \notin fresh
      BY <1>3
    <3> HIDE DEF fresh
    <3> QED
      BY <2>2, <3>1
  <2>9. stored' \in [Event -> Host \cup {None}]
    <3> HIDE DEF fresh
    <3> QED
      BY <1>2, <2>2 DEF TypeInv, TablesInv
  <2>10. TablesInv' /\ Grown
    BY <2>2, <2>8, <2>9 DEF TypeInv, TablesInv, Grown, Examined, Supported, Opened, CountIsRecent, bounds
  <2> QED
    BY <2>2, <2>7, <2>10, ThreadStep
<1>4. CASE ~(unique /\ r.todo # << >>)
  <2>1. request' = [request EXCEPT ![w] = None] /\ UNCHANGED <<rows, bumps, bounds>>
    BY <1>1, <1>4 DEF CommitBatch, rows
  <2>2. TablesInv' /\ Grown
    BY <2>1, TablesKept, BoundsTyped DEF TypeInv, bounds
  <2> QED
    BY <2>1, <2>2, ThreadStep
<1> QED
  BY <1>3, <1>4

\* The detectors run, and what they find is stored.
LEMMA DetectTypes ==
    ASSUME TypeInv, NEW w \in Worker, PersistDetections(w)
    PROVE  TypeInv' /\ Grown /\ request'[w] \in RequestRow
<1>1. PICK r : r = request[w] /\ RequestInv(r) /\ r.pc = "detect"
  BY DEF PersistDetections, At, TypeInv
<1>2. /\ r \in RequestRow /\ r.todo \in Seq(Event) /\ r.host \in Host
      /\ r.seenProcess \in Seq(Process) /\ r.seenHost \in Nat
  BY <1>1 DEF RequestInv, RequestRow
<1>3. PICK x \in Event : x = r.todo[1] /\ Content[x] \in SecurityEvent
  BY <1>1, CurrentEvent DEF TypeInv
<1>4. PICK e \in SecurityEvent : e = Content[x]
  BY <1>3
<1>5. PICK seen \in Seq(Process) :
        seen = IF e.process = None THEN r.seenProcess ELSE Append(r.seenProcess, e.process)
  <2>1. e.process \in Process \cup {None}
    BY EventFields
  <2>2. CASE e.process = None
    BY <1>2, <2>2
  <2>3. CASE e.process # None
    BY <1>2, <2>1, <2>3, Appended
  <2> QED
    BY <2>2, <2>3
<1>6. PICK found \in SUBSET DetectionRow :
        /\ IsFiniteSet(found)
        /\ detections' = [y \in Examined \cup {x} |-> IF y = x THEN found ELSE detections[y]]
        /\ request' = [request EXCEPT ![w] = NewRequest("count", r.host, r.todo, seen, r.seenHost + 1)]
  <2> DEFINE times == Len(SelectSeq(seen, LAMBDA p : p = e.process))
             found == StatelessDetections(e)
                      \cup RecurrenceDetections(times, r.seenHost + 1, ProcessThreshold, HostThreshold)
  <2>1. found \subseteq DetectionRow /\ IsFiniteSet(found)
    <3> HIDE DEF times
    <3> QED
      BY StatelessRows, RecurrenceRows
  <2>2. /\ detections' = [y \in Examined \cup {x} |-> IF y = x THEN found ELSE detections[y]]
        /\ request' = [request EXCEPT ![w] = NewRequest("count", r.host, r.todo, seen, r.seenHost + 1)]
    BY <1>1, <1>3, <1>4, <1>5 DEF PersistDetections, Current
  <2> HIDE DEF found
  <2> QED
    BY <2>1, <2>2
<1>7. UNCHANGED <<agents, stored, recurrence, incidents, risks, decisions, bumps, bounds>>
  BY DEF PersistDetections
<1>8. PICK row : row = NewRequest("count", r.host, r.todo, seen, r.seenHost + 1)
  OBVIOUS
<1>9. row \in RequestRow /\ row.pc = "count" /\ row.todo = r.todo /\ row.host = r.host
  <2>1. "count" \in Step
    BY DEF Step
  <2>2. PICK pc \in Step, host \in Host, todo \in Seq(Event), n \in Nat :
          pc = "count" /\ host = r.host /\ todo = r.todo /\ n = r.seenHost + 1
    BY <1>2, <2>1
  <2>3. /\ NewRequest(pc, host, todo, seen, n) \in RequestRow
        /\ NewRequest(pc, host, todo, seen, n).pc = pc
        /\ NewRequest(pc, host, todo, seen, n).todo = todo
        /\ NewRequest(pc, host, todo, seen, n).host = host
    BY NewRequestRow
  <2> QED
    BY <1>8, <2>2, <2>3
<1>10. Examined' = Examined \cup {x}
  BY <1>6 DEF Examined
<1>11. RequestInv(row)'
  BY <1>1, <1>3, <1>7, <1>9, <1>10 DEF RequestInv
<1>12. \A y \in Examined' : detections'[y] \in SUBSET DetectionRow /\ IsFiniteSet(detections'[y])
  BY <1>6, <1>10 DEF TypeInv, TablesInv
<1>13. detections' \in [Examined' -> SUBSET DetectionRow] /\ Examined' \subseteq Event
  BY <1>6, <1>10, <1>12 DEF TypeInv, TablesInv
<1>14. TablesInv' /\ Grown
  BY <1>7, <1>10, <1>12, <1>13 DEF TypeInv, TablesInv, Grown, Supported, Opened, CountIsRecent, bounds
<1>15. request'[w] = row
  BY <1>6, <1>8 DEF TypeInv
<1> QED
  BY <1>6, <1>8, <1>9, <1>11, <1>14, <1>15, ThreadStep

\* The recurrence row of the event is read.
LEMMA ReadCountTypes ==
    ASSUME TypeInv, NEW w \in Worker, ReadCount(w)
    PROVE  TypeInv' /\ Grown /\ request'[w] \in RequestRow
<1>1. PICK r : r = request[w] /\ RequestInv(r) /\ r.pc = "count" /\ r \in RequestRow
  BY DEF ReadCount, At, TypeInv, RequestInv
<1>2. UNCHANGED <<rows, bumps, bounds>>
  BY DEF ReadCount
<1>3. PICK e \in SecurityEvent : e = Content[r.todo[1]]
  BY <1>1, CurrentEvent DEF TypeInv
<1>4. Counted(e) \in Process \cup Address \cup {None}
  BY EventFields DEF Counted
<1>5. CASE Counted(e) = None
  <2>1. PICK row : row = [r EXCEPT !.pc = "candidates"]
    OBVIOUS
  <2>2. request' = [request EXCEPT ![w] = row]
    BY <1>1, <1>3, <1>5, <2>1 DEF ReadCount, Advance, Current
  <2>3. row \in RequestRow /\ row.pc = "candidates" /\ row.todo = r.todo /\ row.host = r.host
    BY <1>1, <2>1 DEF RequestRow, Step
  <2>4. RequestInv(row)
    BY <1>1, <2>3 DEF RequestInv
  <2> QED
    BY <1>2, <2>2, <2>4, BoundsTyped, RowStep DEF bounds
<1>6. CASE Counted(e) # None
  <2>1. PICK entity \in Process \cup Address : entity = Counted(e)
    BY <1>4, <1>6
  <2> DEFINE live == {i \in DOMAIN recurrence : Live(recurrence[i], r.host, entity)}
             latest == {i \in live : \A j \in live : recurrence[j].start <= recurrence[i].start}
  <2>2. PICK i \in (IF live = {} THEN {None} ELSE latest) :
          request' = [request EXCEPT
              ![w].pc = "recount", ![w].row = i, ![w].at = now, ![w].entity = entity,
              ![w].count = IF i = None THEN 1 ELSE recurrence[i].count + 1]
    BY <1>1, <1>3, <1>6, <2>1 DEF ReadCount, Current
  <2>3. now \in Nat /\ Window \in Nat
    BY DetectionAssumption DEF TypeInv, TablesInv, DetectionAssumption
  <2>4. recurrence \in Seq(RecurrenceRow) /\ \A j \in DOMAIN recurrence : recurrence[j] \in RecurrenceRow
    BY ElementOfSeq DEF TypeInv, TablesInv
  <2>5. DOMAIN recurrence \subseteq Nat /\ None \notin Nat
    BY <2>4, NoneAssumption DEF NoneAssumption
  <2>6. CASE i = None
    <3>1. PICK row : row = [r EXCEPT !.pc = "recount", !.row = None, !.at = now, !.entity = entity, !.count = 1]
      OBVIOUS
    <3>2. request' = [request EXCEPT ![w] = row]
      BY <1>1, <2>2, <2>6, <3>1
    <3>3. row \in RequestRow /\ row.pc = "recount" /\ row.todo = r.todo /\ row.host = r.host /\ row.row = None
          /\ row.count = 1 /\ row.entity = entity
      BY <1>1, <2>1, <2>3, <3>1 DEF RequestRow, Step
    <3>4. RequestInv(row)
      BY <1>1, <1>3, <2>1, <3>3 DEF RequestInv
    <3> QED
      BY <1>2, <3>2, <3>4, BoundsTyped, RowStep DEF bounds
  <2>7. CASE i # None
    <3>1. i \in live
      BY <2>2, <2>7
    <3>2. /\ i \in DOMAIN recurrence /\ recurrence[i].host = r.host /\ recurrence[i].entity = entity
          /\ recurrence[i].expires > now
      BY <3>1 DEF Live
    <3>3. PICK c \in Nat : c = recurrence[i].count + 1
      BY <2>4, <3>2 DEF RecurrenceRow
    <3>4. PICK row : row = [r EXCEPT !.pc = "recount", !.row = i, !.at = now, !.entity = entity, !.count = c]
      OBVIOUS
    <3>5. request' = [request EXCEPT ![w] = row]
      BY <1>1, <2>2, <2>7, <3>3, <3>4
    <3>6. /\ row \in RequestRow /\ row.pc = "recount" /\ row.todo = r.todo /\ row.host = r.host /\ row.row = i
          /\ row.entity = entity /\ row.at = now
      BY <1>1, <2>1, <2>3, <2>5, <3>2, <3>4 DEF RequestRow, Step
    <3>7. \E j \in DOMAIN bumps :
             /\ bumps[j].host = r.host /\ bumps[j].entity = entity /\ bumps[j].at + Window > now
      BY <3>2 DEF TypeInv, TablesInv, Supported
    <3>8. RequestInv(row)
      BY <1>1, <1>3, <2>1, <2>7, <3>2, <3>6, <3>7 DEF RequestInv
    <3> QED
      BY <1>2, <3>5, <3>8, BoundsTyped, RowStep DEF bounds
  <2> QED
    BY <2>6, <2>7
<1> QED
  BY <1>5, <1>6

\* The insertion of a window is refused.
Refused(w) == FailEvent(w) /\ UNCHANGED <<recurrence, bumps>>

\* Or the count is written.
Recounted(w) ==
    LET r == request[w]
    IN  /\ recurrence' =
               IF r.row = None
               THEN Append(recurrence, [host |-> r.host, entity |-> r.entity, count |-> 1,
                                        start |-> r.at, expires |-> r.at + Window])
               ELSE [recurrence EXCEPT ![r.row].count = r.count, ![r.row].expires = r.at + Window]
        /\ bumps' = Append(bumps, [event |-> Current(w), host |-> r.host, entity |-> r.entity,
                                   at |-> r.at, count |-> r.count])
        /\ Advance(w, "candidates")

\* The count is written back, into the row that was read or a new one.
LEMMA RecountedTypes ==
    ASSUME TypeInv, NEW w \in Worker, WriteCount(w), Recounted(w)
    PROVE  TypeInv' /\ Grown
<1>1. PICK r : r = request[w] /\ RequestInv(r) /\ r.pc = "recount" /\ r \in RequestRow
  BY DEF WriteCount, At, TypeInv, RequestInv
<1>2. UNCHANGED <<agents, stored, detections, incidents, risks, decisions, bounds>>
  BY DEF WriteCount
<1>3. /\ r.host \in Host /\ r.entity \in Process \cup Address /\ r.at \in Nat /\ r.count \in Nat
      /\ r.todo \in Seq(Event)
  BY <1>1 DEF RequestInv, RequestRow
<1>0. r.todo[1] \in Event
  BY <1>1, CurrentEvent DEF TypeInv
<1>4. PICK bump \in Bump : bump = [event |-> r.todo[1], host |-> r.host, entity |-> r.entity,
                                  at |-> r.at, count |-> r.count]
  BY <1>0, <1>3 DEF Bump
<1>5. bump.host = r.host /\ bump.entity = r.entity /\ bump.at = r.at /\ bump.count = r.count
  BY <1>4
<1>6. bumps' = Append(bumps, bump) /\ bumps \in Seq(Bump)
  BY <1>1, <1>4 DEF Recounted, Current, TypeInv, TablesInv
<1>7. /\ bumps' \in Seq(Bump)
      /\ \A j \in DOMAIN bumps : j \in DOMAIN bumps' /\ bumps'[j] = bumps[j]
      /\ Len(bumps) + 1 \in DOMAIN bumps' /\ bumps'[Len(bumps) + 1] = bump
      /\ \A j \in DOMAIN bumps' : j \in DOMAIN bumps \/ j = Len(bumps) + 1
      /\ Len(bumps) + 1 \notin DOMAIN bumps
  BY <1>6, Appended
<1>8. PICK n : n = Len(bumps) + 1
  OBVIOUS
<1>9. PICK ex \in Nat : ex = r.at + Window
  BY <1>3, DetectionAssumption DEF DetectionAssumption
<1>10. CountIsRecent'
  <2> SUFFICES ASSUME NEW i \in DOMAIN bumps', bumps'[i].count > 1
               PROVE  \E j \in DOMAIN bumps' \ {i} :
                         /\ bumps'[j].host = bumps'[i].host /\ bumps'[j].entity = bumps'[i].entity
                         /\ bumps'[j].at + Window > bumps'[i].at
    BY DEF CountIsRecent
  <2>1. CASE i \in DOMAIN bumps
    <3>1. PICK j \in DOMAIN bumps \ {i} :
             /\ bumps[j].host = bumps[i].host /\ bumps[j].entity = bumps[i].entity
             /\ bumps[j].at + Window > bumps[i].at
      BY <1>7, <2>1 DEF TypeInv, TablesInv, CountIsRecent
    <3> QED
      BY <1>7, <2>1, <3>1
  <2>2. CASE i = n
    <3>1. bumps'[i] = bump /\ i \notin DOMAIN bumps
      BY <1>7, <1>8, <2>2
    <3>2. r.row # None
      BY <1>1, <1>5, <3>1 DEF RequestInv
    <3>3. PICK j \in DOMAIN bumps :
             /\ bumps[j].host = r.host /\ bumps[j].entity = r.entity /\ bumps[j].at + Window > r.at
      BY <1>1, <3>2 DEF RequestInv
    <3> QED
      BY <1>5, <1>7, <3>1, <3>3
  <2> QED
    BY <1>7, <1>8, <2>1, <2>2
<1>11. PICK row : row = [r EXCEPT !.pc = "candidates"]
  OBVIOUS
<1>12. request' = [request EXCEPT ![w] = row]
  BY <1>1, <1>11 DEF Recounted, Advance
<1>13. row \in RequestRow /\ row.pc = "candidates" /\ row.todo = r.todo /\ row.host = r.host
  BY <1>1, <1>11 DEF RequestRow, Step
<1>14. RequestInv(row)
  BY <1>1, <1>13 DEF RequestInv
<1>15. /\ recurrence \in Seq(RecurrenceRow)
       /\ \A i \in DOMAIN recurrence : recurrence[i] \in RecurrenceRow
       /\ \A i \in DOMAIN recurrence : Supported(i) /\ Opened(i)
  BY ElementOfSeq DEF TypeInv, TablesInv
<1>16. /\ recurrence' \in Seq(RecurrenceRow)
       /\ \A i \in DOMAIN recurrence :
             /\ i \in DOMAIN recurrence'
             /\ recurrence'[i].host = recurrence[i].host /\ recurrence'[i].entity = recurrence[i].entity
       /\ \A i \in DOMAIN recurrence' :
             \/ i \in DOMAIN recurrence /\ recurrence'[i] = recurrence[i]
             \/ /\ recurrence'[i].host = r.host /\ recurrence'[i].entity = r.entity
                /\ recurrence'[i].expires = r.at + Window
                /\ r.row = None \/ (i = r.row /\ i \in DOMAIN recurrence)
  <2>1. CASE r.row = None
    <3>1. PICK new \in RecurrenceRow :
             new = [host |-> r.host, entity |-> r.entity, count |-> 1, start |-> r.at, expires |-> ex]
      BY <1>3, <1>9 DEF RecurrenceRow
    <3>2. recurrence' = Append(recurrence, new)
      BY <1>1, <1>9, <2>1, <3>1 DEF Recounted
    <3>3. /\ recurrence' \in Seq(RecurrenceRow)
          /\ \A i \in DOMAIN recurrence : i \in DOMAIN recurrence' /\ recurrence'[i] = recurrence[i]
          /\ recurrence'[Len(recurrence) + 1] = new
          /\ \A i \in DOMAIN recurrence' : i \in DOMAIN recurrence \/ i = Len(recurrence) + 1
      BY <1>15, <3>2, Appended
    <3> QED
      BY <1>9, <2>1, <3>1, <3>3
  <2>2. CASE r.row # None
    <3>1. PICK k \in DOMAIN recurrence : k = r.row /\ recurrence[k].host = r.host
                                         /\ recurrence[k].entity = r.entity
      BY <1>1, <2>2 DEF RequestInv
    <3>2. PICK new : new = [recurrence[k] EXCEPT !.count = r.count, !.expires = ex]
      OBVIOUS
    <3>3. new \in RecurrenceRow /\ new.host = r.host /\ new.entity = r.entity /\ new.expires = ex
      BY <1>3, <1>15, <3>1, <3>2 DEF RecurrenceRow
    <3>4. recurrence' = [recurrence EXCEPT ![k] = new]
      BY <1>1, <1>9, <2>2, <3>1, <3>2 DEF Recounted
    <3>5. /\ DOMAIN recurrence' = DOMAIN recurrence
          /\ \A i \in DOMAIN recurrence : recurrence'[i] = IF i = k THEN new ELSE recurrence[i]
      BY <3>4
    <3>6. recurrence' \in Seq(RecurrenceRow)
      <4>1. DOMAIN recurrence = 1..Len(recurrence) /\ Len(recurrence) \in Nat
        BY <1>15
      <4>2. recurrence' \in [1..Len(recurrence) -> RecurrenceRow]
        BY <1>15, <3>3, <3>4, <4>1
      <4> QED
        BY <4>1, <4>2
    <3> QED
      BY <1>9, <3>1, <3>3, <3>5, <3>6
  <2> QED
    BY <2>1, <2>2
<1>17. \A i \in DOMAIN recurrence' : Supported(i)'
  <2> SUFFICES ASSUME NEW i \in DOMAIN recurrence'
               PROVE  \E j \in DOMAIN bumps' :
                         /\ bumps'[j].host = recurrence'[i].host
                         /\ bumps'[j].entity = recurrence'[i].entity
                         /\ bumps'[j].at + Window = recurrence'[i].expires
    BY DEF Supported
  <2>1. CASE i \in DOMAIN recurrence /\ recurrence'[i] = recurrence[i]
    <3>1. PICK j \in DOMAIN bumps :
             /\ bumps[j].host = recurrence[i].host /\ bumps[j].entity = recurrence[i].entity
             /\ bumps[j].at + Window = recurrence[i].expires
      BY <1>15, <2>1 DEF Supported
    <3> QED
      BY <1>7, <2>1, <3>1
  <2>2. CASE /\ recurrence'[i].host = r.host /\ recurrence'[i].entity = r.entity
             /\ recurrence'[i].expires = r.at + Window
    BY <1>5, <1>7, <2>2
  <2> QED
    BY <1>16, <2>1, <2>2
<1>18. \A i \in DOMAIN recurrence' : Opened(i)'
  <2> SUFFICES ASSUME NEW i \in DOMAIN recurrence'
               PROVE  \E j \in DOMAIN bumps' :
                         /\ bumps'[j].host = recurrence'[i].host
                         /\ bumps'[j].entity = recurrence'[i].entity
                         /\ bumps'[j].count = 1
    BY DEF Opened
  <2>1. CASE i \in DOMAIN recurrence
    <3>1. PICK j \in DOMAIN bumps :
             /\ bumps[j].host = recurrence[i].host /\ bumps[j].entity = recurrence[i].entity
             /\ bumps[j].count = 1
      BY <1>15, <2>1 DEF Opened
    <3> QED
      BY <1>7, <1>16, <2>1, <3>1
  <2>2. CASE i \notin DOMAIN recurrence
    <3>1. /\ recurrence'[i].host = r.host /\ recurrence'[i].entity = r.entity
          /\ r.row = None
      BY <1>16, <2>2
    <3>2. r.count = 1
      BY <1>1, <3>1 DEF RequestInv
    <3> QED
      BY <1>5, <1>7, <3>1, <3>2
  <2> QED
    BY <2>1, <2>2
<1>19. TablesInv' /\ Grown
  BY <1>2, <1>7, <1>10, <1>16, <1>17, <1>18 DEF TypeInv, TablesInv, Grown, Examined, bounds
<1> QED
  BY <1>12, <1>14, <1>19, RequestKept, ThreadStep DEF TypeInv

\* The count is written, or the insertion is refused and the event given up.
LEMMA WriteCountTypes ==
    ASSUME TypeInv, NEW w \in Worker, WriteCount(w)
    PROVE  /\ TypeInv' /\ Grown
           /\ Recounted(w) \/ (Refused(w) /\ request[w].row = None /\ SameWindow(request[w]))
<1>1. Recounted(w) \/ (Refused(w) /\ request[w].row = None /\ SameWindow(request[w]))
  <2> HIDE DEF SameWindow, FailEvent, Advance, Current
  <2> QED
    BY Zenon DEF WriteCount, Recounted, Refused
<1>2. CASE Recounted(w)
  BY <1>1, <1>2, RecountedTypes
<1>3. CASE Refused(w)
  <2>1. request[w] # None /\ request[w].pc = "recount"
    BY DEF WriteCount, At
  <2>2. NextEvent(w) /\ UNCHANGED <<rows, bumps, bounds>>
    BY <1>3 DEF Refused, FailEvent, WriteCount, rows
  <2>3. TablesInv' /\ Grown
    BY <2>2, TablesKept, BoundsTyped DEF TypeInv, bounds
  <2> QED
    BY <1>1, <2>1, <2>2, <2>3, NextEventRow
<1> QED
  BY <1>1, <1>2, <1>3


\* The incidents are looked up, and created.
LEMMA IncidentTypes ==
    ASSUME TypeInv, NEW w \in Worker, ReadIncidents(w) \/ PersistIncidents(w)
    PROVE  TypeInv' /\ Grown
<1>1. PICK r : /\ r = request[w] /\ RequestInv(r) /\ r \in RequestRow /\ r # None
               /\ r.pc \in {"candidates", "incidents"}
  BY DEF ReadIncidents, PersistIncidents, At, TypeInv, RequestInv
<1>2. PICK e \in Event : e = r.todo[1] /\ e = Current(w) /\ stored[e] \in Host /\ Content[e] \in SecurityEvent
  BY <1>1, CurrentEvent DEF TypeInv, Current
<1>3. CASE ReadIncidents(w)
  <2>1. UNCHANGED <<rows, bumps, bounds>>
    BY <1>3 DEF ReadIncidents
  <2>2. TablesInv' /\ Grown
    BY <2>1, TablesKept, BoundsTyped DEF TypeInv, bounds
  <2>3. CASE NextEvent(w)
    BY <1>1, <2>2, <2>3, NextEventRow
  <2>4. CASE ~NextEvent(w)
    <3>1. EventCandidates(e) \subseteq CorrelationKeys
      BY <1>2, CandidatesAreKeys DEF EventCandidates
    <3>2. PICK create \in SUBSET CorrelationKeys : create = {k \in EventCandidates(e) : incidents[k] = None}
      BY <3>1
    <3>3. PICK row : row = [r EXCEPT !.pc = "incidents", !.create = create]
      OBVIOUS
    <3>4. request' = [request EXCEPT ![w] = row]
      BY <1>1, <1>2, <1>3, <2>4, <3>2, <3>3 DEF ReadIncidents
    <3>5. row \in RequestRow /\ row.pc = "incidents" /\ row.todo = r.todo /\ row.host = r.host
      BY <1>1, <3>3 DEF RequestRow, Step
    <3>6. RequestInv(row)
      BY <1>1, <3>5 DEF RequestInv
    <3> QED
      BY <2>1, <3>4, <3>6, BoundsTyped, RowStep DEF bounds
  <2> QED
    BY <2>3, <2>4
<1>4. CASE PersistIncidents(w)
  <2>1. UNCHANGED <<agents, stored, detections, recurrence, risks, decisions, bumps, bounds>>
    BY <1>4 DEF PersistIncidents
  <2>2. incidents' \in [CorrelationKeys -> IncidentRow \cup {None}]
    <3>1. CASE UNCHANGED incidents
      BY <3>1 DEF TypeInv, TablesInv
    <3>2. PICK new \in IncidentRow : new = [event |-> e, risk |-> None, decision |-> None]
      BY DEF IncidentRow
    <3>3. CASE incidents' = [k \in CorrelationKeys |-> IF k \in r.create THEN new ELSE incidents[k]]
      BY <3>3 DEF TypeInv, TablesInv
    <3> QED
      BY <1>1, <1>2, <1>4, <3>1, <3>2, <3>3 DEF PersistIncidents
  <2>3. TablesInv' /\ Grown
    BY <2>1, <2>2 DEF TypeInv, TablesInv, Grown, Examined, Supported, Opened, CountIsRecent, bounds
  <2>4. CASE NextEvent(w)
    BY <1>1, <2>3, <2>4, NextEventRow
  <2>5. CASE Advance(w, "risk")
    <3>1. PICK row : row = [r EXCEPT !.pc = "risk"]
      OBVIOUS
    <3>2. request' = [request EXCEPT ![w] = row]
      BY <1>1, <2>5, <3>1 DEF Advance
    <3>3. row \in RequestRow /\ row.pc = "risk" /\ row.todo = r.todo /\ row.host = r.host
      BY <1>1, <3>1 DEF RequestRow, Step
    <3>4. RequestInv(row)
      BY <1>1, <3>3 DEF RequestInv
    <3> QED
      BY <2>3, <3>2, <3>4, RequestKept, ThreadStep DEF TypeInv
  <2> QED
    BY <1>4, <2>4, <2>5 DEF PersistIncidents, FailEvent
<1> QED
  BY <1>3, <1>4

\* The risk is scored, and the decision taken.
LEMMA AssessTypes ==
    ASSUME TypeInv, NEW w \in Worker, PersistRisk(w) \/ PersistDecision(w)
    PROVE  TypeInv' /\ Grown
<1>1. PICK r : /\ r = request[w] /\ RequestInv(r) /\ r \in RequestRow /\ r # None
               /\ r.pc \in {"risk", "decision"}
  BY DEF PersistRisk, PersistDecision, At, TypeInv, RequestInv
<1>2. PICK e \in Event : e = r.todo[1] /\ e = Current(w) /\ stored[e] \in Host /\ Content[e] \in SecurityEvent
  BY <1>1, CurrentEvent DEF TypeInv, Current
<1>3. e \in Examined
  BY <1>1, <1>2 DEF RequestInv
<1>4. risks \in Seq(RiskRow) /\ decisions \in Seq(DecisionRow) /\ Len(risks) \in Nat /\ Len(decisions) \in Nat
  BY DEF TypeInv, TablesInv
<1>5. CASE PersistRisk(w)
  <2>1. PICK found \in SUBSET DetectionRow : found = detections[e] /\ IsFiniteSet(found)
    BY <1>3 DEF TypeInv, TablesInv
  <2>2. Cardinality(Keys(Content[e], stored[e], found)) \in Nat
    <3> DEFINE key(d) == CorrelationKey(Content[e], stored[e], d.detector)
               f == [d \in found |-> key(d)]
               K == {key(d) : d \in found}
    <3>1. f \in Surjection(found, K)
      <4> HIDE DEF key
      <4> QED
        BY DEF Surjection
    <3>2. IsFiniteSet(K)
      <4> HIDE DEF f, K
      <4> QED
        BY <2>1, <3>1, FS_Surjection
    <3>3. Keys(Content[e], stored[e], found) = K
      BY DEF Keys
    <3> QED
      BY <3>2, <3>3, FS_CardinalityType
  <2>3. PICK g \in Nat : g = Cardinality(Keys(Content[e], stored[e], found))
    BY <2>2
  <2>4. r.count \in Nat
    BY <1>1 DEF RequestRow
  <2>5. PICK score \in 0..100 : score = RiskScore(found, g, r.count)
    BY <2>1, <2>4, ScoreOnScale
  <2>6. EventCandidates(e) \subseteq CorrelationKeys
    BY <1>2, CandidatesAreKeys DEF EventCandidates
  <2>7. PICK k \in CorrelationKeys \cup {None} :
          /\ risks' = Append(risks, [event |-> e, score |-> score,
                                     severity |-> RiskSeverity(score), incident |-> k])
          /\ request' = [request EXCEPT ![w].pc = "decision", ![w].risk = Len(risks) + 1]
    BY <1>1, <1>2, <1>5, <2>1, <2>3, <2>5, <2>6 DEF PersistRisk
  <2>8. PICK severity \in {"low", "medium", "high", "critical"} : severity = RiskSeverity(score)
    BY DEF RiskSeverity
  <2>9. PICK risk \in RiskRow :
          risk = [event |-> e, score |-> score, severity |-> severity, incident |-> k]
    BY DEF RiskRow
  <2>10. risks' = Append(risks, risk) /\ risk.event = e
    BY <2>7, <2>8, <2>9
  <2>11. /\ risks' \in Seq(RiskRow)
         /\ \A i \in DOMAIN risks : i \in DOMAIN risks' /\ risks'[i] = risks[i]
         /\ Len(risks) + 1 \in DOMAIN risks' /\ risks'[Len(risks) + 1] = risk
    BY <1>4, <2>10, Appended
  <2>12. UNCHANGED <<agents, stored, detections, recurrence, incidents, decisions, bumps, bounds>>
    BY <1>5 DEF PersistRisk
  <2>13. TablesInv' /\ Grown
    BY <2>11, <2>12 DEF TypeInv, TablesInv, Grown, Examined, Supported, Opened, CountIsRecent, bounds
  <2>14. PICK n \in Nat : n = Len(risks) + 1
    BY <1>4
  <2>15. PICK row : row = [r EXCEPT !.pc = "decision", !.risk = n]
    OBVIOUS
  <2>16. request' = [request EXCEPT ![w] = row]
    BY <1>1, <2>7, <2>14, <2>15
  <2>17. row \in RequestRow /\ row.pc = "decision" /\ row.todo = r.todo /\ row.host = r.host /\ row.risk = n
    BY <1>1, <2>15 DEF RequestRow, Step
  <2>18. /\ r.todo # << >> /\ \A i, j \in DOMAIN r.todo : r.todo[i] = r.todo[j] => i = j
         /\ \A i \in DOMAIN r.todo : stored'[r.todo[i]] # None /\ stored'[r.todo[i]] = r.host
    BY <1>1, <2>12 DEF RequestInv
  <2>19. r.todo[1] \in Examined' /\ n \in DOMAIN risks' /\ risks'[n].event = r.todo[1]
    BY <1>2, <1>3, <2>10, <2>11, <2>12, <2>14 DEF Examined
  <2>20. RequestInv(row)'
    BY <2>17, <2>18, <2>19 DEF RequestInv
  <2> QED
    BY <2>13, <2>16, <2>20, ThreadStep
<1>6. CASE PersistDecision(w)
  <2>1. /\ r.pc = "decision" /\ r.risk \in DOMAIN risks /\ risks[r.risk].event = e
    BY <1>1, <1>2, <1>6 DEF PersistDecision, At, RequestInv
  <2>2. risks[r.risk] \in RiskRow
    BY <1>4, <2>1, ElementOfSeq
  <2>3. PICK k \in CorrelationKeys \cup {None} : k = risks[r.risk].incident
    BY <2>2 DEF RiskRow
  <2>4. PICK action \in {"monitor", "investigate", "approve_containment", "prepare_containment"} :
          action = RecommendedAction(risks[r.risk].score)
    BY DEF RecommendedAction
  <2>5. PICK decision \in DecisionRow : decision = [event |-> e, incident |-> k, action |-> action]
    BY DEF DecisionRow
  <2>6. decisions' = Append(decisions, decision) /\ decision.event = e /\ decision.incident = k
    BY <1>1, <1>2, <1>6, <2>3, <2>4, <2>5 DEF PersistDecision
  <2>7. /\ decisions' \in Seq(DecisionRow)
        /\ \A i \in DOMAIN decisions : i \in DOMAIN decisions' /\ decisions'[i] = decisions[i]
        /\ Len(decisions) + 1 \in DOMAIN decisions' /\ decisions'[Len(decisions) + 1] = decision
    BY <1>4, <2>6, Appended
  <2>8. UNCHANGED <<agents, stored, detections, recurrence, incidents, risks, bumps, bounds>>
    BY <1>6 DEF PersistDecision
  <2>9. TablesInv' /\ Grown
    BY <2>7, <2>8 DEF TypeInv, TablesInv, Grown, Examined, Supported, Opened, CountIsRecent, bounds
  <2>10. PICK n \in Nat : n = Len(decisions) + 1
    BY <1>4
  <2>11. PICK row : row = [r EXCEPT !.pc = "link", !.decision = n]
    OBVIOUS
  <2>12. request' = [request EXCEPT ![w] = row]
    BY <1>1, <1>6, <2>10, <2>11 DEF PersistDecision
  <2>13. row \in RequestRow /\ row.pc = "link" /\ row.todo = r.todo /\ row.host = r.host /\ row.risk = r.risk /\ row.decision = n
    BY <1>1, <2>11 DEF RequestRow, Step
  <2>14. /\ r.todo # << >> /\ \A i, j \in DOMAIN r.todo : r.todo[i] = r.todo[j] => i = j
         /\ \A i \in DOMAIN r.todo : stored'[r.todo[i]] # None /\ stored'[r.todo[i]] = r.host
    BY <1>1, <2>8 DEF RequestInv
  <2>15. /\ r.todo[1] \in Examined' /\ r.risk \in DOMAIN risks' /\ risks'[r.risk].event = r.todo[1]
         /\ n \in DOMAIN decisions' /\ decisions'[n].event = r.todo[1]
         /\ decisions'[n].incident = risks'[r.risk].incident
    BY <1>2, <1>3, <2>1, <2>3, <2>6, <2>7, <2>8, <2>10 DEF Examined
  <2>16. RequestInv(row)'
    BY <2>13, <2>14, <2>15 DEF RequestInv
  <2> QED
    BY <2>9, <2>12, <2>16, ThreadStep
<1> QED
  BY <1>5, <1>6

\* The incident takes the risk and the decision.
LEMMA LinkTypes ==
    ASSUME TypeInv, NEW w \in Worker, LinkIncidents(w),
           \A i \in DOMAIN risks : risks[i].incident # None => incidents[risks[i].incident] # None
    PROVE  TypeInv' /\ Grown
<1>1. PICK r : r = request[w] /\ RequestInv(r) /\ r \in RequestRow /\ r # None /\ r.pc = "link"
  BY DEF LinkIncidents, At, TypeInv, RequestInv
<1>2. r.risk \in Nat /\ r.decision \in Nat /\ r.risk \in DOMAIN risks
  BY <1>1 DEF RequestRow, RequestInv
<1>3. risks[r.risk] \in RiskRow
  BY <1>2, ElementOfSeq DEF TypeInv, TablesInv
<1>4. incidents' \in [CorrelationKeys -> IncidentRow \cup {None}]
  <2>1. CASE UNCHANGED incidents
    BY <2>1 DEF TypeInv, TablesInv
  <2>2. CASE risks[r.risk].incident # None
    <3>1. PICK k \in CorrelationKeys : k = risks[r.risk].incident
      BY <1>3, <2>2 DEF RiskRow
    <3>2. incidents[k] \in IncidentRow
      BY <1>2, <2>2, <3>1 DEF TypeInv, TablesInv
    <3>3. PICK new \in IncidentRow : new = [incidents[k] EXCEPT !.risk = r.risk, !.decision = r.decision]
      BY <1>2, <3>2 DEF IncidentRow
    <3>4. incidents' = [incidents EXCEPT ![k] = new]
      BY <1>1, <2>2, <3>1, <3>3 DEF LinkIncidents
    <3> QED
      BY <3>4 DEF TypeInv, TablesInv
  <2> QED
    BY <1>1, <2>1, <2>2 DEF LinkIncidents
<1>5. UNCHANGED <<agents, stored, detections, recurrence, risks, decisions, bumps, bounds>>
  BY DEF LinkIncidents
<1>6. TablesInv' /\ Grown
  BY <1>4, <1>5 DEF TypeInv, TablesInv, Grown, Examined, Supported, Opened, CountIsRecent, bounds
<1> QED
  BY <1>1, <1>6, NextEventRow DEF LinkIncidents

\* An agent registers, the backend dies, or time passes.
LEMMA OtherTypes ==
    ASSUME TypeInv, (\E h \in Host : RegisterAgent(h)) \/ Crash \/ TimePasses \/ UNCHANGED vars
    PROVE  TypeInv' /\ Grown
<1>1. TablesInv' /\ Grown
  <2>1. CASE \E h \in Host : RegisterAgent(h)
    <3>1. PICK h \in Host : agents' = Append(agents, h)
      BY <2>1 DEF RegisterAgent
    <3>2. agents' \in Seq(Host)
      BY <3>1, Appended DEF TypeInv, TablesInv
    <3>3. UNCHANGED <<stored, detections, recurrence, incidents, risks, decisions, bumps, bounds>>
      BY <2>1 DEF RegisterAgent
    <3> QED
      BY <3>2, <3>3 DEF TypeInv, TablesInv, Grown, Examined, Supported, Opened, CountIsRecent, bounds
  <2>2. CASE Crash \/ TimePasses \/ UNCHANGED vars
    BY <2>2, TablesKept, BoundsTyped, DetectionAssumption
    DEF Crash, TimePasses, vars, bounds, TypeInv, DetectionAssumption
  <2> QED
    BY <2>1, <2>2
<1>2. CASE Crash
  BY <1>1, <1>2 DEF Crash, TypeInv
<1>3. CASE UNCHANGED request
  <2> SUFFICES ASSUME NEW w \in Worker PROVE (request[w] = None \/ RequestInv(request[w]))'
    BY <1>1, <1>3 DEF TypeInv
  <2>1. PICK r : r = request[w] /\ (r = None \/ RequestInv(r))
    BY DEF TypeInv
  <2>2. r = None \/ RequestInv(r)'
    BY <1>1, <2>1, RequestKept DEF TypeInv
  <2>3. request'[w] = r
    BY <1>3, <2>1
  <2> QED
    BY <2>2, <2>3 DEF RequestInv
<1> QED
  BY <1>2, <1>3 DEF RegisterAgent, TimePasses, vars

-----------------------------------------------------------------------------
(* Which thread dispatches an event, and what the dispatch has come to *)

\* A request has the dispatch of an event before it, or in progress.
Owned(r, e) ==
    /\ r # None /\ r.pc \notin {"check", "commit"}
    /\ \E i \in DOMAIN r.todo : r.todo[i] = e

\* And the incidents of the event are not created yet.
Ahead(r, e) ==
    /\ Owned(r, e)
    /\ e # r.todo[1] \/ r.pc \in {"detect", "count", "recount", "candidates", "incidents"}

\* And increment has not returned for it.
Uncounted(r, e) ==
    /\ Owned(r, e)
    /\ e # r.todo[1] \/ r.pc \in {"detect", "count", "recount"}

\* A dispatch creates incidents the event can be about, and finds the others; after that
\* the event has all of them.
CreateInv(r) ==
    /\ r.pc = "incidents" =>
          /\ r.create \subseteq EventCandidates(r.todo[1])
          /\ \A k \in EventCandidates(r.todo[1]) \ r.create : incidents[k] # None
    /\ r.pc = "risk" => \A k \in EventCandidates(r.todo[1]) : incidents[k] # None

\* The dispatch of an event has come to an end that UnscoredHasCause allows.
Settled(e) ==
    /\ e \in Examined
    /\ \/ detections[e] = {}
       \/ \E i \in DOMAIN risks : risks[i].event = e
       \/ \E k \in EventCandidates(e) : incidents[k] # None /\ incidents[k].event # e
       \/ WindowTaken(e)

\* Incidents that risks name exist, and the links of an incident are of one event.
PairInv ==
    /\ \A i \in DOMAIN risks : risks[i].incident # None => incidents[risks[i].incident] # None
    /\ \A k \in CorrelationKeys : incidents[k] # None /\ incidents[k].risk # None =>
          /\ incidents[k].decision # None
          /\ incidents[k].risk \in DOMAIN risks /\ incidents[k].decision \in DOMAIN decisions
          /\ risks[incidents[k].risk].event = decisions[incidents[k].decision].event
          /\ risks[incidents[k].risk].incident = k
          /\ decisions[incidents[k].decision].incident = k

\* One thread dispatches an event, incidents and counts are of stored events whose
\* dispatch has come to them, and what no thread dispatches any more is settled.
DispatchInv ==
    /\ \A v, w \in Worker, e \in Event : Owned(request[v], e) /\ Owned(request[w], e) => v = w
    /\ \A k \in CorrelationKeys : incidents[k] # None =>
          /\ stored[incidents[k].event] # None
          /\ \A w \in Worker : ~Ahead(request[w], incidents[k].event)
    /\ \A j \in DOMAIN bumps :
          /\ stored[bumps[j].event] # None
          /\ \A w \in Worker : ~Uncounted(request[w], bumps[j].event)
    /\ \A w \in Worker : request[w] # None => CreateInv(request[w])
    /\ PairInv
    /\ \A e \in Event :
          crashes = 0 /\ stored[e] # None /\ (\A w \in Worker : ~Owned(request[w], e)) => Settled(e)

\* A thread that leaves row as its request takes over events that were not stored, makes
\* incidents, counts and findings of its own events, and settles what it lets go.
Progress(w, row) ==
    /\ request' = [request EXCEPT ![w] = row]
    /\ \A e \in Event : Owned(row, e) => Owned(request[w], e) \/ stored[e] = None
    /\ \A e \in Event : Ahead(row, e) => Ahead(request[w], e) \/ stored[e] = None
    /\ \A k \in CorrelationKeys : incidents[k] # None =>
          incidents'[k] # None /\ incidents'[k].event = incidents[k].event
    /\ \A k \in CorrelationKeys : incidents[k] = None /\ incidents'[k] # None =>
          Owned(request[w], incidents'[k].event) /\ ~Ahead(row, incidents'[k].event)
    /\ \A e \in Event : Uncounted(row, e) => Uncounted(request[w], e) \/ stored[e] = None
    /\ \A j \in DOMAIN bumps' :
          \/ j \in DOMAIN bumps
          \/ Owned(request[w], bumps'[j].event) /\ ~Uncounted(row, bumps'[j].event)
    /\ \A e \in Examined : detections'[e] = detections[e] \/ Owned(request[w], e)
    /\ row = None \/ CreateInv(row)'
    /\ crashes' = crashes
    /\ \A e \in Event : crashes = 0 /\ stored'[e] # None /\ ~Owned(row, e) =>
          Settled(e)' \/ (stored[e] # None /\ ~Owned(request[w], e))

\* A thread dispatches stored events, and the first of its events is one.
LEMMA OwnedIsStored ==
    ASSUME TypeInv, NEW w \in Worker
    PROVE  /\ \A e : Owned(request[w], e) => e \in Event /\ stored[e] # None
           /\ request[w] # None /\ request[w].pc \notin {"check", "commit"} =>
                 Owned(request[w], request[w].todo[1])
<1>1. CASE request[w] = None \/ request[w].pc \in {"check", "commit"}
  BY <1>1 DEF Owned
<1>2. CASE request[w] # None /\ request[w].pc \notin {"check", "commit"}
  <2>1. PICK r : r = request[w] /\ RequestInv(r) /\ r.pc \notin {"check", "commit"}
    BY <1>2 DEF TypeInv
  <2>2. r.todo \in Seq(Event) /\ 1 \in DOMAIN r.todo
    BY <2>1, CurrentEvent DEF TypeInv, RequestInv, RequestRow
  <2>3. \A i \in DOMAIN r.todo : r.todo[i] \in Event /\ stored[r.todo[i]] # None
    BY <2>1, <2>2, ElementOfSeq DEF RequestInv
  <2> QED
    BY <1>2, <2>1, <2>2, <2>3 DEF Owned
<1> QED
  BY <1>1, <1>2

\* The incidents an event can be about stay the same when its findings do.
LEMMA CandidatesKept ==
    ASSUME TypeInv, Grown, NEW e \in Examined, stored[e] # None, detections'[e] = detections[e]
    PROVE  /\ EventCandidates(e)' = EventCandidates(e) /\ EventCandidates(e) \subseteq CorrelationKeys
           /\ e \in Examined'
<1>1. e \in Event /\ stored[e] \in Host /\ Content[e] \in SecurityEvent
  BY DetectionAssumption DEF TypeInv, TablesInv, DetectionAssumption
<1>2. stored'[e] = stored[e] /\ e \in Examined'
  BY <1>1 DEF Grown
<1> QED
  BY <1>1, <1>2, CandidatesAreKeys DEF EventCandidates

\* What is settled stays settled, when the event is another thread's or nobody's.
LEMMA SettledStays ==
    ASSUME TypeInv, Grown, NEW e \in Event, stored[e] # None, Settled(e),
           detections'[e] = detections[e],
           \A j \in DOMAIN bumps' : j \in DOMAIN bumps \/ bumps'[j].event # e,
           \A k \in CorrelationKeys : incidents[k] # None =>
               incidents'[k] # None /\ incidents'[k].event = incidents[k].event
    PROVE  Settled(e)'
<1>1. e \in Examined
  BY DEF Settled
<1>2. EventCandidates(e)' = EventCandidates(e) /\ EventCandidates(e) \subseteq CorrelationKeys /\ e \in Examined'
  BY <1>1, CandidatesKept
<1>3. ASSUME WindowTaken(e) PROVE WindowTaken(e)'
  <2>1. \A j \in DOMAIN bumps : j \in DOMAIN bumps' /\ bumps'[j] = bumps[j]
    BY DEF Grown
  <2>2. stored'[e] = stored[e]
    BY DEF Grown
  <2> QED
    BY <1>3, <2>1, <2>2 DEF WindowTaken
<1> QED
  BY <1>2, <1>3 DEF Settled, Grown

\* One thread makes progress.
LEMMA ProgressKeeps ==
    ASSUME TypeInv, TypeInv', Grown, DispatchInv, PairInv', NEW w \in Worker, NEW row, Progress(w, row)
    PROVE  DispatchInv'
<1>1. \A v \in Worker : request'[v] = IF v = w THEN row ELSE request[v]
  BY DEF TypeInv, Progress
<1>2. \A v \in Worker, e \in Event : Owned(request[v], e) => stored[e] # None
  BY OwnedIsStored
<1>3. \A v \in Worker : v # w => \A e \in Event : ~(Owned(row, e) /\ Owned(request[v], e))
  BY <1>2 DEF Progress, DispatchInv
<1>4. ASSUME NEW u \in Worker, NEW v \in Worker, NEW e \in Event,
             Owned(request'[u], e), Owned(request'[v], e)
      PROVE  u = v
  BY <1>1, <1>3, <1>4 DEF DispatchInv
<1>5. \A k \in CorrelationKeys : /\ incidents[k] # None => incidents[k].event \in Event
                                 /\ incidents'[k] # None => incidents'[k].event \in Event
  BY DEF TypeInv, TablesInv, IncidentRow
<1>6. ASSUME NEW k \in CorrelationKeys, incidents'[k] # None
      PROVE  /\ stored'[incidents'[k].event] # None
             /\ \A v \in Worker : ~Ahead(request'[v], incidents'[k].event)
  <2>1. PICK e \in Event : e = incidents'[k].event
    BY <1>5, <1>6
  <2>2. CASE incidents[k] # None
    <3>1. e = incidents[k].event /\ stored[e] # None /\ \A v \in Worker : ~Ahead(request[v], e)
      BY <2>1, <2>2 DEF Progress, DispatchInv
    <3>2. ~Ahead(row, e)
      BY <3>1 DEF Progress
    <3> QED
      BY <1>1, <2>1, <3>1, <3>2 DEF Grown
  <2>3. CASE incidents[k] = None
    <3>1. Owned(request[w], e) /\ ~Ahead(row, e)
      BY <1>6, <2>1, <2>3 DEF Progress
    <3>2. stored[e] # None /\ \A v \in Worker : v # w => ~Owned(request[v], e)
      BY <1>2, <3>1 DEF DispatchInv
    <3> QED
      BY <1>1, <2>1, <3>1, <3>2 DEF Grown, Ahead
  <2> QED
    BY <2>2, <2>3
<1>7. ASSUME NEW v \in Worker, request'[v] # None
      PROVE  CreateInv(request[v])'
  <2>1. CASE v = w
    <3>1. request'[v] = row /\ CreateInv(row)'
      BY <1>1, <1>7, <2>1 DEF Progress
    <3> QED
      BY <3>1 DEF CreateInv
  <2>2. CASE v # w
    <3>1. PICK r : r = request[v]
      OBVIOUS
    <3>2. request'[v] = r /\ r # None /\ RequestInv(r) /\ CreateInv(r)
      BY <1>1, <1>7, <2>2, <3>1 DEF TypeInv, DispatchInv
    <3>3. CASE r.pc \notin {"incidents", "risk"}
      BY <3>2, <3>3 DEF CreateInv
    <3>4. CASE r.pc \in {"incidents", "risk"}
      <4>1. PICK e : e = r.todo[1]
        OBVIOUS
      <4>2. Owned(request[v], e) /\ e \in Event /\ stored[e] # None
        BY <3>1, <3>2, <3>4, <4>1, OwnedIsStored
      <4>3. e \in Examined
        BY <3>2, <3>4, <4>1 DEF RequestInv
      <4>4. ~Owned(request[w], e)
        BY <2>2, <4>2 DEF DispatchInv
      <4>5. detections'[e] = detections[e]
        BY <4>3, <4>4 DEF Progress
      <4>6. EventCandidates(e)' = EventCandidates(e) /\ EventCandidates(e) \subseteq CorrelationKeys
        BY <4>2, <4>3, <4>5, CandidatesKept
      <4>7. CreateInv(r)'
        BY <3>2, <4>1, <4>6 DEF CreateInv, Progress
      <4> QED
        BY <3>2, <4>7 DEF CreateInv
    <3> QED
      BY <3>3, <3>4
  <2> QED
    BY <2>1, <2>2
<1>9. ASSUME NEW j \in DOMAIN bumps'
      PROVE  /\ stored'[bumps'[j].event] # None
             /\ \A v \in Worker : ~Uncounted(request'[v], bumps'[j].event)
  <2>1. PICK e \in Event : e = bumps'[j].event
    <3>1. bumps' \in Seq(Bump)
      BY DEF TypeInv, TablesInv
    <3>2. bumps'[j] \in Bump
      BY <1>9, <3>1, ElementOfSeq
    <3> QED
      BY <3>2 DEF Bump
  <2>2. CASE j \in DOMAIN bumps
    <3>1. e = bumps[j].event /\ stored[e] # None /\ \A v \in Worker : ~Uncounted(request[v], e)
      BY <2>1, <2>2 DEF Grown, DispatchInv
    <3>2. ~Uncounted(row, e)
      BY <3>1 DEF Progress
    <3> QED
      BY <1>1, <2>1, <3>1, <3>2 DEF Grown
  <2>3. CASE j \notin DOMAIN bumps
    <3>1. Owned(request[w], e) /\ ~Uncounted(row, e)
      BY <2>1, <2>3 DEF Progress
    <3>2. stored[e] # None /\ \A v \in Worker : v # w => ~Owned(request[v], e)
      BY <1>2, <3>1 DEF DispatchInv
    <3> QED
      BY <1>1, <2>1, <3>1, <3>2 DEF Grown, Uncounted
  <2> QED
    BY <2>2, <2>3
<1>8. ASSUME NEW e \in Event, crashes' = 0, stored'[e] # None,
             \A v \in Worker : ~Owned(request'[v], e)
      PROVE  Settled(e)'
  <2>1. ~Owned(row, e) /\ \A v \in Worker : v # w => ~Owned(request[v], e)
    BY <1>1, <1>8
  <2>2. CASE stored[e] # None /\ ~Owned(request[w], e)
    <3>1. \A v \in Worker : ~Owned(request[v], e)
      BY <2>1, <2>2
    <3>2. Settled(e)
      BY <1>8, <2>2, <3>1 DEF Progress, DispatchInv
    <3>3. detections'[e] = detections[e]
      BY <2>2, <3>2 DEF Settled, Progress
    <3>4. \A j \in DOMAIN bumps' : j \in DOMAIN bumps \/ bumps'[j].event # e
      BY <2>2 DEF Progress
    <3> QED
      BY <2>2, <3>2, <3>3, <3>4, SettledStays DEF Progress
  <2> QED
    BY <1>8, <2>1, <2>2 DEF Progress
<1> QED
  BY <1>4, <1>6, <1>7, <1>8, <1>9 DEF DispatchInv

\* A request that goes on with the same event has the same events before it.
LEMMA SameEvents ==
    ASSUME NEW r, NEW row, r # None, row # None, row.todo = r.todo,
           r.pc \notin {"check", "commit"}, row.pc \notin {"check", "commit"},
           \/ row.pc \in {"risk", "decision", "link"}
           \/ r.pc \in {"detect", "count", "recount", "candidates", "incidents"},
           \/ row.pc \notin {"detect", "count", "recount"}
           \/ r.pc \in {"detect", "count", "recount"}
    PROVE  /\ \A e : Owned(row, e) <=> Owned(r, e)
           /\ \A e : Ahead(row, e) => Ahead(r, e)
           /\ \A e : Uncounted(row, e) => Uncounted(r, e)
<1>1. \A e : Owned(row, e) <=> Owned(r, e)
  BY DEF Owned
<1> QED
  BY <1>1 DEF Ahead, Uncounted

\* A step of a dispatch that stays with its event and makes no incidents.
LEMMA RowProgress ==
    ASSUME TypeInv, DispatchInv, NEW w \in Worker, NEW row,
           request' = [request EXCEPT ![w] = row],
           UNCHANGED <<stored, incidents, crashes>>,
           \A e \in Examined : detections'[e] = detections[e] \/ Owned(request[w], e),
           \A e \in Event : Owned(row, e) <=> Owned(request[w], e),
           \A e \in Event : Ahead(row, e) => Ahead(request[w], e),
           \A e \in Event : Uncounted(row, e) => Uncounted(request[w], e),
           \A j \in DOMAIN bumps' :
               \/ j \in DOMAIN bumps
               \/ Owned(request[w], bumps'[j].event) /\ ~Uncounted(row, bumps'[j].event),
           CreateInv(row)'
    PROVE  Progress(w, row)
  BY DEF Progress

\* A step to the next event: the current one is settled.
LEMMA NextProgress ==
    ASSUME TypeInv, DispatchInv, NEW w \in Worker, request[w] # None,
           request[w].pc \notin {"check", "commit"}, NextEvent(w),
           NEW x, x = request[w].todo[1],
           UNCHANGED <<stored, detections, bumps, crashes>>,
           \A k \in CorrelationKeys : /\ incidents[k] # None <=> incidents'[k] # None
                                      /\ incidents[k] # None => incidents'[k].event = incidents[k].event,
           Settled(x)'
    PROVE  \E row : Progress(w, row)
<1>1. PICK r : r = request[w] /\ RequestInv(r) /\ r # None /\ r.pc \notin {"check", "commit"}
  BY DEF TypeInv
<1>2. PICK row : row = IF Len(r.todo) = 1 THEN None ELSE Rest(r)
  OBVIOUS
<1>3. request' = [request EXCEPT ![w] = row]
  BY <1>1, <1>2 DEF NextEvent, Rest
<1>4. /\ row = None \/ row.pc = "detect"
      /\ \A e : Owned(row, e) => Owned(r, e) /\ e # r.todo[1]
      /\ \A e : Owned(r, e) /\ ~Owned(row, e) => e = r.todo[1]
  <2>0. Len(r.todo) \in Nat \ {0} /\ DOMAIN r.todo = 1..Len(r.todo)
    BY <1>1, CurrentEvent DEF TypeInv
  <2>1. CASE Len(r.todo) = 1
    BY <1>2, <2>0, <2>1 DEF Owned
  <2>2. CASE Len(r.todo) # 1
    <3>1. /\ RequestInv(Rest(r)) /\ Rest(r).todo = Tail(r.todo)
          /\ Len(Tail(r.todo)) = Len(r.todo) - 1
          /\ \A i \in DOMAIN Tail(r.todo) : i + 1 \in DOMAIN r.todo /\ Tail(r.todo)[i] = r.todo[i + 1]
      BY <1>1, <2>2, RestOfRequest DEF TypeInv
    <3>2. row \in RequestRow /\ row.pc = "detect" /\ row.todo = Tail(r.todo)
      BY <1>2, <2>2, <3>1 DEF RequestInv, Rest, NewRequest
    <3> DEFINE t == Tail(r.todo)
    <3>3. t \in Seq(Event)
      BY <3>2 DEF RequestRow
    <3>4. DOMAIN t = 1..(Len(r.todo) - 1)
      BY <3>1, <3>3
    <3>5. /\ \A i \in DOMAIN t : i \in Nat /\ i + 1 \in DOMAIN r.todo /\ i + 1 # 1 /\ t[i] = r.todo[i + 1]
          /\ \A i \in DOMAIN r.todo : i = 1 \/ (i - 1 \in DOMAIN t /\ (i - 1) + 1 = i)
      BY <2>0, <3>1, <3>4
    <3>6. \A i \in DOMAIN r.todo : i = 1 \/ (i - 1 \in DOMAIN t /\ t[i - 1] = r.todo[i])
      BY <3>5
    <3>7. \A i, j \in DOMAIN r.todo : r.todo[i] = r.todo[j] => i = j
      BY <1>1 DEF RequestInv
    <3>8. 1 \in DOMAIN r.todo
      BY <2>0
    <3>9. \A i \in DOMAIN t : t[i] # r.todo[1]
      BY <3>5, <3>7, <3>8
    <3>10. row.todo = t /\ row # None
      BY <3>2, NoneAssumption DEF NoneAssumption
    <3> HIDE DEF t
    <3>11. row.pc = "detect"
      BY <3>2
    <3>12. \A e : Owned(row, e) <=> \E i \in DOMAIN t : t[i] = e
      BY <3>10, <3>11 DEF Owned
    <3>13. \A e : Owned(r, e) <=> \E i \in DOMAIN r.todo : r.todo[i] = e
      BY <1>1 DEF Owned
    <3>14. \A e : Owned(row, e) => Owned(r, e) /\ e # r.todo[1]
      BY <3>5, <3>9, <3>12, <3>13
    <3>15. \A e : Owned(r, e) => e = r.todo[1] \/ Owned(row, e)
      BY <3>6, <3>12, <3>13
    <3> QED
      BY <3>11, <3>14, <3>15
  <2> QED
    BY <2>1, <2>2
<1>5. /\ \A e \in Event : Owned(row, e) => Owned(request[w], e)
      /\ \A e \in Event : Ahead(row, e) => Ahead(request[w], e)
      /\ \A e \in Event : Uncounted(row, e) => Uncounted(request[w], e)
  BY <1>1, <1>4 DEF Ahead, Uncounted
<1>6. row = None \/ CreateInv(row)'
  BY <1>4 DEF CreateInv
<1>7. \A e \in Event : stored'[e] # None /\ ~Owned(row, e) =>
          Settled(e)' \/ (stored[e] # None /\ ~Owned(request[w], e))
  BY <1>1, <1>4
<1> QED
  BY <1>3, <1>5, <1>6, <1>7 DEF Progress

\* A batch that comes in, and its lookups, dispatch nothing.
LEMMA IngestDispatch ==
    ASSUME TypeInv, DispatchInv, NEW w \in Worker,
           (\E h \in Host, b \in Batch : ReceiveBatch(w, h, b)) \/ CheckEvent(w)
    PROVE  DispatchInv'
<1>1. TypeInv' /\ Grown
  BY IngestTypes
<1>2. UNCHANGED <<stored, detections, incidents, risks, decisions, bumps, crashes>>
  BY DEF ReceiveBatch, CheckEvent, rows, bounds
<1>3. PICK row : /\ request' = [request EXCEPT ![w] = row]
                 /\ row.pc \in {"check", "commit"}
                 /\ request[w] = None \/ request[w].pc = "check"
  <2>1. CASE \E h \in Host, b \in Batch : ReceiveBatch(w, h, b)
    <3>1. PICK h \in Host, b \in Batch : ReceiveBatch(w, h, b)
      BY <2>1
    <3>2. PICK row : row = [NewRequest("check", ResolvedAgent(h), << >>, << >>, 0) EXCEPT !.unread = b]
      OBVIOUS
    <3>3. row.pc = "check"
      BY <3>2 DEF NewRequest
    <3> QED
      BY <3>1, <3>2, <3>3 DEF ReceiveBatch
  <2>2. CASE CheckEvent(w)
    <3>1. PICK r : r = request[w] /\ r \in RequestRow /\ r.pc = "check"
      BY <2>2 DEF CheckEvent, At, TypeInv, RequestInv
    <3>2. PICK e : e = Head(r.unread)
      OBVIOUS
    <3>3. PICK row : row = [r EXCEPT
               !.unread = Tail(@),
               !.todo = IF stored[e] = None THEN Append(@, e) ELSE @,
               !.pc = IF Len(r.unread) = 1 THEN "commit" ELSE "check"]
      OBVIOUS
    <3>4. row.pc \in {"check", "commit"}
      BY <3>1, <3>3 DEF RequestRow
    <3>5. request' = [request EXCEPT ![w] = row]
      BY <2>2, <3>1, <3>2, <3>3 DEF CheckEvent
    <3> QED
      BY <3>1, <3>4, <3>5
  <2> QED
    BY <2>1, <2>2
<1>4. /\ \A e : ~Owned(row, e) /\ ~Owned(request[w], e) /\ ~Ahead(row, e)
      /\ \A e : ~Uncounted(row, e)
      /\ CreateInv(row)'
  BY <1>3 DEF Owned, Ahead, Uncounted, CreateInv
<1>5. PairInv'
  BY <1>2 DEF DispatchInv, PairInv
<1>6. Progress(w, row)
  BY <1>2, <1>3, <1>4 DEF Progress
<1> QED
  BY <1>1, <1>5, <1>6, ProgressKeeps

\* The events a batch stores are the thread's to dispatch; no other thread has them.
LEMMA CommitDispatch ==
    ASSUME TypeInv, DispatchInv, NEW w \in Worker, CommitBatch(w)
    PROVE  DispatchInv'
<1>1. TypeInv' /\ Grown
  BY CommitTypes
<1>2. UNCHANGED <<detections, incidents, risks, decisions, bumps, crashes>>
  BY DEF CommitBatch, bounds
<1>3. PICK r : r = request[w] /\ r.pc = "commit" /\ r \in RequestRow
  BY DEF CommitBatch, At, TypeInv, RequestInv
<1>4. \A e : ~Owned(request[w], e)
  BY <1>3 DEF Owned
<1>5. PairInv'
  BY <1>2 DEF DispatchInv, PairInv
<1> DEFINE fresh == {r.todo[i] : i \in DOMAIN r.todo}
<1>6. PICK row :
        /\ request' = [request EXCEPT ![w] = row]
        /\ row = None \/ CreateInv(row)'
        /\ \A e : Owned(row, e) => e \in fresh /\ stored[e] = None
        /\ \A e \in Event : stored'[e] = stored[e] \/ Owned(row, e)
  <2>1. CASE (\A e \in fresh : stored[e] = None) /\ stored' # stored
    <3>1. PICK row : row = [r EXCEPT !.pc = "detect"]
      OBVIOUS
    <3>2. /\ request' = [request EXCEPT ![w] = row]
          /\ stored' = [e \in Event |-> IF e \in fresh THEN r.host ELSE stored[e]]
      BY <1>3, <2>1, <3>1 DEF CommitBatch, Advance
    <3>3. row \in RequestRow /\ row.pc = "detect" /\ row.todo = r.todo
      BY <1>3, <3>1 DEF RequestRow, Step
    <3>4. row # None
      BY <3>3, NoneAssumption DEF NoneAssumption
    <3>5. \A e : Owned(row, e) <=> e \in fresh
      BY <3>3, <3>4 DEF Owned
    <3>6. CreateInv(row)'
      BY <3>3 DEF CreateInv
    <3> HIDE DEF fresh
    <3> QED
      BY <2>1, <3>2, <3>5, <3>6
  <2>2. CASE stored' = stored /\ request' = [request EXCEPT ![w] = None]
    BY <2>2 DEF Owned
  <2>3. CASE stored' = stored /\ request' # [request EXCEPT ![w] = None]
    <3>1. /\ \A e \in fresh : stored[e] = None
          /\ r.todo # << >> /\ stored' = [e \in Event |-> IF e \in fresh THEN r.host ELSE stored[e]]
      BY <1>3, <2>3 DEF CommitBatch
    <3>2. r.todo \in Seq(Event) /\ r.host \in Host
      BY <1>3 DEF RequestRow
    <3>3. 1 \in DOMAIN r.todo /\ r.todo[1] \in Event
      BY <3>1, <3>2, EmptySeq, ElementOfSeq
    <3>4. stored'[r.todo[1]] = r.host /\ stored[r.todo[1]] = None
      BY <3>1, <3>3
    <3> QED
      BY <2>3, <3>2, <3>4, DetectorsAssumption DEF DetectorsAssumption
  <2> QED
    BY <1>3, <2>1, <2>2, <2>3 DEF CommitBatch
<1>7. Progress(w, row)
  BY <1>2, <1>4, <1>6 DEF Progress, Ahead, Uncounted
<1> QED
  BY <1>1, <1>5, <1>7, ProgressKeeps

\* The findings of an event are written by the thread that dispatches it.
LEMMA DetectDispatch ==
    ASSUME TypeInv, DispatchInv, NEW w \in Worker, PersistDetections(w)
    PROVE  DispatchInv'
<1>1. TypeInv' /\ Grown
  BY DetectTypes
<1>2. UNCHANGED <<stored, incidents, risks, decisions, bumps, crashes>>
  BY DEF PersistDetections, bounds
<1>3. PICK r : r = request[w] /\ r # None /\ r.pc = "detect" /\ r \in RequestRow
  BY DEF PersistDetections, At, TypeInv, RequestInv
<1>4. PICK row : /\ request' = [request EXCEPT ![w] = row] /\ row = request'[w]
                 /\ row.pc = "count" /\ row.todo = r.todo
  <2>1. PICK seen : request' = [request EXCEPT ![w] = NewRequest("count", r.host, r.todo, seen, r.seenHost + 1)]
    BY <1>3 DEF PersistDetections
  <2>2. request'[w] = NewRequest("count", r.host, r.todo, seen, r.seenHost + 1)
    BY <2>1 DEF TypeInv
  <2>3. PICK row : row = NewRequest("count", r.host, r.todo, seen, r.seenHost + 1)
    OBVIOUS
  <2>4. row.pc = "count" /\ row.todo = r.todo
    BY <2>3 DEF NewRequest
  <2> QED
    BY <2>1, <2>2, <2>3, <2>4
<1>5. row # None
  BY <1>4, DetectTypes, NoneAssumption DEF NoneAssumption
<1>6. \A e \in Examined : detections'[e] = detections[e] \/ Owned(request[w], e)
  <2>1. Owned(request[w], Current(w))
    BY <1>3, OwnedIsStored DEF Current
  <2>2. \A e \in Examined : e # Current(w) => detections'[e] = detections[e]
    BY DEF PersistDetections
  <2> QED
    BY <2>1, <2>2
<1>7. PairInv'
  BY <1>2 DEF DispatchInv, PairInv
<1>8. /\ \A e \in Event : Owned(row, e) <=> Owned(request[w], e)
      /\ \A e \in Event : Ahead(row, e) => Ahead(request[w], e)
      /\ \A e \in Event : Uncounted(row, e) => Uncounted(request[w], e)
  BY <1>3, <1>4, <1>5, SameEvents
<1>9. CreateInv(row)'
  BY <1>4 DEF CreateInv
<1>10. Progress(w, row)
  BY <1>2, <1>4, <1>6, <1>8, <1>9, RowProgress
<1> QED
  BY <1>1, <1>7, <1>10, ProgressKeeps

\* Reading the recurrences touches no event.
LEMMA ReadCountDispatch ==
    ASSUME TypeInv, DispatchInv, NEW w \in Worker, ReadCount(w)
    PROVE  DispatchInv'
<1>1. TypeInv' /\ Grown
  BY ReadCountTypes
<1>2. UNCHANGED <<stored, detections, incidents, risks, decisions, bumps, crashes>>
  BY DEF ReadCount, rows, bounds
<1>3. PICK r : r = request[w] /\ r # None /\ r.pc = "count" /\ r \in RequestRow
  BY DEF ReadCount, At, TypeInv, RequestInv
<1>4. PICK row : /\ request' = [request EXCEPT ![w] = row]
                 /\ row.pc \in {"recount", "candidates"} /\ row.todo = r.todo /\ row \in RequestRow
  <2>1. PICK row : row = request'[w]
    OBVIOUS
  <2>2. CASE Advance(w, "candidates")
    <3>1. row = [r EXCEPT !.pc = "candidates"] /\ request' = [request EXCEPT ![w] = row]
      BY <1>3, <2>1, <2>2 DEF Advance, TypeInv
    <3>2. row.pc = "candidates" /\ row.todo = r.todo /\ row \in RequestRow
      BY <1>3, <3>1 DEF RequestRow, Step
    <3> QED
      BY <3>1, <3>2
  <2>3. CASE ~Advance(w, "candidates")
    <3>1. PICK i, entity, c :
            request' = [request EXCEPT ![w].pc = "recount", ![w].row = i, ![w].at = now,
                                       ![w].entity = entity, ![w].count = c]
      BY <2>3 DEF ReadCount
    <3>2. /\ row = [r EXCEPT !.pc = "recount", !.row = i, !.at = now, !.entity = entity, !.count = c]
          /\ request' = [request EXCEPT ![w] = row]
      BY <1>3, <2>1, <3>1 DEF TypeInv
    <3>3. row.pc = "recount" /\ row.todo = r.todo
      BY <1>3, <3>2 DEF RequestRow
    <3>4. row \in RequestRow
      BY <2>1, ReadCountTypes
    <3> QED
      BY <3>2, <3>3, <3>4
  <2> QED
    BY <2>2, <2>3
<1>5. row # None
  BY <1>4, NoneAssumption DEF NoneAssumption
<1>6. PairInv'
  BY <1>2 DEF DispatchInv, PairInv
<1>7. /\ \A e \in Event : Owned(row, e) <=> Owned(request[w], e)
      /\ \A e \in Event : Ahead(row, e) => Ahead(request[w], e)
      /\ \A e \in Event : Uncounted(row, e) => Uncounted(request[w], e)
  BY <1>3, <1>4, <1>5, SameEvents
<1>8. CreateInv(row)'
  BY <1>4 DEF CreateInv
<1>9. Progress(w, row)
  BY <1>2, <1>4, <1>7, <1>8, RowProgress
<1> QED
  BY <1>1, <1>6, <1>9, ProgressKeeps

\* A thread counts its own event; when its window is refused, the event has not been
\* counted, and the one that opened the window is another.
LEMMA WriteCountDispatch ==
    ASSUME TypeInv, DispatchInv, NEW w \in Worker, WriteCount(w)
    PROVE  DispatchInv'
<1>1. TypeInv' /\ Grown
  BY WriteCountTypes
<1>2. UNCHANGED <<stored, detections, incidents, risks, decisions, crashes>>
  BY DEF WriteCount, bounds
<1>3. PICK r : /\ r = request[w] /\ r # None /\ r.pc = "recount" /\ r \in RequestRow
               /\ RequestInv(r)
  BY DEF WriteCount, At, TypeInv, RequestInv
<1>4. PICK e \in Event : e = r.todo[1] /\ e = Current(w) /\ e \in Examined /\ 1 \in DOMAIN r.todo
  BY <1>3, CurrentEvent DEF TypeInv, Current, RequestInv
<1>5. Owned(request[w], e) /\ Uncounted(request[w], e)
  BY <1>3, <1>4, OwnedIsStored DEF Uncounted
<1>6. PairInv'
  BY <1>2 DEF DispatchInv, PairInv
<1>7. CASE Recounted(w)
  <2>1. PICK row : row = [r EXCEPT !.pc = "candidates"]
    OBVIOUS
  <2>2. request' = [request EXCEPT ![w] = row]
    BY <1>3, <1>7, <2>1 DEF Recounted, Advance
  <2>3. row \in RequestRow /\ row.pc = "candidates" /\ row.todo = r.todo
    BY <1>3, <2>1 DEF RequestRow, Step
  <2>4. row # None
    BY <2>3, NoneAssumption DEF NoneAssumption
  <2>5. /\ \A x \in Event : Owned(row, x) <=> Owned(request[w], x)
        /\ \A x \in Event : Ahead(row, x) => Ahead(request[w], x)
        /\ \A x \in Event : Uncounted(row, x) => Uncounted(request[w], x)
    BY <1>3, <2>3, <2>4, SameEvents
  <2>6. CreateInv(row)'
    BY <2>3 DEF CreateInv
  <2>7. ~Uncounted(row, e)
    BY <1>4, <2>3 DEF Uncounted
  <2>8. \A j \in DOMAIN bumps' : j \in DOMAIN bumps \/ bumps'[j].event = e
    <3>1. PICK host, entity, at, count :
            bumps' = Append(bumps, [event |-> e, host |-> host, entity |-> entity, at |-> at,
                                    count |-> count])
      BY <1>4, <1>7 DEF Recounted
    <3>2. PICK bump : bumps' = Append(bumps, bump) /\ bump.event = e
      BY <3>1
    <3>3. Len(bumps) \in Nat /\ DOMAIN bumps = 1..Len(bumps)
      BY DEF TypeInv, TablesInv
    <3>4. bumps' \in Seq(Bump)
      BY <1>1 DEF TypeInv, TablesInv
    <3>5. Len(bumps') = Len(bumps) + 1 /\ bumps'[Len(bumps) + 1] = bump
      BY <3>2, AppendProperties DEF TypeInv, TablesInv
    <3>6. DOMAIN bumps' = 1..(Len(bumps) + 1)
      BY <3>4, <3>5
    <3> QED
      BY <3>2, <3>3, <3>5, <3>6
  <2>9. Progress(w, row)
    BY <1>2, <1>5, <2>2, <2>5, <2>6, <2>7, <2>8, RowProgress
  <2> QED
    BY <1>1, <1>6, <2>9, ProgressKeeps
<1>8. CASE Refused(w) /\ r.row = None /\ SameWindow(r)
  <2>1. NextEvent(w) /\ UNCHANGED bumps
    BY <1>8 DEF Refused, FailEvent
  <2>2. PICK i \in DOMAIN recurrence : recurrence[i].host = r.host /\ recurrence[i].entity = r.entity
    BY <1>8 DEF SameWindow
  <2>3. PICK j \in DOMAIN bumps : /\ bumps[j].host = r.host /\ bumps[j].entity = r.entity
                                  /\ bumps[j].count = 1
    BY <2>2 DEF TypeInv, TablesInv, Opened
  <2>4. stored[e] = r.host /\ r.entity = Counted(Content[e])
    BY <1>3, <1>4 DEF RequestInv
  <2>5. \A k \in DOMAIN bumps : bumps[k].event # e
    BY <1>5 DEF DispatchInv
  <2>6. WindowTaken(e)
    BY <2>3, <2>4, <2>5 DEF WindowTaken
  <2>7. Settled(e)'
    BY <1>2, <1>4, <2>1, <2>6 DEF Settled, Examined, WindowTaken
  <2>8. \E row : Progress(w, row)
    BY <1>2, <1>3, <1>4, <2>1, <2>7, NextProgress
  <2> QED
    BY <1>1, <1>6, <2>8, ProgressKeeps
<1> QED
  BY <1>3, <1>7, <1>8, WriteCountTypes

\* The incidents of an event are looked up, unless there is nothing found.
LEMMA ReadIncidentsDispatch ==
    ASSUME TypeInv, DispatchInv, NEW w \in Worker, ReadIncidents(w)
    PROVE  DispatchInv'
<1>1. TypeInv' /\ Grown
  BY IncidentTypes
<1>2. UNCHANGED <<stored, detections, incidents, risks, decisions, bumps, crashes>>
  BY DEF ReadIncidents, rows, bounds
<1>3. PICK r : /\ r = request[w] /\ r # None /\ r.pc = "candidates" /\ r \in RequestRow
               /\ RequestInv(r)
  BY DEF ReadIncidents, At, TypeInv, RequestInv
<1>4. PICK e \in Event : e = r.todo[1] /\ e = Current(w) /\ e \in Examined
  BY <1>3, CurrentEvent DEF TypeInv, Current, RequestInv
<1>5. PairInv'
  BY <1>2 DEF DispatchInv, PairInv
<1>6. CASE detections[e] = {}
  <2>1. NextEvent(w)
    BY <1>4, <1>6 DEF ReadIncidents
  <2>2. Settled(e)'
    BY <1>2, <1>4, <1>6 DEF Settled, Examined
  <2>3. \E row : Progress(w, row)
    BY <1>2, <1>3, <1>4, <2>1, <2>2, NextProgress
  <2> QED
    BY <1>1, <1>5, <2>3, ProgressKeeps
<1>7. CASE detections[e] # {}
  <2>1. PICK create : create = {k \in EventCandidates(e) : incidents[k] = None}
    OBVIOUS
  <2>2. PICK row : row = [r EXCEPT !.pc = "incidents", !.create = create]
    OBVIOUS
  <2>3. request' = [request EXCEPT ![w] = row]
    BY <1>3, <1>4, <1>7, <2>1, <2>2 DEF ReadIncidents
  <2>4. create \subseteq CorrelationKeys
    <3>1. stored[e] \in Host /\ Content[e] \in SecurityEvent
      BY <1>3, <1>4, CurrentEvent DEF TypeInv
    <3> QED
      BY <2>1, <3>1, CandidatesAreKeys DEF EventCandidates
  <2>5. row \in RequestRow /\ row.pc = "incidents" /\ row.todo = r.todo /\ row.host = r.host /\ row.create = create
    BY <1>3, <2>2, <2>4 DEF RequestRow, Step
  <2>6. row # None
    BY <2>5, NoneAssumption DEF NoneAssumption
  <2>7. /\ \A x \in Event : Owned(row, x) <=> Owned(request[w], x)
        /\ \A x \in Event : Ahead(row, x) => Ahead(request[w], x)
        /\ \A x \in Event : Uncounted(row, x) => Uncounted(request[w], x)
    BY <1>3, <2>5, <2>6, SameEvents
  <2>8. EventCandidates(e)' = EventCandidates(e)
    BY <1>2 DEF EventCandidates
  <2>9. CreateInv(row)'
    BY <1>2, <1>4, <2>1, <2>5, <2>8 DEF CreateInv
  <2>10. Progress(w, row)
    BY <1>2, <2>3, <2>7, <2>9, RowProgress
  <2> QED
    BY <1>1, <1>5, <2>10, ProgressKeeps
<1> QED
  BY <1>6, <1>7

\* Of two threads that found no incident one creates it, and the event of the other is
\* left with an incident of another event.
LEMMA PersistIncidentsDispatch ==
    ASSUME TypeInv, DispatchInv, NEW w \in Worker, PersistIncidents(w)
    PROVE  DispatchInv'
<1>1. TypeInv' /\ Grown
  BY IncidentTypes
<1>2. UNCHANGED <<stored, detections, risks, decisions, bumps, crashes>>
  BY DEF PersistIncidents, bounds
<1>3. PICK r : /\ r = request[w] /\ r # None /\ r.pc = "incidents" /\ r \in RequestRow
               /\ RequestInv(r) /\ CreateInv(r)
  BY DEF PersistIncidents, At, TypeInv, RequestInv, DispatchInv
<1>4. PICK e \in Event : e = r.todo[1] /\ e = Current(w) /\ e \in Examined
  BY <1>3, CurrentEvent DEF TypeInv, Current, RequestInv
<1>5. Owned(request[w], e) /\ Ahead(request[w], e)
  BY <1>3, <1>4, OwnedIsStored DEF Ahead
<1>6. /\ r.create \subseteq EventCandidates(e)
      /\ \A k \in EventCandidates(e) \ r.create : incidents[k] # None
  BY <1>3, <1>4 DEF CreateInv
<1>7. EventCandidates(e)' = EventCandidates(e) /\ EventCandidates(e) \subseteq CorrelationKeys
  BY <1>1, <1>2, <1>4, <1>5, OwnedIsStored, CandidatesKept
<1>8. CASE \E k \in r.create : incidents[k] # None
  <2>1. NextEvent(w) /\ UNCHANGED incidents
    BY <1>3, <1>8 DEF PersistIncidents, FailEvent
  <2>2. PICK k \in r.create : k \in EventCandidates(e) /\ k \in CorrelationKeys /\ incidents[k] # None
    BY <1>6, <1>7, <1>8
  <2>3. incidents[k].event # e
    BY <1>5, <2>2 DEF DispatchInv
  <2>4. Settled(e)'
    BY <1>2, <1>4, <1>7, <2>1, <2>2, <2>3 DEF Settled, Examined
  <2>5. \E row : Progress(w, row)
    BY <1>2, <1>3, <1>4, <2>1, <2>4, NextProgress
  <2>6. PairInv'
    BY <1>2, <2>1 DEF DispatchInv, PairInv
  <2> QED
    BY <1>1, <2>5, <2>6, ProgressKeeps
<1>9. CASE \A k \in r.create : incidents[k] = None
  <2>1. PICK new : new = [event |-> e, risk |-> None, decision |-> None]
    OBVIOUS
  <2>2. new \in IncidentRow /\ new # None /\ new.event = e /\ new.risk = None
    BY <2>1, NoneAssumption DEF IncidentRow, NoneAssumption
  <2>3. /\ incidents' = [k \in CorrelationKeys |-> IF k \in r.create THEN new ELSE incidents[k]]
        /\ Advance(w, "risk")
    BY <1>3, <1>4, <1>9, <2>1 DEF PersistIncidents
  <2>4. PICK row : row = [r EXCEPT !.pc = "risk"]
    OBVIOUS
  <2>5. request' = [request EXCEPT ![w] = row]
    BY <1>3, <2>3, <2>4 DEF Advance
  <2>6. row \in RequestRow /\ row.pc = "risk" /\ row.todo = r.todo /\ row.host = r.host
    BY <1>3, <2>4 DEF RequestRow, Step
  <2>7. row # None
    BY <2>6, NoneAssumption DEF NoneAssumption
  <2>8. /\ \A x \in Event : Owned(row, x) <=> Owned(request[w], x)
        /\ \A x \in Event : Ahead(row, x) => Ahead(request[w], x)
        /\ \A x \in Event : Uncounted(row, x) => Uncounted(request[w], x)
    BY <1>3, <2>6, <2>7, SameEvents
  <2>9. /\ \A k \in CorrelationKeys : incidents[k] # None => incidents'[k] = incidents[k]
        /\ \A k \in CorrelationKeys : k \in r.create => incidents'[k] = new
        /\ \A k \in CorrelationKeys : k \notin r.create => incidents'[k] = incidents[k]
    BY <1>9, <2>3
  <2>10. CreateInv(row)'
    <3>1. \A k \in EventCandidates(e) : incidents'[k] # None
      BY <1>6, <1>7, <2>2, <2>9
    <3>2. \A k \in EventCandidates(e)' : incidents'[k] # None
      BY <1>7, <3>1
    <3>3. row.pc = "risk" /\ row.todo[1] = e
      BY <1>4, <2>6
    <3> QED
      BY <3>2, <3>3 DEF CreateInv
  <2>11. ~Ahead(row, e)
    BY <1>4, <2>6 DEF Ahead
  <2>12. Progress(w, row)
    BY <1>2, <1>5, <2>2, <2>5, <2>8, <2>9, <2>10, <2>11 DEF Progress
  <2>13. \A i \in DOMAIN risks : risks[i].incident \in CorrelationKeys \cup {None}
    <3>1. \A i \in DOMAIN risks : risks[i] \in RiskRow
      BY ElementOfSeq DEF TypeInv, TablesInv
    <3> QED
      BY <3>1 DEF RiskRow
  <2>14. PairInv'
    BY <1>2, <2>2, <2>9, <2>13 DEF DispatchInv, PairInv
  <2> QED
    BY <1>1, <2>12, <2>14, ProgressKeeps
<1> QED
  BY <1>8, <1>9

\* Rows at the end of the tables leave the rows that are linked as they are.
LEMMA PairKept ==
    ASSUME TypeInv, Grown, PairInv, UNCHANGED incidents,
           \A i \in DOMAIN risks' : \/ i \in DOMAIN risks
                                    \/ risks'[i].incident = None
                                    \/ incidents[risks'[i].incident] # None
    PROVE  PairInv'
<1>1. /\ \A i \in DOMAIN risks : i \in DOMAIN risks' /\ risks'[i] = risks[i]
      /\ \A i \in DOMAIN decisions : i \in DOMAIN decisions' /\ decisions'[i] = decisions[i]
  BY DEF Grown
<1>2. \A i \in DOMAIN risks' : risks'[i].incident # None => incidents'[risks'[i].incident] # None
  BY <1>1 DEF PairInv
<1> QED
  BY <1>1, <1>2 DEF PairInv

\* The risk names an incident that exists.
LEMMA RiskDispatch ==
    ASSUME TypeInv, DispatchInv, NEW w \in Worker, PersistRisk(w)
    PROVE  DispatchInv'
<1>1. TypeInv' /\ Grown
  BY AssessTypes
<1>2. UNCHANGED <<stored, detections, incidents, decisions, bumps, crashes>>
  BY DEF PersistRisk, bounds
<1>3. PICK r : /\ r = request[w] /\ r # None /\ r.pc = "risk" /\ r \in RequestRow
               /\ CreateInv(r)
  BY DEF PersistRisk, At, TypeInv, RequestInv, DispatchInv
<1>4. PICK e : e = r.todo[1] /\ e = Current(w)
  BY <1>3 DEF Current
<1>5. PICK k \in (IF EventCandidates(e) = {} THEN {None} ELSE EventCandidates(e)) :
        /\ \E score : risks' = Append(risks, [event |-> e, score |-> score,
                                              severity |-> RiskSeverity(score), incident |-> k])
        /\ request' = [request EXCEPT ![w].pc = "decision", ![w].risk = Len(risks) + 1]
  BY <1>4 DEF PersistRisk
<1>6. k = None \/ incidents[k] # None
  BY <1>3, <1>4, <1>5 DEF CreateInv
<1>7. risks \in Seq(RiskRow) /\ Len(risks) \in Nat
  BY DEF TypeInv, TablesInv
<1>8. PairInv'
  <2>1. PICK score : risks' = Append(risks, [event |-> e, score |-> score,
                                             severity |-> RiskSeverity(score), incident |-> k])
    BY <1>5
  <2>2. PICK risk : risks' = Append(risks, risk) /\ risk.incident = k
    BY <2>1
  <2>3. \A i \in DOMAIN risks' : i \in DOMAIN risks \/ risks'[i] = risk
    <3>1. Len(risks') = Len(risks) + 1 /\ risks'[Len(risks) + 1] = risk
      BY <1>7, <2>2, AppendProperties
    <3>2. DOMAIN risks' = 1..(Len(risks) + 1) /\ DOMAIN risks = 1..Len(risks)
      BY <1>1, <1>7, <3>1 DEF TypeInv, TablesInv
    <3> QED
      BY <1>7, <3>1, <3>2
  <2> QED
    BY <1>1, <1>2, <1>6, <2>2, <2>3, PairKept DEF DispatchInv
<1>9. PICK n \in Nat : n = Len(risks) + 1
  BY <1>7
<1>10. PICK row : row = [r EXCEPT !.pc = "decision", !.risk = n]
  OBVIOUS
<1>11. request' = [request EXCEPT ![w] = row]
  BY <1>3, <1>5, <1>9, <1>10
<1>12. row \in RequestRow /\ row.pc = "decision" /\ row.todo = r.todo /\ row.host = r.host
  BY <1>3, <1>10 DEF RequestRow, Step
<1>13. row # None
  BY <1>12, NoneAssumption DEF NoneAssumption
<1>14. /\ \A x \in Event : Owned(row, x) <=> Owned(request[w], x)
       /\ \A x \in Event : Ahead(row, x) => Ahead(request[w], x)
       /\ \A x \in Event : Uncounted(row, x) => Uncounted(request[w], x)
  BY <1>3, <1>12, <1>13, SameEvents
<1>15. CreateInv(row)'
  BY <1>12 DEF CreateInv
<1>16. Progress(w, row)
  BY <1>2, <1>11, <1>14, <1>15, RowProgress
<1> QED
  BY <1>1, <1>8, <1>16, ProgressKeeps

\* The decision comes after the risk, and changes no incident.
LEMMA DecisionDispatch ==
    ASSUME TypeInv, DispatchInv, NEW w \in Worker, PersistDecision(w)
    PROVE  DispatchInv'
<1>1. TypeInv' /\ Grown
  BY AssessTypes
<1>2. UNCHANGED <<stored, detections, incidents, risks, bumps, crashes>>
  BY DEF PersistDecision, bounds
<1>3. PICK r : r = request[w] /\ r # None /\ r.pc = "decision" /\ r \in RequestRow
  BY DEF PersistDecision, At, TypeInv, RequestInv
<1>4. PairInv'
  BY <1>1, <1>2, PairKept DEF DispatchInv
<1>5. PICK n \in Nat : n = Len(decisions) + 1
  BY DEF TypeInv, TablesInv
<1>6. PICK row : row = [r EXCEPT !.pc = "link", !.decision = n]
  OBVIOUS
<1>7. request' = [request EXCEPT ![w] = row]
  BY <1>3, <1>5, <1>6 DEF PersistDecision
<1>8. row \in RequestRow /\ row.pc = "link" /\ row.todo = r.todo /\ row.host = r.host
  BY <1>3, <1>6 DEF RequestRow, Step
<1>9. row # None
  BY <1>8, NoneAssumption DEF NoneAssumption
<1>10. /\ \A x \in Event : Owned(row, x) <=> Owned(request[w], x)
       /\ \A x \in Event : Ahead(row, x) => Ahead(request[w], x)
       /\ \A x \in Event : Uncounted(row, x) => Uncounted(request[w], x)
  BY <1>3, <1>8, <1>9, SameEvents
<1>11. CreateInv(row)'
  BY <1>8 DEF CreateInv
<1>12. Progress(w, row)
  BY <1>2, <1>7, <1>10, <1>11, RowProgress
<1> QED
  BY <1>1, <1>4, <1>12, ProgressKeeps

\* The incident takes the risk and the decision of one dispatch.
LEMMA LinkDispatch ==
    ASSUME TypeInv, DispatchInv, NEW w \in Worker, LinkIncidents(w)
    PROVE  DispatchInv'
<1>1. TypeInv' /\ Grown
  BY LinkTypes DEF DispatchInv, PairInv
<1>2. UNCHANGED <<stored, detections, risks, decisions, bumps, crashes>> /\ NextEvent(w)
  BY DEF LinkIncidents, bounds
<1>3. PICK r : r = request[w] /\ r # None /\ r.pc = "link" /\ RequestInv(r)
  BY DEF LinkIncidents, At, TypeInv
<1>4. PICK e \in Event : e = r.todo[1] /\ e \in Examined
  BY <1>3, CurrentEvent DEF TypeInv, RequestInv
<1>5. /\ r.risk \in DOMAIN risks /\ risks[r.risk].event = e
      /\ r.decision \in DOMAIN decisions /\ decisions[r.decision].event = e
      /\ decisions[r.decision].incident = risks[r.risk].incident
  BY <1>3, <1>4 DEF RequestInv
<1>6. risks[r.risk] \in RiskRow /\ None \notin DOMAIN decisions
  BY <1>5, ElementOfSeq, NoneAssumption DEF TypeInv, TablesInv, NoneAssumption
<1>7. PICK k \in CorrelationKeys \cup {None} : k = risks[r.risk].incident
  BY <1>6 DEF RiskRow
<1>8. /\ \A j \in CorrelationKeys : /\ incidents[j] # None <=> incidents'[j] # None
                                    /\ incidents[j] # None => incidents'[j].event = incidents[j].event
      /\ \A j \in CorrelationKeys : j # k => incidents'[j] = incidents[j]
      /\ k # None => incidents'[k].risk = r.risk /\ incidents'[k].decision = r.decision
  <2>1. CASE k = None
    <3>1. UNCHANGED incidents
      BY <1>3, <1>7, <2>1 DEF LinkIncidents
    <3> QED
      BY <2>1, <3>1
  <2>2. CASE k # None
    <3>1. incidents[k] \in IncidentRow
      BY <1>5, <1>7, <2>2 DEF DispatchInv, PairInv, TypeInv, TablesInv
    <3>2. PICK new : new = [incidents[k] EXCEPT !.risk = r.risk, !.decision = r.decision]
      OBVIOUS
    <3>3. r.risk \in Nat /\ r.decision \in Nat
      BY <1>3 DEF RequestInv, RequestRow
    <3>4. /\ new \in IncidentRow /\ new.event = incidents[k].event
          /\ new.risk = r.risk /\ new.decision = r.decision
      BY <3>1, <3>2, <3>3 DEF IncidentRow
    <3>5. new # None /\ incidents[k] # None
      BY <3>1, <3>4, NoneAssumption DEF NoneAssumption
    <3>6. incidents' = [incidents EXCEPT ![k] = new]
      BY <1>3, <1>7, <2>2, <3>2 DEF LinkIncidents
    <3>7. \A j \in CorrelationKeys : incidents'[j] = IF j = k THEN new ELSE incidents[j]
      BY <2>2, <3>6 DEF TypeInv, TablesInv
    <3> QED
      BY <2>2, <3>4, <3>5, <3>7
  <2> QED
    BY <2>1, <2>2
<1>9. Settled(e)'
  BY <1>2, <1>4, <1>5 DEF Settled, Examined
<1>10. \E row : Progress(w, row)
  BY <1>2, <1>3, <1>4, <1>8, <1>9, NextProgress
<1>11. \A i \in DOMAIN risks : risks[i].incident \in CorrelationKeys \cup {None}
  <2>1. \A i \in DOMAIN risks : risks[i] \in RiskRow
    BY ElementOfSeq DEF TypeInv, TablesInv
  <2> QED
    BY <2>1 DEF RiskRow
<1>12. PairInv'
  <2>1. \A i \in DOMAIN risks' : risks'[i].incident # None => incidents'[risks'[i].incident] # None
    BY <1>2, <1>8, <1>11 DEF DispatchInv, PairInv
  <2>2. ASSUME NEW j \in CorrelationKeys, incidents'[j] # None, incidents'[j].risk # None
        PROVE  /\ incidents'[j].decision # None
               /\ incidents'[j].risk \in DOMAIN risks' /\ incidents'[j].decision \in DOMAIN decisions'
               /\ risks'[incidents'[j].risk].event = decisions'[incidents'[j].decision].event
               /\ risks'[incidents'[j].risk].incident = j
               /\ decisions'[incidents'[j].decision].incident = j
    <3>1. CASE j = k
      <4>1. k # None /\ incidents'[j].risk = r.risk /\ incidents'[j].decision = r.decision
        BY <1>8, <3>1, NoneAssumption DEF NoneAssumption
      <4> QED
        BY <1>2, <1>5, <1>6, <1>7, <3>1, <4>1
    <3>2. CASE j # k
      <4>1. incidents'[j] = incidents[j]
        BY <1>8, <3>2
      <4> QED
        BY <1>2, <2>2, <4>1 DEF DispatchInv, PairInv
    <3> QED
      BY <3>1, <3>2
  <2> QED
    BY <2>1, <2>2 DEF PairInv
<1> QED
  BY <1>1, <1>10, <1>12, ProgressKeeps

\* After a crash no thread dispatches anything; a registration and the clock change
\* nothing of it.
LEMMA OtherDispatch ==
    ASSUME TypeInv, DispatchInv,
           (\E h \in Host : RegisterAgent(h)) \/ Crash \/ TimePasses \/ UNCHANGED vars
    PROVE  DispatchInv'
<1>1. UNCHANGED <<stored, detections, incidents, risks, decisions, bumps>>
  BY DEF RegisterAgent, Crash, TimePasses, vars, rows
<1>2. PairInv'
  BY <1>1 DEF DispatchInv, PairInv
<1>4. CASE Crash
  <2>1. \A w \in Worker : request'[w] = None
    BY <1>4 DEF Crash
  <2>2. \A w \in Worker, e \in Event : ~Owned(request'[w], e) /\ ~Ahead(request'[w], e)
                                         /\ ~Uncounted(request'[w], e)
    BY <2>1 DEF Owned, Ahead, Uncounted
  <2>3. crashes' # 0
    <3>1. crashes \in Nat
      BY BoundsTyped, DetectionAssumption DEF DetectionAssumption
    <3> QED
      BY <1>4, <3>1 DEF Crash
  <2>4. /\ \A k \in CorrelationKeys : incidents[k] # None => incidents[k].event \in Event
        /\ \A j \in DOMAIN bumps : bumps[j].event \in Event
    <3>1. \A j \in DOMAIN bumps : bumps[j] \in Bump
      BY ElementOfSeq DEF TypeInv, TablesInv
    <3> QED
      BY <3>1 DEF TypeInv, TablesInv, IncidentRow, Bump
  <2> QED
    BY <1>1, <1>2, <2>1, <2>2, <2>3, <2>4 DEF DispatchInv
<1>5. CASE UNCHANGED <<request, crashes>>
  <2>1. \A w \in Worker : CreateInv(request[w])' <=> CreateInv(request[w])
    BY <1>1, <1>5 DEF CreateInv, EventCandidates
  <2>2. \A w \in Worker : request'[w] # None => CreateInv(request[w])'
    BY <1>5, <2>1 DEF DispatchInv
  <2>3. \A e \in Event :
          crashes' = 0 /\ stored'[e] # None /\ (\A w \in Worker : ~Owned(request'[w], e)) => Settled(e)'
    <3> SUFFICES ASSUME NEW e \in Event, crashes' = 0, stored'[e] # None,
                        \A w \in Worker : ~Owned(request'[w], e)
                 PROVE  Settled(e)'
      OBVIOUS
    <3>1. Settled(e)
      BY <1>1, <1>5 DEF DispatchInv
    <3> QED
      BY <1>1, <3>1 DEF Settled, EventCandidates, Examined, WindowTaken
  <2>4. /\ \A v, w \in Worker, e \in Event : Owned(request'[v], e) /\ Owned(request'[w], e) => v = w
        /\ \A k \in CorrelationKeys : incidents'[k] # None =>
              /\ stored'[incidents'[k].event] # None
              /\ \A w \in Worker : ~Ahead(request'[w], incidents'[k].event)
        /\ \A j \in DOMAIN bumps' :
              /\ stored'[bumps'[j].event] # None
              /\ \A w \in Worker : ~Uncounted(request'[w], bumps'[j].event)
    BY <1>1, <1>5 DEF DispatchInv
  <2> QED
    BY <1>2, <2>2, <2>3, <2>4 DEF DispatchInv
<1> QED
  BY <1>4, <1>5 DEF RegisterAgent, TimePasses, vars, bounds

-----------------------------------------------------------------------------
(* The theorems *)

\* Tables are empty and no thread serves a request.
LEMMA InitPipeline ==
    ASSUME Init
    PROVE  TypeInv /\ DispatchInv
<1>1. TablesInv
  <2>1. detections \in [Examined -> SUBSET DetectionRow] /\ Examined = {}
    BY DEF Init, Examined
  <2>2. /\ agents \in Seq(Host) /\ recurrence \in Seq(RecurrenceRow) /\ risks \in Seq(RiskRow)
        /\ decisions \in Seq(DecisionRow) /\ bumps \in Seq(Bump)
        /\ DOMAIN recurrence = {} /\ DOMAIN bumps = {}
    BY EmptySeq DEF Init
  <2>3. now \in 0..MaxTime /\ posts \in 0..MaxPosts /\ crashes \in 0..MaxCrashes
    BY DetectionAssumption DEF Init, DetectionAssumption
  <2>4. /\ stored \in [Event -> Host \cup {None}]
        /\ incidents \in [CorrelationKeys -> IncidentRow \cup {None}]
    BY DEF Init
  <2> QED
    BY <2>1, <2>2, <2>3, <2>4 DEF TablesInv, CountIsRecent
<1>2. \A w \in Worker : request[w] = None
  BY DEF Init
<1>3. TypeInv
  BY <1>1, <1>2 DEF Init, TypeInv
<1>4. \A w \in Worker, e \in Event : ~Owned(request[w], e)
  BY <1>2 DEF Owned
<1>5. /\ \A k \in CorrelationKeys : incidents[k] = None
      /\ \A e \in Event : stored[e] = None
      /\ DOMAIN risks = {} /\ DOMAIN bumps = {}
  BY EmptySeq DEF Init
<1>6. DispatchInv
  BY <1>2, <1>4, <1>5 DEF DispatchInv, PairInv
<1> QED
  BY <1>3, <1>6

\* The inductive invariant: what the requests and the tables hold, and who dispatches what.
THEOREM PipelineInv == Spec => [](TypeInv /\ DispatchInv)
<1>1. Init => TypeInv /\ DispatchInv
  BY InitPipeline
<1>2. TypeInv /\ DispatchInv /\ [Next]_vars => TypeInv' /\ DispatchInv'
  <2> SUFFICES ASSUME TypeInv, DispatchInv, [Next]_vars
               PROVE  TypeInv' /\ DispatchInv'
    OBVIOUS
  <2>1. ASSUME NEW w \in Worker, \E h \in Host, b \in Batch : ReceiveBatch(w, h, b)
        PROVE  TypeInv' /\ DispatchInv'
    BY <2>1, IngestTypes, IngestDispatch
  <2>2. ASSUME NEW w \in Worker, CheckEvent(w)
        PROVE  TypeInv' /\ DispatchInv'
    BY <2>2, IngestTypes, IngestDispatch
  <2>3. ASSUME NEW w \in Worker, CommitBatch(w)
        PROVE  TypeInv' /\ DispatchInv'
    BY <2>3, CommitTypes, CommitDispatch
  <2>4. ASSUME NEW w \in Worker, PersistDetections(w)
        PROVE  TypeInv' /\ DispatchInv'
    BY <2>4, DetectTypes, DetectDispatch
  <2>5. ASSUME NEW w \in Worker, ReadCount(w)
        PROVE  TypeInv' /\ DispatchInv'
    BY <2>5, ReadCountTypes, ReadCountDispatch
  <2>6. ASSUME NEW w \in Worker, WriteCount(w)
        PROVE  TypeInv' /\ DispatchInv'
    BY <2>6, WriteCountTypes, WriteCountDispatch
  <2>7. ASSUME NEW w \in Worker, ReadIncidents(w)
        PROVE  TypeInv' /\ DispatchInv'
    BY <2>7, IncidentTypes, ReadIncidentsDispatch
  <2>8. ASSUME NEW w \in Worker, PersistIncidents(w)
        PROVE  TypeInv' /\ DispatchInv'
    BY <2>8, IncidentTypes, PersistIncidentsDispatch
  <2>9. ASSUME NEW w \in Worker, PersistRisk(w)
        PROVE  TypeInv' /\ DispatchInv'
    BY <2>9, AssessTypes, RiskDispatch
  <2>10. ASSUME NEW w \in Worker, PersistDecision(w)
         PROVE  TypeInv' /\ DispatchInv'
    BY <2>10, AssessTypes, DecisionDispatch
  <2>11. ASSUME NEW w \in Worker, LinkIncidents(w)
         PROVE  TypeInv' /\ DispatchInv'
    BY <2>11, LinkTypes, LinkDispatch DEF DispatchInv, PairInv
  <2>12. ASSUME (\E h \in Host : RegisterAgent(h)) \/ Crash \/ TimePasses \/ UNCHANGED vars
         PROVE  TypeInv' /\ DispatchInv'
    BY <2>12, OtherTypes, OtherDispatch
  <2> QED
    BY <2>1, <2>2, <2>3, <2>4, <2>5, <2>6, <2>7, <2>8, <2>9, <2>10, <2>11, <2>12 DEF Next, Serve
<1> QED
  BY <1>1, <1>2, PTL DEF Spec

\* Tables and requests hold what their columns and fields are for: the risk score stays on
\* its scale of 100, and an incident links a risk and a decision that were stored.
THEOREM DetectionTypes == Spec => []TypeOK
<1>1. TypeInv => TypeOK
  BY DEF TypeInv, TablesInv, TypeOK, Bump
<1> QED
  BY <1>1, PipelineInv, PTL

\* A count above one is written only with an earlier event of the host and the entity
\* within the window, although rows are read and written back in separate transactions.
THEOREM CountsAreRecent == Spec => []CountIsRecent
<1>1. TypeInv => CountIsRecent
  BY DEF TypeInv, TablesInv
<1> QED
  BY <1>1, PipelineInv, PTL

\* The risk score and the decision an incident shows are of one event, and about this
\* incident, whichever threads link it and in whatever order.
THEOREM RiskAndDecisionArePaired == Spec => []LinkedPair
<1>1. DispatchInv => LinkedPair
  BY DEF DispatchInv, PairInv, LinkedPair
<1> QED
  BY <1>1, PipelineInv, PTL

\* Without a crash, an event that was stored and is in no request has been examined and
\* scored, unless nothing was found, another event made one of its incidents, or another
\* event opened the recurrence window it was about to open.
THEOREM UnscoredEventHasCause == Spec => []UnscoredHasCause
<1>1. DispatchInv => UnscoredHasCause
  <2> SUFFICES ASSUME DispatchInv, NEW e \in Event, stored[e] # None, ~InFlight(e), crashes = 0
               PROVE  Settled(e)
    BY DEF UnscoredHasCause, Settled
  <2>1. \A w \in Worker : ~Owned(request[w], e)
    BY DEF Owned, InFlight
  <2> QED
    BY <2>1 DEF DispatchInv
<1> QED
  BY <1>1, PipelineInv, PTL

=============================================================================
