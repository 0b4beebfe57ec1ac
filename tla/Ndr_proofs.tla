---------------------------- MODULE Ndr_proofs -----------------------------
(***************************************************************************)
(* Proofs about the network pipeline, for any workers, clients, logs,      *)
(* rules, indicators and faults.                                           *)
(*                                                                         *)
(*   1. the detectors: what they compute has its type, and an event that   *)
(*      is due an alert by itself is due one whatever else is stored       *)
(*   2. the invariant: plans match the tables, and tables only grow        *)
(*   3. its preservation, step by step                                     *)
(***************************************************************************)
EXTENDS Ndr, FiniteSetTheorems, WellFoundedInduction, TLAPS

-----------------------------------------------------------------------------
(* 1. The detectors.                                                       *)

\* A nonempty set of naturals has a least element.
LEMMA NatMinimum ==
    ASSUME NEW S \in SUBSET Nat, S # {}
    PROVE  \E n \in S : \A m \in S : n <= m
<1> DEFINE T == {1..n : n \in S}
<1>1. T \subseteq FiniteSubsetsOf(Nat) /\ T # {}
  <2>1. \A n \in Nat : IsFiniteSet(1..n) /\ 1..n \subseteq Nat
    BY FS_Interval
  <2> QED
    BY <2>1 DEF FiniteSubsetsOf
<1>2. PICK U \in T : \A V \in T : ~ (<<V, U>> \in StrictSubsetOrdering(Nat))
  <2>1. IsWellFoundedOn(StrictSubsetOrdering(Nat), FiniteSubsetsOf(Nat))
    BY FS_StrictSubsetOrderingWellFounded
  <2> HIDE DEF T
  <2> QED
    BY <1>1, <2>1, WFMin
<1>3. PICK n \in S : U = 1..n
  OBVIOUS
<1>4. ASSUME NEW m \in S, m < n PROVE FALSE
  <2>1. 1..m \subseteq 1..n /\ 1..m # 1..n /\ 1..m \subseteq Nat /\ 1..n \subseteq Nat
    <3>1. n \in 1..n /\ n \notin 1..m
      BY <1>4
    <3> QED
      BY <1>4, <3>1
  <2>2. <<1..m, 1..n>> \in StrictSubsetOrdering(Nat)
    BY <2>1 DEF StrictSubsetOrdering
  <2> QED
    BY <1>2, <1>3, <2>2
<1> QED
  BY <1>4

\* Min picks an element of a nonempty set of naturals.
LEMMA MinOfNats ==
    ASSUME NEW S \in SUBSET Nat, S # {}
    PROVE  Min(S) \in S
BY NatMinimum DEF Min

\* Max picks the greatest element of a nonempty bounded set.
LEMMA MaxOfBounded ==
    ASSUME NEW N \in Nat, NEW S \in SUBSET (0..N), S # {}
    PROVE  Max(S) \in S /\ \A x \in S : x <= Max(S)
<1> DEFINE T == {N - x : x \in S}
<1>1. T \in SUBSET Nat /\ T # {}
  <2>1. \A x \in S : x \in 0..N /\ N - x \in Nat
    OBVIOUS
  <2> QED
    BY <2>1
<1>2. PICK n \in T : \A m \in T : n <= m
  <2> HIDE DEF T
  <2> QED
    BY <1>1, NatMinimum
<1>3. PICK y \in S : n = N - y
  OBVIOUS
<1>4. \A x \in S : y >= x
  <2> TAKE x \in S
  <2>1. N - x \in T
    OBVIOUS
  <2>2. n <= N - x
    BY <1>2, <2>1
  <2> QED
    BY <1>3, <2>2
<1> QED
  BY <1>4 DEF Max

\* The rules that are loaded are rules of the file, with a severity.
LEMMA LoadedRules ==
    \A i \in DOMAIN Loaded : Loaded[i] \in Rule /\ Loaded[i].severity \in Severity
<1>1. CASE Loaded = RuleFile /\ \A i \in DOMAIN RuleFile : RuleFile[i].severity \in Severity
  BY <1>1, RuleAssumption
<1>2. CASE Loaded = << >>
  BY <1>2
<1> QED
  BY <1>1, <1>2 DEF Loaded

\* A rule loaded with a context comparison compares a number.
LEMMA LoadedContext ==
    \A i \in DOMAIN Loaded :
        Loaded[i].operator = "context_gte" => Loaded[i].field \in {"connections", "ports"}
<1>1. CASE Loaded = RuleFile
  BY <1>1, RuleAssumption
<1>2. CASE Loaded = << >>
  BY <1>2
<1> QED
  BY <1>1, <1>2 DEF Loaded

\* Loaded rules are numbered.
LEMMA LoadedIndices == DOMAIN Loaded \subseteq Nat
<1>1. CASE Loaded = RuleFile
  BY <1>1, RuleAssumption
<1>2. CASE Loaded = << >>
  BY <1>2
<1> QED
  BY <1>1, <1>2 DEF Loaded

\* The id of an event is the key it carries or its digest.
LEMMA EventIdType == ASSUME NEW q \in Payload PROVE EventId(q) \in EventKey \cup Digest
BY DEF EventId, Payload

\* A lookup reports the indicator asked for; only a slow provider without a
\* cached entry hides its confidence.
LEMMA LookupHit ==
    ASSUME NEW a, NEW cached, NEW slow, NEW h \in Lookup(a, cached, slow)
    PROVE  /\ h.indicator = a
           /\ h.confidence = (IF a \notin cached /\ slow THEN 0 ELSE Indicators[a])
<1>1. CASE a \in cached
  BY <1>1 DEF Lookup
<1>2. CASE a \notin cached /\ slow
  BY <1>2 DEF Lookup
<1>3. CASE a \notin cached /\ ~slow
  BY <1>3 DEF Lookup
<1> QED
  BY <1>1, <1>2, <1>3

\* An address has at most one hit, and more of it is known when it is cached.
LEMMA HitsTyped ==
    ASSUME NEW q \in Payload, NEW cached, NEW slow
    PROVE  \A h \in Hits(q, cached, slow) : h.confidence \in 0..100 /\ h.indicator \in Address
<1> SUFFICES ASSUME NEW a \in {q.src, q.dst}, NEW h \in Lookup(a, cached, slow)
             PROVE  h.confidence \in 0..100 /\ h.indicator \in Address
  BY DEF Hits
<1>1. a \in Address /\ Indicators[a] \in 0..100
  BY RuleAssumption DEF Payload
<1>2. h.indicator = a /\ (h.confidence = Indicators[a] \/ h.confidence = 0)
  BY LookupHit
<1> QED
  BY <1>1, <1>2

\* What is found without a cache is found with one, at least as certainly.
LEMMA HitsGrow ==
    ASSUME NEW q \in Payload, NEW cached, NEW slow \in BOOLEAN,
           NEW h \in Hits(q, {}, slow)
    PROVE  \E more \in Hits(q, cached, slow) : h.confidence <= more.confidence
<1>1. PICK a \in {q.src, q.dst} : h \in Lookup(a, {}, slow)
  BY DEF Hits
<1>2. a \in Address /\ Indicators[a] \in 0..100
  BY RuleAssumption DEF Payload
<1> SUFFICES \E more \in Lookup(a, cached, slow) : h.confidence <= more.confidence
  BY DEF Hits
<1>3. (slow = TRUE => h.confidence = 0) /\ (slow = FALSE => h.confidence = Indicators[a])
  BY <1>1, LookupHit
<1>4. h.confidence \in 0..100 /\ h.confidence <= Indicators[a]
  BY <1>2, <1>3
<1>5. CASE a \in cached
  <2> DEFINE more == [indicator |-> a, confidence |-> Indicators[a], fresh |-> FALSE]
  <2>1. more \in Lookup(a, cached, slow) /\ more.confidence = Indicators[a]
    BY <1>5 DEF Lookup
  <2> HIDE DEF more
  <2> QED
    BY <1>4, <2>1
<1>6. CASE a \notin cached /\ slow = TRUE
  <2> DEFINE more == [indicator |-> a, confidence |-> 0, fresh |-> FALSE]
  <2>1. more \in Lookup(a, cached, slow) /\ more.confidence = 0
    BY <1>6 DEF Lookup
  <2> HIDE DEF more
  <2>2. h.confidence = 0
    BY <1>3, <1>6
  <2> QED
    BY <2>1, <2>2
<1>7. CASE a \notin cached /\ slow = FALSE
  <2>1. Lookup(a, cached, slow) = Lookup(a, {}, slow)
    BY <1>7 DEF Lookup
  <2> QED
    BY <1>1, <1>4, <2>1
<1> QED
  BY <1>5, <1>6, <1>7

\* With more events stored no count of the context is smaller.
LEMMA ContextGrows ==
    ASSUME NEW q, NEW S, NEW T, IsFiniteSet(T), S \subseteq T,
           NEW f \in {"connections", "ports"}
    PROVE  /\ Context(q, S)[f] \in Nat /\ Context(q, T)[f] \in Nat
           /\ Context(q, S)[f] <= Context(q, T)[f]
<1> DEFINE recent(E) == {e \in E : e.src = q.src /\ e.at >= q.at - ContextSpan}
           ports(E) == {e.port : e \in recent(E)} \ {0}
<1>1. IsFiniteSet(recent(T)) /\ recent(S) \subseteq recent(T)
  BY FS_Subset
<1>2. Cardinality(recent(S)) \in Nat /\ Cardinality(recent(T)) \in Nat
      /\ Cardinality(recent(S)) <= Cardinality(recent(T))
  <2> HIDE DEF recent
  <2> QED
    BY <1>1, FS_Subset, FS_CardinalityType
<1>3. IsFiniteSet({e.port : e \in recent(T)})
  <2> DEFINE g == [e \in recent(T) |-> e.port]
             U == {e.port : e \in recent(T)}
  <2>1. g \in Surjection(recent(T), U)
    BY DEF Surjection
  <2> HIDE DEF g, U, recent
  <2>2. IsFiniteSet(U)
    BY <1>1, <2>1, FS_Surjection
  <2> QED
    BY <2>2 DEF U
<1>4. IsFiniteSet(ports(T)) /\ ports(S) \subseteq ports(T)
  <2>1. {e.port : e \in recent(S)} \subseteq {e.port : e \in recent(T)}
    BY <1>1
  <2> QED
    BY <1>3, <2>1, FS_Subset
<1>5. Cardinality(ports(S)) \in Nat /\ Cardinality(ports(T)) \in Nat
      /\ Cardinality(ports(S)) <= Cardinality(ports(T))
  <2> HIDE DEF ports
  <2> QED
    BY <1>4, FS_Subset, FS_CardinalityType
<1>6. \A E : Context(q, E) = [connections |-> Cardinality(recent(E)), ports |-> Cardinality(ports(E))]
  BY DEF Context
<1> HIDE DEF recent, ports
<1> QED
  BY <1>2, <1>5, <1>6

\* A rule that an event matches by itself it matches with more events and hits.
LEMMA MatchesGrow ==
    ASSUME NEW q \in Payload, NEW T, IsFiniteSet(T), q \in T, NEW cached, NEW slow \in BOOLEAN
    PROVE  Triggered(q, Context(q, {q}), Hits(q, {}, slow))
               \subseteq Triggered(q, Context(q, T), Hits(q, cached, slow))
<1> SUFFICES ASSUME NEW i \in DOMAIN Loaded,
                    RuleMatches(Loaded[i], q, Context(q, {q}), Hits(q, {}, slow))
             PROVE  RuleMatches(Loaded[i], q, Context(q, T), Hits(q, cached, slow))
  BY DEF Triggered
<1> DEFINE r == Loaded[i]
<1>1. r \in Rule /\ r.threshold \in Nat
  BY LoadedRules DEF Rule
<1>2. CASE r.operator = "threat_intel_match" /\ \E h \in Hits(q, {}, slow) : h.confidence >= r.threshold
  <2>1. PICK h \in Hits(q, {}, slow) : h.confidence >= r.threshold
    BY <1>2
  <2>2. PICK more \in Hits(q, cached, slow) : h.confidence <= more.confidence
    BY HitsGrow
  <2>3. h.confidence \in 0..100 /\ more.confidence \in 0..100
    BY HitsTyped
  <2>4. more.confidence >= r.threshold
    <3> HIDE DEF r
    <3> QED
      BY <1>1, <2>1, <2>2, <2>3
  <2> QED
    BY <1>2, <2>4 DEF RuleMatches
<1>3. CASE r.operator = "context_gte" /\ Context(q, {q})[r.field] >= r.threshold
  <2>1. r.field \in {"connections", "ports"}
    BY <1>3, LoadedContext
  <2>2. /\ Context(q, {q})[r.field] \in Nat /\ Context(q, T)[r.field] \in Nat
        /\ Context(q, {q})[r.field] <= Context(q, T)[r.field]
    <3> HIDE DEF r
    <3> QED
      BY <2>1, ContextGrows
  <2>3. Context(q, T)[r.field] >= r.threshold
    <3> HIDE DEF r
    <3> QED
      BY <1>1, <1>3, <2>2
  <2> QED
    BY <1>3, <2>3 DEF RuleMatches
<1>4. CASE \/ r.operator = "gte" /\ q[r.field] >= r.threshold
           \/ r.operator = "lte" /\ q[r.field] <= r.threshold
           \/ r.operator = "equals" /\ q[r.field] = r.threshold
  BY <1>4 DEF RuleMatches
<1> QED
  BY <1>2, <1>3, <1>4 DEF RuleMatches

\* The two maxima of the risk score.
Points(triggered) == Max({0} \cup {SeverityPoints[Loaded[i].severity] : i \in triggered})
Confidence(hits) == Max({0} \cup {h.confidence : h \in hits})

\* The points of the matched rules stay under their cap.
LEMMA PointsBounded ==
    ASSUME NEW triggered \in SUBSET DOMAIN Loaded
    PROVE  Points(triggered) \in 0..90 /\ (triggered = {} => Points(triggered) = 0)
<1> DEFINE S == {0} \cup {SeverityPoints[Loaded[i].severity] : i \in triggered}
<1>1. \A s \in Severity : SeverityPoints[s] \in 0..90
  BY DEF SeverityPoints, Severity
<1>2. S \in SUBSET (0..90) /\ S # {}
  BY <1>1, LoadedRules
<1>3. triggered = {} => S = {0}
  OBVIOUS
<1> HIDE DEF S
<1>4. Max(S) \in S
  BY <1>2, MaxOfBounded
<1> QED
  BY <1>2, <1>3, <1>4 DEF Points, S

\* The confidence is that of the best hit.
LEMMA ConfidenceBounded ==
    ASSUME NEW hits, \A h \in hits : h.confidence \in 0..100
    PROVE  /\ Confidence(hits) \in 0..100
           /\ \A h \in hits : h.confidence <= Confidence(hits)
           /\ Confidence(hits) # 0 => \E h \in hits : h.confidence = Confidence(hits)
<1> DEFINE S == {0} \cup {h.confidence : h \in hits}
<1>1. S \in SUBSET (0..100) /\ S # {}
  OBVIOUS
<1>2. \A h \in hits : h.confidence \in S
  OBVIOUS
<1>3. \A x \in S : x = 0 \/ \E h \in hits : h.confidence = x
  OBVIOUS
<1> HIDE DEF S
<1>4. Max(S) \in S /\ \A x \in S : x <= Max(S)
  BY <1>1, MaxOfBounded
<1>5. Max(S) = Confidence(hits)
  BY DEF Confidence, S
<1>6. Confidence(hits) \in 0..100
  BY <1>1, <1>4, <1>5
<1>7. \A h \in hits : h.confidence <= Confidence(hits)
  BY <1>2, <1>4, <1>5
<1> QED
  BY <1>3, <1>4, <1>5, <1>6, <1>7

\* More is known of the addresses, so the most confident hit is no less so.
LEMMA ConfidenceGrows ==
    ASSUME NEW q \in Payload, NEW cached, NEW slow \in BOOLEAN
    PROVE  Confidence(Hits(q, {}, slow)) <= Confidence(Hits(q, cached, slow))
<1> DEFINE few == Hits(q, {}, slow)
           many == Hits(q, cached, slow)
<1>1. \A h \in few : h.confidence \in 0..100
  BY HitsTyped
<1>2. \A h \in many : h.confidence \in 0..100
  BY HitsTyped
<1>3. \A h \in few : \E more \in many : h.confidence <= more.confidence
  BY HitsGrow
<1> HIDE DEF few, many
<1>4. /\ Confidence(few) \in 0..100
      /\ Confidence(few) # 0 => \E h \in few : h.confidence = Confidence(few)
  BY <1>1, ConfidenceBounded
<1>5. Confidence(many) \in 0..100 /\ \A h \in many : h.confidence <= Confidence(many)
  BY <1>2, ConfidenceBounded
<1>6. CASE Confidence(few) = 0
  BY <1>5, <1>6 DEF few, many
<1>7. CASE Confidence(few) # 0
  <2>1. PICK h \in few : h.confidence = Confidence(few)
    BY <1>4, <1>7
  <2>2. PICK more \in many : h.confidence <= more.confidence
    BY <1>3
  <2>3. more.confidence <= Confidence(many) /\ more.confidence \in 0..100
    BY <1>2, <1>5
  <2>4. Confidence(few) <= Confidence(many)
    BY <1>4, <1>5, <2>1, <2>2, <2>3
  <2> QED
    BY <2>4 DEF few, many
<1> QED
  BY <1>6, <1>7

\* The sum that the score is capped from.
RiskSum(a, b, points, confidence, repeats) ==
    35 * a + 20 * b + 25 * points + 15 * confidence + 250 + repeats

\* The risk is the capped sum of its five parts.
LEMMA RiskScoreSum ==
    ASSUME NEW q, NEW hits, NEW triggered, NEW repeats
    PROVE  RiskScore(q, hits, triggered, repeats) =
               AtMost(10000, RiskSum(q.attack, q.anomaly, Points(triggered), Confidence(hits),
                                     AtMost(1000, 200 * repeats)))
BY DEF RiskScore, Points, Confidence, RiskSum

\* The risk is a number of 0 to 10000.
LEMMA RiskScoreType ==
    ASSUME NEW q \in Payload, NEW hits, \A h \in hits : h.confidence \in 0..100,
           NEW triggered \in SUBSET DOMAIN Loaded, NEW repeats \in Nat
    PROVE  /\ RiskScore(q, hits, triggered, repeats) \in Nat
           /\ RiskScore(q, hits, triggered, repeats) <= 10000
<1> DEFINE p == Points(triggered)
           c == Confidence(hits)
           r == AtMost(1000, 200 * repeats)
           a == q.attack
           b == q.anomaly
           sum == RiskSum(a, b, p, c, r)
<1>1. p \in 0..90 /\ c \in 0..100
  BY PointsBounded, ConfidenceBounded
<1>2. a \in 0..100 /\ b \in 0..100
  BY DEF Payload
<1>3. r \in 0..1000
  BY DEF AtMost
<1>4. RiskScore(q, hits, triggered, repeats) = AtMost(10000, sum)
  BY RiskScoreSum
<1> HIDE DEF p, c, r, a, b
<1>5. sum \in Nat
  BY <1>1, <1>2, <1>3 DEF RiskSum
<1> HIDE DEF sum
<1>6. AtMost(10000, sum) \in Nat /\ AtMost(10000, sum) <= 10000
  BY <1>5 DEF AtMost
<1> QED
  BY <1>4, <1>6

\* Hits and repeats never lower the risk.
LEMMA RiskScoreGrows ==
    ASSUME NEW q \in Payload, NEW cached, NEW slow \in BOOLEAN, NEW repeats \in Nat
    PROVE  RiskScore(q, Hits(q, {}, slow), {}, 0) <= RiskScore(q, Hits(q, cached, slow), {}, repeats)
<1> DEFINE c == Confidence(Hits(q, {}, slow))
           d == Confidence(Hits(q, cached, slow))
           r == AtMost(1000, 200 * repeats)
           a == q.attack
           b == q.anomaly
           few == RiskSum(a, b, 0, c, 0)
           many == RiskSum(a, b, 0, d, r)
<1>1. c \in 0..100 /\ d \in 0..100
  BY HitsTyped, ConfidenceBounded
<1>2. c <= d
  BY ConfidenceGrows
<1>3. Points({}) = 0
  BY PointsBounded
<1>4. a \in 0..100 /\ b \in 0..100
  BY DEF Payload
<1>5. r \in 0..1000 /\ AtMost(1000, 200 * 0) = 0 /\ 0 <= r
  BY DEF AtMost
<1>6. RiskScore(q, Hits(q, {}, slow), {}, 0) = AtMost(10000, few)
  BY <1>3, <1>5, RiskScoreSum
<1>7. RiskScore(q, Hits(q, cached, slow), {}, repeats) = AtMost(10000, many)
  BY <1>3, RiskScoreSum
<1> HIDE DEF c, d, r, a, b
<1>8. few \in Nat /\ many \in Nat /\ few <= many
  BY <1>1, <1>2, <1>4, <1>5 DEF RiskSum
<1> HIDE DEF few, many
<1>9. AtMost(10000, few) <= AtMost(10000, many)
  BY <1>8 DEF AtMost
<1> QED
  BY <1>6, <1>7, <1>9

\* The number of repeats is a natural number, zero without alerts.
LEMMA RepeatsAreCounted ==
    ASSUME NEW q, NEW class, NEW rows, IsFiniteSet(rows)
    PROVE  RepeatCount(q, class, rows) \in Nat /\ RepeatCount(q, class, {}) = 0
<1> DEFINE S(rows_1) == {a \in rows_1 : /\ a.class = class /\ a.src = q.src /\ a.dst = q.dst
                                     /\ a.at >= q.at - RepeatSpan}
<1>1. IsFiniteSet(S(rows)) /\ S({}) = {}
  BY FS_Subset
<1>2. RepeatCount(q, class, rows) = Cardinality(S(rows)) /\ RepeatCount(q, class, {}) = Cardinality(S({}))
  BY DEF RepeatCount
<1> HIDE DEF S
<1> QED
  BY <1>1, <1>2, FS_CardinalityType, FS_EmptySet

\* A set of four named elements has at most four.
LEMMA FourElements ==
    ASSUME NEW a, NEW b, NEW c, NEW d
    PROVE  /\ IsFiniteSet({a, b, c, d}) /\ Cardinality({a, b, c, d}) \in Nat
           /\ Cardinality({a, b, c, d}) <= 4
<1>1. {a, b, c, d} = (({a} \cup {b}) \cup {c}) \cup {d}
  OBVIOUS
<1>2. IsFiniteSet({a}) /\ Cardinality({a}) = 1
  BY FS_Singleton
<1>3. IsFiniteSet({a} \cup {b}) /\ Cardinality({a} \cup {b}) \in {1, 2}
  BY <1>2, FS_AddElement
<1>4. IsFiniteSet(({a} \cup {b}) \cup {c}) /\ Cardinality(({a} \cup {b}) \cup {c}) \in {1, 2, 3}
  BY <1>3, FS_AddElement
<1>5. /\ IsFiniteSet((({a} \cup {b}) \cup {c}) \cup {d})
      /\ Cardinality((({a} \cup {b}) \cup {c}) \cup {d}) \in {1, 2, 3, 4}
  BY <1>4, FS_AddElement
<1> QED
  BY <1>1, <1>5

\* The highest of the severities that a detection is made of.
LEMMA SeverityType ==
    ASSUME NEW q, NEW score, NEW triggered \in SUBSET DOMAIN Loaded
    PROVE  /\ SeverityFromScore(score) \in Severity
           /\ Max({SeverityFromScore(score), ModelSeverity(q), AnomalySeverity(q)}
                  \cup {Loaded[i].severity : i \in triggered}) \in Severity
<1> DEFINE limits == {1500, 4000, 6500, 8500}
           S == {SeverityFromScore(score), ModelSeverity(q), AnomalySeverity(q)}
                \cup {Loaded[i].severity : i \in triggered}
<1>1. SeverityFromScore(score) \in Severity
  <2>1. IsFiniteSet(limits) /\ Cardinality(limits) <= 4 /\ Cardinality(limits) \in Nat
    <3>1. PICK a, b, c, d : limits = {a, b, c, d}
      OBVIOUS
    <3> HIDE DEF limits
    <3>2. /\ IsFiniteSet({a, b, c, d}) /\ Cardinality({a, b, c, d}) \in Nat
          /\ Cardinality({a, b, c, d}) <= 4
      BY FourElements
    <3> QED
      BY <3>1, <3>2
  <2> DEFINE reached == {limit \in limits : score >= limit}
  <2>2. reached \subseteq limits
    OBVIOUS
  <2>3. SeverityFromScore(score) = Cardinality(reached)
    BY DEF SeverityFromScore
  <2> HIDE DEF reached, limits
  <2>4. Cardinality(reached) \in Nat /\ Cardinality(reached) <= Cardinality(limits)
    BY <2>1, <2>2, FS_Subset, FS_CardinalityType
  <2> QED
    BY <2>1, <2>3, <2>4 DEF Severity
<1>2. ModelSeverity(q) \in Severity /\ AnomalySeverity(q) \in Severity
  BY DEF ModelSeverity, AnomalySeverity, Severity
<1>3. S \in SUBSET (0..4) /\ S # {}
  BY <1>1, <1>2, LoadedRules DEF Severity
<1> HIDE DEF S
<1>4. Max(S) \in S
  BY <1>3, MaxOfBounded
<1> QED
  BY <1>1, <1>3, <1>4 DEF S, Severity

\* The techniques of a detection are known ones.
LEMMA TechniquesType ==
    ASSUME NEW q, NEW class, NEW triggered \in SUBSET DOMAIN Loaded
    PROVE  Techniques(q, class, triggered) \subseteq Technique
<1>1. \A n \in DOMAIN Mapping : Mapping[n] \subseteq Technique
  BY RuleAssumption
<1>2. \A i \in triggered : Loaded[i].techniques \subseteq Technique
  BY LoadedRules DEF Rule
<1> SUFFICES ASSUME NEW t \in Techniques(q, class, triggered) PROVE t \in Technique
  OBVIOUS
<1> DEFINE rules == {Loaded[i] : i \in triggered}
           names == {class, ModelLabel(q), AnomalyLabel(q)} \cup {r.id : r \in rules}
           mapped == UNION {Mapping[n] : n \in names \cap DOMAIN Mapping}
           listed == UNION {r.techniques : r \in rules}
<1>3. Techniques(q, class, triggered) = mapped \cup listed
  BY DEF Techniques
<1>4. t \in listed => \E i \in triggered : t \in Loaded[i].techniques
  OBVIOUS
<1>5. t \in mapped => \E n \in DOMAIN Mapping : t \in Mapping[n]
  <2> HIDE DEF names
  <2> QED
    OBVIOUS
<1> HIDE DEF mapped, listed
<1> QED
  BY <1>1, <1>2, <1>3, <1>4, <1>5

\* The classification is a known one.
LEMMA ClassType ==
    ASSUME NEW q, NEW hits, NEW triggered \in SUBSET DOMAIN Loaded
    PROVE  Classification(q, hits, triggered) \in Class
<1>1. triggered # {} => Loaded[Min(triggered)].name \in Class
  <2>1. triggered # {} => Min(triggered) \in DOMAIN Loaded
    BY LoadedIndices, MinOfNats
  <2>2. \A i \in DOMAIN Loaded : Loaded[i].name \in Class
    <3>1. CASE Loaded = RuleFile
      BY <3>1 DEF Class
    <3>2. CASE Loaded = << >>
      BY <3>2
    <3> QED
      BY <3>1, <3>2 DEF Loaded
  <2> QED
    BY <2>1, <2>2
<1>2. ModelLabel(q) \in Class
  BY DEF ModelLabel, Class
<1>3. \/ Classification(q, hits, triggered) = "Known Malicious Indicator"
      \/ Classification(q, hits, triggered) = ModelLabel(q)
      \/ Classification(q, hits, triggered) = "Anomalous Network Activity"
      \/ triggered # {} /\ Classification(q, hits, triggered) = Loaded[Min(triggered)].name
      \/ Classification(q, hits, triggered) = "BENIGN"
  BY Zenon DEF Classification
<1>4. /\ "Known Malicious Indicator" \in Class /\ "Anomalous Network Activity" \in Class
      /\ "BENIGN" \in Class
  BY DEF Class
<1> QED
  BY <1>1, <1>2, <1>3, <1>4, Zenon

\* What is computed of an event from any tables is a row of the detections.
LEMMA DetectType ==
    ASSUME NEW q \in Payload, NEW S, NEW rows, IsFiniteSet(rows), NEW cached, NEW slow
    PROVE  Detect(q, S, rows, cached, slow) \in Detection
           /\ Detect(q, S, rows, cached, slow).id = EventId(q)
<1> DEFINE hits      == Hits(q, cached, slow)
           triggered == Triggered(q, Context(q, S), hits)
           class     == Classification(q, hits, triggered)
           score     == RiskScore(q, hits, triggered, RepeatCount(q, class, rows))
           severities == {SeverityFromScore(score), ModelSeverity(q), AnomalySeverity(q)}
                         \cup {Loaded[i].severity : i \in triggered}
           severity == IF score < 1500 /\ class = "BENIGN" THEN SeverityFromScore(score)
                       ELSE Max(severities)
           techniques == Techniques(q, class, triggered)
           alerting == class # "BENIGN" \/ score >= 1500 \/ triggered # {}
<1>1. triggered \in SUBSET DOMAIN Loaded
  BY DEF Triggered
<1>2. \A h \in hits : h.confidence \in 0..100
  BY HitsTyped
<1>3. Detect(q, S, rows, cached, slow) =
          [id |-> EventId(q), class |-> class, score |-> score, severity |-> severity,
           techniques |-> techniques, alerting |-> alerting]
  BY DEF Detect
<1> HIDE DEF hits, triggered
<1>4. class \in Class
  BY <1>1, ClassType
<1> HIDE DEF class
<1>5. score \in Nat /\ score <= 10000
  BY <1>1, <1>2, RepeatsAreCounted, RiskScoreType
<1> HIDE DEF score
<1>6. severity \in Severity
  BY <1>1, SeverityType
<1>7. techniques \in SUBSET Technique
  BY <1>1, TechniquesType
<1>8. alerting \in BOOLEAN
  OBVIOUS
<1> HIDE DEF severity, techniques, alerting
<1> QED
  BY <1>3, <1>4, <1>5, <1>6, <1>7, <1>8, EventIdType DEF Detection

\* What raises an alert.
Alerts(q, hits, triggered, rows) ==
    LET class == Classification(q, hits, triggered)
    IN  \/ class # "BENIGN"
        \/ RiskScore(q, hits, triggered, RepeatCount(q, class, rows)) >= 1500
        \/ triggered # {}

\* A detection alerts exactly when one of the criteria does.
LEMMA DetectAlerts ==
    ASSUME NEW q, NEW S, NEW rows, NEW cached, NEW slow
    PROVE  Detect(q, S, rows, cached, slow).alerting
               <=> Alerts(q, Hits(q, cached, slow),
                          Triggered(q, Context(q, S), Hits(q, cached, slow)), rows)
<1> DEFINE hits      == Hits(q, cached, slow)
           triggered == Triggered(q, Context(q, S), hits)
           class     == Classification(q, hits, triggered)
           score     == RiskScore(q, hits, triggered, RepeatCount(q, class, rows))
           severities == {SeverityFromScore(score), ModelSeverity(q), AnomalySeverity(q)}
                         \cup {Loaded[i].severity : i \in triggered}
           severity == IF score < 1500 /\ class = "BENIGN" THEN SeverityFromScore(score)
                       ELSE Max(severities)
           techniques == Techniques(q, class, triggered)
           alerting == class # "BENIGN" \/ score >= 1500 \/ triggered # {}
           found == Detect(q, S, rows, cached, slow)
<1>1. found = [id |-> EventId(q), class |-> class, score |-> score, severity |-> severity,
               techniques |-> techniques, alerting |-> alerting]
  BY DEF Detect
<1>2. alerting <=> Alerts(q, hits, triggered, rows)
  BY DEF Alerts
<1> HIDE DEF found, severity, techniques, alerting, score, class, triggered, hits
<1>3. found.alerting = alerting
  BY <1>1
<1> QED
  BY <1>2, <1>3 DEF found, triggered, hits

\* An event that is due an alert by itself is due one whatever else the tables hold.
LEMMA AlertingGrows ==
    ASSUME NEW q \in Payload, NEW S, IsFiniteSet(S), q \in S, NEW rows, IsFiniteSet(rows),
           NEW cached, NEW slow \in BOOLEAN, Detect(q, {q}, {}, {}, slow).alerting
    PROVE  Detect(q, S, rows, cached, slow).alerting
<1> DEFINE few  == Hits(q, {}, slow)
           some == Triggered(q, Context(q, {q}), few)
           many == Hits(q, cached, slow)
           more == Triggered(q, Context(q, S), many)
           class == Classification(q, many, more)
           repeats == RepeatCount(q, class, rows)
           one == Classification(q, few, some)
<1>1. some \subseteq more
  BY MatchesGrow
<1>2. Detect(q, S, rows, cached, slow).alerting
          <=> (class # "BENIGN" \/ RiskScore(q, many, more, repeats) >= 1500 \/ more # {})
  BY DetectAlerts DEF Alerts
<1>3. Detect(q, {q}, {}, {}, slow).alerting
          <=> (\/ one # "BENIGN" \/ RiskScore(q, few, some, RepeatCount(q, one, {})) >= 1500
               \/ some # {})
  <2>1. Detect(q, {q}, {}, {}, slow).alerting <=> Alerts(q, few, some, {})
    BY DetectAlerts
  <2> HIDE DEF few, some
  <2> QED
    BY <2>1 DEF Alerts
<1>4. CASE more # {}
  BY <1>2, <1>4
<1>5. CASE more = {}
  <2>1. some = {}
    BY <1>1, <1>5
  <2>2. one = class
    BY <1>5, <2>1 DEF Classification
  <2>3. RepeatCount(q, one, {}) = 0 /\ repeats \in Nat
    BY RepeatsAreCounted, FS_EmptySet
  <2>4. RiskScore(q, few, {}, 0) <= RiskScore(q, many, {}, repeats)
    BY <2>3, RiskScoreGrows
  <2>5. (\A h \in few : h.confidence \in 0..100) /\ (\A h \in many : h.confidence \in 0..100)
    BY HitsTyped
  <2> HIDE DEF few, many, some, more, class, one, repeats
  <2>6. {} \in SUBSET DOMAIN Loaded /\ 0 \in Nat
    OBVIOUS
  <2>7. RiskScore(q, few, {}, 0) \in Nat
    <3>1. \A h \in few : h.confidence \in 0..100
      BY <2>5
    <3> QED
      BY <2>6, <3>1, RiskScoreType
  <2>8. RiskScore(q, many, {}, repeats) \in Nat
    <3>1. \A h \in many : h.confidence \in 0..100
      BY <2>5
    <3> QED
      BY <2>3, <2>6, <3>1, RiskScoreType
  <2> DEFINE low == RiskScore(q, few, {}, 0)
             high == RiskScore(q, many, {}, repeats)
  <2>9. low <= high
    BY <2>4 DEF few, many
  <2>12. low \in Nat /\ high \in Nat
    BY <2>7, <2>8
  <2> HIDE DEF low, high
  <2>10. low >= 1500 => high >= 1500
    BY <2>9, <2>12
  <2> QED
    <3>1. RiskScore(q, few, some, RepeatCount(q, one, {})) = low
      BY <2>1, <2>3 DEF low
    <3>2. one # "BENIGN" \/ low >= 1500
      BY <1>3, <2>1, <3>1
    <3>3. class # "BENIGN" \/ high >= 1500
      BY <2>2, <2>10, <3>2
    <3>4. RiskScore(q, many, more, repeats) = high
      BY <1>5 DEF high
    <3> QED
      BY <1>2, <3>3, <3>4
<1> QED
  BY <1>4, <1>5

-----------------------------------------------------------------------------
(* 2. The invariant.                                                       *)

TxRecord == [step : Step, payload : {None} \cup Payload, plan : {None} \cup Plan]

TableTypes ==
    /\ events \subseteq Payload /\ detections \subseteq Detection
    /\ alerts \subseteq Alert /\ incidents \subseteq Incident
    /\ links \subseteq {a.id : a \in alerts} \X {i.key : i \in incidents}
    /\ intel \subseteq Address

FiniteTables == IsFiniteSet(events) /\ IsFiniteSet(alerts)

\* One row under a key, whatever became of it since.
Same(i, j) == i.key = j.key /\ i.src = j.src /\ i.dst = j.dst

\* The incidents are one per key, which their unique constraint keeps.
OneRowPerKey == \A i, j \in incidents : i.key = j.key => i = j

\* What a transaction is about to write belongs together, and to rows that are there:
\* it raises an alert exactly when it correlates one, and for an event that is due an
\* alert there is one already or it raises one.
Sound(plan) ==
    /\ EventId(plan.event) = plan.detection.id
    /\ Suspicious(plan.event) => plan.detection.alerting
    /\ plan.detection.alerting =>
        /\ plan.alert # None /\ plan.alert.id = plan.detection.id
        /\ plan.raises \/ \E a \in alerts : a.id = plan.alert.id
    /\ plan.raises <=> plan.incident # None
    /\ plan.raises =>
        /\ plan.alert # None /\ plan.alert.id = plan.detection.id
        /\ plan.incident.src = plan.alert.src /\ plan.incident.dst = plan.alert.dst
    /\ plan.was # None =>
        /\ plan.raises /\ Same(plan.incident, plan.was)
        /\ \E i \in incidents : Same(i, plan.was)

PlansSound == \A p \in Process : tx[p].plan # None => Sound(tx[p].plan)

\* The event is stored, and has an alert when it is due one by itself.
Kept(id) ==
    \E e \in events : /\ EventId(e) = id
                      /\ Suspicious(e) => \E a \in alerts : a.id = EventId(e)

\* A detection is stored with its event and alert, and these stay: retention takes the
\* detections only.
DetectionsKept == \A d \in detections : Kept(d.id)

Accounted(w, n) == <<w, n>> \in deadLetters \cup dropped \/ Kept(EventId(Log[w][n]))

Settled(w) == Accounted(w, committed[w] + 1)

\* A worker handles the message at its offset, and settles when it is accounted for.
InOrder ==
    \A w \in Worker : tx[w].step # "idle" =>
        /\ committed[w] < Len(Log[w]) /\ tx[w].payload = Log[w][committed[w] + 1]
        /\ tx[w].step = "settle" => Settled(w)

Known == \A p \in Process : tx[p].step = "analyze" => tx[p].payload # None

TableInv == TableTypes /\ FiniteTables /\ OneRowPerKey /\ DetectionsKept /\ AlertInOneIncident
TxInv    == tx \in [Process -> TxRecord] /\ PlansSound /\ InOrder /\ Known
PastInv  == /\ committed \in [Worker -> Nat] /\ \A w \in Worker : committed[w] \in 0..Len(Log[w])
            /\ MessagesAccountedFor /\ PublishedWasStored

IInv == TableInv /\ TxInv /\ PastInv

\* Nothing of what the tables and the dead letters tell of a message is ever lost.
Grows ==
    /\ events \subseteq events'
    /\ \A a \in alerts : \E b \in alerts' : b.id = a.id
    /\ \A i \in incidents : \E j \in incidents' : Same(i, j)
    /\ deadLetters \subseteq deadLetters' /\ dropped \subseteq dropped'

\* The invariant holds of empty tables.
LEMMA InitIInv == Init => IInv
<1> SUFFICES ASSUME Init PROVE IInv
  OBVIOUS
<1>1. TableInv
  BY FS_EmptySet DEF Init, TableInv, TableTypes, FiniteTables, OneRowPerKey, DetectionsKept,
                     AlertInOneIncident
<1>2. Idle \in TxRecord /\ Idle.plan = None /\ Idle.step = "idle"
  BY DEF Idle, TxRecord, Step
<1>3. tx \in [Process -> TxRecord] /\ \A p \in Process : tx[p].plan = None /\ tx[p].step = "idle"
  BY <1>2 DEF Init
<1>4. \A p \in Worker : p \in Process
  BY DEF Process
<1>5. PlansSound /\ InOrder /\ Known
  BY <1>3, <1>4 DEF PlansSound, InOrder, Known
<1>6. \A w \in Worker : Len(Log[w]) \in Nat
  BY ProcessAssumption
<1>7. PastInv
  BY <1>6 DEF Init, PastInv, MessagesAccountedFor, PublishedWasStored
<1> QED
  BY <1>1, <1>3, <1>5, <1>7 DEF IInv, TxInv

\* What is kept stays kept while tables only grow.
LEMMA KeptStays == ASSUME Grows, NEW id, Kept(id) PROVE Kept(id)'
<1>1. PICK e \in events : /\ EventId(e) = id
                          /\ Suspicious(e) => \E a \in alerts : a.id = EventId(e)
  BY DEF Kept
<1>2. e \in events' /\ (Suspicious(e) => \E a \in alerts' : a.id = EventId(e))
  BY <1>1 DEF Grows
<1> QED
  BY <1>1, <1>2 DEF Kept

\* A message that is accounted for stays so.
LEMMA AccountedStays == ASSUME Grows, NEW w, NEW n, Accounted(w, n) PROVE Accounted(w, n)'
<1>1. CASE <<w, n>> \in deadLetters \cup dropped
  BY <1>1 DEF Accounted, Grows
<1>2. CASE Kept(EventId(Log[w][n]))
  BY <1>2, KeptStays DEF Accounted
<1> QED
  BY <1>1, <1>2 DEF Accounted

\* A message that is settled stays so.
LEMMA SettledStays ==
    ASSUME Grows, NEW w, committed'[w] = committed[w], Settled(w) PROVE Settled(w)'
<1>1. PICK n : n = committed[w] + 1
  OBVIOUS
<1>2. Accounted(w, n)'
  BY <1>1, AccountedStays DEF Settled
<1> QED
  BY <1>1, <1>2 DEF Settled, Accounted, Kept

\* A sound plan stays sound.
LEMMA SoundStays == ASSUME Grows, NEW plan, Sound(plan) PROVE Sound(plan)'
<1>1. (\E a \in alerts : a.id = plan.alert.id) => \E a \in alerts' : a.id = plan.alert.id
  BY DEF Grows
<1>2. (\E i \in incidents : Same(i, plan.was)) => \E i \in incidents' : Same(i, plan.was)
  BY DEF Grows, Same
<1> QED
  BY <1>1, <1>2 DEF Sound

\* What the invariant says of the past, when the group moves past nothing new.
LEMMA PastStays ==
    ASSUME IInv, Grows, committed' = committed,
           \A id \in published' : id \in published \/ \E e \in events' : EventId(e) = id
    PROVE  PastInv'
<1>1. MessagesAccountedFor'
  <2>1. ASSUME NEW w \in Worker, NEW n \in 1..committed[w] PROVE Accounted(w, n)'
    <3>1. Accounted(w, n)
      BY DEF IInv, PastInv, MessagesAccountedFor, Accounted, Kept
    <3> QED
      BY <3>1, AccountedStays
  <2> QED
    BY <2>1 DEF MessagesAccountedFor, Accounted, Kept
<1>2. PublishedWasStored'
  BY DEF IInv, PastInv, PublishedWasStored, Grows
<1> QED
  BY <1>1, <1>2 DEF IInv, PastInv

\* The tables are as they were.
LEMMA TablesStay ==
    ASSUME IInv, UNCHANGED tables, deadLetters \subseteq deadLetters', dropped \subseteq dropped'
    PROVE  Grows /\ TableInv'
<1>1. UNCHANGED <<events, detections, alerts, incidents, links, intel>>
  BY DEF tables
<1>2. Grows
  BY <1>1 DEF Grows, Same
<1>3. TableInv'
  BY <1>1 DEF IInv, TableInv, TableTypes, FiniteTables, OneRowPerKey, DetectionsKept, Kept,
              AlertInOneIncident
<1> QED
  BY <1>2, <1>3

\* A process goes on with another record of what it is at.
LEMMA TxStep ==
    ASSUME IInv, Grows, NEW p \in Process, NEW r \in TxRecord, tx' = [tx EXCEPT ![p] = r],
           r.plan # None => Sound(r.plan)',
           r.step = "analyze" => r.payload # None,
           \A w \in Worker \ {p} : committed'[w] = committed[w],
           p \in Worker /\ r.step # "idle" =>
               /\ committed'[p] = committed[p] /\ committed[p] < Len(Log[p])
               /\ r.payload = Log[p][committed[p] + 1]
               /\ r.step = "settle" => Settled(p)'
    PROVE  TxInv'
<1> USE DEF IInv, TxInv
<1>1. tx' \in [Process -> TxRecord]
  OBVIOUS
<1>2. \A q \in Process : tx'[q] = IF q = p THEN r ELSE tx[q]
  OBVIOUS
<1>3. PlansSound'
  BY <1>2, SoundStays DEF PlansSound
<1>4. Known'
  BY <1>2 DEF Known
<1>5. InOrder'
  <2>1. ASSUME NEW w \in Worker, tx'[w].step # "idle"
        PROVE  /\ committed'[w] < Len(Log[w]) /\ tx'[w].payload = Log[w][committed'[w] + 1]
               /\ tx'[w].step = "settle" => Settled(w)'
    <3>1. w \in Process
      BY DEF Process
    <3>2. CASE w = p
      <4>1. tx'[w] = r
        BY <1>2, <3>1, <3>2
      <4> QED
        BY <2>1, <3>2, <4>1
    <3>3. CASE w # p
      <4>1. tx'[w] = tx[w] /\ committed'[w] = committed[w]
        BY <1>2, <3>1, <3>3
      <4>2. /\ committed[w] < Len(Log[w]) /\ tx[w].payload = Log[w][committed[w] + 1]
            /\ tx[w].step = "settle" => Settled(w)
        BY <2>1, <4>1 DEF InOrder
      <4>3. tx[w].step = "settle" => Settled(w)'
        BY <4>1, <4>2, SettledStays
      <4> QED
        BY <4>1, <4>2, <4>3
    <3> QED
      BY <3>2, <3>3
  <2> QED
    BY <2>1 DEF InOrder
<1> QED
  BY <1>1, <1>3, <1>4, <1>5

\* Steps that leave the workers alone keep the invariant of their state.
LEMMA TxStays ==
    ASSUME IInv, Grows, tx' = tx, committed' = committed
    PROVE  TxInv'
<1> USE DEF IInv, TxInv
<1>1. PlansSound' /\ Known'
  BY SoundStays DEF PlansSound, Known
<1>2. InOrder'
  BY SettledStays DEF InOrder
<1> QED
  BY <1>1, <1>2

\* A process at work goes to a later step of it.
LEMMA GotoStep ==
    ASSUME IInv, Grows, NEW p \in Process, NEW s \in Step \ {"idle", "analyze"}, Goto(p, s),
           tx[p].step # "idle", committed' = committed,
           p \in Worker /\ s = "settle" => Settled(p)'
    PROVE  TxInv'
<1>0. PICK r : r = [tx[p] EXCEPT !.step = s]
  OBVIOUS
<1>1. tx[p] \in TxRecord /\ tx' = [tx EXCEPT ![p] = r]
  BY <1>0 DEF IInv, TxInv, Goto
<1>2. r \in TxRecord /\ r.plan = tx[p].plan /\ r.payload = tx[p].payload /\ r.step = s
  BY <1>0, <1>1 DEF TxRecord
<1>3. r.plan # None => Sound(r.plan)'
  <2>1. r.plan # None => Sound(r.plan)
    BY <1>2 DEF IInv, TxInv, PlansSound
  <2> QED
    BY <2>1, SoundStays
<1>4. p \in Worker => committed[p] < Len(Log[p]) /\ r.payload = Log[p][committed[p] + 1]
  BY <1>2 DEF IInv, TxInv, InOrder
<1>5. r.step # "analyze" /\ (p \in Worker /\ r.step = "settle" => Settled(p)')
  BY <1>2
<1> QED
  BY <1>1, <1>2, <1>3, <1>4, <1>5, TxStep

\* A process is done, or dies.
LEMMA DoneStep ==
    ASSUME IInv, Grows, NEW p \in Process, Done(p),
           \A w \in Worker \ {p} : committed'[w] = committed[w]
    PROVE  TxInv'
<1>1. Idle \in TxRecord /\ Idle.plan = None /\ Idle.step = "idle"
  BY DEF Idle, TxRecord, Step
<1>2. tx' = [tx EXCEPT ![p] = Idle]
  BY DEF Done
<1> QED
  BY <1>1, <1>2, TxStep

\* A process begins with a payload, a worker with the next of its partition.
LEMMA BeginStep ==
    ASSUME IInv, Grows, NEW p \in Process, NEW q \in {None} \cup Payload,
           tx' = [tx EXCEPT ![p] = [Idle EXCEPT !.payload = q,
                      !.step = IF q = None THEN "failed" ELSE "analyze"]],
           committed' = committed,
           p \in Worker => committed[p] < Len(Log[p]) /\ q = Log[p][committed[p] + 1]
    PROVE  TxInv'
<1> DEFINE r == [Idle EXCEPT !.payload = q, !.step = IF q = None THEN "failed" ELSE "analyze"]
<1>1. r \in TxRecord /\ r.plan = None /\ r.payload = q /\ r.step # "settle"
      /\ (r.step = "analyze" => q # None)
  BY DEF Idle, TxRecord, Step
<1>2. tx' = [tx EXCEPT ![p] = r]
  OBVIOUS
<1> HIDE DEF r
<1> QED
  BY <1>1, <1>2, TxStep

-----------------------------------------------------------------------------
(* 3. The steps.                                                           *)

\* The event a stored one stands for has the id of the payload.
LEMMA StoredAsId ==
    ASSUME TableTypes, NEW q \in Payload
    PROVE  StoredAs(q) \in Payload /\ EventId(StoredAs(q)) = EventId(q)
<1> DEFINE same == {e \in events : EventId(e) = EventId(q)}
<1>1. CASE same = {}
  BY <1>1 DEF StoredAs
<1>2. CASE same # {}
  <2>1. (CHOOSE e \in same : TRUE) \in same
    BY <1>2
  <2> QED
    BY <1>2, <2>1 DEF StoredAs, TableTypes
<1> QED
  BY <1>1, <1>2

\* The alert of a detection carries the id of its event.
LEMMA AlertOfType ==
    ASSUME NEW e \in Payload, NEW det \in Detection
    PROVE  /\ AlertOf(e, det) \in Alert /\ AlertOf(e, det) # None
           /\ AlertOf(e, det).id = det.id
<1>1. AlertOf(e, det) \in Alert /\ AlertOf(e, det).id = det.id
  BY DEF AlertOf, Alert, Payload, Detection
<1> QED
  BY <1>1, NoneAssumption

\* A new incident has the endpoints of its alert.
LEMMA NewIncidentType ==
    ASSUME NEW a \in Alert
    PROVE  /\ NewIncident(a) \in Incident /\ NewIncident(a) # None
           /\ NewIncident(a).src = a.src /\ NewIncident(a).dst = a.dst
<1>1. a.at \div HourLength \in Int
  BY ProcessAssumption DEF Alert
<1>2. IncidentKey(a) \in Address \X Address \X Class \X Int
  BY <1>1 DEF IncidentKey, Alert
<1>3. NewIncident(a) \in Incident /\ NewIncident(a).src = a.src /\ NewIncident(a).dst = a.dst
  BY <1>2 DEF NewIncident, Incident, Alert
<1> QED
  BY <1>3, NoneAssumption

\* Merging an alert into an incident keeps what identifies it.
LEMMA MergedType ==
    ASSUME NEW i \in Incident, NEW a \in Alert
    PROVE  /\ Merged(i, a) \in Incident /\ Merged(i, a) # None /\ Same(Merged(i, a), i)
<1>1. Max({i.severity, a.severity}) \in Severity
  <2>1. {i.severity, a.severity} \in SUBSET (0..4)
    BY DEF Incident, Alert, Severity
  <2>2. Max({i.severity, a.severity}) \in {i.severity, a.severity}
    BY <2>1, MaxOfBounded
  <2> QED
    BY <2>1, <2>2 DEF Severity
<1>2. Max({i.last, a.at}) \in Nat
  <2>1. i.last \in Nat /\ a.at \in Nat
    BY DEF Incident, Alert
  <2>2. CASE i.last >= a.at
    BY <2>1, <2>2 DEF Max
  <2>3. CASE a.at >= i.last
    BY <2>1, <2>3 DEF Max
  <2> QED
    BY <2>1, <2>2, <2>3
<1>3. i.techniques \cup a.techniques \in SUBSET Technique
  BY DEF Incident, Alert
<1>4. Merged(i, a) \in Incident /\ Same(Merged(i, a), i)
  BY <1>1, <1>2, <1>3 DEF Merged, Incident, Same
<1> QED
  BY <1>4, NoneAssumption

\* What correlate_alert finds or makes for an alert without a link.
LEMMA CorrelationsSound ==
    ASSUME TableTypes, NEW a \in Alert, ~ \E l \in links : l[1] = a.id, NEW c \in Correlations(a)
    PROVE  /\ c[1] \in {None} \cup Incident /\ c[2] \in Incident /\ c[2] # None
           /\ c[2].src = a.src /\ c[2].dst = a.dst
           /\ c[1] # None => c[1] \in incidents /\ Same(c[2], c[1])
<1>1. CASE Matching(a) = {}
  <2>1. c = <<None, NewIncident(a)>>
    BY <1>1 DEF Correlations
  <2>2. c[1] = None /\ c[2] = NewIncident(a)
    BY <2>1
  <2> QED
    BY <2>2, NewIncidentType
<1>2. CASE Matching(a) # {}
  <2>1. PICK i \in Matching(a) : c = <<i, Merged(i, a)>>
    BY <1>2 DEF Correlations
  <2>2. c[1] = i /\ c[2] = Merged(i, a)
    BY <2>1
  <2>3. i \in incidents /\ i \in Incident /\ a.src = i.src /\ a.dst = i.dst
    BY DEF Matching, Matches, TableTypes
  <2>4. Merged(i, a) \in Incident /\ Merged(i, a) # None /\ Same(Merged(i, a), i)
    BY <2>3, MergedType
  <2> QED
    BY <2>2, <2>3, <2>4 DEF Same
<1> QED
  BY <1>1, <1>2

\* What is planned for an event keeps it: its alert names it, its incident
\* joins the endpoints of the alert.
LEMMA PlansAreSound ==
    ASSUME TableInv, NEW e \in Payload, NEW det \in Detection, det.id = EventId(e),
           Suspicious(e) => det.alerting, NEW fetched \in SUBSET Address,
           NEW plan \in Plans(e, det, fetched)
    PROVE  plan \in Plan /\ Sound(plan)
<1> USE DEF TableInv
<1> DEFINE prior == {a \in alerts : a.id = det.id}
           alert == IF prior = {} THEN AlertOf(e, det) ELSE CHOOSE a \in prior : TRUE
           Planned(c) == [event |-> e, detection |-> det, fetched |-> fetched,
                          alert |-> IF det.alerting THEN alert ELSE None,
                          raises |-> det.alerting /\ prior = {}, was |-> c[1], incident |-> c[2]]
<1>1. PICK c \in IF det.alerting THEN Correlations(alert) ELSE {<<None, None>>} : plan = Planned(c)
  BY DEF Plans
<1>2. det.alerting \in BOOLEAN
  BY DEF Detection
<1>3. CASE ~det.alerting
  <2>1. c[1] = None /\ c[2] = None
    BY <1>1, <1>3
  <2>2. plan = [event |-> e, detection |-> det, fetched |-> fetched, alert |-> None,
                raises |-> FALSE, was |-> None, incident |-> None]
    BY <1>1, <1>3, <2>1
  <2>3. plan \in Plan
    BY <2>2 DEF Plan
  <2>4. Sound(plan)
    BY <1>3, <2>2 DEF Sound
  <2> QED
    BY <2>3, <2>4
<1>4. CASE det.alerting /\ prior # {}
  <2>1. alert \in prior
    BY <1>4
  <2> HIDE DEF alert
  <2>2. alert \in alerts /\ alert.id = det.id /\ alert \in Alert /\ alert # None
    BY <2>1, NoneAssumption DEF TableTypes
  <2>3. PICK i \in incidents : {l \in links : l[1] = alert.id} = {<<alert.id, i.key>>}
    BY <2>2 DEF AlertInOneIncident
  <2>4. Correlations(alert) = {<<None, None>>}
    BY <2>3 DEF Correlations
  <2>5. c[1] = None /\ c[2] = None
    BY <1>1, <1>4, <2>4
  <2>6. plan = [event |-> e, detection |-> det, fetched |-> fetched, alert |-> alert,
                raises |-> FALSE, was |-> None, incident |-> None]
    BY <1>1, <1>4, <2>5
  <2>7. plan \in Plan
    BY <2>2, <2>6 DEF Plan
  <2>8. Sound(plan)
    BY <2>2, <2>6 DEF Sound
  <2> QED
    BY <2>7, <2>8
<1>5. CASE det.alerting /\ prior = {}
  <2>1. alert = AlertOf(e, det)
    BY <1>5
  <2> HIDE DEF alert
  <2>2. alert \in Alert /\ alert # None /\ alert.id = det.id
    BY <2>1, AlertOfType
  <2>3. ~ \E l \in links : l[1] = alert.id
    <3>1. ASSUME NEW l \in links, l[1] = alert.id PROVE FALSE
      <4>1. l \in {a.id : a \in alerts} \X {i.key : i \in incidents}
        BY DEF TableTypes
      <4>2. PICK a \in alerts : l[1] = a.id
        BY <4>1
      <4> QED
        BY <1>5, <2>2, <3>1, <4>2
    <3> QED
      BY <3>1
  <2>4. c \in Correlations(alert)
    BY <1>1, <1>5
  <2>5. /\ c[1] \in {None} \cup Incident /\ c[2] \in Incident /\ c[2] # None
        /\ c[2].src = alert.src /\ c[2].dst = alert.dst
        /\ c[1] # None => c[1] \in incidents /\ Same(c[2], c[1])
    BY <2>2, <2>3, <2>4, CorrelationsSound
  <2>6. plan = [event |-> e, detection |-> det, fetched |-> fetched, alert |-> alert,
                raises |-> TRUE, was |-> c[1], incident |-> c[2]]
    BY <1>1, <1>5
  <2>7. plan \in Plan
    BY <2>2, <2>5, <2>6 DEF Plan
  <2>8. c[1] # None => \E i \in incidents : Same(i, c[1])
    BY <2>5 DEF Same
  <2>9. Sound(plan)
    BY <1>5, <2>2, <2>5, <2>6, <2>8 DEF Sound
  <2> QED
    BY <2>7, <2>9
<1> QED
  BY <1>2, <1>3, <1>4, <1>5

\* Analysing an event keeps the invariant.
LEMMA AnalyzeKeeps == ASSUME IInv, NEW p \in Process, Analyze(p) PROVE IInv'
<1>1. /\ UNCHANGED tables /\ committed' = committed /\ published' = published
      /\ deadLetters' = deadLetters /\ dropped' = dropped /\ tx[p].step = "analyze"
  BY DEF Analyze, outputs
<1>2. Grows /\ TableInv'
  BY <1>1, TablesStay
<1>3. PastInv'
  BY <1>1, <1>2, PastStays
<1>4. ASSUME NEW s \in {"failed", "store"}, Goto(p, s) PROVE TxInv'
  <2>1. s \in Step \ {"idle", "analyze"} /\ s # "settle"
    BY DEF Step
  <2> QED
    BY <1>1, <1>2, <1>4, <2>1, GotoStep
<1>5. ASSUME NEW slow \in BOOLEAN, NEW e, e = StoredAs(tx[p].payload),
             NEW det, det = Detect(e, events \cup {e}, alerts, intel, slow),
             NEW fetched, fetched = Fetched(e, intel, slow),
             NEW plan \in Plans(e, det, fetched),
             tx' = [tx EXCEPT ![p].step = "store", ![p].plan = plan]
      PROVE  TxInv'
  <2>1. tx[p] \in TxRecord /\ tx[p].payload \in Payload
    BY <1>1 DEF IInv, TxInv, Known, TxRecord
  <2>2. e \in Payload
    BY <1>5, <2>1, StoredAsId DEF IInv, TableInv
  <2>3. IsFiniteSet(events \cup {e}) /\ IsFiniteSet(alerts) /\ e \in events \cup {e}
    BY FS_AddElement DEF IInv, TableInv, FiniteTables
  <2>4. det \in Detection /\ det.id = EventId(e)
    BY <1>5, <2>2, <2>3, DetectType
  <2>5. Suspicious(e) => det.alerting
    BY <1>5, <2>2, <2>3, AlertingGrows DEF Suspicious
  <2>6. fetched \in SUBSET Address
    BY <1>5, <2>2, HitsTyped DEF Fetched
  <2>7. plan \in Plan /\ Sound(plan)
    BY <2>2, <2>4, <2>5, <2>6, PlansAreSound DEF IInv
  <2>8. PICK r : r = [tx[p] EXCEPT !.step = "store", !.plan = plan]
    OBVIOUS
  <2>9. tx' = [tx EXCEPT ![p] = r]
    BY <1>5, <2>8 DEF IInv, TxInv
  <2>10. r \in TxRecord /\ r.plan = plan /\ r.payload = tx[p].payload /\ r.step = "store"
    BY <2>1, <2>7, <2>8 DEF TxRecord, Step
  <2>11. Sound(r.plan)'
    BY <1>2, <2>7, <2>10, SoundStays
  <2>12. p \in Worker => committed[p] < Len(Log[p]) /\ r.payload = Log[p][committed[p] + 1]
    BY <1>1, <2>10 DEF IInv, TxInv, InOrder
  <2>13. r.step # "analyze" /\ r.step # "settle"
    BY <2>10
  <2> QED
    BY <1>1, <1>2, <2>9, <2>10, <2>11, <2>12, <2>13, TxStep
<1>6. TxInv'
  BY <1>4, <1>5 DEF Analyze
<1> QED
  BY <1>2, <1>3, <1>6 DEF IInv

\* An update leaves the columns that make the row what it is.
LEMMA UpdatedRow ==
    ASSUME NEW i \in Incident, NEW plan \in Plan,
           plan.was # None => plan.incident \in Incident /\ Same(plan.incident, plan.was)
    PROVE  Updated(i, plan) \in Incident /\ Same(Updated(i, plan), i)
<1>1. CASE plan.was = None \/ i.key # plan.was.key
  BY <1>1 DEF Updated, Same
<1>2. CASE plan.was # None /\ i.key = plan.was.key
  <2> DEFINE j == plan.incident
             u == Updated(i, plan)
  <2>1. j \in Incident /\ Same(j, plan.was)
    BY <1>2
  <2>2. u = [c \in DOMAIN i |-> IF j[c] # plan.was[c] THEN j[c] ELSE i[c]]
    BY <1>2 DEF Updated
  <2>3. DOMAIN i = {"key", "src", "dst", "class", "severity", "techniques", "status", "last"}
    BY DEF Incident
  <2> HIDE DEF j, u
  <2>4. /\ u.key = i.key /\ u.src = i.src /\ u.dst = i.dst
        /\ u.class \in {i.class, j.class} /\ u.severity \in {i.severity, j.severity}
        /\ u.techniques \in {i.techniques, j.techniques}
        /\ u.status \in {i.status, j.status} /\ u.last \in {i.last, j.last}
    BY <2>1, <2>2, <2>3 DEF Same
  <2>5. u = [key |-> u.key, src |-> u.src, dst |-> u.dst, class |-> u.class,
             severity |-> u.severity, techniques |-> u.techniques, status |-> u.status,
             last |-> u.last]
    BY <2>2, <2>3
  <2>6. u \in Incident
    BY <2>1, <2>4, <2>5 DEF Incident
  <2> QED
    BY <2>4, <2>6 DEF u, Same
<1> QED
  BY <1>1, <1>2

\* Storing a plan without a collision loses no row and duplicates no key.
LEMMA StoreGrows ==
    ASSUME IInv, NEW plan \in Plan, Sound(plan), ~Collides(plan), StorePlan(plan),
           UNCHANGED outputs
    PROVE  /\ Grows /\ TableTypes' /\ OneRowPerKey'
           /\ \A i \in incidents : Updated(i, plan) \in incidents' /\ Same(Updated(i, plan), i)
<1> USE DEF IInv, TableInv, TableTypes, StorePlan
<1>1. plan.was # None => plan.incident \in Incident /\ Same(plan.incident, plan.was)
  BY DEF Sound, Plan
<1>2. \A i \in incidents : Updated(i, plan) \in Incident /\ Same(Updated(i, plan), i)
  BY <1>1, UpdatedRow
<1> DEFINE fresh == IF plan.incident # None /\ plan.was = None THEN {plan.incident} ELSE {}
           rows == {Updated(i, plan) : i \in incidents}
<1>3. incidents' = rows \cup fresh
  OBVIOUS
<1>4. \A i \in incidents : Updated(i, plan) \in incidents'
  BY <1>3
<1>5. Grows
  <2>1. events \subseteq events' /\ alerts \subseteq alerts'
    OBVIOUS
  <2>2. \A i \in incidents : \E j \in incidents' : Same(i, j)
    BY <1>2, <1>4 DEF Same
  <2> QED
    BY <2>1, <2>2 DEF Grows, outputs
<1>6. \A j \in rows : \E i \in incidents : j = Updated(i, plan) /\ j.key = i.key
  BY <1>2 DEF Same
<1>7. \A j \in fresh : j = plan.incident /\ \A i \in incidents : i.key # j.key
  BY DEF Collides
<1>8. OneRowPerKey'
  <2> SUFFICES ASSUME NEW i \in rows \cup fresh, NEW j \in rows \cup fresh, i.key = j.key
               PROVE  i = j
    BY <1>3 DEF OneRowPerKey
  <2> HIDE DEF rows, fresh
  <2>1. CASE i \in fresh \/ j \in fresh
    BY <1>6, <1>7, <2>1
  <2>2. CASE i \in rows /\ j \in rows
    <3>1. PICK k \in incidents : i = Updated(k, plan) /\ i.key = k.key
      BY <1>6, <2>2
    <3>2. PICK l \in incidents : j = Updated(l, plan) /\ j.key = l.key
      BY <1>6, <2>2
    <3> QED
      BY <3>1, <3>2 DEF OneRowPerKey
  <2> QED
    BY <2>1, <2>2
<1>9. TableTypes'
  <2>1. plan.event \in Payload /\ plan.detection \in Detection /\ plan.fetched \in SUBSET Address
    BY DEF Plan
  <2>2. fresh \subseteq Incident
    BY DEF Plan
  <2>3. incidents' \subseteq Incident
    BY <1>2, <1>3, <2>2
  <2>4. alerts' \subseteq Alert
    <3>1. plan.raises => plan.alert \in Alert
      BY DEF Plan, Sound
    <3> QED
      BY <3>1
  <2>5. links' \subseteq {a.id : a \in alerts'} \X {i.key : i \in incidents'}
    <3> SUFFICES ASSUME NEW l \in links'
                 PROVE  l \in {a.id : a \in alerts'} \X {i.key : i \in incidents'}
      OBVIOUS
    <3>1. CASE l \in links
      <4>1. PICK a \in alerts, i \in incidents : l = <<a.id, i.key>>
        BY <3>1
      <4>2. a \in alerts' /\ Updated(i, plan) \in incidents' /\ Updated(i, plan).key = i.key
        BY <1>2, <1>4 DEF Same
      <4> QED
        BY <4>1, <4>2
    <3>2. CASE l \notin links
      <4>1. plan.incident # None /\ l = <<plan.alert.id, plan.incident.key>>
        BY <3>2
      <4>2. plan.raises /\ plan.alert \in alerts'
        BY <4>1 DEF Sound
      <4>3. \E j \in incidents' : j.key = plan.incident.key
        BY <1>3, <1>5, <4>1 DEF Sound, Same, Grows
      <4> QED
        BY <4>1, <4>2, <4>3
    <3> QED
      BY <3>1, <3>2
  <2> QED
    BY <2>1, <2>3, <2>4, <2>5
<1> QED
  BY <1>2, <1>4, <1>5, <1>8, <1>9

\* Storing a plan keeps the invariant of the tables.
LEMMA StoreKeepsTables ==
    ASSUME IInv, NEW plan \in Plan, Sound(plan), ~Collides(plan), StorePlan(plan),
           UNCHANGED outputs
    PROVE  Grows /\ TableInv'
<1>1. /\ Grows /\ TableTypes' /\ OneRowPerKey'
      /\ \A i \in incidents : Updated(i, plan) \in incidents' /\ Same(Updated(i, plan), i)
  BY StoreGrows
<1> USE DEF IInv, TableInv, StorePlan
<1>2. FiniteTables'
  BY FS_AddElement, FS_EmptySet DEF FiniteTables
<1>3. DetectionsKept'
  <2>1. ASSUME NEW d \in detections PROVE Kept(d.id)'
    BY <1>1, <2>1, KeptStays DEF DetectionsKept
  <2>2. Kept(plan.detection.id)'
    <3>1. plan.event \in events' /\ EventId(plan.event) = plan.detection.id
      BY DEF Sound
    <3>2. Suspicious(plan.event) => \E a \in alerts' : a.id = EventId(plan.event)
      <4>1. ASSUME Suspicious(plan.event) PROVE \E a \in alerts' : a.id = plan.detection.id
        <5>1. plan.alert.id = plan.detection.id
              /\ (plan.raises \/ \E a \in alerts : a.id = plan.alert.id)
          BY <4>1 DEF Sound
        <5> QED
          BY <5>1
      <4> QED
        BY <3>1, <4>1
    <3> QED
      BY <3>1, <3>2 DEF Kept
  <2> QED
    BY <2>1, <2>2 DEF DetectionsKept
<1>4. AlertInOneIncident'
  <2>1. \A a \in alerts : plan.incident # None => a.id # plan.alert.id
    BY DEF Collides, Sound
  <2>2. ASSUME NEW a \in alerts
        PROVE  \E j \in incidents' : /\ {l \in links' : l[1] = a.id} = {<<a.id, j.key>>}
                                     /\ a.src = j.src /\ a.dst = j.dst
    <3>1. PICK i \in incidents : /\ {l \in links : l[1] = a.id} = {<<a.id, i.key>>}
                                 /\ a.src = i.src /\ a.dst = i.dst
      BY DEF AlertInOneIncident
    <3>2. {l \in links' : l[1] = a.id} = {l \in links : l[1] = a.id}
      BY <2>1
    <3> QED
      BY <1>1, <3>1, <3>2 DEF Same
  <2>3. ASSUME plan.raises
        PROVE  \E j \in incidents' : /\ {l \in links' : l[1] = plan.alert.id}
                                            = {<<plan.alert.id, j.key>>}
                                     /\ plan.alert.src = j.src /\ plan.alert.dst = j.dst
    <3>1. /\ plan.incident # None /\ plan.incident.src = plan.alert.src
          /\ plan.incident.dst = plan.alert.dst
      BY <2>3 DEF Sound
    <3>2. {l \in links' : l[1] = plan.alert.id} = {<<plan.alert.id, plan.incident.key>>}
      <4>1. \A l \in links : l[1] # plan.alert.id
        <5>1. ASSUME NEW l \in links, l[1] = plan.alert.id PROVE FALSE
          <6>1. l \in {a.id : a \in alerts} \X {i.key : i \in incidents}
            BY DEF TableTypes
          <6>2. PICK a \in alerts : l[1] = a.id
            BY <6>1
          <6> QED
            BY <2>1, <3>1, <5>1, <6>2
        <5> QED
          BY <5>1
      <4>2. links' = links \cup {<<plan.alert.id, plan.incident.key>>}
        BY <3>1
      <4> QED
        BY <4>1, <4>2
    <3>3. \E j \in incidents' : Same(j, plan.incident)
      <4>1. CASE plan.was = None
        BY <3>1, <4>1 DEF Same
      <4>2. CASE plan.was # None
        <5>1. PICK i \in incidents : Same(i, plan.was)
          BY <4>2 DEF Sound
        <5>2. PICK j \in incidents' : Same(i, j)
          BY <1>1 DEF Grows
        <5>3. Same(plan.incident, plan.was)
          BY <4>2 DEF Sound
        <5> QED
          BY <5>1, <5>2, <5>3 DEF Same
      <4> QED
        BY <4>1, <4>2
    <3> QED
      BY <3>1, <3>2, <3>3 DEF Same
  <2> QED
    BY <2>2, <2>3 DEF AlertInOneIncident
<1> QED
  BY <1>1, <1>2, <1>3, <1>4

\* The step that stores, with its collisions, keeps the invariant.
LEMMA StoreKeeps == ASSUME IInv, NEW p \in Process, Store(p) PROVE IInv'
<1>1. /\ UNCHANGED outputs /\ tx[p].step = "store" /\ committed' = committed
      /\ deadLetters' = deadLetters /\ dropped' = dropped /\ published' = published
  BY DEF Store, outputs
<1>2. Grows /\ TableInv'
  <2>1. CASE UNCHANGED tables
    BY <1>1, <2>1, TablesStay
  <2>2. CASE tx[p].plan # None /\ ~Collides(tx[p].plan) /\ StorePlan(tx[p].plan)
    <3>1. tx[p].plan \in Plan /\ Sound(tx[p].plan)
      BY <2>2 DEF IInv, TxInv, PlansSound, TxRecord
    <3>2. PICK plan : plan = tx[p].plan
      OBVIOUS
    <3>3. plan \in Plan /\ Sound(plan) /\ ~Collides(plan) /\ StorePlan(plan)
      BY <2>2, <3>1, <3>2
    <3> QED
      BY <1>1, <3>3, StoreKeepsTables
  <2> QED
    BY <2>1, <2>2 DEF Store
<1>3. PICK s \in {"failed", "publish"} : Goto(p, s)
  BY DEF Store
<1>4. s \in Step \ {"idle", "analyze"} /\ s # "settle"
  BY DEF Step
<1>5. TxInv'
  BY <1>1, <1>2, <1>3, <1>4, GotoStep
<1>6. PastInv'
  BY <1>1, <1>2, PastStays
<1> QED
  BY <1>2, <1>5, <1>6 DEF IInv

\* The topic is written only for an event that has a detection by then, and the offset
\* is up for the commit only then, or after the dead letter.
LEMMA PublishKeeps == ASSUME IInv, NEW w \in Worker, Publish(w) PROVE IInv'
<1>1. /\ UNCHANGED tables /\ deadLetters' = deadLetters /\ dropped' = dropped
      /\ committed' = committed /\ tx[w].step = "publish" /\ w \in Process
  BY DEF Publish, Process
<1>2. Grows /\ TableInv'
  BY <1>1, TablesStay
<1>3. ASSUME NEW d \in detections, d.id = EventId(tx[w].payload)
      PROVE  Kept(EventId(tx[w].payload)) /\ Settled(w)
  <2>1. Kept(d.id)
    BY DEF IInv, TableInv, DetectionsKept
  <2>2. tx[w].payload = Log[w][committed[w] + 1]
    BY <1>1 DEF IInv, TxInv, InOrder
  <2> QED
    BY <1>3, <2>1, <2>2 DEF Settled, Accounted
<1>4. PastInv'
  <2>1. \/ published' = published
        \/ /\ published' = published \cup {EventId(tx[w].payload)}
           /\ \E d \in detections : d.id = EventId(tx[w].payload)
    BY DEF Publish
  <2>2. \A id \in published' : id \in published \/ \E e \in events' : EventId(e) = id
    BY <1>2, <1>3, <2>1 DEF Kept, Grows
  <2> QED
    BY <1>1, <1>2, <2>2, PastStays
<1>5. TxInv'
  <2>1. CASE Goto(w, "failed")
    BY <1>1, <1>2, <2>1, GotoStep DEF Step
  <2>2. CASE Goto(w, "settle") /\ \E d \in detections : d.id = EventId(tx[w].payload)
    <3>1. Settled(w)'
      BY <1>1, <1>2, <1>3, <2>2, SettledStays
    <3>2. "settle" \in Step \ {"idle", "analyze"}
      BY DEF Step
    <3> QED
      BY <1>1, <1>2, <2>2, <3>1, <3>2, GotoStep
  <2> QED
    BY <2>1, <2>2 DEF Publish
<1> QED
  BY <1>2, <1>4, <1>5 DEF IInv

\* Writing a dead letter keeps the invariant.
LEMMA DeadLetterKeeps == ASSUME IInv, NEW w \in Worker, DeadLetter(w) PROVE IInv'
<1>1. /\ UNCHANGED tables /\ deadLetters \subseteq deadLetters' /\ dropped \subseteq dropped'
      /\ committed' = committed /\ published' = published /\ tx[w].step = "failed" /\ w \in Process
      /\ Goto(w, "settle")
  BY DEF DeadLetter, Process
<1>2. Grows /\ TableInv'
  BY <1>1, TablesStay
<1>3. PastInv'
  BY <1>1, <1>2, PastStays
<1>4. Settled(w)'
  <2>1. <<w, committed'[w] + 1>> \in deadLetters' \cup dropped'
    BY <1>1 DEF DeadLetter
  <2> QED
    BY <2>1 DEF Settled, Accounted
<1>5. TxInv'
  <2>1. "settle" \in Step \ {"idle", "analyze"}
    BY DEF Step
  <2> QED
    BY <1>1, <1>2, <1>4, <2>1, GotoStep
<1> QED
  BY <1>2, <1>3, <1>5 DEF IInv

\* Committing the offset keeps the invariant: the message is settled.
LEMMA CommitKeeps == ASSUME IInv, NEW w \in Worker, CommitOffset(w) PROVE IInv'
<1>1. /\ UNCHANGED tables /\ deadLetters' = deadLetters /\ dropped' = dropped
      /\ committed' = [committed EXCEPT ![w] = @ + 1] /\ published' = published
      /\ tx[w].step = "settle" /\ w \in Process /\ Done(w)
  BY DEF CommitOffset, Process
<1>2. Grows /\ TableInv'
  BY <1>1, TablesStay
<1>3. \A v \in Worker : committed'[v] = IF v = w THEN committed[w] + 1 ELSE committed[v]
  BY <1>1 DEF IInv, PastInv
<1>4. TxInv'
  BY <1>1, <1>2, <1>3, DoneStep
<1>5. Settled(w) /\ committed[w] < Len(Log[w])
  BY <1>1 DEF IInv, TxInv, InOrder
<1>6. committed' \in [Worker -> Nat] /\ \A v \in Worker : committed'[v] \in 0..Len(Log[v])
  <2>1. \A v \in Worker : Len(Log[v]) \in Nat
    BY ProcessAssumption
  <2> QED
    BY <1>1, <1>3, <1>5, <2>1 DEF IInv, PastInv
<1>7. ASSUME NEW v \in Worker, NEW n \in 1..committed'[v] PROVE Accounted(v, n)'
  <2>1. Accounted(v, n)
    <3>1. CASE n \in 1..committed[v]
      BY <3>1 DEF IInv, PastInv, MessagesAccountedFor, Accounted, Kept
    <3>2. CASE n \notin 1..committed[v]
      <4>1. v = w /\ n = committed[w] + 1
        BY <1>3, <3>2 DEF IInv, PastInv
      <4> QED
        BY <1>5, <4>1 DEF Settled
    <3> QED
      BY <3>1, <3>2
  <2> QED
    BY <1>2, <2>1, AccountedStays
<1>8. MessagesAccountedFor'
  BY <1>7 DEF MessagesAccountedFor, Accounted, Kept
<1>9. PublishedWasStored'
  BY <1>1, <1>2 DEF IInv, PastInv, PublishedWasStored, Grows
<1> QED
  BY <1>2, <1>4, <1>6, <1>8, <1>9 DEF IInv, PastInv

\* The other steps of a worker or a client leave the tables and the dead letters alone.
LEMMA OtherStepsKeep ==
    ASSUME IInv, NEW p \in Process,
           \/ p \in Worker /\ Fetch(p)
           \/ p \in Client /\ (Submit(p) \/ Respond(p))
           \/ Crash(p)
    PROVE  IInv'
<1>1. UNCHANGED <<tables, outputs>>
  BY DEF Fetch, Submit, Respond, Crash
<1>2. Grows /\ TableInv' /\ committed' = committed /\ published' = published
  BY <1>1, TablesStay DEF outputs
<1>3. PastInv'
  BY <1>2, PastStays
<1>4. CASE Respond(p) \/ Crash(p)
  <2>1. TxInv'
    BY <1>2, <1>4, DoneStep DEF Respond, Crash
  <2> QED
    BY <1>2, <1>3, <2>1 DEF IInv
<1>5. CASE p \in Worker /\ Fetch(p)
  <2>1. PICK q : q = Log[p][committed[p] + 1]
    OBVIOUS
  <2>2. committed[p] < Len(Log[p]) /\ q \in {None} \cup Payload
    <3>1. Log[p] \in Seq(Payload \cup {None, Unreadable}) /\ committed[p] \in Nat
      BY <1>5, ProcessAssumption DEF IInv, PastInv
    <3>2. committed[p] < Len(Log[p]) /\ q # Unreadable
      BY <1>5, <2>1 DEF Fetch
    <3>3. committed[p] + 1 \in 1..Len(Log[p])
      BY <3>1, <3>2
    <3>4. q \in Payload \cup {None, Unreadable}
      BY <2>1, <3>1, <3>3
    <3> QED
      BY <3>2, <3>4
  <2>3. tx' = [tx EXCEPT ![p] = [Idle EXCEPT !.payload = q,
                   !.step = IF q = None THEN "failed" ELSE "analyze"]]
    BY <1>5, <2>1 DEF Fetch
  <2>4. TxInv'
    BY <1>2, <2>1, <2>2, <2>3, BeginStep
  <2> QED
    BY <1>2, <1>3, <2>4 DEF IInv
<1>6. CASE p \in Client /\ Submit(p)
  <2>1. PICK q \in Request : tx' = [tx EXCEPT ![p] = [Idle EXCEPT !.payload = q, !.step = "analyze"]]
    BY <1>6 DEF Submit
  <2>2. q \in Payload /\ q # None /\ p \notin Worker
    BY <1>6, ProcessAssumption, NoneAssumption
  <2>3. tx' = [tx EXCEPT ![p] = [Idle EXCEPT !.payload = q,
                   !.step = IF q = None THEN "failed" ELSE "analyze"]]
    BY <2>1, <2>2
  <2>4. TxInv'
    BY <1>2, <2>2, <2>3, BeginStep
  <2> QED
    BY <1>2, <1>3, <2>4 DEF IInv
<1> QED
  BY <1>4, <1>5, <1>6

\* The analyst changes a status, which no key and no link depends on.
LEMMA SetStatusKeeps == ASSUME IInv, SetIncidentStatus PROVE IInv'
<1> USE DEF IInv, TableInv
<1>1. UNCHANGED <<events, detections, alerts, links, intel, outputs, tx>>
  BY DEF SetIncidentStatus
<1>2. PICK i \in incidents, s \in {"open", "closed"} :
          incidents' = (incidents \ {i}) \cup {[i EXCEPT !.status = s]}
  BY DEF SetIncidentStatus
<1> DEFINE k == [i EXCEPT !.status = s]
<1>3. k \in Incident /\ Same(i, k)
  BY DEF TableTypes, Incident, Same
<1>13. incidents' = (incidents \ {i}) \cup {k}
  BY <1>2
<1> HIDE DEF k
<1>4. \A j \in incidents : \E l \in incidents' : Same(j, l)
  BY <1>2, <1>3 DEF Same, k
<1>5. Grows
  BY <1>1, <1>4 DEF Grows, outputs
<1>6. OneRowPerKey'
  <2>1. ASSUME NEW j \in incidents', NEW l \in incidents', j.key = l.key PROVE j = l
    <3>1. \A m \in incidents' : m = k \/ (m \in incidents /\ m # i)
      BY <1>13
    <3>2. \A m \in incidents : m # i => m.key # k.key
      BY <1>3 DEF OneRowPerKey, Same
    <3> QED
      BY <2>1, <3>1, <3>2 DEF OneRowPerKey
  <2> QED
    BY <2>1 DEF OneRowPerKey
<1>7. TableTypes'
  <2>1. incidents' \subseteq Incident
    BY <1>2, <1>3 DEF TableTypes, k
  <2>2. {j.key : j \in incidents} \subseteq {j.key : j \in incidents'}
    BY <1>4 DEF Same
  <2> QED
    BY <1>1, <2>1, <2>2 DEF TableTypes
<1>8. AlertInOneIncident'
  BY <1>1, <1>4 DEF AlertInOneIncident, Same
<1>9. FiniteTables' /\ DetectionsKept'
  BY <1>1 DEF FiniteTables, DetectionsKept, Kept
<1>10. committed' = committed /\ published' = published
  BY <1>1 DEF outputs
<1>11. PastInv'
  BY <1>5, <1>10, PastStays
<1>12. TxInv'
  BY <1>1, <1>5, <1>10, TxStays
<1> QED
  BY <1>5, <1>6, <1>7, <1>8, <1>9, <1>11, <1>12

\* Retention takes detections, and alerts lose their owner only.
LEMMA CleanupKeeps == ASSUME IInv, Cleanup PROVE IInv'
<1> USE DEF IInv, TableInv
<1>1. UNCHANGED <<events, incidents, links, intel, outputs, tx>> /\ detections' \subseteq detections
  BY DEF Cleanup
<1>2. PICK gone : alerts' = {[a EXCEPT !.owned = @ /\ ~ \E d \in gone : d.id = a.id] : a \in alerts}
  BY DEF Cleanup
<1> DEFINE f == [a \in alerts |-> [a EXCEPT !.owned = @ /\ ~ \E d \in gone : d.id = a.id]]
<1>3. \A a \in alerts : f[a] \in Alert /\ f[a].id = a.id /\ f[a].src = a.src /\ f[a].dst = a.dst
  BY DEF TableTypes, Alert
<1>4. alerts' = {f[a] : a \in alerts} /\ f = [a \in alerts |-> f[a]]
  BY <1>2
<1> HIDE DEF f
<1>5. \A b \in alerts' : \E a \in alerts : b = f[a]
  BY <1>4
<1>6. \A a \in alerts : f[a] \in alerts'
  BY <1>4
<1>7. Grows
  BY <1>1, <1>3, <1>6 DEF Grows, outputs, Same
<1>8. FiniteTables'
  <2>1. f \in Surjection(alerts, alerts')
    BY <1>4 DEF Surjection
  <2> QED
    BY <1>1, <2>1, FS_Surjection DEF FiniteTables
<1>9. TableTypes'
  <2>1. alerts' \subseteq Alert
    BY <1>3, <1>5
  <2>2. {a.id : a \in alerts} \subseteq {a.id : a \in alerts'}
    BY <1>3, <1>6
  <2> QED
    BY <1>1, <2>1, <2>2 DEF TableTypes
<1>10. AlertInOneIncident'
  BY <1>1, <1>3, <1>5 DEF AlertInOneIncident
<1>11. DetectionsKept'
  <2>1. \A d \in detections : Kept(d.id)'
    BY <1>7, KeptStays DEF DetectionsKept
  <2> QED
    BY <1>1, <2>1 DEF DetectionsKept
<1>12. OneRowPerKey'
  BY <1>1 DEF OneRowPerKey
<1>13. committed' = committed /\ published' = published
  BY <1>1 DEF outputs
<1>14. PastInv'
  BY <1>7, <1>13, PastStays
<1>15. TxInv'
  BY <1>1, <1>7, <1>13, TxStays
<1> QED
  BY <1>8, <1>9, <1>10, <1>11, <1>12, <1>14, <1>15

\* The expiry of cached intelligence keeps the invariant.
LEMMA ExpiryKeeps == ASSUME IInv, IntelExpires PROVE IInv'
<1> USE DEF IInv, TableInv
<1>1. /\ UNCHANGED <<events, detections, alerts, incidents, links, outputs, tx>>
      /\ intel' \subseteq intel
  BY DEF IntelExpires
<1>2. Grows
  BY <1>1 DEF Grows, Same, outputs
<1>3. TableInv'
  BY <1>1 DEF TableTypes, FiniteTables, OneRowPerKey, DetectionsKept, Kept, AlertInOneIncident
<1>4. committed' = committed /\ published' = published
  BY <1>1 DEF outputs
<1>5. PastInv'
  BY <1>2, <1>4, PastStays
<1>6. TxInv'
  BY <1>1, <1>2, <1>4, TxStays
<1> QED
  BY <1>3, <1>5, <1>6

\* Every step keeps the invariant.
LEMMA NextIInv == IInv /\ [Next]_vars => IInv'
<1> SUFFICES ASSUME IInv, [Next]_vars PROVE IInv'
  OBVIOUS
<1>1. CASE UNCHANGED vars
  <2>1. UNCHANGED <<tables, outputs, tx>>
    BY <1>1 DEF vars
  <2>2. Grows /\ TableInv' /\ committed' = committed /\ published' = published
    BY <2>1, TablesStay DEF outputs
  <2>3. TxInv' /\ PastInv'
    BY <2>1, <2>2, TxStays, PastStays
  <2> QED
    BY <2>2, <2>3 DEF IInv
<1>2. ASSUME NEW w \in Worker, Handle(w) PROVE IInv'
  <2>1. w \in Process
    BY DEF Process
  <2> QED
    BY <1>2, <2>1, AnalyzeKeeps, StoreKeeps, PublishKeeps, DeadLetterKeeps, CommitKeeps,
       OtherStepsKeep DEF Handle
<1>3. ASSUME NEW c \in Client, Submit(c) \/ Analyze(c) \/ Store(c) \/ Respond(c) PROVE IInv'
  <2>1. c \in Process
    BY DEF Process
  <2> QED
    BY <1>3, <2>1, AnalyzeKeeps, StoreKeeps, OtherStepsKeep
<1>4. ASSUME NEW p \in Process, Crash(p) PROVE IInv'
  BY <1>4, OtherStepsKeep
<1> QED
  BY <1>1, <1>2, <1>3, <1>4, SetStatusKeeps, CleanupKeeps, ExpiryKeeps DEF Next

-----------------------------------------------------------------------------
\* The tables, offsets and transactions keep their types.
THEOREM NdrTypes == Spec => []TypeOK
<1>1. IInv => TypeOK
  BY DEF IInv, TableInv, TableTypes, TxInv, TxRecord, PastInv, TypeOK
<1> QED
  BY InitIInv, NextIInv, <1>1, PTL DEF Spec

\* An event that the detections topic names is in the tables: the record is sent after
\* the commit, and nothing removes the event.
THEOREM PublishedIsStored == Spec => []PublishedWasStored
<1>1. IInv => PublishedWasStored
  BY DEF IInv, PastInv
<1> QED
  BY InitIInv, NextIInv, <1>1, PTL DEF Spec

\* A message the group has moved past is stored, with its alert when it is due one by
\* itself, or dead-lettered, or its dead letter failed: through redeliveries, crashes
\* and collisions, and whatever the tables held when it was analyzed.
THEOREM MessagesAreAccountedFor == Spec => []MessagesAccountedFor
<1>1. IInv => MessagesAccountedFor
  BY DEF IInv, PastInv
<1> QED
  BY InitIInv, NextIInv, <1>1, PTL DEF Spec

\* An alert is linked to exactly one incident, of its pair of addresses, and no two
\* incidents share a key: between the reading of the tables and the writing any other
\* transaction, an analyst and the retention job may come in.
THEOREM AlertsHaveOneIncident == Spec => [](AlertInOneIncident /\ OneRowPerKey)
<1>1. IInv => AlertInOneIncident /\ OneRowPerKey
  BY DEF IInv, TableInv
<1> QED
  BY InitIInv, NextIInv, <1>1, PTL DEF Spec
=============================================================================
