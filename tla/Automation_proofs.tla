-------------------------- MODULE Automation_proofs --------------------------
(***************************************************************************)
(* What holds of the conflict insight, the policy store, the recorded      *)
(* evaluations and the grants for every set of policies, rules, requests,  *)
(* administrators and threads.                                             *)
(*                                                                         *)
(*   1. overlaps and subsets of rules, dimension by dimension              *)
(*   2. the order of the evaluation: a specificity exists and is a number, *)
(*      the candidates are well ordered, and there is a first one          *)
(*   3. StoreInv, the types and the constraints of the tables              *)
(*   4. a fully shadowed rule is never the first candidate                 *)
(*   5. versions: what was read is what is stored, or of an older version  *)
(*   6. the cap of a grant                                                 *)
(*                                                                         *)
(* Facts about finite sets of any size (2) are proved by a minimal         *)
(* counterexample: strict inclusion is well founded on the subsets of a    *)
(* finite set.                                                             *)
(***************************************************************************)
EXTENDS Automation, FiniteSetTheorems, WellFoundedInduction, SequenceTheorems, TLAPS

\* An entry stands for the values it matches, and there is at least one.
LEMMA EntriesNonempty ==
    ASSUME NEW k \in Key, NEW e \in Entry[k]
    PROVE  e # {}
<1>1. \A j \in Key : {} \notin Entry[j]
  BY PolicyRulesAssumption
<1>2. {} \notin Entry[k]
  BY <1>1
<1> QED BY <1>2

\* Two entries overlap, by their text, exactly when they have a value in common.
LEMMA EntriesOverlapExact ==
    ASSUME NEW k \in Key, NEW e \in Entry[k], NEW f \in Entry[k]
    PROVE  EntriesOverlap(k, e, f) <=> e \cap f # {}
<1>1. e # {} /\ f # {}
  BY EntriesNonempty
<1>2. CASE Matcher[k] = "exact"
  <2>1. e = f \/ e \cap f = {}
    BY <1>2, PolicyRulesAssumption
  <2> QED BY <1>1, <1>2, <2>1 DEF EntriesOverlap
<1>3. CASE Matcher[k] = "prefix"
  <2>1. e \subseteq f \/ f \subseteq e \/ e \cap f = {}
    BY <1>3, PolicyRulesAssumption
  <2>2. EntriesOverlap(k, e, f) <=> e \subseteq f \/ f \subseteq e
    BY <1>3 DEF EntriesOverlap
  <2> QED BY <1>1, <2>1, <2>2
<1>4. CASE Matcher[k] = "network"
  BY <1>4 DEF EntriesOverlap
<1> QED
  BY <1>2, <1>3, <1>4, PolicyRulesAssumption

\* Scopes overlap exactly when some target is in both.
LEMMA ScopesOverlapExact ==
    ASSUME NEW s \in Scope, NEW t \in Scope
    PROVE  ScopesOverlap(s, t) <=>
             \E v \in [Key -> {None} \cup UNION {Value(k) : k \in Key}] :
                 /\ \A k \in Key : v[k] \in {None} \cup Value(k)
                 /\ ScopeMatches(s, v) /\ ScopeMatches(t, v)
<1> DEFINE Common(k, x) == /\ s[k] # {} => \E e \in s[k] : x \in e
                           /\ t[k] # {} => \E e \in t[k] : x \in e
           Choices(k) == {None} \cup Value(k)
<1>1. \A k \in Key : s[k] \subseteq Entry[k] /\ t[k] \subseteq Entry[k]
  BY DEF Scope
<1>2. ASSUME ScopesOverlap(s, t), NEW k \in Key
      PROVE  \E x \in Choices(k) : Common(k, x)
  <2>1. CASE s[k] # {} /\ t[k] # {}
    <3>1. PICK e \in s[k], f \in t[k] : EntriesOverlap(k, e, f)
      BY <1>2, <2>1 DEF ScopesOverlap
    <3>2. PICK x \in e : x \in f
      BY <1>1, <3>1, EntriesOverlapExact
    <3>3. x \in Value(k)
      BY <1>1, <3>1, <3>2 DEF Value
    <3> QED BY <3>1, <3>2, <3>3
  <2>2. CASE s[k] # {} /\ t[k] = {}
    <3>1. PICK e \in s[k] : TRUE
      BY <2>2
    <3>2. PICK x \in e : TRUE
      <4>1. e # {}
        BY <1>1, <3>1, EntriesNonempty
      <4> QED BY <4>1
    <3>3. x \in Value(k)
      BY <1>1, <3>1, <3>2 DEF Value
    <3> QED BY <2>2, <3>1, <3>2, <3>3
  <2>3. CASE s[k] = {} /\ t[k] # {}
    <3>1. PICK e \in t[k] : TRUE
      BY <2>3
    <3>2. PICK x \in e : TRUE
      <4>1. e # {}
        BY <1>1, <3>1, EntriesNonempty
      <4> QED BY <4>1
    <3>3. x \in Value(k)
      BY <1>1, <3>1, <3>2 DEF Value
    <3> QED BY <2>3, <3>1, <3>2, <3>3
  <2>4. CASE s[k] = {} /\ t[k] = {}
    BY <2>4
  <2> QED BY <2>1, <2>2, <2>3, <2>4
<1>3. ASSUME ScopesOverlap(s, t)
      PROVE  \E v \in [Key -> {None} \cup UNION {Value(k) : k \in Key}] :
                 /\ \A k \in Key : v[k] \in Choices(k)
                 /\ ScopeMatches(s, v) /\ ScopeMatches(t, v)
  <2> DEFINE v == [k \in Key |-> CHOOSE x \in Choices(k) : Common(k, x)]
  <2>1. \A k \in Key : v[k] \in Choices(k) /\ Common(k, v[k])
    <3> SUFFICES ASSUME NEW k \in Key PROVE v[k] \in Choices(k) /\ Common(k, v[k])
      OBVIOUS
    <3>1. \E x \in Choices(k) : Common(k, x)
      BY <1>2, <1>3
    <3>2. v[k] = CHOOSE x \in Choices(k) : Common(k, x)
      OBVIOUS
    <3> HIDE DEF v, Choices, Common
    <3> QED BY <3>1, <3>2
  <2>2. v \in [Key -> {None} \cup UNION {Value(k) : k \in Key}]
    <3>1. \A k \in Key : v[k] \in {None} \cup UNION {Value(j) : j \in Key}
      BY <2>1
    <3> QED BY <3>1
  <2>3. ScopeMatches(s, v) /\ ScopeMatches(t, v)
    <3> HIDE DEF v
    <3> QED BY <2>1 DEF ScopeMatches
  <2> HIDE DEF v
  <2> QED BY <2>1, <2>2, <2>3
<1>4. ASSUME NEW v, ScopeMatches(s, v), ScopeMatches(t, v)
      PROVE  ScopesOverlap(s, t)
  <2> SUFFICES ASSUME NEW k \in Key, s[k] # {}, t[k] # {}
               PROVE  \E e \in s[k], f \in t[k] : EntriesOverlap(k, e, f)
    BY DEF ScopesOverlap
  <2>1. PICK e \in s[k] : v[k] \in e
    BY <1>4 DEF ScopeMatches
  <2>2. PICK f \in t[k] : v[k] \in f
    BY <1>4 DEF ScopeMatches
  <2> QED BY <1>1, <2>1, <2>2, EntriesOverlapExact
<1> QED BY <1>3, <1>4

\* A conflict is reported exactly when some request is matched by both rules, for
\* rules of any actions, ranges and scopes.
THEOREM OverlapIsExact == \A a, b \in Rule : OverlapsExactly(a, b)
<1> SUFFICES ASSUME NEW a \in Rule, NEW b \in Rule
             PROVE  RulesOverlap(a, b) <=>
                        \E q \in Request : RuleMatches(a, q) /\ RuleMatches(b, q)
  BY DEF OverlapsExactly
<1>1. /\ a.type \in ActionType \cup {Wild} /\ b.type \in ActionType \cup {Wild}
      /\ a.name \in ActionName \cup {Wild} /\ b.name \in ActionName \cup {Wild}
      /\ a.severity \in Severity \cup {Wild} /\ b.severity \in Severity \cup {Wild}
      /\ a.minRisk \in 0..MaxRisk /\ a.maxRisk \in 0..MaxRisk /\ a.minRisk <= a.maxRisk
      /\ b.minRisk \in 0..MaxRisk /\ b.maxRisk \in 0..MaxRisk /\ b.minRisk <= b.maxRisk
      /\ a.scope \in Scope /\ b.scope \in Scope
  BY DEF Rule
<1>2. ASSUME RulesOverlap(a, b)
      PROVE  \E q \in Request : RuleMatches(a, q) /\ RuleMatches(b, q)
  <2>1. PICK type \in ActionType : a.type \in {Wild, type} /\ b.type \in {Wild, type}
    BY <1>1, <1>2, PolicyRulesAssumption DEF RulesOverlap, ActionsOverlap
  <2>2. PICK name \in ActionName : a.name \in {Wild, name} /\ b.name \in {Wild, name}
    BY <1>1, <1>2, PolicyRulesAssumption DEF RulesOverlap, ActionsOverlap
  <2>3. PICK sev \in Severity : a.severity \in {Wild, sev} /\ b.severity \in {Wild, sev}
    BY <1>1, <1>2, PolicyRulesAssumption DEF RulesOverlap, SeverityOverlap
  <2>4. PICK risk \in 0..MaxRisk : /\ a.minRisk <= risk /\ risk <= a.maxRisk
                                   /\ b.minRisk <= risk /\ risk <= b.maxRisk
    <3>1. CASE a.minRisk <= b.minRisk
      BY <1>1, <1>2, <3>1, PolicyRulesAssumption DEF RulesOverlap, RiskOverlap
    <3>2. CASE b.minRisk <= a.minRisk
      BY <1>1, <1>2, <3>2, PolicyRulesAssumption DEF RulesOverlap, RiskOverlap
    <3> QED BY <1>1, <3>1, <3>2
  <2>5. PICK v \in [Key -> {None} \cup UNION {Value(k) : k \in Key}] :
               /\ \A k \in Key : v[k] \in {None} \cup Value(k)
               /\ ScopeMatches(a.scope, v) /\ ScopeMatches(b.scope, v)
    BY <1>1, <1>2, ScopesOverlapExact DEF RulesOverlap
  <2> DEFINE q == [type |-> type, name |-> name, risk |-> risk, severity |-> sev, target |-> v]
  <2>6. q \in Request
    BY <2>5 DEF Request
  <2>7. RuleMatches(a, q) /\ RuleMatches(b, q)
    BY <2>1, <2>2, <2>3, <2>4, <2>5 DEF RuleMatches
  <2> QED BY <2>6, <2>7
<1>3. ASSUME NEW q \in Request, RuleMatches(a, q), RuleMatches(b, q)
      PROVE  RulesOverlap(a, b)
  <2>1. /\ q.target \in [Key -> {None} \cup UNION {Value(k) : k \in Key}]
        /\ \A k \in Key : q.target[k] \in {None} \cup Value(k)
        /\ q.risk \in 0..MaxRisk
    BY DEF Request
  <2>2. ScopesOverlap(a.scope, b.scope)
    BY <1>1, <1>3, <2>1, ScopesOverlapExact DEF RuleMatches
  <2>3. a.minRisk <= b.maxRisk /\ b.minRisk <= a.maxRisk
    BY <1>1, <1>3, <2>1, PolicyRulesAssumption DEF RuleMatches
  <2> QED BY <1>3, <2>2, <2>3
    DEF RuleMatches, RulesOverlap, ActionsOverlap, RiskOverlap, SeverityOverlap
<1> QED BY <1>2, <1>3

\* What is reported as fully shadowed matches no request of its own, for rules of any
\* actions, ranges and scopes.
THEOREM SubsetIsSound == \A a, b \in Rule : SubsetSoundly(a, b)
<1> SUFFICES ASSUME NEW a \in Rule, NEW b \in Rule, RuleSubset(a, b),
                    NEW q \in Request, RuleMatches(a, q)
             PROVE  RuleMatches(b, q)
  BY DEF SubsetSoundly
<1>1. q.type \in ActionType /\ q.name \in ActionName /\ q.severity \in Severity
  BY DEF Request
<1>2. b.type \in {Wild, q.type} /\ b.name \in {Wild, q.name} /\ b.severity \in {Wild, q.severity}
  BY <1>1, PolicyRulesAssumption DEF RuleSubset, RuleMatches
<1>3. b.minRisk <= q.risk /\ q.risk <= b.maxRisk
  <2>1. /\ a.minRisk \in Int /\ a.maxRisk \in Int /\ b.minRisk \in Int /\ b.maxRisk \in Int
        /\ q.risk \in Int
    BY PolicyRulesAssumption DEF Rule, Request
  <2> QED BY <2>1 DEF RuleSubset, RuleMatches
<1>4. ScopeMatches(b.scope, q.target)
  <2> SUFFICES ASSUME NEW k \in Key, b.scope[k] # {}
               PROVE  \E f \in b.scope[k] : q.target[k] \in f
    BY DEF ScopeMatches
  <2>1. a.scope[k] # {}
    BY DEF RuleSubset, ScopeSubset
  <2>2. PICK e \in a.scope[k] : q.target[k] \in e
    BY <2>1 DEF RuleMatches, ScopeMatches
  <2>3. PICK f \in b.scope[k] : IF Matcher[k] = "exact" THEN e = f ELSE e \subseteq f
    BY <2>2 DEF RuleSubset, ScopeSubset
  <2> QED BY <2>2, <2>3
<1> QED BY <1>2, <1>3, <1>4 DEF RuleMatches

\* What the insight says of a sample of rules stays true while policies are edited,
\* simulated and executed: the overlaps it reports are exact.
THEOREM InsightIsExact == Spec => []OverlapExact
<1>1. OverlapExact
  BY SampleAssumption, OverlapIsExact DEF OverlapExact
<1> QED
  BY <1>1, PTL

\* And so are the rules it reports inside another.
THEOREM InsightIsSound == Spec => []SubsetSound
<1>1. SubsetSound
  BY SampleAssumption, SubsetIsSound DEF SubsetSound
<1> QED
  BY <1>1, PTL
\* A nonempty set of naturals has a least element.
LEMMA NatMinimum ==
    ASSUME NEW S \in SUBSET Nat, S # {}
    PROVE  \E n \in S : \A m \in S : n <= m
<1> DEFINE T == {1..n : n \in S}
<1>1. T \subseteq FiniteSubsetsOf(Nat) /\ T # {}
  <2>1. \A n \in Nat : IsFiniteSet(1..n) /\ 1..n \subseteq Nat
    BY FS_Interval
  <2> QED BY <2>1 DEF FiniteSubsetsOf
<1>2. PICK U \in T : \A V \in T : ~ (<<V, U>> \in StrictSubsetOrdering(Nat))
  <2>1. IsWellFoundedOn(StrictSubsetOrdering(Nat), FiniteSubsetsOf(Nat))
    BY FS_StrictSubsetOrderingWellFounded
  <2> HIDE DEF T
  <2> QED BY <1>1, <2>1, WFMin
<1>3. PICK n \in S : U = 1..n
  OBVIOUS
<1>4. ASSUME NEW m \in S, m < n PROVE FALSE
  <2>1. 1..m \subseteq 1..n /\ 1..m # 1..n /\ 1..m \subseteq Nat /\ 1..n \subseteq Nat
    <3>1. n \in 1..n /\ n \notin 1..m
      BY <1>4
    <3> QED BY <1>4, <3>1
  <2>2. <<1..m, 1..n>> \in StrictSubsetOrdering(Nat)
    BY <2>1 DEF StrictSubsetOrdering
  <2> QED BY <1>2, <1>3, <2>2
<1> QED BY <1>4

\* The recursive sum of weights over the subsets of Key is a function into Int
\* (finite recursion on the size of the set).
LEMMA SumExists ==
    ASSUME NEW w \in [Key -> Int]
    PROVE  \E h \in [SUBSET Key -> Int] :
               h = [K \in SUBSET Key |->
                       IF K = {} THEN 0
                       ELSE w[CHOOSE k \in K : TRUE] + h[K \ {CHOOSE k \in K : TRUE}]]
<1> DEFINE A(K) == CHOOSE k \in K : TRUE
           Step(h, K) == IF K = {} THEN 0 ELSE w[A(K)] + h[K \ {A(K)}]
           Good(n, h) == \A K \in SUBSET Key : Cardinality(K) <= n => h[K] = Step(h, K)
           Bad == {n \in Nat : ~ \E h \in [SUBSET Key -> Int] : Good(n, h)}
<1>1. \A K \in SUBSET Key : /\ IsFiniteSet(K) /\ Cardinality(K) \in Nat
                            /\ Cardinality(K) = 0 <=> K = {}
                            /\ Cardinality(K) <= Cardinality(Key)
  BY PolicyRulesAssumption, FS_Subset, FS_CardinalityType, FS_EmptySet
<1>2. \A K \in SUBSET Key : K # {} => /\ A(K) \in Key
                                      /\ K \ {A(K)} \in SUBSET Key
                                      /\ Cardinality(K \ {A(K)}) = Cardinality(K) - 1
  <2> SUFFICES ASSUME NEW K \in SUBSET Key, K # {}
               PROVE  /\ A(K) \in Key
                      /\ K \ {A(K)} \in SUBSET Key
                      /\ Cardinality(K \ {A(K)}) = Cardinality(K) - 1
    OBVIOUS
  <2>1. A(K) \in K
    OBVIOUS
  <2> HIDE DEF A
  <2> QED BY <1>1, <2>1, FS_RemoveElement
<1>3. ASSUME NEW h \in [SUBSET Key -> Int], NEW K \in SUBSET Key
      PROVE  Step(h, K) \in Int
  <2>1. CASE K = {}
    BY <2>1
  <2>2. CASE K # {}
    <3>1. w[A(K)] \in Int /\ h[K \ {A(K)}] \in Int
      <4> HIDE DEF A
      <4> QED BY <1>2, <1>3, <2>2
    <3> HIDE DEF A
    <3> QED BY <2>2, <3>1
  <2> HIDE DEF A
  <2> QED BY <2>1, <2>2
<1>4. Bad = {}
  <2> SUFFICES ASSUME Bad # {} PROVE FALSE
    OBVIOUS
  <2>1. PICK n \in Bad : \A m \in Bad : n <= m
    <3>1. Bad \subseteq Nat
      OBVIOUS
    <3> HIDE DEF Bad
    <3> QED BY <3>1, NatMinimum
  <2>2. n # 0
    <3> DEFINE z == [K \in SUBSET Key |-> 0]
    <3>1. z \in [SUBSET Key -> Int]
      OBVIOUS
    <3>2. Good(0, z)
      BY <1>1
    <3> HIDE DEF z, Good
    <3> QED BY <2>1, <3>1, <3>2
  <2>3. n - 1 \in Nat /\ n - 1 \notin Bad
    <3>1. n \in Nat /\ n - 1 \in Nat
      BY <2>2
    <3> HIDE DEF Bad
    <3> QED BY <2>1, <3>1
  <2>4. PICK h \in [SUBSET Key -> Int] : Good(n - 1, h)
    BY <2>3
  <2> DEFINE g == [K \in SUBSET Key |-> IF Cardinality(K) <= n - 1 THEN h[K] ELSE Step(h, K)]
  <2>5. g \in [SUBSET Key -> Int]
    <3> HIDE DEF Step
    <3> QED BY <1>3
  <2>6. Good(n, g)
    <3> SUFFICES ASSUME NEW K \in SUBSET Key, Cardinality(K) <= n
                 PROVE  g[K] = Step(g, K)
      OBVIOUS
    <3>1. CASE K = {}
      BY <1>1, <2>3, <2>4, <3>1
    <3>2. CASE K # {}
      <4>1. g[K] = Step(h, K)
        <5> HIDE DEF Step
        <5> QED BY <2>4
      <4>2. /\ K \ {A(K)} \in SUBSET Key
            /\ Cardinality(K \ {A(K)}) <= n - 1
        <5> HIDE DEF A
        <5>1. n \in Nat
          OBVIOUS
        <5> QED BY <1>1, <1>2, <3>2, <5>1
      <4>3. g[K \ {A(K)}] = h[K \ {A(K)}]
        <5> HIDE DEF A, Step
        <5> QED BY <4>2
      <4> HIDE DEF A, g
      <4> QED BY <3>2, <4>1, <4>3
    <3> QED BY <3>1, <3>2
  <2> HIDE DEF Good, g
  <2> QED BY <2>1, <2>5, <2>6
<1>5. PICK h \in [SUBSET Key -> Int] : Good(Cardinality(Key), h)
  <2>1. Cardinality(Key) \in Nat
    BY <1>1
  <2> HIDE DEF Good
  <2> QED BY <1>4, <2>1
<1>6. h = [K \in SUBSET Key |-> Step(h, K)]
  <2>1. \A K \in SUBSET Key : h[K] = Step(h, K)
    <3> HIDE DEF Step
    <3> QED BY <1>1, <1>5
  <2> HIDE DEF Step
  <2> QED BY <2>1
<1> QED BY <1>6

\* What that recursion gives for all of Key is an integer.
LEMMA SumIsInt ==
    ASSUME NEW w \in [Key -> Int], NEW h,
           h = [K \in SUBSET Key |->
                   IF K = {} THEN 0
                   ELSE w[CHOOSE k \in K : TRUE] + h[K \ {CHOOSE k \in K : TRUE}]]
    PROVE  h[Key] \in Int
<1> DEFINE Bad == {K \in SUBSET Key : h[K] \notin Int}
<1>1. ASSUME Bad # {} PROVE FALSE
  <2>1. PICK K \in Bad : \A L \in Bad : ~ (<<L, K>> \in StrictSubsetOrdering(Key))
    <3>1. Bad \subseteq FiniteSubsetsOf(Key)
      BY PolicyRulesAssumption, FS_FiniteSubsetsOfFinite
    <3>2. IsWellFoundedOn(StrictSubsetOrdering(Key), FiniteSubsetsOf(Key))
      BY FS_StrictSubsetOrderingWellFounded
    <3> HIDE DEF Bad
    <3> QED BY <1>1, <3>1, <3>2, WFMin
  <2>2. K # {}
    OBVIOUS
  <2> DEFINE k == CHOOSE k \in K : TRUE
  <2>3. k \in K /\ K \in SUBSET Key
    BY <2>2
  <2>4. h[K] = w[k] + h[K \ {k}]
    BY <2>2
  <2>5. h[K \ {k}] \notin Int
    <3> HIDE DEF k
    <3> QED BY <2>3, <2>4
  <2>6. <<K \ {k}, K>> \in StrictSubsetOrdering(Key)
    <3> HIDE DEF k
    <3> QED BY <2>3 DEF StrictSubsetOrdering
  <2> HIDE DEF k
  <2> QED BY <2>1, <2>3, <2>5, <2>6
<1> QED BY <1>1

\* The specificity of a scope is an integer, so that it can be compared.
LEMMA SpecificityIsInt == ASSUME NEW s \in Scope PROVE Specificity(s) \in Int
<1> DEFINE Points(n) == IF n = 0 THEN 0 ELSE 10 + (IF n < 10 THEN 10 - n ELSE 0)
           w == [k \in Key |-> Points(Cardinality(s[k]))]
           F(h) == [K \in SUBSET Key |->
                       IF K = {} THEN 0
                       ELSE w[CHOOSE k \in K : TRUE] + h[K \ {CHOOSE k \in K : TRUE}]]
           G(h) == [K \in SUBSET Key |->
                       IF K = {} THEN 0
                       ELSE LET k == CHOOSE k \in K : TRUE
                            IN  Points(Cardinality(s[k])) + h[K \ {k}]]
<1>1. w \in [Key -> Int]
  <2>1. \A k \in Key : Cardinality(s[k]) \in Nat
    BY FS_CardinalityType DEF Scope
  <2> QED BY <2>1
<1>2. \A h : F(h) = G(h)
  <2> SUFFICES ASSUME NEW h, NEW K \in SUBSET Key, K # {}
               PROVE w[CHOOSE k \in K : TRUE] = Points(Cardinality(s[CHOOSE k \in K : TRUE]))
    OBVIOUS
  <2>1. (CHOOSE k \in K : TRUE) \in Key
    OBVIOUS
  <2> HIDE DEF Points
  <2> QED BY <2>1
<1>3. PICK g \in [SUBSET Key -> Int] : g = F(g)
  BY <1>1, SumExists
<1>4. \E h : h = G(h)
  <2> HIDE DEF F, G
  <2> QED BY <1>2, <1>3
<1> DEFINE sum == CHOOSE h : h = G(h)
<1>5. sum = G(sum)
  <2> HIDE DEF G
  <2> QED BY <1>4
<1>6. sum[Key] \in Int
  <2>1. sum = F(sum)
    BY <1>2, <1>5
  <2> HIDE DEF sum, w
  <2> QED BY <1>1, <2>1, SumIsInt
<1>7. Specificity(s) = sum[Key]
  BY DEF Specificity
<1> QED BY <1>6, <1>7

\* A policy as an evaluation sees it.
Loadable == [id : Nat, mode : AutomationMode, enabled : BOOLEAN, expires : Nat,
             priority : Nat, version : Nat, rules : SUBSET Rule]

Candidate == [policy : Loadable, rule : Rule]

\* Precedes compares the five integers of the sort key from the first on.
LEMMA PrecedesIsLexicographic ==
    ASSUME NEW c \in Candidate, NEW d \in Candidate
    PROVE  /\ \A i \in 1..5 : SortKey(c)[i] \in Int
           /\ Precedes(c, d) <=>
                  \/ SortKey(c)[1] < SortKey(d)[1]
                  \/ SortKey(c)[1] = SortKey(d)[1] /\ SortKey(c)[2] < SortKey(d)[2]
                  \/ /\ SortKey(c)[1] = SortKey(d)[1] /\ SortKey(c)[2] = SortKey(d)[2]
                     /\ SortKey(c)[3] < SortKey(d)[3]
                  \/ /\ SortKey(c)[1] = SortKey(d)[1] /\ SortKey(c)[2] = SortKey(d)[2]
                     /\ SortKey(c)[3] = SortKey(d)[3] /\ SortKey(c)[4] < SortKey(d)[4]
                  \/ /\ SortKey(c)[1] = SortKey(d)[1] /\ SortKey(c)[2] = SortKey(d)[2]
                     /\ SortKey(c)[3] = SortKey(d)[3] /\ SortKey(c)[4] = SortKey(d)[4]
                     /\ SortKey(c)[5] < SortKey(d)[5]
<1>1. /\ c.rule.priority \in Int /\ c.policy.priority \in Int /\ c.policy.id \in Int
      /\ c.rule.id \in Int /\ c.rule.scope \in Scope
  BY DEF Candidate, Loadable, Rule
<1>2. Specificity(c.rule.scope) \in Int
  BY <1>1, SpecificityIsInt
<1>3. \A i \in 1..5 : SortKey(c)[i] \in Int
  BY <1>1, <1>2 DEF SortKey
<1> HIDE DEF SortKey
<1>4. 1..5 = {1, 2, 3, 4, 5}
  OBVIOUS
<1>5. /\ 1..(1 - 1) = {} /\ 1..(2 - 1) = {1} /\ 1..(3 - 1) = {1, 2} /\ 1..(4 - 1) = {1, 2, 3}
      /\ 1..(5 - 1) = {1, 2, 3, 4}
  OBVIOUS
<1> QED BY <1>3, <1>4, <1>5 DEF Precedes
\* Precedes is a strict order, total on candidates of different rules.
LEMMA PrecedesIsOrder ==
    ASSUME NEW c \in Candidate, NEW d \in Candidate, NEW e \in Candidate
    PROVE  /\ ~ (Precedes(c, d) /\ Precedes(d, c))
           /\ Precedes(c, d) /\ Precedes(d, e) => Precedes(c, e)
           /\ \/ Precedes(c, d) \/ Precedes(d, c)
              \/ c.policy.id = d.policy.id /\ c.rule.id = d.rule.id
<1>1. /\ \A i \in 1..5 : SortKey(c)[i] \in Int
      /\ \A i \in 1..5 : SortKey(d)[i] \in Int
      /\ \A i \in 1..5 : SortKey(e)[i] \in Int
  BY PrecedesIsLexicographic
<1>2. /\ SortKey(c)[4] = c.policy.id /\ SortKey(c)[5] = c.rule.id
      /\ SortKey(d)[4] = d.policy.id /\ SortKey(d)[5] = d.rule.id
  BY DEF SortKey
<1> DEFINE ck == SortKey(c)
           dk == SortKey(d)
           ek == SortKey(e)
           Lex(x, y) == \/ x[1] < y[1]
                        \/ x[1] = y[1] /\ x[2] < y[2]
                        \/ x[1] = y[1] /\ x[2] = y[2] /\ x[3] < y[3]
                        \/ x[1] = y[1] /\ x[2] = y[2] /\ x[3] = y[3] /\ x[4] < y[4]
                        \/ x[1] = y[1] /\ x[2] = y[2] /\ x[3] = y[3] /\ x[4] = y[4] /\ x[5] < y[5]
<1>3. /\ Precedes(c, d) <=> Lex(ck, dk)
      /\ Precedes(d, c) <=> Lex(dk, ck)
      /\ Precedes(d, e) <=> Lex(dk, ek)
      /\ Precedes(c, e) <=> Lex(ck, ek)
  <2> HIDE DEF Lex
  <2>1. Precedes(c, d) <=> Lex(ck, dk)
    BY PrecedesIsLexicographic DEF Lex
  <2>2. Precedes(d, c) <=> Lex(dk, ck)
    BY PrecedesIsLexicographic DEF Lex
  <2>3. Precedes(d, e) <=> Lex(dk, ek)
    BY PrecedesIsLexicographic DEF Lex
  <2>4. Precedes(c, e) <=> Lex(ck, ek)
    BY PrecedesIsLexicographic DEF Lex
  <2> QED BY <2>1, <2>2, <2>3, <2>4
<1>4. /\ \A i \in {1, 2, 3, 4, 5} : ck[i] \in Int /\ dk[i] \in Int /\ ek[i] \in Int
      /\ ck[4] = c.policy.id /\ ck[5] = c.rule.id /\ dk[4] = d.policy.id /\ dk[5] = d.rule.id
  BY <1>1, <1>2
<1> HIDE DEF ck, dk, ek
<1>5. /\ ck[1] \in Int /\ ck[2] \in Int /\ ck[3] \in Int /\ ck[4] \in Int /\ ck[5] \in Int
      /\ dk[1] \in Int /\ dk[2] \in Int /\ dk[3] \in Int /\ dk[4] \in Int /\ dk[5] \in Int
      /\ ek[1] \in Int /\ ek[2] \in Int /\ ek[3] \in Int /\ ek[4] \in Int /\ ek[5] \in Int
  BY <1>4
<1>6. ~ (Lex(ck, dk) /\ Lex(dk, ck))
  BY <1>5
<1>7. Lex(ck, dk) /\ Lex(dk, ek) => Lex(ck, ek)
  BY <1>5
<1>8. Lex(ck, dk) \/ Lex(dk, ck) \/ (ck[4] = dk[4] /\ ck[5] = dk[5])
  BY <1>5
<1> QED BY <1>3, <1>4, <1>6, <1>7, <1>8

\* Candidates are told apart by their ids.
Distinct(cs) == \A c, d \in cs : c.policy.id = d.policy.id /\ c.rule.id = d.rule.id => c = d

\* First picks the candidate that precedes all others of a finite set.
LEMMA FirstIsFirst ==
    ASSUME NEW cs \in SUBSET Candidate, IsFiniteSet(cs), cs # {}, Distinct(cs)
    PROVE  First(cs) \in cs /\ \A d \in cs \ {First(cs)} : Precedes(First(cs), d)
<1> DEFINE L(c) == {d \in cs : Precedes(d, c)}
           Below == {L(c) : c \in cs}
<1>1. Below \subseteq FiniteSubsetsOf(cs) /\ Below # {}
  <2>1. Below \subseteq SUBSET cs /\ Below # {}
    OBVIOUS
  <2> HIDE DEF Below
  <2> QED BY <2>1, FS_FiniteSubsetsOfFinite
<1>2. PICK B \in Below : \A A \in Below : ~ (<<A, B>> \in StrictSubsetOrdering(cs))
  <2>1. IsWellFoundedOn(StrictSubsetOrdering(cs), FiniteSubsetsOf(cs))
    BY FS_StrictSubsetOrderingWellFounded
  <2> HIDE DEF Below
  <2> QED BY <1>1, <2>1, WFMin
<1>3. PICK c \in cs : B = L(c)
  OBVIOUS
<1>4. ASSUME NEW d \in cs, d # c PROVE Precedes(c, d)
  <2> SUFFICES ASSUME Precedes(d, c) PROVE FALSE
    BY <1>4, PrecedesIsOrder DEF Distinct
  <2>1. L(d) \subseteq L(c)
    <3> SUFFICES ASSUME NEW x \in cs, Precedes(x, d) PROVE Precedes(x, c)
      OBVIOUS
    <3>1. x \in Candidate /\ d \in Candidate /\ c \in Candidate
      OBVIOUS
    <3> QED BY <3>1, PrecedesIsOrder
  <2>2. d \in L(c) /\ d \notin L(d)
    BY PrecedesIsOrder
  <2>3. <<L(d), L(c)>> \in StrictSubsetOrdering(cs)
    <3>1. L(d) \in SUBSET cs /\ L(c) \in SUBSET cs /\ L(d) # L(c)
      BY <2>2
    <3> HIDE DEF L
    <3> QED BY <2>1, <3>1 DEF StrictSubsetOrdering
  <2>4. L(d) \in Below
    OBVIOUS
  <2> HIDE DEF L, Below
  <2> QED BY <1>2, <1>3, <2>3, <2>4
<1>5. \E x \in cs : \A d \in cs \ {x} : Precedes(x, d)
  BY <1>4
<1> QED BY <1>5 DEF First
\* The image of a finite set is finite.
LEMMA FiniteImage ==
    ASSUME NEW S, IsFiniteSet(S), NEW f, DOMAIN f = S
    PROVE  IsFiniteSet({f[x] : x \in S})
<1> DEFINE T == {f[x] : x \in S}
           g == [x \in S |-> f[x]]
<1>1. g \in Surjection(S, T)
  BY DEF Surjection
<1> HIDE DEF g, T
<1>2. IsFiniteSet(T)
  BY <1>1, FS_Surjection
<1> QED BY <1>2 DEF T

WellFormed(policies) ==
    /\ policies \subseteq Loadable /\ IsFiniteSet(policies)
    /\ \A l, m \in policies : l.id = m.id => l = m
    /\ \A l \in policies : IsFiniteSet(l.rules) /\ UniqueIds(l.rules)

\* The candidates are the matched rules of the policies not skipped.
LEMMA CandidatesAreMatched ==
    ASSUME NEW policies, NEW q, NEW t, NEW c
    PROVE  c \in Candidates(policies, q, t) <=>
               \E l \in policies : \E r \in l.rules :
                   /\ ~Skipped(l, t) /\ RuleMatches(r, q)
                   /\ c = [policy |-> l, rule |-> r]
BY DEF Candidates

\* The candidates of well-formed policies are finitely many and differ in their
\* rules, so that the order ranks them.
LEMMA CandidatesWellFormed ==
    ASSUME NEW policies, WellFormed(policies), NEW q, NEW t
    PROVE  /\ Candidates(policies, q, t) \in SUBSET Candidate
           /\ IsFiniteSet(Candidates(policies, q, t))
           /\ Distinct(Candidates(policies, q, t))
<1> DEFINE cs == Candidates(policies, q, t)
<1>1. \A c \in cs : /\ c.policy \in policies /\ c.rule \in c.policy.rules
                    /\ c = [policy |-> c.policy, rule |-> c.rule]
  BY CandidatesAreMatched
<1>2. cs \in SUBSET Candidate
  <2> SUFFICES ASSUME NEW c \in cs PROVE c \in Candidate
    OBVIOUS
  <2>1. c.policy \in Loadable /\ c.rule \in Rule
    BY <1>1 DEF WellFormed, Loadable
  <2> HIDE DEF cs
  <2> QED BY <1>1, <2>1 DEF Candidate
<1>3. Distinct(cs)
  <2> SUFFICES ASSUME NEW c \in cs, NEW d \in cs,
                      c.policy.id = d.policy.id, c.rule.id = d.rule.id
               PROVE  c = d
    BY DEF Distinct
  <2>1. c.policy = d.policy
    BY <1>1 DEF WellFormed
  <2>2. c.rule = d.rule
    BY <1>1, <2>1 DEF WellFormed, UniqueIds
  <2> HIDE DEF cs
  <2> QED BY <1>1, <2>1, <2>2
<1>4. IsFiniteSet(cs)
  <2> DEFINE sets == [l \in policies |-> l.rules]
             pairs == policies \X UNION {sets[l] : l \in policies}
             pack == [x \in pairs |-> [policy |-> x[1], rule |-> x[2]]]
  <2>1. IsFiniteSet({sets[l] : l \in policies})
    <3>1. DOMAIN sets = policies /\ IsFiniteSet(policies)
      BY DEF WellFormed
    <3> HIDE DEF sets
    <3> QED BY <3>1, FiniteImage
  <2>2. IsFiniteSet(UNION {sets[l] : l \in policies})
    <3>1. \A T \in {sets[l] : l \in policies} : IsFiniteSet(T)
      BY DEF WellFormed
    <3> QED BY <2>1, <3>1, FS_UNION
  <2>3. IsFiniteSet(pairs)
    BY <2>2, FS_Product DEF WellFormed
  <2>4. IsFiniteSet({pack[x] : x \in pairs})
    <3>1. DOMAIN pack = pairs
      OBVIOUS
    <3> HIDE DEF pack, pairs
    <3> QED BY <2>3, <3>1, FiniteImage
  <2>5. cs \subseteq {pack[x] : x \in pairs}
    <3> SUFFICES ASSUME NEW c \in cs PROVE \E x \in pairs : c = pack[x]
      OBVIOUS
    <3>1. <<c.policy, c.rule>> \in pairs
      BY <1>1
    <3>2. pack[<<c.policy, c.rule>>] = c
      BY <1>1, <3>1
    <3> HIDE DEF pairs, pack, cs
    <3> QED BY <3>1, <3>2
  <2> HIDE DEF pairs, pack, cs
  <2> QED BY <2>4, <2>5, FS_Subset
<1> QED BY <1>2, <1>3, <1>4
-----------------------------------------------------------------------------
\* Types.

UpdateEdit == [kind : {"update"}, policy : Policy, read : Row, new : Row,
               rules : (SUBSET Rule) \cup {None}]

GrantEdit == [kind : {"grant"}, policy : Policy, read : Grant \cup {None}, new : Grant]

Simulating == [pc : {"simulate"}, q : Question, todo : SUBSET Policy,
               rows : [Policy -> Row \cup {None}], loaded : SUBSET Loadable]

Executing == [pc : {"rules"}, q : Question, policy : Policy, read : Row,
              preauth : BOOLEAN, bound : BOOLEAN]

Passed == [pc : {"grant", "insert"}, q : Question, policy : Policy, version : Nat,
           preauth : BOOLEAN]

Admitted == [policy : Policy, preauth : BOOLEAN, at : Nat]

Types ==
    /\ row \in [Policy -> Row \cup {None}]
    /\ rules \in [Policy -> SUBSET Rule]
    /\ grant \in [Policy -> Grant \cup {None}]
    /\ stop \in BOOLEAN
    /\ edit \in [Admin -> UpdateEdit \cup GrantEdit \cup {None}]
    /\ client \in [Client -> Simulating \cup Executing \cup Passed \cup {None}]
    /\ runs \in Seq(Admitted)
    /\ now \in 0..MaxTime
    /\ served \in 0..MaxRequests

Updating(a) == edit[a] # None /\ edit[a].kind = "update"

Granting(a) == edit[a] # None /\ edit[a].kind = "grant"

Loading(c) == client[c] # None /\ client[c].pc = "simulate"

\* Rows are never deleted: what a request found to write over is still there.
PresentInv ==
    \A a \in Admin :
        /\ Updating(a) => row[edit[a].policy] \in Row
        /\ Granting(a) /\ edit[a].read \in Grant => grant[edit[a].policy] \in Grant

\* The rules of the policies are valid, and an id belongs to one rule of one policy.
RulesInv ==
    /\ \A p \in Policy : ValidRules(rules[p])
    /\ \A p, o \in Policy : p # o => Ids(rules[p]) \cap Ids(rules[o]) = {}
    /\ \A a \in Admin : Updating(a) => edit[a].rules = None \/ ValidRules(edit[a].rules)

\* A simulation has loaded each policy once.
LoadedInv ==
    \A c \in Client : Loading(c) =>
        /\ \A p \in client[c].todo : client[c].rows[p] \in Row
        /\ \A l \in client[c].loaded : l.id \in Policy \ client[c].todo
        /\ WellFormed(client[c].loaded)

StoreInv == Types /\ PresentInv /\ RulesInv /\ LoadedInv

\* The empty store is well typed.
LEMMA InitTypes == Init => Types
<1> SUFFICES ASSUME Init PROVE Types
  OBVIOUS
<1>1. PICK s \in Seed : /\ row = [p \in Policy |-> IF s[p] = None THEN None ELSE FirstVersion(s[p])]
                        /\ rules = [p \in Policy |-> IF s[p] = None THEN {} ELSE s[p].rules]
  BY DEF Init
<1>2. /\ row \in [Policy -> Row \cup {None}]
      /\ rules \in [Policy -> SUBSET Rule]
  BY <1>1, PayloadAssumption DEF ValidRules
<1>3. /\ grant \in [Policy -> Grant \cup {None}]
      /\ edit \in [Admin -> UpdateEdit \cup GrantEdit \cup {None}]
      /\ client \in [Client -> Simulating \cup Executing \cup Passed \cup {None}]
  BY DEF Init
<1>4. stop \in BOOLEAN
  BY DEF Init
<1>5. now \in 0..MaxTime /\ served \in 0..MaxRequests
  BY AutomationAssumption DEF Init
<1>6. runs \in Seq(Admitted)
  BY EmptySeq DEF Init
<1> QED BY <1>2, <1>3, <1>4, <1>5, <1>6 DEF Types

\* A row written field by field over a newer one is still a row; over the row
\* that was read, it is the intended one.
LEMMA WrittenRow ==
    ASSUME NEW r \in Row, NEW n \in Row, NEW g \in Row
    PROVE  Written(r, n, g) \in Row /\ (r = g => Written(r, n, g) = n)
BY DEF Written, Row

\* The same for a grant: its cap is one of the two that were merged.
LEMMA WrittenGrant ==
    ASSUME NEW r \in Grant, NEW n \in Grant, NEW g \in Grant
    PROVE  /\ Written(r, n, g) \in Grant
           /\ Written(r, n, g).cap \in {n.cap, g.cap}
           /\ r = g => Written(r, n, g) = n
BY DEF Written, Grant

\* Creating a policy keeps the types.
LEMMA CreateTypes ==
    ASSUME Types, NEW p \in Policy, NEW d \in Draft, CreatePolicy(p, d) PROVE Types'
<1>1. FirstVersion(d) \in Row /\ d.rules \in SUBSET Rule
  BY PayloadAssumption DEF ValidRules
<1>2. row' \in [Policy -> Row \cup {None}] /\ rules' \in [Policy -> SUBSET Rule]
  BY <1>1 DEF CreatePolicy, Types
<1>3. served' \in 0..MaxRequests
  BY AutomationAssumption DEF CreatePolicy, Types, Serve
<1> QED BY <1>2, <1>3 DEF CreatePolicy, Types

\* An update that has read its row keeps the types; its version is the next one
\* after the row it read.
LEMMA BeginUpdateTypes ==
    ASSUME Types, NEW a \in Admin, NEW p \in Policy, NEW patch \in Patch, BeginUpdate(a, p, patch)
    PROVE  /\ Types' /\ edit'[a] \in UpdateEdit /\ edit'[a].read = row[p] /\ edit'[a].policy = p
           /\ edit'[a].new.version = row[p].version + 1
           /\ edit'[a].rules = None \/ ValidRules(edit'[a].rules)
<1> DEFINE new == [f \in DOMAIN row[p] |->
                        IF f = "version" THEN row[p].version + 1
                        ELSE IF f \in DOMAIN patch THEN patch[f] ELSE row[p][f]]
           rs == IF "rules" \in DOMAIN patch THEN patch.rules ELSE None
           e == [kind |-> "update", policy |-> p, read |-> row[p], new |-> new, rules |-> rs]
<1>1. row[p] \in Row
  BY DEF BeginUpdate, Types
<1>2. new \in Row /\ new.version = row[p].version + 1
  <2>1. \A r \in Row : [f \in DOMAIN r |->
                        IF f = "version" THEN r.version + 1
                        ELSE IF f \in DOMAIN patch THEN patch[f] ELSE r[f]] \in Row
    BY PayloadAssumption DEF Row
  <2>2. new.version = row[p].version + 1
    BY <1>1 DEF Row
  <2> QED BY <1>1, <2>1, <2>2
<1>3. rs = None \/ ValidRules(rs)
  BY PayloadAssumption
<1>4. edit' = [edit EXCEPT ![a] = e]
  BY DEF BeginUpdate
<1>5. e \in UpdateEdit
  <2> HIDE DEF new, rs
  <2> QED BY <1>1, <1>2, <1>3 DEF UpdateEdit, ValidRules
<1>6. e.read = row[p] /\ e.policy = p /\ e.new = new /\ e.rules = rs
  <2> HIDE DEF new, rs
  <2> QED OBVIOUS
<1> HIDE DEF e
<1>7. edit' \in [Admin -> UpdateEdit \cup GrantEdit \cup {None}] /\ edit'[a] = e
  BY <1>4, <1>5 DEF Types
<1>8. served' \in 0..MaxRequests
  BY AutomationAssumption DEF BeginUpdate, Types, Serve
<1>9. Types'
  BY <1>7, <1>8 DEF BeginUpdate, Types
<1> HIDE DEF new, rs
<1> QED BY <1>2, <1>3, <1>5, <1>6, <1>7, <1>9

\* An activation binds the grant to the version of the row it read.
LEMMA BeginActivateTypes ==
    ASSUME Types, NEW a \in Admin, NEW p \in Policy, NEW b \in Bounds, BeginActivate(a, p, b)
    PROVE  Types' /\ edit'[a] \in GrantEdit /\ edit'[a].read = grant[p] /\ edit'[a].policy = p
           /\ edit'[a].new.version = row[p].version /\ edit'[a].new.actions = b.actions
           /\ edit'[a].new.cap = b.cap
<1> DEFINE new == [active |-> TRUE, version |-> row[p].version, actions |-> b.actions,
                   scope |-> b.scope, maxRisk |-> b.maxRisk, cap |-> b.cap,
                   expires |-> b.expires, revoked |-> FALSE]
           e == [kind |-> "grant", policy |-> p, read |-> grant[p], new |-> new]
<1>1. row[p] \in Row
  BY DEF BeginActivate, Types
<1>2. new \in Grant
  BY <1>1, PayloadAssumption DEF Grant, Row
<1>3. edit' = [edit EXCEPT ![a] = e]
  BY DEF BeginActivate
<1>4. new.version = row[p].version /\ new.actions = b.actions /\ new.cap = b.cap
  OBVIOUS
<1> HIDE DEF new
<1>5. e \in GrantEdit
  BY <1>2 DEF GrantEdit, Types
<1>6. e.read = grant[p] /\ e.policy = p /\ e.new = new
  OBVIOUS
<1> HIDE DEF e
<1>7. edit' \in [Admin -> UpdateEdit \cup GrantEdit \cup {None}] /\ edit'[a] = e
  BY <1>3, <1>5 DEF Types
<1>8. served' \in 0..MaxRequests
  BY AutomationAssumption DEF BeginActivate, Types, Serve
<1>9. Types'
  BY <1>7, <1>8 DEF BeginActivate, Types
<1> QED BY <1>4, <1>5, <1>6, <1>7, <1>9

\* A revocation only switches the grant that it read off.
LEMMA BeginRevokeTypes ==
    ASSUME Types, NEW a \in Admin, NEW p \in Policy, BeginRevoke(a, p)
    PROVE  Types' /\ edit'[a] \in GrantEdit /\ edit'[a].read = grant[p] /\ edit'[a].policy = p
           /\ edit'[a].new.active = FALSE /\ edit'[a].new.version = grant[p].version
           /\ edit'[a].new.cap = grant[p].cap /\ grant[p] \in Grant
<1> DEFINE new == [grant[p] EXCEPT !.active = FALSE, !.revoked = TRUE]
           e == [kind |-> "grant", policy |-> p, read |-> grant[p], new |-> new]
<1>1. grant[p] \in Grant
  BY DEF BeginRevoke, Types
<1>2. new \in Grant /\ new.active = FALSE /\ new.version = grant[p].version /\ new.cap = grant[p].cap
  BY <1>1 DEF Grant
<1>3. edit' = [edit EXCEPT ![a] = e]
  BY DEF BeginRevoke
<1> HIDE DEF new
<1>5. e \in GrantEdit
  BY <1>1, <1>2 DEF GrantEdit
<1>6. e.read = grant[p] /\ e.policy = p /\ e.new = new
  OBVIOUS
<1> HIDE DEF e
<1>7. edit' \in [Admin -> UpdateEdit \cup GrantEdit \cup {None}] /\ edit'[a] = e
  BY <1>3, <1>5 DEF Types
<1>8. served' \in 0..MaxRequests
  BY AutomationAssumption DEF BeginRevoke, Types, Serve
<1>9. Types'
  BY <1>7, <1>8 DEF BeginRevoke, Types
<1> QED BY <1>1, <1>2, <1>5, <1>6, <1>7, <1>9

\* The record of an admin's edit has the shape of its kind.
LEMMA EditShapes ==
    ASSUME Types, NEW a \in Admin
    PROVE  (Updating(a) => edit[a] \in UpdateEdit) /\ (Granting(a) => edit[a] \in GrantEdit)
BY DEF Types, Updating, Granting, UpdateEdit, GrantEdit

\* The record of a client's request has the shape of its stage.
LEMMA ClientShapes ==
    ASSUME Types, NEW c \in Client, client[c] # None
    PROVE  /\ client[c].pc = "simulate" => client[c] \in Simulating
           /\ client[c].pc = "rules" => client[c] \in Executing
           /\ client[c].pc \in {"grant", "insert"} => client[c] \in Passed
BY DEF Types, Simulating, Executing, Passed

\* Committing an update writes one row and its rules, or nothing.
LEMMA CommitUpdateTypes ==
    ASSUME StoreInv, NEW a \in Admin, CommitUpdate(a)
    PROVE  /\ Types'
           /\ \/ UNCHANGED store
              \/ /\ row' = [row EXCEPT ![edit[a].policy] =
                               Written(edit[a].read, edit[a].new, row[edit[a].policy])]
                 /\ rules' = [rules EXCEPT ![edit[a].policy] =
                               IF edit[a].rules = None THEN rules[edit[a].policy] ELSE edit[a].rules]
                 /\ Ids(rules'[edit[a].policy]) \cap Ids(RulesOf(Policy \ {edit[a].policy})) = {}
                 /\ Written(edit[a].read, edit[a].new, row[edit[a].policy]) \in Row
                 /\ ValidRules(rules'[edit[a].policy])
<1>1. Updating(a) /\ edit[a] \in UpdateEdit
  BY EditShapes DEF CommitUpdate, Updating, StoreInv
<1> DEFINE e == edit[a]
           p == e.policy
           new == IF e.rules = None THEN rules[p] ELSE e.rules
           w == Written(e.read, e.new, row[p])
<1>2. p \in Policy /\ e.read \in Row /\ e.new \in Row /\ row[p] \in Row
  BY <1>1 DEF UpdateEdit, StoreInv, PresentInv
<1>3. w \in Row
  BY <1>2, WrittenRow
<1>4. ValidRules(new)
  BY <1>1, <1>2 DEF StoreInv, RulesInv
<1>5. \/ UNCHANGED store
      \/ /\ row' = [row EXCEPT ![p] = w]
         /\ rules' = [rules EXCEPT ![p] = new]
         /\ Ids(new) \cap Ids(RulesOf(Policy \ {p})) = {}
  BY DEF CommitUpdate
<1>6. edit' = [edit EXCEPT ![a] = None]
      /\ UNCHANGED <<grant, evaluation, stop, client, runs, now, served>>
  BY DEF CommitUpdate
<1> HIDE DEF e, p, new, w
<1>7. row' \in [Policy -> Row \cup {None}] /\ rules' \in [Policy -> SUBSET Rule]
  <2>1. CASE UNCHANGED store
    BY <2>1 DEF store, StoreInv, Types
  <2>2. CASE row' = [row EXCEPT ![p] = w] /\ rules' = [rules EXCEPT ![p] = new]
    BY <1>2, <1>3, <1>4, <2>2 DEF StoreInv, Types, ValidRules
  <2> QED BY <1>5, <2>1, <2>2
<1>8. Types'
  BY <1>6, <1>7 DEF StoreInv, Types
<1>9. rules' = [rules EXCEPT ![p] = new] => rules'[p] = new
  BY <1>2 DEF StoreInv, Types
<1> QED BY <1>3, <1>4, <1>5, <1>8, <1>9 DEF e, p, w, new

\* Committing a grant writes the intended one, or a mixture with the one that
\* was written in between, of one of the two caps.
LEMMA CommitGrantTypes ==
    ASSUME StoreInv, NEW a \in Admin, CommitGrant(a)
    PROVE  /\ Types' /\ edit[a] \in GrantEdit
           /\ \E g \in Grant :
                 /\ grant' = [grant EXCEPT ![edit[a].policy] = g]
                 /\ g = edit[a].new \/ g = grant[edit[a].policy]
                    \/ g.cap \in {edit[a].new.cap, grant[edit[a].policy].cap}
                 /\ edit[a].read = grant[edit[a].policy] => g = edit[a].new
<1>1. Granting(a) /\ edit[a] \in GrantEdit
  BY EditShapes DEF CommitGrant, Granting, StoreInv
<1> DEFINE e == edit[a]
           p == e.policy
           g == IF e.read # None THEN Written(e.read, e.new, grant[p])
                ELSE IF grant[p] = None THEN e.new ELSE grant[p]
<1>2. p \in Policy /\ e.read \in Grant \cup {None} /\ e.new \in Grant
      /\ (e.read # None => e.read \in Grant /\ grant[p] \in Grant)
  BY <1>1 DEF GrantEdit, StoreInv, PresentInv
<1>3. grant[p] \in Grant \cup {None}
  BY <1>2 DEF StoreInv, Types
<1>4. /\ g \in Grant
      /\ g = e.new \/ g = grant[p] \/ g.cap \in {e.new.cap, grant[p].cap}
      /\ e.read = grant[p] => g = e.new
  <2> HIDE DEF p
  <2>1. CASE e.read # None
    BY <1>2, <2>1, WrittenGrant
  <2>2. CASE e.read = None
    BY <1>2, <1>3, <2>2
  <2> QED BY <2>1, <2>2
<1>5. grant' = [grant EXCEPT ![p] = g]
  BY <1>2 DEF CommitGrant, StoreInv, Types
<1>6. edit' = [edit EXCEPT ![a] = None]
      /\ UNCHANGED <<row, rules, evaluation, stop, client, runs, now, served>>
  BY DEF CommitGrant
<1>7. Types'
  <2> HIDE DEF p, g
  <2>1. grant' \in [Policy -> Grant \cup {None}]
    BY <1>2, <1>4, <1>5 DEF StoreInv, Types
  <2> QED BY <1>6, <2>1 DEF StoreInv, Types
<1> QED BY <1>1, <1>4, <1>5, <1>7

\* A simulation starts from the rows as stored, with no rules loaded.
LEMMA BeginSimulateTypes ==
    ASSUME Types, NEW c \in Client, NEW q \in Question, BeginSimulate(c, q)
    PROVE  /\ Types' /\ client'[c] \in Simulating /\ client'[c].rows = row
           /\ client'[c].loaded = {} /\ client'[c].q = q
           /\ \A p \in client'[c].todo : p \in Policy /\ row[p] \in Row
<1> DEFINE todo == {p \in Existing : row[p].enabled}
           x == [pc |-> "simulate", q |-> q, todo |-> todo, rows |-> row, loaded |-> {}]
<1>1. client' = [client EXCEPT ![c] = x]
  BY DEF BeginSimulate
<1>2. todo \in SUBSET Policy /\ \A p \in todo : row[p] \in Row
  BY DEF Existing, Types
<1> HIDE DEF todo
<1>3. x \in Simulating /\ x.rows = row /\ x.loaded = {} /\ x.todo = todo /\ x.q = q
  BY <1>2 DEF Simulating, Types
<1> HIDE DEF x
<1>4. client' \in [Client -> Simulating \cup Executing \cup Passed \cup {None}] /\ client'[c] = x
  BY <1>1, <1>3 DEF Types
<1>5. served' \in 0..MaxRequests
  BY AutomationAssumption DEF BeginSimulate, Types, Serve
<1>6. Types'
  BY <1>4, <1>5 DEF BeginSimulate, Types
<1> QED BY <1>2, <1>3, <1>4, <1>6

\* Loading the rules of one policy: the others keep what was loaded of them.
LEMMA LoadRulesTypes ==
    ASSUME StoreInv, NEW c \in Client, LoadRules(c)
    PROVE  /\ Types' /\ client'[c] \in Simulating
           /\ \E p \in Policy :
                 LET l == Loaded(p, client[c].rows[p], rules[p])
                 IN  /\ p \in client[c].todo /\ client[c].rows[p] \in Row /\ l \in Loadable
                     /\ client' = [client EXCEPT ![c] = client'[c]]
                     /\ client'[c].todo = client[c].todo \ {p}
                     /\ client'[c].loaded = client[c].loaded \cup {l}
                     /\ client'[c].rows = client[c].rows /\ client'[c].q = client[c].q
<1>1. Loading(c) /\ client[c] \in Simulating
  BY ClientShapes DEF LoadRules, Loading, StoreInv
<1>2. PICK p \in client[c].todo :
          client' = [client EXCEPT ![c].todo = @ \ {p},
               ![c].loaded = @ \cup {Loaded(p, client[c].rows[p], rules[p])}]
  BY DEF LoadRules
<1> DEFINE l == Loaded(p, client[c].rows[p], rules[p])
<1>3. p \in Policy /\ client[c].rows[p] \in Row
  BY <1>1, <1>2 DEF Simulating, StoreInv, LoadedInv
<1>4. l \in Loadable
  BY <1>3, AutomationAssumption DEF Loaded, Loadable, Row, StoreInv, RulesInv, ValidRules
<1> HIDE DEF l
<1> DEFINE x == [client[c] EXCEPT !.todo = @ \ {p}, !.loaded = @ \cup {l}]
<1>5. client' = [client EXCEPT ![c] = x]
  BY <1>2 DEF StoreInv, Types, l
<1>6. /\ x \in Simulating
      /\ x.todo = client[c].todo \ {p} /\ x.loaded = client[c].loaded \cup {l}
      /\ x.rows = client[c].rows /\ x.q = client[c].q
  BY <1>1, <1>4 DEF Simulating
<1> HIDE DEF x
<1>7. client' \in [Client -> Simulating \cup Executing \cup Passed \cup {None}] /\ client'[c] = x
  BY <1>5, <1>6 DEF StoreInv, Types
<1>8. Types'
  BY <1>7 DEF LoadRules, StoreInv, Types
<1> QED BY <1>2, <1>3, <1>4, <1>5, <1>6, <1>7, <1>8 DEF l

\* Recording an evaluation or a run, and a refusal, end the client's request.
LEMMA ClientEndsTypes ==
    ASSUME StoreInv, NEW c \in Client, RecordEvaluation(c) \/ Refuse(c) \/ InsertRun(c)
    PROVE  Types' /\ client' = [client EXCEPT ![c] = None]
<1>1. client' = [client EXCEPT ![c] = None]
      /\ UNCHANGED <<row, rules, grant, stop, edit, now, served>>
  BY DEF RecordEvaluation, Refuse, InsertRun
<1>2. runs' \in Seq(Admitted)
  <2>1. CASE RecordEvaluation(c) \/ Refuse(c)
    BY <2>1 DEF RecordEvaluation, Refuse, StoreInv, Types
  <2>2. CASE InsertRun(c)
    <3>1. client[c] \in Passed
      BY <2>2, ClientShapes DEF InsertRun, StoreInv
    <3>2. [policy |-> client[c].policy, preauth |-> client[c].preauth, at |-> now] \in Admitted
      BY <3>1, AutomationAssumption DEF Admitted, Passed, StoreInv, Types
    <3> QED BY <2>2, <3>2, AppendProperties DEF InsertRun, StoreInv, Types
  <2> QED BY <2>1, <2>2
<1> QED BY <1>1, <1>2 DEF StoreInv, Types

\* An execution starts as a well-formed request.
LEMMA BeginExecuteTypes ==
    ASSUME Types, NEW c \in Client, NEW p \in Policy, NEW q \in Question,
           NEW preauth \in BOOLEAN, NEW bound \in BOOLEAN, BeginExecute(c, p, q, preauth, bound)
    PROVE  Types' /\ \E x \in Executing : client' = [client EXCEPT ![c] = x] /\ client'[c] = x
<1> DEFINE x == [pc |-> "rules", q |-> q, policy |-> p, read |-> row[p], preauth |-> preauth,
                 bound |-> bound]
<1>1. x \in Executing
  BY DEF Executing, BeginExecute, Types
<1>2. client' = [client EXCEPT ![c] = x]
  BY DEF BeginExecute
<1> HIDE DEF x
<1>3. client' \in [Client -> Simulating \cup Executing \cup Passed \cup {None}] /\ client'[c] = x
  BY <1>1, <1>2 DEF Types
<1>4. served' \in 0..MaxRequests
  BY AutomationAssumption DEF BeginExecute, Types, Serve
<1> QED BY <1>1, <1>2, <1>3, <1>4 DEF BeginExecute, Types

\* A gate lets the execution through or ends it.
LEMMA GateTypes ==
    ASSUME Types, NEW c \in Client, Authorize(c) \/ CheckGrant(c)
    PROVE  /\ Types'
           /\ \E y \in Passed \cup {None} : client' = [client EXCEPT ![c] = y] /\ client'[c] = y
<1>1. \E y \in Passed \cup {None} : client' = [client EXCEPT ![c] = y]
  <2>1. CASE Authorize(c)
    <3> DEFINE x == client[c]
               y == [pc |-> IF x.preauth THEN "grant" ELSE "insert", q |-> x.q,
                     policy |-> x.policy, version |-> x.read.version, preauth |-> x.preauth]
    <3>1. x \in Executing
      BY <2>1, ClientShapes DEF Authorize
    <3>2. y \in Passed
      BY <3>1 DEF Executing, Passed, Row
    <3>3. client' = [client EXCEPT ![c] = y] \/ client' = [client EXCEPT ![c] = None]
      <4> HIDE DEF y
      <4> QED BY <2>1 DEF Authorize, y
    <3> HIDE DEF y
    <3> QED BY <3>2, <3>3
  <2>2. CASE CheckGrant(c)
    <3>1. client[c] \in Passed
      BY <2>2, ClientShapes DEF CheckGrant
    <3>2. [client[c] EXCEPT !.pc = "insert"] \in Passed
      BY <3>1 DEF Passed
    <3> QED BY <2>2, <3>2 DEF CheckGrant
  <2> QED BY <2>1, <2>2
<1>2. PICK y \in Passed \cup {None} : client' = [client EXCEPT ![c] = y]
  BY <1>1
<1>3. UNCHANGED <<row, rules, grant, evaluation, stop, edit, runs, now, served>>
  BY DEF Authorize, CheckGrant
<1> QED BY <1>2, <1>3 DEF Types

\* Switching the emergency stop keeps the types.
LEMMA ToggleStopTypes == ASSUME Types, ToggleStop PROVE Types'
<1>1. served' \in 0..MaxRequests
  BY AutomationAssumption DEF ToggleStop, Types, Serve
<1>2. stop' \in BOOLEAN
  BY DEF ToggleStop
<1> QED BY <1>1, <1>2 DEF ToggleStop, Types

\* The passing of time keeps the types.
LEMMA TimePassesTypes == ASSUME Types, TimePasses PROVE Types' /\ now' = now + 1
<1>1. now' \in 0..MaxTime
  BY AutomationAssumption DEF TimePasses, Types
<1> QED BY <1>1 DEF TimePasses, Types

\* What a step may do to the rows and the rules: write one policy.
StoreStep ==
    \/ UNCHANGED store
    \/ \E p \in Policy :
          /\ row'[p] \in Row /\ ValidRules(rules'[p])
          /\ Ids(rules'[p]) \cap Ids(RulesOf(Policy \ {p})) = {}
          /\ \A o \in Policy \ {p} : row'[o] = row[o] /\ rules'[o] = rules[o]
          /\ row[p] \in Row \/ (row[p] = None /\ \E d \in Draft : row'[p] = FirstVersion(d))

\* The empty store is consistent.
LEMMA InitStoreInv == Init => StoreInv
<1> SUFFICES ASSUME Init PROVE StoreInv
  OBVIOUS
<1>1. PresentInv /\ LoadedInv
  BY DEF Init, PresentInv, LoadedInv, Updating, Granting, Loading
<1>2. \A a \in Admin : ~Updating(a)
  BY DEF Init, Updating
<1>3. PICK s \in Seed : rules = [p \in Policy |-> IF s[p] = None THEN {} ELSE s[p].rules]
  BY DEF Init
<1>4. \A p \in Policy : ValidRules(rules[p])
  <2>1. ValidRules({})
    BY FS_EmptySet DEF ValidRules, UniqueIds
  <2> QED BY <1>3, <2>1, PayloadAssumption
<1>5. \A p, o \in Policy : p # o => Ids(rules[p]) \cap Ids(rules[o]) = {}
  <2> SUFFICES ASSUME NEW p \in Policy, NEW o \in Policy, p # o
               PROVE  Ids(rules[p]) \cap Ids(rules[o]) = {}
    OBVIOUS
  <2>1. Ids({}) = {}
    BY DEF Ids
  <2>2. CASE None \in {s[p], s[o]}
    BY <1>3, <2>1, <2>2
  <2>3. CASE None \notin {s[p], s[o]}
    <3>1. Ids(s[p].rules) \cap Ids(s[o].rules) = {}
      BY <2>3, PayloadAssumption
    <3> QED BY <1>3, <2>3, <3>1
  <2> QED BY <2>2, <2>3
<1> QED BY <1>1, <1>2, <1>4, <1>5, InitTypes DEF StoreInv, RulesInv

\* What a step may do to the edit of an administrator, besides ending it.
OpenedUpdate(a) ==
    /\ UNCHANGED <<row, rules, grant>>
    /\ edit'[a] \in UpdateEdit
    /\ row[edit'[a].policy] \in Row /\ edit'[a].read = row[edit'[a].policy]
    /\ edit'[a].new.version = edit'[a].read.version + 1
    /\ edit'[a].rules = None \/ ValidRules(edit'[a].rules)

OpenedGrant(a) ==
    /\ UNCHANGED <<row, rules, grant>>
    /\ edit'[a] \in GrantEdit
    /\ edit'[a].read = grant[edit'[a].policy]
    /\ LET p == edit'[a].policy
           new == edit'[a].new
       IN  \/ /\ row[p] \in Row /\ new.version = row[p].version
              /\ \A act \in new.actions : \E r \in rules[p] : RulePreauthorizes(r, act)
              /\ \E b \in Bounds : new.cap = b.cap
           \/ /\ ~new.active /\ grant[p] \in Grant
              /\ new.version = grant[p].version /\ new.cap = grant[p].cap

\* What a step may do to a simulation, besides ending it.
Started(c) ==
    /\ UNCHANGED store
    /\ client'[c] \in Simulating /\ client'[c].rows = row
    /\ client'[c].loaded = {}
    /\ \A p \in client'[c].todo : row[p] \in Row

LoadedOne(c) ==
    /\ UNCHANGED store
    /\ Loading(c) /\ client'[c] \in Simulating
    /\ \E p \in client[c].todo :
          /\ client[c].rows[p] \in Row /\ Loaded(p, client[c].rows[p], rules[p]) \in Loadable
          /\ client'[c].todo = client[c].todo \ {p}
          /\ client'[c].loaded =
                 client[c].loaded \cup {Loaded(p, client[c].rows[p], rules[p])}
          /\ client'[c].rows = client[c].rows

Frames ==
    /\ StoreStep
    /\ \A p \in Policy : grant[p] \in Grant => grant'[p] \in Grant
    /\ \A a \in Admin : edit'[a] \in {edit[a], None} \/ OpenedUpdate(a) \/ OpenedGrant(a)
    /\ \A c \in Client : \/ client'[c] \in {client[c], None} \cup Executing \cup Passed
                         \/ Started(c) \/ LoadedOne(c)

\* Every step keeps the types and changes the store only as Frames says.
LEMMA StoreFrame ==
    ASSUME StoreInv, [Next]_vars
    PROVE  Types' /\ Frames
<1> USE DEF StoreInv
<1>1. ASSUME NEW p \in Policy, NEW d \in Draft, CreatePolicy(p, d)
      PROVE  Types' /\ Frames
  <2>1. Types'
    BY <1>1, CreateTypes
  <2>2. StoreStep
    <3>1. /\ row' = [row EXCEPT ![p] = FirstVersion(d)]
          /\ rules' = [rules EXCEPT ![p] = d.rules]
          /\ row[p] = None /\ Ids(d.rules) \cap Ids(RulesOf(Policy)) = {}
      BY <1>1 DEF CreatePolicy
    <3>2. row'[p] = FirstVersion(d) /\ rules'[p] = d.rules
          /\ \A o \in Policy \ {p} : row'[o] = row[o] /\ rules'[o] = rules[o]
      BY <3>1 DEF Types
    <3>3. FirstVersion(d) \in Row /\ ValidRules(d.rules)
      BY PayloadAssumption
    <3>4. Ids(d.rules) \cap Ids(RulesOf(Policy \ {p})) = {}
      BY <3>1 DEF Ids, RulesOf
    <3> QED BY <3>1, <3>2, <3>3, <3>4 DEF StoreStep
  <2>3. UNCHANGED <<grant, edit, client>>
    BY <1>1 DEF CreatePolicy
  <2> QED BY <2>1, <2>2, <2>3 DEF Frames
<1>2. ASSUME NEW a \in Admin, NEW p \in Policy, NEW patch \in Patch, BeginUpdate(a, p, patch)
      PROVE  Types' /\ Frames
  <2>1. Types' /\ OpenedUpdate(a)
    <3>1. row[p] \in Row
      BY <1>2 DEF BeginUpdate, Types
    <3>2. /\ Types' /\ edit'[a] \in UpdateEdit
          /\ edit'[a].read = row[p] /\ edit'[a].policy = p
          /\ edit'[a].new.version = row[p].version + 1
          /\ edit'[a].rules = None \/ ValidRules(edit'[a].rules)
      BY <1>2, BeginUpdateTypes
    <3>3. UNCHANGED <<row, rules, grant>>
      BY <1>2 DEF BeginUpdate
    <3> QED BY <3>1, <3>2, <3>3 DEF OpenedUpdate
  <2>2. /\ UNCHANGED <<row, rules, grant, client>>
        /\ \A b \in Admin \ {a} : edit'[b] = edit[b]
    BY <1>2 DEF BeginUpdate, Types
  <2> QED BY <2>1, <2>2 DEF Frames, StoreStep, store
<1>3. ASSUME NEW a \in Admin, NEW p \in Policy,
             (\E b \in Bounds : BeginActivate(a, p, b)) \/ BeginRevoke(a, p)
      PROVE  Types' /\ Frames
  <2>1. Types' /\ OpenedGrant(a)
    <3>1. UNCHANGED <<row, rules, grant>>
      BY <1>3 DEF BeginActivate, BeginRevoke
    <3>2. ASSUME NEW b \in Bounds, BeginActivate(a, p, b)
          PROVE  Types' /\ OpenedGrant(a)
      <4>1. row[p] \in Row
        BY <3>2 DEF BeginActivate, Types
      <4>2. \A act \in b.actions : \E r \in rules[p] : RulePreauthorizes(r, act)
        BY <3>2 DEF BeginActivate, Eligible, Stored, Loaded
      <4>3. /\ Types' /\ edit'[a] \in GrantEdit /\ edit'[a].read = grant[p]
            /\ edit'[a].policy = p /\ edit'[a].new.version = row[p].version
            /\ edit'[a].new.actions = b.actions /\ edit'[a].new.cap = b.cap
        BY <3>2, BeginActivateTypes
      <4> QED BY <3>1, <4>1, <4>2, <4>3 DEF OpenedGrant
    <3>3. ASSUME BeginRevoke(a, p) PROVE Types' /\ OpenedGrant(a)
      <4>1. /\ Types' /\ edit'[a] \in GrantEdit /\ edit'[a].read = grant[p]
            /\ edit'[a].policy = p /\ edit'[a].new.active = FALSE
            /\ edit'[a].new.version = grant[p].version
            /\ edit'[a].new.cap = grant[p].cap /\ grant[p] \in Grant
        BY <3>3, BeginRevokeTypes
      <4> QED BY <3>1, <4>1 DEF OpenedGrant
    <3> QED BY <1>3, <3>2, <3>3
  <2>2. /\ UNCHANGED <<row, rules, grant, client>>
        /\ \A b \in Admin \ {a} : edit'[b] = edit[b]
    BY <1>3 DEF BeginActivate, BeginRevoke, Types
  <2> QED BY <2>1, <2>2 DEF Frames, StoreStep, store
<1>4. ASSUME NEW a \in Admin, CommitUpdate(a)
      PROVE  Types' /\ Frames
  <2>1. Types'
    BY <1>4, CommitUpdateTypes
  <2>2. StoreStep
    <3> DEFINE p == edit[a].policy
    <3>1. p \in Policy /\ row[p] \in Row
      <4>1. Updating(a) /\ edit[a] \in UpdateEdit
        BY <1>4, EditShapes DEF CommitUpdate, Updating
      <4> QED BY <4>1 DEF UpdateEdit, PresentInv
    <3>2. CASE UNCHANGED store
      BY <3>2 DEF StoreStep
    <3>3. CASE ~ UNCHANGED store
      <4>1. /\ row' = [row EXCEPT ![p] = Written(edit[a].read, edit[a].new, row[p])]
            /\ rules' = [rules EXCEPT ![p] = IF edit[a].rules = None THEN rules[p] ELSE edit[a].rules]
            /\ Ids(rules'[p]) \cap Ids(RulesOf(Policy \ {p})) = {}
            /\ Written(edit[a].read, edit[a].new, row[p]) \in Row
            /\ ValidRules(rules'[p])
        BY <1>4, <3>3, CommitUpdateTypes
      <4>2. row'[p] \in Row /\ \A o \in Policy \ {p} : row'[o] = row[o] /\ rules'[o] = rules[o]
        <5> HIDE DEF p
        <5> QED BY <3>1, <4>1 DEF Types
      <4> HIDE DEF p
      <4> QED BY <3>1, <4>1, <4>2 DEF StoreStep
    <3> QED BY <3>2, <3>3
  <2>3. UNCHANGED <<grant, client>> /\ \A b \in Admin : edit'[b] \in {edit[b], None}
    BY <1>4 DEF CommitUpdate, Types
  <2> QED BY <2>1, <2>2, <2>3 DEF Frames
<1>5. ASSUME NEW a \in Admin, CommitGrant(a)
      PROVE  Types' /\ Frames
  <2>1. Types' /\ \E g \in Grant : grant' = [grant EXCEPT ![edit[a].policy] = g]
    BY <1>5, CommitGrantTypes
  <2>2. \A p \in Policy : grant[p] \in Grant => grant'[p] \in Grant
    BY <2>1 DEF Types
  <2>3. UNCHANGED <<row, rules, client>> /\ \A b \in Admin : edit'[b] \in {edit[b], None}
    BY <1>5 DEF CommitGrant, Types
  <2> QED BY <2>1, <2>2, <2>3 DEF Frames, StoreStep, store
<1>6. ASSUME NEW c \in Client, NEW q \in Question, BeginSimulate(c, q)
      PROVE  Types' /\ Frames
  <2>1. Types' /\ Started(c)
    BY <1>6, BeginSimulateTypes DEF Started, BeginSimulate, store
  <2>2. /\ UNCHANGED <<row, rules, grant, edit>>
        /\ \A d \in Client \ {c} : client'[d] = client[d]
    BY <1>6 DEF BeginSimulate, Types
  <2> QED BY <2>1, <2>2 DEF Frames, StoreStep, store
<1>7. ASSUME NEW c \in Client, LoadRules(c)
      PROVE  Types' /\ Frames
  <2>1. Loading(c)
    BY <1>7 DEF LoadRules, Loading
  <2>2. Types' /\ LoadedOne(c) /\ client' = [client EXCEPT ![c] = client'[c]]
    <3>1. UNCHANGED store
      BY <1>7 DEF LoadRules, store
    <3> QED BY <1>7, <2>1, <3>1, LoadRulesTypes DEF LoadedOne
  <2>3. /\ UNCHANGED <<row, rules, grant, edit>>
        /\ \A d \in Client \ {c} : client'[d] = client[d]
    BY <1>7, <2>2 DEF LoadRules, Types
  <2> QED BY <2>2, <2>3 DEF Frames, StoreStep, store
<1>8. ASSUME NEW c \in Client, RecordEvaluation(c) \/ Refuse(c) \/ InsertRun(c)
      PROVE  Types' /\ Frames
  <2>1. Types' /\ client' = [client EXCEPT ![c] = None]
    BY <1>8, ClientEndsTypes
  <2>2. /\ UNCHANGED <<row, rules, grant, edit>>
        /\ \A d \in Client : client'[d] \in {client[d], None}
    BY <1>8, <2>1 DEF RecordEvaluation, Refuse, InsertRun, Types
  <2> QED BY <2>1, <2>2 DEF Frames, StoreStep, store
<1>9. ASSUME NEW c \in Client, NEW p \in Policy, NEW q \in Question,
             NEW preauth \in BOOLEAN, NEW bound \in BOOLEAN, BeginExecute(c, p, q, preauth, bound)
      PROVE  Types' /\ Frames
  <2>1. Types' /\ \E x \in Executing : client' = [client EXCEPT ![c] = x] /\ client'[c] = x
    BY <1>9, BeginExecuteTypes
  <2>2. /\ UNCHANGED <<row, rules, grant, edit>>
        /\ \A d \in Client : client'[d] \in {client[d]} \cup Executing
    BY <1>9, <2>1 DEF BeginExecute, Types
  <2> QED BY <2>1, <2>2 DEF Frames, StoreStep, store
<1>10. ASSUME NEW c \in Client, Authorize(c) \/ CheckGrant(c)
       PROVE  Types' /\ Frames
  <2>1. Types' /\ \E y \in Passed \cup {None} : client' = [client EXCEPT ![c] = y] /\ client'[c] = y
    BY <1>10, GateTypes
  <2>2. /\ UNCHANGED <<row, rules, grant, edit>>
        /\ \A d \in Client : client'[d] \in {client[d], None} \cup Passed
    BY <1>10, <2>1 DEF Authorize, CheckGrant, Types
  <2> QED BY <2>1, <2>2 DEF Frames, StoreStep, store
<1>11. ASSUME ToggleStop \/ TimePasses \/ UNCHANGED vars
       PROVE  Types' /\ Frames
  <2>1. Types'
    <3>1. CASE UNCHANGED vars
      BY <3>1 DEF vars, Types
    <3> QED BY <1>11, <3>1, ToggleStopTypes, TimePassesTypes
  <2>2. UNCHANGED <<row, rules, grant, edit, client>>
    BY <1>11 DEF ToggleStop, TimePasses, vars
  <2> QED BY <2>1, <2>2 DEF Frames, StoreStep, store
<1> QED
  BY <1>1, <1>2, <1>3, <1>4, <1>5, <1>6, <1>7, <1>8, <1>9, <1>10, <1>11
  DEF Next, AdminNext, ClientNext

\* Every step keeps the store consistent.
LEMMA StoreInvStep == StoreInv /\ [Next]_vars => StoreInv'
<1> SUFFICES ASSUME StoreInv, [Next]_vars PROVE StoreInv'
  OBVIOUS
<1>1. Types' /\ Frames
  BY StoreFrame
<1>2. \A p \in Policy : row[p] \in Row => row'[p] \in Row
  BY <1>1 DEF Frames, StoreStep, store
<1>3. PresentInv'
  <2> SUFFICES ASSUME NEW a \in Admin
               PROVE  /\ Updating(a)' => row'[edit'[a].policy] \in Row
                      /\ Granting(a)' /\ edit'[a].read \in Grant => grant'[edit'[a].policy] \in Grant
    BY DEF PresentInv
  <2>1. Updating(a)' => edit'[a] \in UpdateEdit /\ edit'[a].policy \in Policy
    BY <1>1, EditShapes DEF Types, Updating, UpdateEdit, GrantEdit
  <2>2. Granting(a)' => edit'[a] \in GrantEdit /\ edit'[a].policy \in Policy
    BY <1>1 DEF Types, Granting, UpdateEdit, GrantEdit
  <2>3. CASE edit'[a] \in {edit[a], None}
    BY <1>1, <1>2, <2>1, <2>2, <2>3 DEF StoreInv, PresentInv, Updating, Granting, Frames
  <2>4. CASE OpenedUpdate(a)
    <3>1. ~Granting(a)'
      BY <2>4 DEF OpenedUpdate, UpdateEdit, Granting
    <3> QED BY <1>2, <2>1, <2>4, <3>1 DEF OpenedUpdate
  <2>5. CASE OpenedGrant(a)
    <3>1. ~Updating(a)'
      BY <2>5 DEF OpenedGrant, GrantEdit, Updating
    <3> QED BY <1>1, <2>2, <2>5, <3>1 DEF OpenedGrant, Frames
  <2> QED BY <1>1, <2>3, <2>4, <2>5 DEF Frames
<1>4. RulesInv'
  <2>1. \A p \in Policy : ValidRules(rules'[p])
    BY <1>1 DEF Frames, StoreStep, StoreInv, RulesInv, store
  <2>2. \A p, o \in Policy : p # o => Ids(rules'[p]) \cap Ids(rules'[o]) = {}
    <3>1. CASE UNCHANGED store
      BY <3>1 DEF StoreInv, RulesInv, store
    <3>2. CASE ~ UNCHANGED store
      <4>1. PICK p \in Policy :
                /\ Ids(rules'[p]) \cap Ids(RulesOf(Policy \ {p})) = {}
                /\ \A o \in Policy \ {p} : rules'[o] = rules[o]
        BY <1>1, <3>2 DEF Frames, StoreStep
      <4>2. \A o \in Policy \ {p} : Ids(rules'[p]) \cap Ids(rules'[o]) = {}
        BY <4>1 DEF Ids, RulesOf
      <4>3. \A o, u \in Policy \ {p} : o # u => Ids(rules'[o]) \cap Ids(rules'[u]) = {}
        BY <4>1 DEF StoreInv, RulesInv
      <4> HIDE DEF Ids
      <4> QED BY <4>2, <4>3
    <3> QED BY <3>1, <3>2
  <2>3. \A a \in Admin : Updating(a)' => edit'[a].rules = None \/ ValidRules(edit'[a].rules)
    <3> SUFFICES ASSUME NEW a \in Admin, Updating(a)'
                 PROVE  edit'[a].rules = None \/ ValidRules(edit'[a].rules)
      OBVIOUS
    <3>1. CASE edit'[a] \in {edit[a], None}
      BY <3>1 DEF StoreInv, RulesInv, Updating
    <3>2. CASE OpenedUpdate(a)
      BY <3>2 DEF OpenedUpdate
    <3>3. CASE OpenedGrant(a)
      BY <3>3 DEF OpenedGrant, GrantEdit, Updating
    <3> QED BY <1>1, <3>1, <3>2, <3>3 DEF Frames
  <2> QED BY <2>1, <2>2, <2>3 DEF RulesInv
<1>5. LoadedInv'
  <2> SUFFICES ASSUME NEW c \in Client, Loading(c)'
               PROVE  /\ \A p \in client'[c].todo : client'[c].rows[p] \in Row
                      /\ \A l \in client'[c].loaded : l.id \in Policy \ client'[c].todo
                      /\ WellFormed(client'[c].loaded)
    BY DEF LoadedInv
  <2>1. CASE client'[c] = client[c]
    BY <2>1 DEF StoreInv, LoadedInv, Loading
  <2>2. CASE client'[c] \in {None} \cup Executing \cup Passed
    BY <2>2 DEF Loading, Executing, Passed
  <2>3. CASE Started(c)
    BY <2>3, FS_EmptySet DEF Started, WellFormed
  <2>4. CASE LoadedOne(c)
    <3>1. PICK p \in client[c].todo :
              /\ client[c].rows[p] \in Row /\ Loaded(p, client[c].rows[p], rules[p]) \in Loadable
              /\ client'[c].todo = client[c].todo \ {p}
              /\ client'[c].loaded =
                     client[c].loaded \cup {Loaded(p, client[c].rows[p], rules[p])}
              /\ client'[c].rows = client[c].rows
      BY <2>4 DEF LoadedOne
    <3> DEFINE l == Loaded(p, client[c].rows[p], rules[p])
    <3>2. l.id = p /\ l.rules = rules[p]
      BY DEF Loaded
    <3>3. Loading(c) /\ client[c] \in Simulating
      BY <2>4, ClientShapes DEF LoadedOne, Loading, StoreInv
    <3>4. /\ \A q \in client[c].todo : client[c].rows[q] \in Row
          /\ \A m \in client[c].loaded : m.id \in Policy \ client[c].todo
          /\ WellFormed(client[c].loaded)
      BY <3>3 DEF StoreInv, LoadedInv
    <3>5. p \in Policy
      BY <3>1, <3>3 DEF Simulating
    <3>6. IsFiniteSet(rules[p]) /\ UniqueIds(rules[p])
      BY <3>5 DEF StoreInv, RulesInv, ValidRules
    <3>7. l \in Loadable /\ client'[c].loaded = client[c].loaded \cup {l}
      BY <3>1
    <3> HIDE DEF l
    <3>8. WellFormed(client'[c].loaded)
      <4>1. IsFiniteSet(client[c].loaded \cup {l})
        BY <3>4, FS_AddElement DEF WellFormed
      <4> QED BY <3>1, <3>2, <3>4, <3>6, <3>7, <4>1 DEF WellFormed
    <3> QED BY <3>1, <3>2, <3>4, <3>5, <3>7, <3>8
  <2> QED BY <1>1, <2>1, <2>2, <2>3, <2>4 DEF Frames
<1> QED BY <1>1, <1>3, <1>4, <1>5 DEF StoreInv

\* Whatever the administrators do at the same time: the tables keep their types and
\* constraints, and no two rules have the same id.
THEOREM StoreIsConsistent == Spec => []StoreInv
<1>1. Init => StoreInv
  BY InitStoreInv
<1>2. StoreInv /\ [Next]_vars => StoreInv'
  BY StoreInvStep
<1> QED BY <1>1, <1>2, PTL DEF Spec

-----------------------------------------------------------------------------
\* The insight's winner is the evaluation's.

\* Any set of stored policies is well formed: their rules have distinct ids.
LEMMA StoredWellFormed ==
    ASSUME StoreInv, NEW P \in SUBSET Existing
    PROVE  WellFormed({Stored(p) : p \in P})
<1> DEFINE f == [p \in P |-> Stored(p)]
           S == {Stored(p) : p \in P}
<1>1. P \subseteq Policy /\ \A p \in P : row[p] \in Row
  BY DEF Existing, StoreInv, Types
<1>2. \A p \in P : Stored(p) \in Loadable /\ Stored(p).id = p /\ Stored(p).rules = rules[p]
  BY <1>1, AutomationAssumption
  DEF Stored, Loaded, Loadable, Row, StoreInv, RulesInv, ValidRules
<1>3. IsFiniteSet(S)
  <2>1. IsFiniteSet(P)
    BY <1>1, AutomationAssumption, FS_Subset
  <2>2. DOMAIN f = P /\ S = {f[p] : p \in P}
    OBVIOUS
  <2> HIDE DEF f, S
  <2> QED BY <2>1, <2>2, FiniteImage
<1>4. \A p \in P : IsFiniteSet(rules[p]) /\ UniqueIds(rules[p])
  BY <1>1 DEF StoreInv, RulesInv, ValidRules
<1>5. /\ S \subseteq Loadable
      /\ \A l, m \in S : l.id = m.id => l = m
      /\ \A l \in S : IsFiniteSet(l.rules) /\ UniqueIds(l.rules)
  <2> HIDE DEF Stored, Loadable
  <2> QED BY <1>2, <1>4
<1> HIDE DEF S
<1>6. WellFormed(S)
  BY <1>3, <1>5 DEF WellFormed
<1> QED BY <1>6 DEF S

\* The rule that decides is the first of the candidates that deny, or else of all.
LEMMA EvaluateDecides ==
    ASSUME NEW policies, WellFormed(policies), NEW q, NEW t
    PROVE  LET v == Evaluate(policies, q, t, FALSE)
               cs == Candidates(policies, q, t)
               denies == {c \in cs : Denies(c)}
               voting == IF denies # {} THEN denies ELSE cs
           IN  \/ cs = {} /\ v = Unmatched("require_approval")
               \/ \E c \in voting :
                     /\ \A d \in voting \ {c} : Precedes(c, d)
                     /\ v = Verdict(IF denies # {} THEN "deny" ELSE Granted(c), c)
<1> DEFINE v == Evaluate(policies, q, t, FALSE)
           cs == Candidates(policies, q, t)
           denies == {c \in cs : Denies(c)}
           voting == IF denies # {} THEN denies ELSE cs
<1>1. cs \in SUBSET Candidate /\ IsFiniteSet(cs) /\ Distinct(cs)
  BY CandidatesWellFormed
<1>2. v = IF denies # {} THEN Verdict("deny", First(denies))
          ELSE IF cs # {} THEN Verdict(Granted(First(cs)), First(cs))
          ELSE Unmatched("require_approval")
  BY DEF Evaluate
<1>3. CASE cs = {}
  BY <1>2, <1>3
<1>4. CASE cs # {}
  <2>1. voting \in SUBSET Candidate /\ IsFiniteSet(voting) /\ voting # {} /\ Distinct(voting)
    <3>1. denies \in SUBSET cs
      OBVIOUS
    <3> HIDE DEF denies, cs
    <3> QED BY <1>1, <1>4, <3>1, FS_Subset DEF Distinct
  <2>2. First(voting) \in voting /\ \A d \in voting \ {First(voting)} : Precedes(First(voting), d)
    <3> HIDE DEF voting
    <3> QED BY <2>1, FirstIsFirst
  <2>3. v = Verdict(IF denies # {} THEN "deny" ELSE Granted(First(voting)), First(voting))
    <3> HIDE DEF v, cs, denies
    <3> QED BY <1>2, <1>4
  <2>4. \E c \in voting :
            /\ \A d \in voting \ {c} : Precedes(c, d)
            /\ v = Verdict(IF denies # {} THEN "deny" ELSE Granted(c), c)
    <3> HIDE DEF v, cs, voting, denies
    <3> QED BY <2>2, <2>3
  <2> QED BY <2>4
<1> QED BY <1>3, <1>4

\* A candidate of the stored policies is one rule of one policy, and its rule's id names it.
LEMMA StoredCandidates ==
    ASSUME StoreInv, NEW c \in AllCandidates
    PROVE  /\ c \in Candidate
           /\ \E p \in Existing : /\ c.policy = Stored(p) /\ c.rule \in rules[p]
                                  /\ c = [policy |-> Stored(p), rule |-> c.rule]
           /\ \A d \in AllCandidates : c.rule.id = d.rule.id => c = d
<1>1. \A x \in AllCandidates :
          \E p \in Existing : /\ x.policy = Stored(p) /\ x.rule \in rules[p]
                              /\ x = [policy |-> Stored(p), rule |-> x.rule]
  BY DEF AllCandidates
<1>2. c \in Candidate
  <2>1. PICK p \in Existing : /\ c.policy = Stored(p) /\ c.rule \in rules[p]
                              /\ c = [policy |-> Stored(p), rule |-> c.rule]
    BY <1>1
  <2>2. Stored(p) \in Loadable
    <3>1. WellFormed({Stored(o) : o \in Existing})
      BY StoredWellFormed
    <3> QED BY <3>1 DEF WellFormed
  <2>3. c.rule \in Rule
    BY <2>1 DEF Existing, StoreInv, RulesInv, ValidRules
  <2> HIDE DEF Stored
  <2> QED BY <2>1, <2>2, <2>3 DEF Candidate
<1>3. ASSUME NEW d \in AllCandidates, c.rule.id = d.rule.id PROVE c = d
  <2>1. PICK p \in Existing : /\ c.rule \in rules[p]
                              /\ c = [policy |-> Stored(p), rule |-> c.rule]
    BY <1>1
  <2>2. PICK o \in Existing : /\ d.rule \in rules[o]
                              /\ d = [policy |-> Stored(o), rule |-> d.rule]
    BY <1>1
  <2>3. p = o
    <3>1. c.rule.id \in Ids(rules[p]) \cap Ids(rules[o])
      BY <1>3, <2>1, <2>2 DEF Ids
    <3> QED BY <2>1, <2>2, <3>1 DEF StoreInv, RulesInv, Existing
  <2>4. c.rule = d.rule
    BY <1>3, <2>1, <2>2, <2>3 DEF StoreInv, RulesInv, ValidRules, UniqueIds, Existing
  <2> QED BY <2>1, <2>2, <2>3, <2>4
<1> QED BY <1>1, <1>2, <1>3

\* The argument for two rules and one request.
LEMMA LoserDoesNotDecide ==
    ASSUME StoreInv, NEW w \in AllCandidates, NEW l \in AllCandidates, w # l,
           ~Skipped(w.policy, now), RuleSubset(l.rule, w.rule),
           w.policy.mode # "prepare_only", l.policy.mode # "prepare_only",
           \/ w.rule.decision = "deny" /\ l.rule.decision # "deny"
           \/ (w.rule.decision = "deny" <=> l.rule.decision = "deny") /\ Precedes(w, l),
           NEW q \in Question
    PROVE  Evaluate({Stored(p) : p \in Existing}, q, now, FALSE).rule # l.rule.id
<1> DEFINE policies == {Stored(p) : p \in Existing}
           v == Evaluate(policies, q, now, FALSE)
           cs == Candidates(policies, q, now)
           denies == {c \in cs : Denies(c)}
           voting == IF denies # {} THEN denies ELSE cs
<1> SUFFICES ASSUME v.rule = l.rule.id PROVE FALSE
  OBVIOUS
<1>1. WellFormed(policies)
  BY StoredWellFormed
<1>2. \A c \in cs : c \in AllCandidates /\ RuleMatches(c.rule, q)
  <2> SUFFICES ASSUME NEW c \in cs PROVE c \in AllCandidates /\ RuleMatches(c.rule, q)
    OBVIOUS
  <2>1. PICK m \in policies : \E r \in m.rules :
            RuleMatches(r, q) /\ c = [policy |-> m, rule |-> r]
    BY CandidatesAreMatched
  <2>2. PICK p \in Existing : m = Stored(p)
    OBVIOUS
  <2>3. m.rules = rules[p]
    BY <2>2 DEF Stored, Loaded
  <2> HIDE DEF Stored
  <2> QED BY <2>1, <2>2, <2>3 DEF AllCandidates
<1>3. w \in Candidate /\ l \in Candidate /\ w.rule \in Rule /\ l.rule \in Rule /\ l.rule.id \in Nat
  <2>1. w \in Candidate /\ l \in Candidate
    BY StoredCandidates
  <2> QED BY <2>1 DEF Candidate, Rule
<1>4. PICK x \in voting : /\ \A d \in voting \ {x} : Precedes(x, d)
                          /\ v.rule = x.rule.id
  <2>1. \/ cs = {} /\ v = Unmatched("require_approval")
        \/ \E c \in voting :
              /\ \A d \in voting \ {c} : Precedes(c, d)
              /\ v = Verdict(IF denies # {} THEN "deny" ELSE Granted(c), c)
    <3> HIDE DEF policies
    <3> QED BY <1>1, EvaluateDecides
  <2>2. Unmatched("require_approval").rule # l.rule.id
    BY <1>3, NoneAssumption DEF Unmatched
  <2> HIDE DEF v, voting, cs
  <2> QED BY <2>1, <2>2 DEF Verdict
<1>5. x \in cs /\ (denies # {} => x \in denies)
  OBVIOUS
<1> HIDE DEF policies, v, cs
<1>6. x = l
  BY <1>2, <1>4, <1>5, StoredCandidates
<1>7. w \in cs
  <2>1. RuleMatches(w.rule, q)
    <3>1. RuleMatches(l.rule, q) /\ q \in Request
      BY <1>2, <1>5, <1>6, AutomationAssumption
    <3> QED BY <1>3, <3>1, SubsetIsSound DEF SubsetSoundly
  <2>2. PICK p \in Existing : /\ w.policy = Stored(p) /\ w.rule \in rules[p]
                              /\ w = [policy |-> Stored(p), rule |-> w.rule]
    BY StoredCandidates
  <2>3. Stored(p).rules = rules[p] /\ Stored(p) \in policies
    BY DEF Stored, Loaded, policies
  <2> HIDE DEF Stored
  <2> QED BY <2>1, <2>2, <2>3, CandidatesAreMatched DEF cs
<1>8. w \in voting
  <2>1. CASE denies # {}
    BY <1>5, <1>6, <1>7, <2>1 DEF Denies
  <2>2. CASE denies = {}
    BY <1>7, <2>2
  <2> QED BY <2>1, <2>2
<1>9. Precedes(l, w)
  <2> HIDE DEF voting
  <2> QED BY <1>4, <1>6, <1>8
<1>10. w.rule.decision = "deny" <=> l.rule.decision = "deny"
  <2>1. w.rule.decision = "deny" => w \in denies
    BY <1>7 DEF Denies
  <2>2. CASE denies # {}
    BY <1>5, <1>6, <2>2 DEF Denies
  <2>3. CASE denies = {}
    BY <2>1, <2>3
  <2> QED BY <2>2, <2>3
<1> QED BY <1>3, <1>9, <1>10, PrecedesIsOrder

\* In a consistent store a rule reported as shadowed decides no question.
LEMMA ShadowedIsNeverFirst == StoreInv => ShadowedNeverDecides
<1> SUFFICES ASSUME StoreInv, NEW c \in AllCandidates, NEW d \in AllCandidates,
                    c.rule.id < d.rule.id,
                    Advice(c, d, now).runtime, Advice(c, d, now).full,
                    "prepare_only" \notin {c.policy.mode, d.policy.mode},
                    NEW q \in Question
             PROVE  Evaluate({Stored(p) : p \in Existing}, q, now, FALSE).rule
                        # Advice(c, d, now).loser.rule.id
  BY DEF ShadowedNeverDecides
<1> DEFINE denyC == c.rule.decision = "deny"
           denyD == d.rule.decision = "deny"
           w == IF denyC # denyD THEN (IF denyC THEN c ELSE d)
                ELSE IF Precedes(c, d) THEN c ELSE d
           l == IF w = c THEN d ELSE c
<1>1. /\ Advice(c, d, now).loser = l
      /\ ~Skipped(c.policy, now) /\ ~Skipped(d.policy, now) /\ RuleSubset(l.rule, w.rule)
  BY DEF Advice
<1>2. c \in Candidate /\ d \in Candidate /\ c.rule.id \in Nat /\ d.rule.id \in Nat
  <2>1. c \in Candidate /\ d \in Candidate
    BY StoredCandidates
  <2> QED BY <2>1 DEF Candidate, Rule
<1>3. c.rule.id # d.rule.id /\ c # d
  BY <1>2
<1>4. Precedes(c, d) \/ Precedes(d, c)
  BY <1>2, <1>3, PrecedesIsOrder
<1>5. w \in AllCandidates /\ l \in AllCandidates /\ w # l
  BY <1>3
<1>6. \/ w.rule.decision = "deny" /\ l.rule.decision # "deny"
      \/ (w.rule.decision = "deny" <=> l.rule.decision = "deny") /\ Precedes(w, l)
  <2>1. CASE denyC # denyD
    BY <1>3, <2>1
  <2>2. CASE denyC = denyD /\ Precedes(c, d)
    BY <1>3, <2>2
  <2>3. CASE denyC = denyD /\ ~Precedes(c, d)
    BY <1>3, <1>4, <2>3
  <2> QED BY <2>1, <2>2, <2>3
<1>7. ~Skipped(w.policy, now) /\ w.policy.mode # "prepare_only" /\ l.policy.mode # "prepare_only"
  BY <1>1
<1> HIDE DEF w, l
<1> QED BY <1>1, <1>5, <1>6, <1>7, LoserDoesNotDecide

\* What the insight calls fully shadowed never decides, for any number of policies and
\* rules, edited by any number of administrators (conflicts._analyze_pair against
\* policy_v5.evaluate_policies).
THEOREM ShadowedRuleNeverDecides == Spec => []ShadowedNeverDecides
BY StoreIsConsistent, ShadowedIsNeverFirst, PTL

-----------------------------------------------------------------------------
\* Versions.  With two administrators at once two edits may write the same version, so
\* what follows is about one administrator at a time.

OneAdmin == \A a, b \in Admin : a = b

\* An update in flight still writes over the row it read.
EditInv ==
    \A a \in Admin : Updating(a) =>
        /\ edit[a].read = row[edit[a].policy]
        /\ edit[a].new.version = edit[a].read.version + 1

Backs(rs, g, version) ==
    g.active /\ g.version = version =>
        \A act \in g.actions : \E r \in rs : RulePreauthorizes(r, act)

GrantInv ==
    /\ \A p \in Policy : grant[p] \in Grant =>
        /\ row[p] \in Row /\ grant[p].version <= row[p].version
        /\ Backs(rules[p], grant[p], row[p].version)
    /\ \A a \in Admin : Granting(a) =>
        LET p == edit[a].policy
        IN  /\ edit[a].read = grant[p]
            /\ row[p] \in Row /\ edit[a].new.version <= row[p].version
            /\ Backs(rules[p], edit[a].new, row[p].version)

\* What a simulation read is what the policy is, or of an older version.
ReadInv ==
    \A c \in Client : Loading(c) =>
        LET x == client[c]
        IN  /\ \A p \in Policy : x.rows[p] \in Row =>
                  /\ row[p] \in Row /\ x.rows[p].version <= row[p].version
                  /\ x.rows[p].version = row[p].version => x.rows[p] = row[p]
            /\ \A l \in x.loaded :
                  /\ row[l.id] \in Row /\ l.version <= row[l.id].version
                  /\ l.version = row[l.id].version => l = Stored(l.id)

Verdicts == [decision : PolicyDecision, policy : Policy \cup {None}, version : Nat \cup {None},
             rule : Nat \cup {None}]

Upholds(e, q) ==
    LET v == Evaluate({Stored(e.policy)}, q, now, FALSE)
    IN  Stands(e.policy) /\ row[e.policy].version = e.version =>
            v.rule = e.rule /\ v.decision = e.decision

\* What holds of a recorded evaluation.
Recorded(e, q) ==
    /\ row[e.policy] \in Row /\ e.version \in Nat /\ e.version <= row[e.policy].version
    /\ Upholds(e, q)

EvaluationInv ==
    /\ evaluation \in [Question -> Verdicts \cup {None}]
    /\ \A q \in Question : evaluation[q] # None /\ evaluation[q].policy # None =>
           Recorded(evaluation[q], q)

VersionInv == EditInv /\ GrantInv /\ ReadInv /\ EvaluationInv

\* Nothing is stored, so nothing names a version.
LEMMA InitVersionInv == Init => VersionInv
<1> SUFFICES ASSUME Init PROVE VersionInv
  OBVIOUS
<1>1. EditInv /\ ReadInv
  BY DEF Init, EditInv, ReadInv, Updating, Loading
<1>2. GrantInv
  BY NoneAssumption DEF Init, GrantInv, Granting
<1>3. EvaluationInv
  BY DEF Init, EvaluationInv
<1> QED BY <1>1, <1>2, <1>3 DEF VersionInv

\* Who writes what.
LEMMA Writers ==
    ASSUME [Next]_vars
    PROVE  /\ \/ UNCHANGED store
              \/ \E p \in Policy, d \in Draft : CreatePolicy(p, d)
              \/ \E a \in Admin : CommitUpdate(a)
           /\ UNCHANGED grant \/ \E a \in Admin : CommitGrant(a)
           /\ UNCHANGED evaluation \/ \E c \in Client : RecordEvaluation(c)
           /\ UNCHANGED runs \/ \E c \in Client : InsertRun(c)
           /\ UNCHANGED now \/ (TimePasses /\ UNCHANGED store)
BY DEF Next, AdminNext, ClientNext, CreatePolicy, BeginUpdate, BeginActivate, BeginRevoke,
       CommitUpdate, CommitGrant, BeginSimulate, LoadRules, RecordEvaluation, BeginExecute,
       Authorize, CheckGrant, Refuse, InsertRun, ToggleStop, TimePasses, vars, store

\* A version of a policy is written once.
Versioned ==
    \A p \in Policy : row[p] \in Row =>
        /\ row'[p] \in Row /\ row[p].version <= row'[p].version
        /\ row[p].version = row'[p].version => row'[p] = row[p] /\ rules'[p] = rules[p]

\* With one admin the version of a row only grows, and its rules change only
\* with the version.
LEMMA VersionsGrow ==
    ASSUME StoreInv, EditInv, [Next]_vars
    PROVE  Versioned
<1>1. CASE UNCHANGED store
  BY <1>1 DEF Versioned, store, Row
<1>2. ASSUME NEW p \in Policy, NEW d \in Draft, CreatePolicy(p, d) PROVE Versioned
  <2>1. row[p] \notin Row
    BY <1>2, NoneAssumption DEF CreatePolicy
  <2>2. \A o \in Policy \ {p} : row'[o] = row[o] /\ rules'[o] = rules[o]
    BY <1>2 DEF CreatePolicy, StoreInv, Types
  <2> QED BY <2>1, <2>2 DEF Versioned, Row
<1>3. ASSUME NEW a \in Admin, CommitUpdate(a), ~ UNCHANGED store PROVE Versioned
  <2> DEFINE p == edit[a].policy
  <2>1. Updating(a) /\ edit[a] \in UpdateEdit
    BY <1>3, EditShapes DEF CommitUpdate, Updating, StoreInv
  <2>2. /\ p \in Policy /\ row[p] \in Row /\ edit[a].read = row[p] /\ edit[a].new \in Row
        /\ edit[a].new.version = row[p].version + 1
    BY <2>1 DEF UpdateEdit, StoreInv, PresentInv, EditInv
  <2>3. row' = [row EXCEPT ![p] = edit[a].new]
    <3>1. row' = [row EXCEPT ![p] = Written(edit[a].read, edit[a].new, row[p])]
      BY <1>3, CommitUpdateTypes
    <3>2. Written(edit[a].read, edit[a].new, row[p]) = edit[a].new
      <4> HIDE DEF p
      <4> QED BY <2>2, WrittenRow
    <3> HIDE DEF p
    <3> QED BY <3>1, <3>2
  <2>4. /\ row'[p] = edit[a].new
        /\ \A o \in Policy \ {p} : row'[o] = row[o] /\ rules'[o] = rules[o]
    <3>1. \E rs : rules' = [rules EXCEPT ![p] = rs]
      BY <1>3, CommitUpdateTypes
    <3> HIDE DEF p
    <3> QED BY <2>2, <2>3, <3>1 DEF StoreInv, Types
  <2>5. row[p].version \in Nat
    BY <2>2 DEF Row
  <2> HIDE DEF p
  <2> QED BY <2>2, <2>4, <2>5 DEF Versioned, Row
<1> QED BY <1>1, <1>2, <1>3, Writers

\* With one admin an edit in progress has read the row as it is stored.
LEMMA EditInvStep ==
    ASSUME OneAdmin, StoreInv, EditInv, [Next]_vars
    PROVE  EditInv'
<1>1. Frames /\ Types'
  BY StoreFrame
<1> SUFFICES ASSUME NEW a \in Admin, Updating(a)'
             PROVE  /\ edit'[a].read = row'[edit'[a].policy]
                    /\ edit'[a].new.version = edit'[a].read.version + 1
  BY DEF EditInv
<1>2. CASE edit'[a] = edit[a]
  <2>1. Updating(a) /\ edit[a] \in UpdateEdit
    BY <1>2, EditShapes DEF Updating, StoreInv
  <2>2. /\ edit[a].policy \in Policy /\ edit[a].read = row[edit[a].policy]
        /\ edit[a].new.version = edit[a].read.version + 1 /\ row[edit[a].policy] \in Row
    BY <2>1 DEF UpdateEdit, EditInv, StoreInv, PresentInv
  <2>3. row'[edit[a].policy] = row[edit[a].policy]
    <3>1. \A b \in Admin : ~CommitUpdate(b)
      <4> SUFFICES ASSUME CommitUpdate(a) PROVE FALSE
        BY DEF OneAdmin
      <4>1. edit'[a] = None
        BY DEF CommitUpdate, StoreInv, Types
      <4> QED BY <4>1 DEF Updating
    <3>2. ASSUME NEW p \in Policy, NEW d \in Draft, CreatePolicy(p, d)
          PROVE  row'[edit[a].policy] = row[edit[a].policy]
      <4>1. p # edit[a].policy
        BY <2>2, <3>2, NoneAssumption DEF CreatePolicy
      <4> QED BY <2>2, <3>2, <4>1 DEF CreatePolicy, StoreInv, Types
    <3> QED BY <3>1, <3>2, Writers DEF store
  <2> QED BY <1>2, <2>2, <2>3
<1>3. CASE OpenedUpdate(a)
  BY <1>3 DEF OpenedUpdate
<1>4. CASE OpenedGrant(a) \/ edit'[a] = None
  BY <1>4 DEF OpenedGrant, GrantEdit, Updating
<1> QED BY <1>1, <1>2, <1>3, <1>4 DEF Frames

\* What backs a grant for a version keeps backing it.
LEMMA BackedStays ==
    ASSUME Versioned, NEW p \in Policy, row[p] \in Row, NEW g \in Grant,
           g.version <= row[p].version, Backs(rules[p], g, row[p].version)
    PROVE  /\ row'[p] \in Row /\ g.version <= row'[p].version
           /\ Backs(rules'[p], g, row'[p].version)
<1>1. /\ row'[p] \in Row /\ row[p].version <= row'[p].version
      /\ row[p].version = row'[p].version => rules'[p] = rules[p]
      /\ row[p].version \in Nat /\ row'[p].version \in Nat
      /\ g.version \in Nat /\ g.active \in BOOLEAN
  BY DEF Versioned, Row, Grant
<1>2. g.version <= row'[p].version
  BY <1>1
<1>3. CASE g.version = row'[p].version
  BY <1>1, <1>3 DEF Backs
<1>4. CASE g.version # row'[p].version
  BY <1>1, <1>2, <1>4 DEF Backs
<1> QED BY <1>3, <1>4

\* With one admin every step keeps grants backed.
LEMMA GrantInvStep ==
    ASSUME OneAdmin, StoreInv, EditInv, GrantInv, [Next]_vars
    PROVE  GrantInv'
<1>1. Frames /\ Types'
  BY StoreFrame
<1>2. Versioned
  BY VersionsGrow
<1>3. ASSUME NEW p \in Policy, grant'[p] \in Grant
      PROVE  /\ row'[p] \in Row /\ grant'[p].version <= row'[p].version
             /\ Backs(rules'[p], grant'[p], row'[p].version)
  <2>1. CASE grant'[p] = grant[p]
    <3>1. /\ row[p] \in Row /\ grant[p].version <= row[p].version
          /\ Backs(rules[p], grant[p], row[p].version) /\ grant[p] \in Grant
      BY <1>3, <2>1 DEF GrantInv
    <3> QED BY <1>2, <2>1, <3>1, BackedStays
  <2>2. CASE grant'[p] # grant[p]
    <3>1. PICK a \in Admin : CommitGrant(a)
      BY <2>2, Writers
    <3>2. Granting(a) /\ edit[a] \in GrantEdit
      BY <3>1, EditShapes DEF CommitGrant, Granting, StoreInv
    <3>3. LET o == edit[a].policy
          IN  /\ edit[a].read = grant[o]
              /\ row[o] \in Row /\ edit[a].new.version <= row[o].version
              /\ Backs(rules[o], edit[a].new, row[o].version)
      BY <3>2 DEF GrantInv
    <3>4. grant' = [grant EXCEPT ![edit[a].policy] = edit[a].new]
      BY <3>1, <3>3, CommitGrantTypes
    <3>5. p = edit[a].policy /\ grant'[p] = edit[a].new
      BY <2>2, <3>4 DEF StoreInv, Types
    <3>6. UNCHANGED <<row, rules>>
      BY <3>1 DEF CommitGrant
    <3> QED BY <3>3, <3>5, <3>6
  <2> QED BY <2>1, <2>2
<1>4. ASSUME NEW a \in Admin, Granting(a)'
      PROVE  LET p == edit'[a].policy
             IN  /\ edit'[a].read = grant'[p]
                 /\ row'[p] \in Row /\ edit'[a].new.version <= row'[p].version
                 /\ Backs(rules'[p], edit'[a].new, row'[p].version)
  <2>1. CASE edit'[a] = edit[a]
    <3> DEFINE p == edit[a].policy
    <3>1. Granting(a) /\ edit[a] \in GrantEdit
      BY <1>4, <2>1, EditShapes DEF Granting, StoreInv
    <3>2. /\ p \in Policy /\ edit[a].read = grant[p] /\ row[p] \in Row
          /\ edit[a].new \in Grant /\ edit[a].new.version <= row[p].version
          /\ Backs(rules[p], edit[a].new, row[p].version)
      BY <3>1 DEF GrantEdit, GrantInv
    <3>3. grant'[p] = grant[p]
      <4>1. \A b \in Admin : ~CommitGrant(b)
        <5> SUFFICES ASSUME CommitGrant(a) PROVE FALSE
          BY DEF OneAdmin
        <5>1. edit'[a] = None
          BY DEF CommitGrant, StoreInv, Types
        <5> QED BY <1>4, <5>1 DEF Granting
      <4> QED BY <4>1, Writers
    <3> HIDE DEF p
    <3>4. /\ row'[p] \in Row /\ edit[a].new.version <= row'[p].version
          /\ Backs(rules'[p], edit[a].new, row'[p].version)
      BY <1>2, <3>2, BackedStays
    <3> QED BY <2>1, <3>2, <3>3, <3>4 DEF p
  <2>2. CASE OpenedUpdate(a) \/ edit'[a] = None
    BY <1>4, <2>2 DEF OpenedUpdate, UpdateEdit, Granting
  <2>3. CASE OpenedGrant(a)
    <3> DEFINE p == edit'[a].policy
               new == edit'[a].new
    <3>1. /\ UNCHANGED <<row, rules, grant>> /\ edit'[a].read = grant[p] /\ p \in Policy
          /\ \/ /\ row[p] \in Row /\ new.version = row[p].version
                /\ \A act \in new.actions : \E r \in rules[p] : RulePreauthorizes(r, act)
             \/ ~new.active /\ grant[p] \in Grant /\ new.version = grant[p].version
      BY <2>3 DEF OpenedGrant, GrantEdit
    <3> HIDE DEF p, new
    <3>2. row[p] \in Row /\ new.version <= row[p].version /\ Backs(rules[p], new, row[p].version)
      BY <3>1 DEF GrantInv, Backs, Row
    <3> QED BY <3>1, <3>2 DEF p, new
  <2> QED BY <1>1, <2>1, <2>2, <2>3 DEF Frames
<1> QED BY <1>3, <1>4 DEF GrantInv

\* Every step keeps what a simulation has loaded a reading of versions that
\* were stored.
LEMMA ReadInvStep ==
    ASSUME StoreInv, EditInv, ReadInv, [Next]_vars
    PROVE  ReadInv'
<1>1. Frames /\ Types' /\ Versioned
  BY StoreFrame, VersionsGrow
<1> SUFFICES ASSUME NEW c \in Client, Loading(c)'
             PROVE  LET x == client'[c]
                    IN  /\ \A p \in Policy : x.rows[p] \in Row =>
                              /\ row'[p] \in Row /\ x.rows[p].version <= row'[p].version
                              /\ x.rows[p].version = row'[p].version => x.rows[p] = row'[p]
                        /\ \A l \in x.loaded :
                              /\ row'[l.id] \in Row /\ l.version <= row'[l.id].version
                              /\ l.version = row'[l.id].version => l = Stored(l.id)'
  BY DEF ReadInv
<1>2. CASE client'[c] = client[c]
  <2> DEFINE x == client[c]
  <2>1. Loading(c) /\ x \in Simulating
    BY <1>2, ClientShapes DEF Loading, StoreInv
  <2>2. /\ \A p \in Policy : x.rows[p] \in Row =>
              /\ row[p] \in Row /\ x.rows[p].version <= row[p].version
              /\ x.rows[p].version = row[p].version => x.rows[p] = row[p]
        /\ \A l \in x.loaded :
              /\ row[l.id] \in Row /\ l.version <= row[l.id].version
              /\ l.version = row[l.id].version => l = Stored(l.id)
    BY <2>1 DEF ReadInv
  <2>3. \A l \in x.loaded : l.id \in Policy /\ l.version \in Nat
    BY <2>1 DEF StoreInv, LoadedInv, WellFormed, Loadable
  <2> HIDE DEF x
  <2>4. ASSUME NEW p \in Policy, x.rows[p] \in Row
        PROVE  /\ row'[p] \in Row /\ x.rows[p].version <= row'[p].version
               /\ x.rows[p].version = row'[p].version => x.rows[p] = row'[p]
    <3>1. /\ row[p] \in Row /\ row'[p] \in Row
          /\ row[p].version \in Nat /\ row'[p].version \in Nat /\ x.rows[p].version \in Nat
      BY <1>1, <2>2, <2>4 DEF Versioned, Row
    <3> QED BY <1>1, <2>2, <2>4, <3>1 DEF Versioned
  <2>5. ASSUME NEW l \in x.loaded
        PROVE  /\ row'[l.id] \in Row /\ l.version <= row'[l.id].version
               /\ l.version = row'[l.id].version => l = Stored(l.id)'
    <3>1. /\ row[l.id] \in Row /\ row'[l.id] \in Row /\ l.version \in Nat
          /\ row[l.id].version \in Nat /\ row'[l.id].version \in Nat
      BY <1>1, <2>2, <2>3 DEF Versioned, Row
    <3>2. /\ l.version <= row'[l.id].version
          /\ l.version = row'[l.id].version =>
                /\ l = Stored(l.id)
                /\ row'[l.id] = row[l.id] /\ rules'[l.id] = rules[l.id]
      BY <1>1, <2>2, <2>3, <3>1 DEF Versioned
    <3>3. row'[l.id] = row[l.id] /\ rules'[l.id] = rules[l.id] => Stored(l.id)' = Stored(l.id)
      BY DEF Stored
    <3> QED BY <3>1, <3>2, <3>3
  <2> QED BY <1>2, <2>4, <2>5 DEF x
<1>3. CASE client'[c] \in {None} \cup Executing \cup Passed
  BY <1>3 DEF Loading, Executing, Passed
<1>4. CASE Started(c)
  BY <1>4 DEF Started, store, Row
<1>5. CASE LoadedOne(c)
  <2>1. PICK p \in client[c].todo :
            /\ client[c].rows[p] \in Row /\ Loaded(p, client[c].rows[p], rules[p]) \in Loadable
            /\ client'[c].loaded =
                   client[c].loaded \cup {Loaded(p, client[c].rows[p], rules[p])}
            /\ client'[c].rows = client[c].rows
    BY <1>5 DEF LoadedOne
  <2>2. Loading(c) /\ client[c] \in Simulating /\ p \in Policy
    BY <1>5, <2>1, ClientShapes DEF LoadedOne, Loading, StoreInv, Simulating
  <2>3. /\ \A o \in Policy : client[c].rows[o] \in Row =>
              /\ row[o] \in Row /\ client[c].rows[o].version <= row[o].version
              /\ client[c].rows[o].version = row[o].version => client[c].rows[o] = row[o]
        /\ \A l \in client[c].loaded :
              /\ row[l.id] \in Row /\ l.version <= row[l.id].version
              /\ l.version = row[l.id].version => l = Stored(l.id)
    BY <2>2 DEF ReadInv
  <2> DEFINE n == Loaded(p, client[c].rows[p], rules[p])
  <2>4. /\ row[n.id] \in Row /\ n.version <= row[n.id].version
        /\ n.version = row[n.id].version => n = Stored(n.id)
    <3>1. n.id = p /\ n.version = client[c].rows[p].version
      BY DEF Loaded
    <3>2. client[c].rows[p] = row[p] => n = Stored(p)
      BY DEF Stored
    <3> HIDE DEF n
    <3> QED BY <2>1, <2>2, <2>3, <3>1, <3>2
  <2>5. UNCHANGED <<row, rules>>
    BY <1>5 DEF LoadedOne, store
  <2>6. \A i : Stored(i)' = Stored(i)
    BY <2>5 DEF Stored
  <2> HIDE DEF n
  <2> QED BY <2>1, <2>3, <2>4, <2>5, <2>6 DEF n
<1> QED BY <1>1, <1>2, <1>3, <1>4, <1>5 DEF Frames

\* What an evaluation says is what the policy it names says alone.
SaidByOne(policies, q, t, v) ==
    \/ v \in {Unmatched("deny"), Unmatched("require_approval")}
    \/ \E l \in policies :
          /\ v = [decision |-> v.decision, policy |-> l.id, version |-> l.version,
                  rule |-> v.rule]
          /\ v.decision \in PolicyDecision /\ v.rule \in Nat
          /\ Evaluate({l}, q, t, FALSE).rule = v.rule
          /\ Evaluate({l}, q, t, FALSE).decision = v.decision

\* The verdict on a set of policies is the verdict of one of them alone, or
\* that nothing matched.
LEMMA VerdictOfOnePolicy ==
    ASSUME NEW policies, WellFormed(policies), NEW q, NEW t, NEW s \in BOOLEAN
    PROVE  SaidByOne(policies, q, t, Evaluate(policies, q, t, s))
<1> DEFINE v == Evaluate(policies, q, t, s)
           cs == Candidates(policies, q, t)
           denies == {c \in cs : Denies(c)}
           voting == IF denies # {} THEN denies ELSE cs
           decision(c) == IF denies # {} THEN "deny" ELSE Granted(c)
<1>1. CASE s = TRUE
  BY <1>1 DEF Evaluate, SaidByOne
<1>2. CASE s = FALSE
  <2>1. \/ cs = {} /\ v = Unmatched("require_approval")
        \/ \E c \in voting : /\ \A d \in voting \ {c} : Precedes(c, d)
                             /\ v = Verdict(decision(c), c)
    BY <1>2, EvaluateDecides
  <2>2. CASE cs = {} /\ v = Unmatched("require_approval")
    BY <2>2 DEF SaidByOne
  <2>3. CASE \E c \in voting : /\ \A d \in voting \ {c} : Precedes(c, d)
                               /\ v = Verdict(decision(c), c)
    <3>1. PICK x \in voting : /\ \A d \in voting \ {x} : Precedes(x, d)
                              /\ v = Verdict(decision(x), x)
      BY <2>3
    <3> DEFINE l == x.policy
               one == Candidates({l}, q, t)
               oneDenies == {c \in one : Denies(c)}
               oneVoting == IF oneDenies # {} THEN oneDenies ELSE one
               w == Evaluate({l}, q, t, FALSE)
    <3>2. x \in cs /\ cs \in SUBSET Candidate /\ (denies # {} => x \in denies)
      BY CandidatesWellFormed
    <3>3. PICK r \in l.rules : /\ l \in policies /\ ~Skipped(l, t) /\ RuleMatches(r, q)
                               /\ x = [policy |-> l, rule |-> r]
      <4> HIDE DEF v, denies, voting
      <4>1. PICK m \in policies : \E r \in m.rules :
                /\ ~Skipped(m, t) /\ RuleMatches(r, q)
                /\ x = [policy |-> m, rule |-> r]
        BY <3>2, CandidatesAreMatched
      <4> QED BY <4>1
    <3>4. x \in one /\ one \subseteq cs
      <4>1. x \in one
        <5> HIDE DEF v, voting, cs
        <5> QED BY <3>3, CandidatesAreMatched
      <4>2. one \subseteq cs
        <5> HIDE DEF v, voting
        <5> QED BY <3>3 DEF Candidates
      <4> QED BY <4>1, <4>2
    <3>5. x \in oneVoting /\ oneVoting \subseteq voting /\ (oneDenies # {} <=> denies # {})
      <4> HIDE DEF v, cs, one
      <4> QED BY <3>2, <3>4
    <3>6. WellFormed({l})
      BY <3>3, FS_Singleton DEF WellFormed
    <3>7. \/ one = {} /\ w = Unmatched("require_approval")
          \/ \E c \in oneVoting :
                /\ \A d \in oneVoting \ {c} : Precedes(c, d)
                /\ w = Verdict(IF oneDenies # {} THEN "deny" ELSE Granted(c), c)
      BY <3>6, EvaluateDecides
    <3>8. PICK y \in oneVoting :
              /\ \A d \in oneVoting \ {y} : Precedes(y, d)
              /\ w = Verdict(IF oneDenies # {} THEN "deny" ELSE Granted(y), y)
      <4> HIDE DEF w, one, oneVoting
      <4> QED BY <3>4, <3>7
    <3>9. y \in Candidate /\ x \in Candidate /\ y \in voting
      <4>1. voting \subseteq cs
        OBVIOUS
      <4> HIDE DEF oneVoting, voting, cs
      <4> QED BY <3>2, <3>5, <4>1
    <3>10. y = x
      <4> HIDE DEF oneVoting, voting, v, w
      <4> QED BY <3>1, <3>5, <3>8, <3>9, PrecedesIsOrder
    <3>11. w = v
      <4> HIDE DEF v, w, denies, oneDenies
      <4> QED BY <3>1, <3>5, <3>8, <3>10
    <3>12. decision(x) \in PolicyDecision /\ x.rule.id \in Nat
      <4>1. x.rule.decision \in PolicyDecision /\ x.rule.id \in Nat
        BY <3>9 DEF Candidate, Rule
      <4> HIDE DEF denies
      <4> QED BY <4>1 DEF Granted, PolicyDecision
    <3>13. /\ v = [decision |-> v.decision, policy |-> l.id, version |-> l.version,
                   rule |-> v.rule]
           /\ v.decision = decision(x) /\ v.rule = x.rule.id
      <4> HIDE DEF v, decision
      <4> QED BY <3>1 DEF Verdict
    <3>14. \E m \in policies :
              /\ v = [decision |-> v.decision, policy |-> m.id, version |-> m.version,
                      rule |-> v.rule]
              /\ v.decision \in PolicyDecision /\ v.rule \in Nat
              /\ Evaluate({m}, q, t, FALSE).rule = v.rule
              /\ Evaluate({m}, q, t, FALSE).decision = v.decision
      <4> HIDE DEF v, decision
      <4> QED BY <3>3, <3>11, <3>12, <3>13
    <3> HIDE DEF v
    <3>15. SaidByOne(policies, q, t, v)
      BY <3>14 DEF SaidByOne
    <3> QED BY <3>15 DEF v
  <2> QED BY <2>1, <2>2, <2>3
<1> QED BY <1>1, <1>2

\* As long as it stands, time does not change what a policy says.
LEMMA StandingVerdict ==
    ASSUME NEW l, NEW q, NEW t, NEW u, ~Skipped(l, t), ~Skipped(l, u)
    PROVE  Evaluate({l}, q, u, FALSE) = Evaluate({l}, q, t, FALSE)
<1>1. Candidates({l}, q, u) = Candidates({l}, q, t)
  BY DEF Candidates
<1> QED BY <1>1 DEF Evaluate

\* A stored policy of the recorded version keeps upholding the record.
LEMMA UpholdsStays ==
    ASSUME StoreInv, Types', Versioned, UNCHANGED now \/ (TimePasses /\ UNCHANGED store),
           NEW q \in Question, NEW e \in Verdicts, e.policy \in Policy, e.version \in Nat,
           row[e.policy] \in Row, e.version <= row[e.policy].version, Upholds(e, q)
    PROVE  /\ row'[e.policy] \in Row /\ e.version <= row'[e.policy].version
           /\ Upholds(e, q)'
<1> DEFINE p == e.policy
<1>1. /\ row'[p] \in Row /\ row[p].version <= row'[p].version
      /\ row[p].version = row'[p].version => row'[p] = row[p] /\ rules'[p] = rules[p]
      /\ row[p].version \in Nat /\ row'[p].version \in Nat
  BY DEF Versioned, Row
<1>2. e.version <= row'[p].version
  BY <1>1
<1>3. ASSUME Stands(p)', row'[p].version = e.version
      PROVE  /\ Evaluate({Stored(p)'}, q, now', FALSE).rule = e.rule
             /\ Evaluate({Stored(p)'}, q, now', FALSE).decision = e.decision
  <2>1. row[p].version = e.version /\ row'[p] = row[p] /\ rules'[p] = rules[p]
    BY <1>1, <1>3
  <2>2. Stored(p)' = Stored(p)
    BY <2>1 DEF Stored
  <2>3. ~Skipped(Stored(p), now')
    BY <1>3, <2>2 DEF Stands
  <2>4. ~Skipped(Stored(p), now)
    <3>1. now \in Nat /\ now' \in Nat /\ now <= now'
      BY AutomationAssumption DEF StoreInv, Types, TimePasses
    <3>2. Stored(p).expires \in Nat
      BY DEF Stored, Loaded, Row
    <3> QED BY <2>3, <3>1, <3>2 DEF Skipped, Expired
  <2>5. Stands(p)
    BY <2>4, NoneAssumption DEF Stands
  <2>6. /\ Evaluate({Stored(p)}, q, now, FALSE).rule = e.rule
        /\ Evaluate({Stored(p)}, q, now, FALSE).decision = e.decision
    BY <2>1, <2>5 DEF Upholds
  <2> HIDE DEF p
  <2> QED BY <2>2, <2>3, <2>4, <2>6, StandingVerdict
<1> HIDE DEF p
<1>4. Upholds(e, q)'
  BY <1>3 DEF Upholds, p
<1> QED BY <1>1, <1>2, <1>4 DEF p

\* Every step keeps the recorded evaluation upheld.
LEMMA EvaluationInvStep ==
    ASSUME StoreInv, EditInv, ReadInv, EvaluationInv, [Next]_vars
    PROVE  EvaluationInv'
<1>1. Types' /\ Versioned /\ (UNCHANGED now \/ (TimePasses /\ UNCHANGED store))
  BY StoreFrame, VersionsGrow, Writers
<1>2. ASSUME NEW q \in Question, evaluation[q] # None, evaluation[q].policy # None
      PROVE  Recorded(evaluation[q], q)' \/ evaluation'[q] # evaluation[q]
  <2> DEFINE e == evaluation[q]
  <2>1. /\ row[e.policy] \in Row /\ e.version \in Nat /\ e.version <= row[e.policy].version
        /\ Upholds(e, q)
    BY <1>2 DEF EvaluationInv, Recorded
  <2>2. e \in Verdicts /\ e.policy \in Policy
    BY <1>2 DEF EvaluationInv, Verdicts
  <2> SUFFICES ASSUME evaluation'[q] = evaluation[q] PROVE Recorded(evaluation[q], q)'
    OBVIOUS
  <2>3. e' = e
    OBVIOUS
  <2>4. /\ row'[e.policy] \in Row /\ e.version <= row'[e.policy].version
        /\ Upholds(e, q)'
    BY <1>1, <2>1, <2>2, <2>3, UpholdsStays
  <2> HIDE DEF e
  <2>5. Recorded(e, q)'
    BY <2>1, <2>3, <2>4 DEF Recorded
  <2> QED BY <2>5 DEF e
<1>3. CASE UNCHANGED evaluation
  <2>1. evaluation' = evaluation
    BY <1>3
  <2>2. ASSUME NEW q \in Question, evaluation'[q] # None, evaluation'[q].policy # None
        PROVE  Recorded(evaluation[q], q)'
    BY <1>2, <2>1, <2>2
  <2> QED BY <2>1, <2>2 DEF EvaluationInv
<1>4. ASSUME NEW c \in Client, RecordEvaluation(c)
      PROVE  EvaluationInv'
  <2> DEFINE x == client[c]
             v == Evaluate(x.loaded, x.q, now, stop)
  <2>1. Loading(c) /\ x \in Simulating
    BY <1>4, ClientShapes DEF RecordEvaluation, Loading, StoreInv
  <2>2. /\ WellFormed(x.loaded) /\ x.q \in Question /\ stop \in BOOLEAN
        /\ \A l \in x.loaded : l.id \in Policy
        /\ \A l \in x.loaded : /\ row[l.id] \in Row /\ l.version <= row[l.id].version
                               /\ l.version = row[l.id].version => l = Stored(l.id)
    BY <2>1 DEF Simulating, StoreInv, Types, LoadedInv, ReadInv
  <2>3. SaidByOne(x.loaded, x.q, now, v)
    BY <2>2, VerdictOfOnePolicy
  <2>4. UNCHANGED <<row, rules, now>>
    BY <1>4 DEF RecordEvaluation
  <2> HIDE DEF x, v
  <2>5. PICK w : w = v
    OBVIOUS
  <2>6. w \in Verdicts /\ (w.policy # None => Recorded(w, x.q))
    <3>1. CASE w \in {Unmatched("deny"), Unmatched("require_approval")}
      BY <3>1 DEF Unmatched, Verdicts, PolicyDecision
    <3>2. ASSUME NEW l \in x.loaded,
                 w = [decision |-> w.decision, policy |-> l.id, version |-> l.version,
                      rule |-> w.rule],
                 w.decision \in PolicyDecision, w.rule \in Nat,
                 Evaluate({l}, x.q, now, FALSE).rule = w.rule,
                 Evaluate({l}, x.q, now, FALSE).decision = w.decision
          PROVE  w \in Verdicts /\ Recorded(w, x.q)
      <4>1. l.version \in Nat /\ l.id \in Policy
        BY <2>2 DEF WellFormed, Loadable
      <4>2. w \in Verdicts
        BY <3>2, <4>1 DEF Verdicts
      <4>3. w.policy = l.id /\ w.version = l.version
        BY <3>2
      <4>4. Upholds(w, x.q)
        BY <2>2, <3>2, <4>3 DEF Upholds
      <4> QED BY <2>2, <4>1, <4>2, <4>3, <4>4 DEF Recorded
    <3> QED BY <2>3, <2>5, <3>1, <3>2 DEF SaidByOne
  <2>7. evaluation' = [evaluation EXCEPT ![x.q] = IF @ # None THEN @ ELSE w]
    BY <1>4, <2>5 DEF RecordEvaluation, x, v
  <2>8. evaluation' \in [Question -> Verdicts \cup {None}]
    BY <2>2, <2>6, <2>7 DEF EvaluationInv
  <2>9. ASSUME NEW q \in Question, evaluation'[q] # None, evaluation'[q].policy # None
        PROVE  Recorded(evaluation[q], q)'
    <3>1. CASE evaluation'[q] = evaluation[q]
      BY <1>2, <2>9, <3>1
    <3>2. CASE evaluation'[q] # evaluation[q]
      <4>1. q = x.q /\ evaluation'[q] = w
        BY <2>2, <2>7, <3>2 DEF EvaluationInv
      <4>2. Recorded(w, q)
        BY <2>6, <2>9, <4>1
      <4>3. Recorded(w, q)'
        BY <2>4, <4>2 DEF Recorded, Upholds, Stands, Stored
      <4> QED BY <4>1, <4>3 DEF Recorded, Upholds, Stands, Stored
    <3> QED BY <3>1, <3>2
  <2> QED BY <2>8, <2>9 DEF EvaluationInv
<1> QED BY <1>3, <1>4, Writers

\* With one admin every step keeps the invariant about versions.
LEMMA VersionInvStep ==
    OneAdmin /\ StoreInv /\ VersionInv /\ [Next]_vars => VersionInv'
BY EditInvStep, GrantInvStep, ReadInvStep, EvaluationInvStep DEF VersionInv

\* With one administrator at a time, what was read, recorded and granted carries the
\* version it was computed from.
LEMMA VersionsAreCurrent ==
    ASSUME OneAdmin PROVE Spec => []VersionInv
<1>1. Init => VersionInv
  BY InitVersionInv
<1>2. StoreInv /\ VersionInv /\ [Next]_vars => VersionInv'
  BY VersionInvStep
<1> QED BY <1>1, <1>2, StoreIsConsistent, PTL DEF Spec

\* A recorded evaluation of the current version says what the policy says, for any number
\* of policies and threads, although row and rules are read by two statements
\* (store.list_policies, store.record_evaluation).
THEOREM EvaluationStaysCurrent ==
    ASSUME OneAdmin PROVE Spec => []EvaluationCurrent
<1>1. VersionInv => EvaluationCurrent
  BY DEF VersionInv, EvaluationInv, Recorded, Upholds, EvaluationCurrent
<1> QED BY <1>1, VersionsAreCurrent, PTL

\* An active grant of the current version has a pre-authorized rule for every action it
\* allows, for any number of policies (preauth_store.activate_grant against
\* store.update_policy).
THEOREM GrantStaysBacked ==
    ASSUME OneAdmin PROVE Spec => []GrantBacked
<1>1. StoreInv /\ VersionInv => GrantBacked
  <2> SUFFICES ASSUME StoreInv, VersionInv, NEW p \in Policy,
                      grant[p] # None, row[p] # None, grant[p].active,
                      grant[p].version = row[p].version
               PROVE  \A act \in grant[p].actions : \E r \in rules[p] : RulePreauthorizes(r, act)
    BY DEF GrantBacked
  <2>1. grant[p] \in Grant
    BY DEF StoreInv, Types
  <2> QED BY <2>1 DEF VersionInv, GrantInv, Backs
<1> QED BY <1>1, StoreIsConsistent, VersionsAreCurrent, PTL

-----------------------------------------------------------------------------
\* The cap of a grant.  An activation with a lower cap makes the executions of the past
\* too many at once, so the bound is about activations that name the same cap.

SameCap == \A b, d \in Bounds : b.cap = d.cap

CapsInv ==
    /\ \A p \in Policy : grant[p] \in Grant => \A b \in Bounds : grant[p].cap = b.cap
    /\ \A a \in Admin : Granting(a) => \A b \in Bounds : edit[a].new.cap = b.cap
    /\ \A p \in Policy : grant[p] \in Grant => Bounds # {}
    /\ \A a \in Admin : Granting(a) => Bounds # {}

PreauthRuns(p) ==
    {i \in DOMAIN runs : runs[i].policy = p /\ runs[i].preauth /\ runs[i].at + Hour >= now}

\* Threads that have passed the grant and not inserted their execution.
Cleared(p) ==
    {c \in Client : /\ client[c] # None /\ client[c].pc = "insert"
                    /\ client[c].policy = p /\ client[c].preauth}

WithinCap(p) ==
    IF grant[p] \in Grant
    THEN Cardinality(PreauthRuns(p)) + Cardinality(Cleared(p))
             <= grant[p].cap + Cardinality(Client) - 1
    ELSE PreauthRuns(p) = {} /\ Cleared(p) = {}

CapInv == CapsInv /\ \A p \in Policy : WithinCap(p)

\* The runs and the cleared clients of a grant are finitely many.
LEMMA RunsAreFinite ==
    ASSUME StoreInv, NEW p
    PROVE  /\ IsFiniteSet(PreauthRuns(p)) /\ Cardinality(PreauthRuns(p)) \in Nat
           /\ IsFiniteSet(Cleared(p)) /\ Cardinality(Cleared(p)) \in Nat
           /\ Cardinality(Client) \in Nat \ {0}
<1>1. IsFiniteSet(DOMAIN runs)
  <2>1. DOMAIN runs = 1..Len(runs) /\ Len(runs) \in Nat
    BY DEF StoreInv, Types
  <2> QED BY <2>1, FS_Interval
<1>2. PreauthRuns(p) \in SUBSET DOMAIN runs /\ Cleared(p) \in SUBSET Client
  BY DEF PreauthRuns, Cleared
<1>3. IsFiniteSet(PreauthRuns(p)) /\ IsFiniteSet(Cleared(p))
  BY <1>1, <1>2, FS_Subset, AutomationAssumption
<1>4. Cardinality(Client) \in Nat \ {0}
  BY AutomationAssumption, FS_CardinalityType, FS_EmptySet
<1> QED BY <1>3, <1>4, FS_CardinalityType

\* No run is recorded, so no cap is exceeded.
LEMMA InitCapInv == Init => CapInv
<1> SUFFICES ASSUME Init PROVE CapInv
  OBVIOUS
<1>1. CapsInv
  BY NoneAssumption DEF Init, CapsInv, Granting
<1>2. ASSUME NEW p \in Policy PROVE WithinCap(p)
  <2>1. grant[p] \notin Grant
    BY NoneAssumption DEF Init
  <2>2. PreauthRuns(p) = {} /\ Cleared(p) = {}
    BY DEF Init, PreauthRuns, Cleared
  <2> QED BY <2>1, <2>2 DEF WithinCap
<1> QED BY <1>1, <1>2 DEF CapInv

\* When all activations name the same cap, no step changes the cap of a grant.
LEMMA CapsInvStep ==
    ASSUME SameCap, StoreInv, CapsInv, [Next]_vars
    PROVE  /\ CapsInv'
           /\ \A p \in Policy : \/ grant'[p] = grant[p]
                                \/ /\ grant'[p] \in Grant
                                   /\ grant[p] \in Grant => grant'[p].cap = grant[p].cap
<1>1. Frames /\ Types'
  BY StoreFrame
<1>2. ASSUME NEW p \in Policy, grant'[p] # grant[p]
      PROVE  /\ grant'[p] \in Grant /\ (grant[p] \in Grant => grant'[p].cap = grant[p].cap)
             /\ Bounds # {} /\ \A b \in Bounds : grant'[p].cap = b.cap
  <2>1. PICK a \in Admin : CommitGrant(a)
    BY <1>2, Writers
  <2>2. Granting(a) /\ edit[a] \in GrantEdit
    BY <2>1, EditShapes DEF CommitGrant, Granting, StoreInv
  <2>3. PICK g \in Grant :
            /\ grant' = [grant EXCEPT ![edit[a].policy] = g]
            /\ g = edit[a].new \/ g = grant[edit[a].policy]
               \/ g.cap \in {edit[a].new.cap, grant[edit[a].policy].cap}
            /\ edit[a].read = grant[edit[a].policy] => g = edit[a].new
    BY <2>1, CommitGrantTypes
  <2>4. p = edit[a].policy /\ grant'[p] = g
    BY <1>2, <2>3 DEF StoreInv, Types
  <2>5. Bounds # {} /\ \A b \in Bounds : edit[a].new.cap = b.cap
    BY <2>2 DEF CapsInv
  <2>6. g = edit[a].new \/ g.cap \in {edit[a].new.cap, grant[p].cap}
    BY <1>2, <2>3, <2>4
  <2>7. CASE grant[p] \in Grant
    BY <2>4, <2>5, <2>6, <2>7 DEF CapsInv
  <2>8. CASE grant[p] \notin Grant
    <3>1. grant[p] = None
      BY <2>8 DEF StoreInv, Types
    <3>2. g = edit[a].new
      <4>1. edit[a].read = None
        BY <2>2, <2>4, <2>8 DEF StoreInv, PresentInv, GrantEdit
      <4> QED BY <2>1, <2>3, <2>4, <3>1, <4>1, CommitGrantTypes
    <3> QED BY <2>4, <2>5, <2>8, <3>2
  <2> QED BY <2>7, <2>8
<1>3. ASSUME NEW a \in Admin, Granting(a)'
      PROVE  Bounds # {} /\ \A b \in Bounds : edit'[a].new.cap = b.cap
  <2>1. CASE edit'[a] = edit[a]
    BY <1>3, <2>1 DEF CapsInv, Granting
  <2>2. CASE OpenedUpdate(a) \/ edit'[a] = None
    BY <1>3, <2>2 DEF OpenedUpdate, UpdateEdit, Granting
  <2>3. CASE OpenedGrant(a)
    <3>1. edit'[a].policy \in Policy
      BY <2>3 DEF OpenedGrant, GrantEdit
    <3>2. \/ \E b \in Bounds : edit'[a].new.cap = b.cap
          \/ /\ grant[edit'[a].policy] \in Grant
             /\ edit'[a].new.cap = grant[edit'[a].policy].cap
      BY <2>3 DEF OpenedGrant
    <3> QED BY <3>1, <3>2 DEF CapsInv, SameCap
  <2> QED BY <1>1, <2>1, <2>2, <2>3 DEF Frames
<1>4. \A p \in Policy : grant'[p] \in Grant =>
          Bounds # {} /\ \A b \in Bounds : grant'[p].cap = b.cap
  BY <1>2 DEF CapsInv
<1> QED BY <1>2, <1>3, <1>4 DEF CapsInv

\* Fewer runs in the window and fewer threads under way stay within the cap.
LEMMA FewerStayWithin ==
    ASSUME StoreInv, StoreInv', NEW p \in Policy, WithinCap(p),
           PreauthRuns(p)' \subseteq PreauthRuns(p), Cleared(p)' \subseteq Cleared(p),
           \/ grant'[p] = grant[p]
           \/ grant'[p] \in Grant /\ (grant[p] \in Grant => grant'[p].cap = grant[p].cap)
    PROVE  WithinCap(p)'
<1>1. /\ IsFiniteSet(PreauthRuns(p)) /\ Cardinality(PreauthRuns(p)) \in Nat
      /\ IsFiniteSet(Cleared(p)) /\ Cardinality(Cleared(p)) \in Nat
      /\ Cardinality(Client) \in Nat \ {0}
  BY RunsAreFinite
<1>2. /\ Cardinality(PreauthRuns(p)') \in Nat /\ Cardinality(Cleared(p)') \in Nat
      /\ Cardinality(PreauthRuns(p)') <= Cardinality(PreauthRuns(p))
      /\ Cardinality(Cleared(p)') <= Cardinality(Cleared(p))
  BY <1>1, FS_Subset, FS_CardinalityType
<1>3. CASE grant[p] \in Grant
  <2>1. grant'[p] \in Grant /\ grant'[p].cap = grant[p].cap /\ grant[p].cap \in Nat
    BY <1>3 DEF Grant
  <2> QED BY <1>1, <1>2, <1>3, <2>1 DEF WithinCap
<1>4. CASE grant[p] \notin Grant
  <2>1. PreauthRuns(p)' = {} /\ Cleared(p)' = {}
    BY <1>4 DEF WithinCap
  <2>2. CASE grant'[p] \in Grant
    <3>1. grant'[p].cap \in Nat
      BY <2>2 DEF Grant
    <3> QED BY <1>1, <2>1, <2>2, <3>1, FS_EmptySet DEF WithinCap
  <2>3. CASE grant'[p] \notin Grant
    BY <2>1, <2>3 DEF WithinCap
  <2> QED BY <2>2, <2>3
<1> QED BY <1>3, <1>4

\* A run that is inserted was cleared: the sum of both does not grow.
LEMMA InsertStaysWithin ==
    ASSUME StoreInv, NEW p \in Policy, WithinCap(p), NEW c \in Client, InsertRun(c)
    PROVE  WithinCap(p)'
<1>1. client[c] \in Passed /\ client[c].pc = "insert" /\ client[c] # None
  BY ClientShapes DEF InsertRun, StoreInv
<1> DEFINE r == [policy |-> client[c].policy, preauth |-> client[c].preauth, at |-> now]
           n == Len(runs) + 1
<1>2. runs' = Append(runs, r) /\ client' = [client EXCEPT ![c] = None] /\ UNCHANGED <<grant, now>>
  BY DEF InsertRun
<1>3. /\ DOMAIN runs = 1..Len(runs) /\ DOMAIN runs' = 1..n /\ runs'[n] = r
      /\ \A i \in 1..Len(runs) : runs'[i] = runs[i]
      /\ Len(runs) \in Nat
  <2>1. runs \in Seq(Admitted) /\ r \in Admitted
    BY <1>1, AutomationAssumption DEF StoreInv, Types, Admitted, Passed
  <2> HIDE DEF r
  <2> QED BY <1>2, <2>1, AppendProperties
<1>4. Cleared(p)' = Cleared(p) \ {c}
  BY <1>2 DEF Cleared, StoreInv, Types
<1>5. /\ IsFiniteSet(PreauthRuns(p)) /\ Cardinality(PreauthRuns(p)) \in Nat
      /\ IsFiniteSet(Cleared(p)) /\ Cardinality(Cleared(p)) \in Nat
      /\ Cardinality(Client) \in Nat \ {0}
  BY RunsAreFinite
<1>6. CASE client[c].policy = p /\ client[c].preauth
  <2>1. c \in Cleared(p)
    BY <1>1, <1>6 DEF Cleared
  <2>2. grant[p] \in Grant
    BY <2>1 DEF WithinCap
  <2>3. PreauthRuns(p)' \subseteq PreauthRuns(p) \cup {n}
    BY <1>2, <1>3 DEF PreauthRuns
  <2>4. /\ Cardinality(PreauthRuns(p)') \in Nat
        /\ Cardinality(PreauthRuns(p)') <= Cardinality(PreauthRuns(p)) + 1
    <3> HIDE DEF n
    <3>1. /\ IsFiniteSet(PreauthRuns(p) \cup {n})
          /\ Cardinality(PreauthRuns(p) \cup {n}) <= Cardinality(PreauthRuns(p)) + 1
      <4>1. /\ IsFiniteSet(PreauthRuns(p) \cup {n})
            /\ \/ Cardinality(PreauthRuns(p) \cup {n}) = Cardinality(PreauthRuns(p))
               \/ Cardinality(PreauthRuns(p) \cup {n}) = Cardinality(PreauthRuns(p)) + 1
        BY <1>5, FS_AddElement
      <4> QED BY <1>5, <4>1
    <3>2. IsFiniteSet(PreauthRuns(p)')
          /\ Cardinality(PreauthRuns(p)') <= Cardinality(PreauthRuns(p) \cup {n})
      BY <2>3, <3>1, FS_Subset
    <3>3. Cardinality(PreauthRuns(p)') \in Nat /\ Cardinality(PreauthRuns(p) \cup {n}) \in Nat
      BY <3>1, <3>2, FS_CardinalityType
    <3> QED BY <1>5, <3>1, <3>2, <3>3
  <2>5. Cardinality(Cleared(p)') = Cardinality(Cleared(p)) - 1
    BY <1>4, <1>5, <2>1, FS_RemoveElement
  <2>6. grant'[p] = grant[p] /\ grant[p].cap \in Nat
    BY <1>2, <2>2 DEF Grant
  <2> QED BY <1>5, <2>2, <2>4, <2>5, <2>6 DEF WithinCap
<1>7. CASE ~ (client[c].policy = p /\ client[c].preauth)
  <2>1. PreauthRuns(p)' \subseteq PreauthRuns(p)
    BY <1>2, <1>3, <1>7 DEF PreauthRuns
  <2> QED BY <1>2, <1>4, <2>1, FewerStayWithin, StoreInvStep DEF Next, ClientNext
<1> QED BY <1>6, <1>7

\* A client is cleared only while the recorded runs are under the cap, beside
\* at most all other clients.
LEMMA CheckStaysWithin ==
    ASSUME StoreInv, NEW p \in Policy, WithinCap(p), NEW c \in Client, CheckGrant(c)
    PROVE  WithinCap(p)'
<1> DEFINE x == client[c]
<1>1. x \in Passed /\ x.pc = "grant" /\ x # None
  BY ClientShapes DEF CheckGrant, StoreInv
<1>2. /\ client' = [client EXCEPT ![c] = IF GrantAuthorizes(x.policy, x.version, x.q)
                                          THEN [x EXCEPT !.pc = "insert"] ELSE None]
      /\ UNCHANGED <<runs, now, grant>>
  BY DEF CheckGrant
<1>3. StoreInv'
  BY StoreInvStep DEF Next, ClientNext
<1>4. PreauthRuns(p)' = PreauthRuns(p)
  BY <1>2 DEF PreauthRuns
<1>5. CASE x.policy = p /\ GrantAuthorizes(p, x.version, x.q)
  <2>1. grant[p] \in Grant /\ Recent(p) < grant[p].cap
    BY <1>5 DEF GrantAuthorizes, StoreInv, Types
  <2>2. Cardinality(PreauthRuns(p)) <= Recent(p) /\ Recent(p) \in Nat
    <3> DEFINE R == {i \in DOMAIN runs : runs[i].policy = p /\ runs[i].at + Hour >= now}
    <3>1. IsFiniteSet(R)
      <4>1. DOMAIN runs = 1..Len(runs) /\ Len(runs) \in Nat
        BY DEF StoreInv, Types
      <4>2. IsFiniteSet(DOMAIN runs)
        BY <4>1, FS_Interval
      <4>3. R \in SUBSET DOMAIN runs
        OBVIOUS
      <4> HIDE DEF R
      <4> QED BY <4>2, <4>3, FS_Subset
    <3>2. PreauthRuns(p) \in SUBSET R
      BY DEF PreauthRuns
    <3>3. Recent(p) = Cardinality(R)
      BY DEF Recent
    <3> HIDE DEF R
    <3> QED BY <3>1, <3>2, <3>3, FS_Subset, FS_CardinalityType
  <2>3. Cardinality(Cleared(p)') <= Cardinality(Client)
    <3>1. Cleared(p)' \in SUBSET Client
      BY DEF Cleared
    <3> QED BY <3>1, AutomationAssumption, FS_Subset
  <2>4. /\ Cardinality(PreauthRuns(p)) \in Nat /\ Cardinality(Cleared(p)') \in Nat
        /\ Cardinality(Client) \in Nat /\ grant[p].cap \in Nat
    <3>1. Cardinality(Cleared(p)') \in Nat
      <4>1. Cleared(p)' \in SUBSET Client
        BY DEF Cleared
      <4> QED BY <4>1, AutomationAssumption, FS_Subset, FS_CardinalityType
    <3> QED BY <2>1, <3>1, RunsAreFinite DEF Grant
  <2>5. grant'[p] = grant[p]
    BY <1>2
  <2> QED BY <1>4, <2>1, <2>2, <2>3, <2>4, <2>5 DEF WithinCap
<1>6. CASE ~ (x.policy = p /\ GrantAuthorizes(p, x.version, x.q))
  <2>1. Cleared(p)' \subseteq Cleared(p)
    <3> SUFFICES ASSUME NEW d \in Client, d \in Cleared(p)' PROVE d \in Cleared(p)
      BY DEF Cleared
    <3>1. CASE d = c
      <4>1. client'[c] # None /\ client'[c].policy = p
        BY <3>1 DEF Cleared
      <4>2. client'[c] = [x EXCEPT !.pc = "insert"] /\ GrantAuthorizes(x.policy, x.version, x.q)
        BY <1>2, <4>1 DEF StoreInv, Types
      <4>3. client'[c].policy = x.policy
        BY <1>1, <4>2 DEF Passed
      <4> QED BY <1>6, <4>1, <4>2, <4>3
    <3>2. CASE d # c
      BY <1>2, <3>2 DEF Cleared, StoreInv, Types
    <3> QED BY <3>1, <3>2
  <2> QED BY <1>2, <1>3, <1>4, <2>1, FewerStayWithin
<1> QED BY <1>5, <1>6

\* The steps that neither admit a thread past the grant nor insert its execution.
LEMMA OthersAddNothing ==
    ASSUME StoreInv, [Next]_vars, NEW p \in Policy,
           \A c \in Client : ~ CheckGrant(c) /\ ~ InsertRun(c)
    PROVE  PreauthRuns(p)' \subseteq PreauthRuns(p) /\ Cleared(p)' \subseteq Cleared(p)
<1>1. UNCHANGED runs /\ (now' = now \/ now' = now + 1) /\ now \in Nat
  BY Writers DEF TimePasses, StoreInv, Types
<1>2. PreauthRuns(p)' \subseteq PreauthRuns(p)
  <2> SUFFICES ASSUME NEW i \in PreauthRuns(p)' PROVE i \in PreauthRuns(p)
    OBVIOUS
  <2>1. i \in DOMAIN runs /\ runs[i].policy = p /\ runs[i].preauth /\ runs[i].at + Hour >= now'
    BY <1>1 DEF PreauthRuns
  <2>2. runs[i].at + Hour \in Nat
    <3>1. runs \in Seq(Admitted)
      BY DEF StoreInv, Types
    <3>2. runs[i] \in Admitted
      BY <2>1, <3>1
    <3>3. runs[i].at \in Nat /\ Hour \in Nat
      BY <3>2, AutomationAssumption DEF Admitted
    <3> QED BY <3>3
  <2> QED BY <1>1, <2>1, <2>2 DEF PreauthRuns
<1>3. ASSUME NEW c \in Client
      PROVE  \/ client'[c] \in {client[c], None}
             \/ client'[c].pc \in {"simulate", "rules", "grant"}
             \/ client'[c].preauth = FALSE
  <2>1. CASE UNCHANGED client
    BY <2>1
  <2>2. ASSUME NEW d \in Client, NEW q \in Question, BeginSimulate(d, q)
        PROVE  \/ client'[c] = client[c] \/ client'[c].pc = "simulate"
    BY <2>2 DEF BeginSimulate, StoreInv, Types
  <2>3. ASSUME NEW d \in Client, LoadRules(d)
        PROVE  \/ client'[c] = client[c] \/ client'[c].pc = "simulate"
    <3>1. client[d] \in Simulating /\ client[d].pc = "simulate"
      BY <2>3, ClientShapes DEF LoadRules, StoreInv
    <3>2. PICK todo, loaded : client' = [client EXCEPT ![d].todo = todo, ![d].loaded = loaded]
      BY <2>3 DEF LoadRules
    <3>3. client'[d].pc = "simulate"
      BY <3>1, <3>2 DEF StoreInv, Types, Simulating
    <3> QED BY <3>2, <3>3 DEF StoreInv, Types
  <2>4. ASSUME NEW d \in Client, RecordEvaluation(d) \/ Refuse(d)
        PROVE  client'[c] \in {client[c], None}
    BY <2>4 DEF RecordEvaluation, Refuse, StoreInv, Types
  <2>5. ASSUME NEW d \in Client, NEW o \in Policy, NEW q \in Question,
               NEW preauth \in BOOLEAN, NEW bound \in BOOLEAN,
               BeginExecute(d, o, q, preauth, bound)
        PROVE  client'[c] = client[c] \/ client'[c].pc = "rules"
    BY <2>5 DEF BeginExecute, StoreInv, Types
  <2>6. ASSUME NEW d \in Client, Authorize(d)
        PROVE  \/ client'[c] \in {client[c], None}
               \/ client'[c].pc = "grant" \/ client'[c].preauth = FALSE
    <3>1. client[d] \in Executing
      BY <2>6, ClientShapes DEF Authorize, StoreInv
    <3>2. client[d].preauth \in BOOLEAN
      BY <3>1 DEF Executing
    <3>3. \/ client' = [client EXCEPT ![d] = None]
          \/ client' = [client EXCEPT ![d] =
                [pc |-> IF client[d].preauth THEN "grant" ELSE "insert", q |-> client[d].q,
                 policy |-> client[d].policy, version |-> client[d].read.version,
                 preauth |-> client[d].preauth]]
      BY <2>6 DEF Authorize
    <3> QED BY <3>2, <3>3 DEF StoreInv, Types
  <2>7. \/ UNCHANGED client
        \/ \E d \in Client :
              \/ \E q \in Question : BeginSimulate(d, q)
              \/ LoadRules(d) \/ RecordEvaluation(d) \/ Refuse(d) \/ Authorize(d)
              \/ \E o \in Policy, q \in Question, preauth, bound \in BOOLEAN :
                     BeginExecute(d, o, q, preauth, bound)
    BY DEF Next, AdminNext, ClientNext, CreatePolicy, BeginUpdate, BeginActivate, BeginRevoke,
           CommitUpdate, CommitGrant, ToggleStop, TimePasses, vars
  <2> QED BY <2>1, <2>2, <2>3, <2>4, <2>5, <2>6, <2>7
<1>4. Cleared(p)' \subseteq Cleared(p)
  BY <1>3 DEF Cleared
<1> QED BY <1>2, <1>4

\* Every step keeps every grant within its cap and its clients.
LEMMA CapInvStep ==
    ASSUME SameCap, StoreInv, CapInv, [Next]_vars
    PROVE  CapInv'
<1>1. StoreInv'
  BY StoreInvStep
<1>2. /\ CapsInv'
      /\ \A p \in Policy : \/ grant'[p] = grant[p]
                           \/ /\ grant'[p] \in Grant
                              /\ grant[p] \in Grant => grant'[p].cap = grant[p].cap
  BY CapsInvStep DEF CapInv
<1>3. ASSUME NEW p \in Policy PROVE WithinCap(p)'
  <2>1. WithinCap(p)
    BY DEF CapInv
  <2>2. CASE \E c \in Client : CheckGrant(c)
    BY <2>1, <2>2, CheckStaysWithin
  <2>3. CASE \E c \in Client : InsertRun(c)
    BY <2>1, <2>3, InsertStaysWithin
  <2>4. CASE \A c \in Client : ~ CheckGrant(c) /\ ~ InsertRun(c)
    <3>1. PreauthRuns(p)' \subseteq PreauthRuns(p) /\ Cleared(p)' \subseteq Cleared(p)
      BY <2>4, OthersAddNothing
    <3> QED BY <1>1, <1>2, <2>1, <3>1, FewerStayWithin
  <2> QED BY <2>2, <2>3, <2>4
<1> QED BY <1>2, <1>3 DEF CapInv

\* The cap of a grant is counted before the execution is inserted.  When every activation
\* names the same cap, the pre-authorized executions in the window exceed it by one for
\* every other thread at most, however the threads and the administrators interleave.
THEOREM GrantCapHolds ==
    ASSUME SameCap
    PROVE  Spec => []GrantCapBound
<1>1. Init => StoreInv /\ CapInv
  BY InitStoreInv, InitCapInv
<1>2. StoreInv /\ CapInv /\ [Next]_vars => (StoreInv /\ CapInv)'
  BY StoreInvStep, CapInvStep
<1>3. StoreInv /\ CapInv => GrantCapBound
  <2> SUFFICES ASSUME StoreInv, CapInv, NEW p \in Policy, grant[p] # None
               PROVE  Cardinality(PreauthRuns(p)) <= grant[p].cap + Cardinality(Client) - 1
    BY DEF GrantCapBound, PreauthRuns
  <2>1. grant[p] \in Grant
    BY DEF StoreInv, Types
  <2>2. grant[p].cap \in Nat
    BY <2>1 DEF Grant
  <2> QED BY <2>1, <2>2, RunsAreFinite DEF CapInv, WithinCap
<1> QED BY <1>1, <1>2, <1>3, PTL DEF Spec

==============================================================================
