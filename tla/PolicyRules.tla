---------------------------- MODULE PolicyRules ----------------------------
(***************************************************************************)
(* The pure part of the automation policies: what a rule matches, which    *)
(* candidate decides (guardian/automation/policy_v5.py), and what the      *)
(* conflict insight says of two rules (guardian/automation/conflicts.py).  *)
(*                                                                         *)
(* A scope entry is the set of target values it matches: a name is the     *)
(* set of its spellings' one value, a path the set of paths below it, an   *)
(* address a singleton and a network the set of its addresses.  Ids are    *)
(* numbers, in the order of their names.                                   *)
(***************************************************************************)
EXTENDS Integers, FiniteSets

CONSTANTS
    ActionType, ActionName,  \* of the registered actions
    Severity,
    Wild,                    \* "*" as an action, None as a severity
    None,                    \* no matched policy or rule
    MaxRisk,                 \* the risk scale is 0..MaxRisk
    Key,                     \* the scope dimensions
    Matcher,                 \* per key: "exact", "prefix" or "network"
    Entry,                   \* per key: the entries a scope may list
    Sample                   \* the rules whose overlaps are compared with the requests

ASSUME PolicyRulesAssumption ==
    /\ ActionType # {} /\ ActionName # {} /\ Severity # {}
    /\ Wild \notin ActionType \cup ActionName \cup Severity
    /\ IsFiniteSet(Key)
    /\ \A k \in Key : None \notin UNION Entry[k]
    /\ MaxRisk \in Nat
    /\ Matcher \in [Key -> {"exact", "prefix", "network"}]
    /\ \A k \in Key : {} \notin Entry[k]
    \* Two names are equal or different.
    /\ \A k \in Key : Matcher[k] = "exact" =>
           \A e, f \in Entry[k] : e = f \/ e \cap f = {}
    \* Two paths with a common path below them are one below the other.
    /\ \A k \in Key : Matcher[k] = "prefix" =>
           \A e, f \in Entry[k] : e \subseteq f \/ f \subseteq e \/ e \cap f = {}

AutomationMode == {"disabled", "prepare_only", "approval_required"}
PolicyDecision == {"allow", "deny", "require_approval", "prepare_only"}
ApprovalMode == {"required", "pre_authorized"}

Value(k) == UNION Entry[k]
Scope == {s \in [Key -> SUBSET UNION {Entry[k] : k \in Key}] :
              \A k \in Key : s[k] \subseteq Entry[k] /\ IsFiniteSet(s[k])}

\* A rule that validate_rule accepts.
Rule == {r \in [id : Nat, type : ActionType \cup {Wild}, name : ActionName \cup {Wild},
                minRisk : 0..MaxRisk, maxRisk : 0..MaxRisk,
                severity : Severity \cup {Wild}, decision : PolicyDecision,
                requiresApproval : BOOLEAN, priority : Nat, scope : Scope,
                approvalMode : ApprovalMode] : r.minRisk <= r.maxRisk}

ASSUME SampleAssumption == Sample \subseteq Rule

\* Rules of one policy have different ids.
UniqueIds(rules) == \A r, s \in rules : r.id = s.id => r = s

\* A request that validate_request accepts.  A target names a value for some keys.
Request == [type : ActionType, name : ActionName, risk : 0..MaxRisk, severity : Severity,
            target : {t \in [Key -> {None} \cup UNION {Value(k) : k \in Key}] :
                          \A k \in Key : t[k] \in {None} \cup Value(k)}]

-----------------------------------------------------------------------------
\* Matching.

Specificity(s) ==
    LET size(k) == Cardinality(s[k])
        Points(n) == IF n = 0 THEN 0 ELSE 10 + (IF n < 10 THEN 10 - n ELSE 0)
        sum[K \in SUBSET Key] ==
            IF K = {} THEN 0
            ELSE LET k == CHOOSE k \in K : TRUE IN Points(size(k)) + sum[K \ {k}]
    IN  sum[Key]

ScopeMatches(s, target) ==
    \A k \in Key : s[k] # {} => \E e \in s[k] : target[k] \in e

RuleMatches(r, req) ==
    /\ r.type \in {Wild, req.type}
    /\ r.name \in {Wild, req.name}
    /\ r.minRisk <= req.risk /\ req.risk <= r.maxRisk
    /\ r.severity \in {Wild, req.severity}
    /\ ScopeMatches(r.scope, req.target)

-----------------------------------------------------------------------------
\* Evaluation.  A policy here is a record with the fields id, mode, enabled,
\* expires, priority, version and rules.

Expired(p, now) == now >= p.expires

Skipped(p, now) == ~p.enabled \/ p.mode = "disabled" \/ Expired(p, now)

\* The candidates of an evaluation, and how they are ordered.
Candidates(policies, req, now) ==
    UNION {{[policy |-> p, rule |-> r] : r \in {r \in p.rules : RuleMatches(r, req)}} :
           p \in {p \in policies : ~Skipped(p, now)}}

SortKey(c) ==
    <<-c.rule.priority, -Specificity(c.rule.scope), -c.policy.priority, c.policy.id, c.rule.id>>

Precedes(c, d) ==
    \E i \in 1..5 : /\ SortKey(c)[i] < SortKey(d)[i]
                    /\ \A j \in 1..(i - 1) : SortKey(c)[j] = SortKey(d)[j]

First(cs) == CHOOSE c \in cs : \A d \in cs \ {c} : Precedes(c, d)

\* A deny rule of a prepare-only policy is a candidate like any other.
Denies(c) == c.policy.mode # "prepare_only" /\ c.rule.decision = "deny"

\* The decision an allowing candidate stands for.
Granted(c) ==
    IF c.policy.mode = "prepare_only" THEN "prepare_only"
    ELSE IF c.rule.requiresApproval /\ c.rule.decision = "allow" THEN "require_approval"
    ELSE c.rule.decision

Verdict(decision, c) ==
    [decision |-> decision, policy |-> c.policy.id, version |-> c.policy.version,
     rule |-> c.rule.id]

Unmatched(decision) == [decision |-> decision, policy |-> None, version |-> None, rule |-> None]

\* Mutant of Evaluate: the first candidate decides, a deny rule or not.
FirstDecides(policies, req, now, stopped) ==
    LET cs == Candidates(policies, req, now)
    IN  IF stopped THEN Unmatched("deny")
        ELSE IF cs # {} THEN Verdict(Granted(First(cs)), First(cs))
        ELSE Unmatched("require_approval")

Evaluate(policies, req, now, stopped) ==
    LET cs == Candidates(policies, req, now)
        denies == {c \in cs : Denies(c)}
    IN  IF stopped THEN Unmatched("deny")
        ELSE IF denies # {} THEN Verdict("deny", First(denies))
        ELSE IF cs # {} THEN Verdict(Granted(First(cs)), First(cs))
        ELSE Unmatched("require_approval")

-----------------------------------------------------------------------------
\* Conflict insight: overlap and subset, by the rules' text alone.

EntriesOverlap(k, e, f) ==
    IF Matcher[k] = "exact" THEN e = f
    ELSE IF Matcher[k] = "prefix" THEN e \subseteq f \/ f \subseteq e
    ELSE e \cap f # {}

\* Mutant of ScopesOverlap: a dimension only one scope constrains is disjoint.
SameKeysOverlap(s, t) ==
    \A k \in Key : s[k] # {} \/ t[k] # {} =>
        \E e \in s[k], f \in t[k] : EntriesOverlap(k, e, f)

ScopesOverlap(s, t) ==
    \A k \in Key : s[k] # {} /\ t[k] # {} =>
        \E e \in s[k], f \in t[k] : EntriesOverlap(k, e, f)

ActionsOverlap(a, b) ==
    /\ a.type = Wild \/ b.type = Wild \/ a.type = b.type
    /\ a.name = Wild \/ b.name = Wild \/ a.name = b.name

RiskOverlap(a, b) == a.minRisk <= b.maxRisk /\ b.minRisk <= a.maxRisk

SeverityOverlap(a, b) == a.severity = Wild \/ b.severity = Wild \/ a.severity = b.severity

RulesOverlap(a, b) ==
    /\ ActionsOverlap(a, b) /\ RiskOverlap(a, b) /\ SeverityOverlap(a, b)
    /\ ScopesOverlap(a.scope, b.scope)

\* Mutant of ScopeSubset: an unconstrained inner dimension is let through.
OpenSubset(inner, outer) ==
    \A k \in Key : outer[k] # {} =>
        \A e \in inner[k] : \E f \in outer[k] :
            IF Matcher[k] = "exact" THEN e = f ELSE e \subseteq f

ScopeSubset(inner, outer) ==
    \A k \in Key : outer[k] # {} =>
        /\ inner[k] # {}
        /\ \A e \in inner[k] : \E f \in outer[k] :
               IF Matcher[k] = "exact" THEN e = f ELSE e \subseteq f

\* Every request the inner rule matches, the outer matches.
RuleSubset(inner, outer) ==
    /\ outer.type \in {Wild, inner.type}
    /\ outer.name \in {Wild, inner.name}
    /\ outer.minRisk <= inner.minRisk /\ inner.maxRisk <= outer.maxRisk
    /\ outer.severity \in {Wild, inner.severity}
    /\ ScopeSubset(inner.scope, outer.scope)

\* What analyze_policy_conflicts reports of two overlapping rules.
Advice(c, d, now) ==
    LET denyC == c.rule.decision = "deny"
        denyD == d.rule.decision = "deny"
        runtime == ~Skipped(c.policy, now) /\ ~Skipped(d.policy, now)
        winner == IF denyC # denyD THEN (IF denyC THEN c ELSE d)
                  ELSE IF Precedes(c, d) THEN c ELSE d
        loser == IF winner = c THEN d ELSE c
        full == RuleSubset(loser.rule, winner.rule)
    IN  [runtime |-> runtime,
         conflict |-> runtime /\ denyC # denyD,
         kind |-> IF ~runtime THEN "dormant_overlap"
                  ELSE IF denyC # denyD THEN "deny_conflict"
                  ELSE IF c.rule.decision = d.rule.decision THEN "redundant_overlap"
                  ELSE "precedence_shadow",
         winner |-> winner, loser |-> loser, full |-> full,
         ambiguous |-> runtime /\ ~full]

-----------------------------------------------------------------------------
\* What the insight should say of two rules.

\* conflicts.rules_overlap compares two texts, policy_v5._rule_matches a text with a
\* request: the first is to hold exactly when some request is matched by both.
OverlapsExactly(a, b) ==
    RulesOverlap(a, b) <=> \E q \in Request : RuleMatches(a, q) /\ RuleMatches(b, q)

\* What the insight calls fully shadowed matches no request of its own.
SubsetSoundly(a, b) ==
    RuleSubset(a, b) => \A q \in Request : RuleMatches(a, q) => RuleMatches(b, q)
=============================================================================
