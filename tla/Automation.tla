----------------------------- MODULE Automation -----------------------------
(***************************************************************************)
(* The versioned automation policies of the backend, and what relies on    *)
(* their version: simulations (recorded evaluations), pre-authorization    *)
(* grants and the policy gates of an execution.  The code is               *)
(* guardian/automation/store.py, preauth.py, preauth_store.py, the policy  *)
(* gates of envelope.py, and backend/api_guardian_phase5.py.               *)
(*                                                                         *)
(* Requests run in the threads of the backend, each with a session of its  *)
(* own.  A policy is read by two SELECTs, its row and then its rules, and  *)
(* a commit of somebody else may come in between; what an administrator    *)
(* writes is computed from what was read when the request began, and the   *)
(* session writes the columns that changed.                                *)
(***************************************************************************)
EXTENDS PolicyRules, Sequences

CONSTANTS
    Policy,        \* policy ids, numbers
    Seed,          \* the policies an administrator may find: functions Policy -> Draft or None
    Admin,         \* administrators' requests that may overlap
    Client,        \* threads that simulate and execute
    Draft,         \* payloads of a creation
    Patch,         \* payloads of a modification: some of the fields
    Bounds,        \* payloads of a grant activation
    Question,      \* the requests that are simulated and executed
    Hour,          \* length of the frequency window
    MaxTime,       \* bound: the clock
    MaxRequests    \* bound: requests that change or read a policy

ASSUME AutomationAssumption ==
    /\ Policy \subseteq Nat /\ IsFiniteSet(Policy) /\ IsFiniteSet(Client) /\ Client # {}
    /\ Question \subseteq Request
    /\ Hour \in Nat /\ MaxTime \in Nat /\ MaxRequests \in Nat

VARIABLES
    row,         \* guardian_automation_policies: per policy a row, or None
    rules,       \* guardian_automation_rules: per policy its rules
    grant,       \* guardian_preauth_grants: per policy a row, or None
    evaluation,  \* guardian_policy_evaluations: per request a row, or None
    stop,        \* the global kill switch
    edit,        \* per administrator: the request in flight, or None
    client,      \* per thread: the simulation or execution in flight, or None
    runs,        \* the executions admitted, in the order of their insert
    now,
    served       \* requests begun, for the bound

store == <<row, rules>>
vars == <<row, rules, grant, evaluation, stop, edit, client, runs, now, served>>

Row == [mode : AutomationMode, priority : Nat, expires : Nat, enabled : BOOLEAN, version : Nat]

Grant == [active : BOOLEAN, version : Nat, actions : SUBSET (ActionType \X ActionName),
          scope : Scope, maxRisk : 0..MaxRisk, cap : Nat, expires : Nat, revoked : BOOLEAN]

Ids(rs) == {r.id : r \in rs}

FirstVersion(d) ==
    [mode |-> d.mode, priority |-> d.priority, expires |-> d.expires, enabled |-> d.enabled,
     version |-> 1]

ValidRules(rs) == rs \subseteq Rule /\ IsFiniteSet(rs) /\ UniqueIds(rs)

\* Payloads that pass the validation of the store.
ASSUME PayloadAssumption ==
    /\ \A d \in Draft : FirstVersion(d) \in Row /\ ValidRules(d.rules)
    /\ \A s \in Seed :
        /\ s \in [Policy -> Draft \cup {None}]
        /\ \A p, o \in Policy : p # o /\ None \notin {s[p], s[o]} =>
               Ids(s[p].rules) \cap Ids(s[o].rules) = {}
    /\ \A patch \in Patch :
        /\ "mode" \in DOMAIN patch => patch.mode \in AutomationMode
        /\ "priority" \in DOMAIN patch => patch.priority \in Nat
        /\ "expires" \in DOMAIN patch => patch.expires \in Nat
        /\ "enabled" \in DOMAIN patch => patch.enabled \in BOOLEAN
        /\ "rules" \in DOMAIN patch => ValidRules(patch.rules)
    /\ \A b \in Bounds :
        /\ b.actions \subseteq ActionType \X ActionName /\ b.scope \in Scope
        /\ b.maxRisk \in 0..MaxRisk /\ b.cap \in Nat /\ b.expires \in Nat

\* None is no id and no row.
ASSUME NoneAssumption == None \notin Nat /\ None \notin Row /\ None \notin Grant

\* Types, and the constraints of the tables: a rule_id is unique over all policies.
TypeOK ==
    /\ \A p \in Policy : row[p] = None \/ row[p] \in Row
    /\ \A p \in Policy : rules[p] \subseteq Rule /\ UniqueIds(rules[p])
    /\ \A p, o \in Policy : p # o => Ids(rules[p]) \cap Ids(rules[o]) = {}
    /\ \A p \in Policy : grant[p] = None \/ grant[p] \in Grant
    /\ \A q \in Question : evaluation[q] = None \/ evaluation[q].decision \in PolicyDecision
    /\ stop \in BOOLEAN
    /\ now \in 0..MaxTime
    /\ served \in 0..MaxRequests

Init ==
    /\ \E s \in Seed :
        /\ row = [p \in Policy |-> IF s[p] = None THEN None ELSE FirstVersion(s[p])]
        /\ rules = [p \in Policy |-> IF s[p] = None THEN {} ELSE s[p].rules]
    /\ grant = [p \in Policy |-> None]
    /\ evaluation = [q \in Question |-> None]
    /\ stop = FALSE
    /\ edit = [a \in Admin |-> None]
    /\ client = [c \in Client |-> None]
    /\ runs = << >>
    /\ now = 0
    /\ served = 0

Serve == served < MaxRequests /\ served' = served + 1

Loaded(p, r, rs) ==
    [id |-> p, mode |-> r.mode, enabled |-> r.enabled, expires |-> r.expires,
     priority |-> r.priority, version |-> r.version, rules |-> rs]

Stored(p) == Loaded(p, row[p], rules[p])

Existing == {p \in Policy : row[p] # None}

RulesOf(P) == UNION {rules[p] : p \in P}

\* The columns a session writes: those it changed since it read them.
Written(read, new, current) ==
    [f \in DOMAIN current |-> IF new[f] = read[f] THEN current[f] ELSE new[f]]

-----------------------------------------------------------------------------
\* Administration of the policies.

CreatePolicy(p, d) ==
    /\ Serve
    /\ row[p] = None
    /\ Ids(d.rules) \cap Ids(RulesOf(Policy)) = {}
    /\ row' = [row EXCEPT ![p] = FirstVersion(d)]
    /\ rules' = [rules EXCEPT ![p] = d.rules]
    /\ UNCHANGED <<grant, evaluation, stop, edit, client, runs, now>>

\* update_policy and set_policy_enabled: the row is read, and one version up
\* is written over it.
BeginUpdate(a, p, patch) ==
    /\ Serve
    /\ edit[a] = None
    /\ row[p] # None
    /\ edit' = [edit EXCEPT ![a] =
           [kind |-> "update", policy |-> p, read |-> row[p],
            new |-> [f \in DOMAIN row[p] |->
                        IF f = "version" THEN row[p].version + 1
                        ELSE IF f \in DOMAIN patch THEN patch[f] ELSE row[p][f]],
            rules |-> IF "rules" \in DOMAIN patch THEN patch.rules ELSE None]]
    /\ UNCHANGED <<row, rules, grant, evaluation, stop, client, runs, now>>

\* Mutant of CommitUpdate: a change of the rules alone keeps the version.
RulesKeepVersion(a) ==
    /\ edit[a] # None /\ edit[a].kind = "update"
    /\ LET e == edit[a]
       IN  IF e.rules = None
           THEN /\ row' = [row EXCEPT ![e.policy] = Written(e.read, e.new, @)]
                /\ UNCHANGED rules
           ELSE /\ rules' = [rules EXCEPT ![e.policy] = e.rules]
                /\ UNCHANGED row
    /\ edit' = [edit EXCEPT ![a] = None]
    /\ UNCHANGED <<grant, evaluation, stop, client, runs, now, served>>

CommitUpdate(a) ==
    /\ edit[a] # None /\ edit[a].kind = "update"
    /\ LET e == edit[a]
           new == IF e.rules = None THEN rules[e.policy] ELSE e.rules
       IN  IF Ids(new) \cap Ids(RulesOf(Policy \ {e.policy})) = {}
           THEN /\ row' = [row EXCEPT ![e.policy] = Written(e.read, e.new, @)]
                /\ rules' = [rules EXCEPT ![e.policy] = new]
           ELSE UNCHANGED store
    /\ edit' = [edit EXCEPT ![a] = None]
    /\ UNCHANGED <<grant, evaluation, stop, client, runs, now, served>>

-----------------------------------------------------------------------------
\* Pre-authorization grants.

RulePreauthorizes(r, act) ==
    r.type \in {Wild, act[1]} /\ r.name \in {Wild, act[2]} /\ r.approvalMode = "pre_authorized"

\* policy_supports_preauth, and find_preauth_rule for every allowed action.
\* A prepare-only policy is eligible.
Eligible(p, b) ==
    /\ ~Skipped(p, now)
    /\ \E r \in p.rules : r.approvalMode = "pre_authorized"
    /\ \A act \in b.actions : \E r \in p.rules : RulePreauthorizes(r, act)

\* validate_grant_bounds.
ValidBounds(b) ==
    /\ b.actions # {}
    /\ \E k \in Key : b.scope[k] # {}
    /\ b.cap >= 1
    /\ b.expires > now

\* Mutant of BeginActivate: the policy needs no pre-authorized rule.
ActivateUnchecked(a, p, b) ==
    /\ Serve
    /\ edit[a] = None
    /\ row[p] # None
    /\ ValidBounds(b)
    /\ edit' = [edit EXCEPT ![a] =
           [kind |-> "grant", policy |-> p, read |-> grant[p],
            new |-> [active |-> TRUE, version |-> row[p].version, actions |-> b.actions,
                     scope |-> b.scope, maxRisk |-> b.maxRisk, cap |-> b.cap,
                     expires |-> b.expires, revoked |-> FALSE]]]
    /\ UNCHANGED <<row, rules, grant, evaluation, stop, client, runs, now>>

BeginActivate(a, p, b) ==
    /\ Serve
    /\ edit[a] = None
    /\ row[p] # None
    /\ ValidBounds(b)
    /\ Eligible(Stored(p), b)
    /\ edit' = [edit EXCEPT ![a] =
           [kind |-> "grant", policy |-> p, read |-> grant[p],
            new |-> [active |-> TRUE, version |-> row[p].version, actions |-> b.actions,
                     scope |-> b.scope, maxRisk |-> b.maxRisk, cap |-> b.cap,
                     expires |-> b.expires, revoked |-> FALSE]]]
    /\ UNCHANGED <<row, rules, grant, evaluation, stop, client, runs, now>>

BeginRevoke(a, p) ==
    /\ Serve
    /\ edit[a] = None
    /\ grant[p] # None
    /\ edit' = [edit EXCEPT ![a] =
           [kind |-> "grant", policy |-> p, read |-> grant[p],
            new |-> [grant[p] EXCEPT !.active = FALSE, !.revoked = TRUE]]]
    /\ UNCHANGED <<row, rules, grant, evaluation, stop, client, runs, now>>

\* A second first activation fails on the unique policy_id.
CommitGrant(a) ==
    /\ edit[a] # None /\ edit[a].kind = "grant"
    /\ LET e == edit[a]
       IN  grant' = [grant EXCEPT ![e.policy] =
               IF e.read # None THEN Written(e.read, e.new, @)
               ELSE IF @ = None THEN e.new ELSE @]
    /\ edit' = [edit EXCEPT ![a] = None]
    /\ UNCHANGED <<row, rules, evaluation, stop, client, runs, now, served>>

GrantCovers(g, q) ==
    /\ g.active
    /\ now < g.expires
    /\ <<q.type, q.name>> \in g.actions
    /\ q.risk <= g.maxRisk
    /\ \E k \in Key : g.scope[k] # {}
    /\ ScopeMatches(g.scope, q.target)

Recent(p) == Cardinality({i \in DOMAIN runs : runs[i].policy = p /\ runs[i].at + Hour >= now})

\* Mutant of GrantAuthorizes: one execution more than the cap.
OneOverTheCap(p, version, q) ==
    /\ grant[p] # None
    /\ grant[p].version = version
    /\ GrantCovers(grant[p], q)
    /\ Recent(p) <= grant[p].cap

\* check_grant_for_request, of the policy as it was read.
GrantAuthorizes(p, version, q) ==
    /\ grant[p] # None
    /\ grant[p].version = version
    /\ GrantCovers(grant[p], q)
    /\ Recent(p) < grant[p].cap

-----------------------------------------------------------------------------
\* Simulation: list_policies reads the enabled rows, then each policy's rules.

BeginSimulate(c, q) ==
    /\ Serve
    /\ client[c] = None
    /\ evaluation[q] = None  \* simulating a recorded request again changes nothing
    /\ client' = [client EXCEPT ![c] =
           [pc |-> "simulate", q |-> q, todo |-> {p \in Existing : row[p].enabled},
            rows |-> row, loaded |-> {}]]
    /\ UNCHANGED <<row, rules, grant, evaluation, stop, edit, runs, now>>

LoadRules(c) ==
    /\ client[c] # None /\ client[c].pc = "simulate"
    /\ \E p \in client[c].todo :
        /\ \A o \in client[c].todo : p <= o
        /\ client' = [client EXCEPT ![c].todo = @ \ {p},
               ![c].loaded = @ \cup {Loaded(p, client[c].rows[p], rules[p])}]
    /\ UNCHANGED <<row, rules, grant, evaluation, stop, edit, runs, now, served>>

\* The first evaluation of a request is kept, whatever the policies became.
RecordEvaluation(c) ==
    /\ client[c] # None /\ client[c].pc = "simulate"
    /\ client[c].todo = {}
    /\ evaluation' = [evaluation EXCEPT ![client[c].q] =
           IF @ # None THEN @ ELSE Evaluate(client[c].loaded, client[c].q, now, stop)]
    /\ client' = [client EXCEPT ![c] = None]
    /\ UNCHANGED <<row, rules, grant, stop, edit, runs, now, served>>

-----------------------------------------------------------------------------
\* The gates of an execution that look at the policy.

\* policy_active and policy_version: the caller expects the version that is read.
BeginExecute(c, p, q, preauth, bound) ==
    /\ Serve
    /\ client[c] = None
    /\ row[p] # None
    /\ row[p].enabled /\ row[p].mode # "disabled" /\ ~Expired(row[p], now)
    /\ client' = [client EXCEPT ![c] =
           [pc |-> "rules", q |-> q, policy |-> p, read |-> row[p], preauth |-> preauth,
            bound |-> bound]]
    /\ UNCHANGED <<row, rules, grant, evaluation, stop, edit, runs, now>>

\* identity: the evaluation named by the request is one of this policy, at
\* this version.
EvaluationBinds(e, p, version) == e # None /\ e.policy = p /\ e.version = version

\* The fresh evaluation of this policy alone, identity, the kill switch and
\* policy_authorization: deny wins, and a pre-authorized execution needs a
\* pre-authorized rule.
Authorize(c) ==
    /\ client[c] # None /\ client[c].pc = "rules"
    /\ LET x == client[c]
           v == Evaluate({Loaded(x.policy, x.read, rules[x.policy])}, x.q, now, FALSE)
           passes ==
               /\ x.bound => EvaluationBinds(evaluation[x.q], x.policy, x.read.version)
               /\ ~stop
               /\ v.decision # "deny"
               /\ x.preauth => \E r \in rules[x.policy] :
                                   r.id = v.rule /\ r.approvalMode = "pre_authorized"
       IN  client' = [client EXCEPT ![c] =
               IF ~passes THEN None
               ELSE [pc |-> IF x.preauth THEN "grant" ELSE "insert", q |-> x.q,
                     policy |-> x.policy, version |-> x.read.version,
                     preauth |-> x.preauth]]
    /\ UNCHANGED <<row, rules, grant, evaluation, stop, edit, runs, now, served>>

CheckGrant(c) ==
    /\ client[c] # None /\ client[c].pc = "grant"
    /\ LET x == client[c]
       IN  client' = [client EXCEPT ![c] =
               IF GrantAuthorizes(x.policy, x.version, x.q) THEN [x EXCEPT !.pc = "insert"]
               ELSE None]
    /\ UNCHANGED <<row, rules, grant, evaluation, stop, edit, runs, now, served>>

\* A check that reads nothing of the grant or the policy that the model has: the agent
\* scope of a grant, the cooldown and the hourly cap of a rule, the approval, the target.
Refuse(c) ==
    /\ client[c] # None /\ client[c].pc \in {"grant", "insert"}
    /\ client' = [client EXCEPT ![c] = None]
    /\ UNCHANGED <<row, rules, grant, evaluation, stop, edit, runs, now, served>>

InsertRun(c) ==
    /\ client[c] # None /\ client[c].pc = "insert"
    /\ runs' = Append(runs, [policy |-> client[c].policy, preauth |-> client[c].preauth,
                             at |-> now])
    /\ client' = [client EXCEPT ![c] = None]
    /\ UNCHANGED <<row, rules, grant, evaluation, stop, edit, now, served>>

-----------------------------------------------------------------------------
ToggleStop ==
    /\ Serve
    /\ stop' = ~stop
    /\ UNCHANGED <<row, rules, grant, evaluation, edit, client, runs, now>>

TimePasses ==
    /\ now < MaxTime
    /\ now' = now + 1
    /\ UNCHANGED <<row, rules, grant, evaluation, stop, edit, client, runs, served>>

AdminNext ==
    \/ \E p \in Policy, d \in Draft : CreatePolicy(p, d)
    \/ \E a \in Admin, p \in Policy :
        \/ \E patch \in Patch : BeginUpdate(a, p, patch)
        \/ \E b \in Bounds : BeginActivate(a, p, b)
        \/ BeginRevoke(a, p)
    \/ \E a \in Admin : CommitUpdate(a) \/ CommitGrant(a)

ClientNext ==
    \E c \in Client :
        \/ \E q \in Question : BeginSimulate(c, q)
        \/ LoadRules(c)
        \/ RecordEvaluation(c)
        \/ \E p \in Policy, q \in Question, preauth, bound \in BOOLEAN :
               BeginExecute(c, p, q, preauth, bound)
        \/ Authorize(c)
        \/ CheckGrant(c)
        \/ Refuse(c)
        \/ InsertRun(c)

Next == AdminNext \/ ClientNext \/ ToggleStop \/ TimePasses

Spec == Init /\ [][Next]_vars

-----------------------------------------------------------------------------
\* Properties.

\* What the insight says of two rules depends on nothing but the rules: the sample is
\* compared once, in the states before the first request.
Untouched == served = 0 /\ now = 0

\* The conflict insight reports two rules exactly when some request is matched by both
\* (conflicts.rules_overlap against policy_v5._rule_matches).
OverlapExact == Untouched => \A a, b \in Sample : OverlapsExactly(a, b)

\* A rule that the insight reports inside another matches no request alone
\* (conflicts.rule_subset against policy_v5._rule_matches).
SubsetSound == Untouched => \A a, b \in Sample : SubsetSoundly(a, b)

Stands(p) == row[p] # None /\ ~Skipped(Stored(p), now)

AllCandidates == UNION {{[policy |-> Stored(p), rule |-> r] : r \in rules[p]} : p \in Existing}

\* A rule that the insight reports as fully shadowed by another is never the
\* one that decides, whatever the other policies: the insight's winner and the
\* evaluation's order are computed by different code.  Policies that only
\* prepare are left out: their deny rules do not deny.
ShadowedNeverDecides ==
    \A c, d \in AllCandidates :
        LET a == Advice(c, d, now)
        IN  /\ c.rule.id < d.rule.id
            /\ RulesOverlap(c.rule, d.rule)
            /\ a.runtime /\ a.full
            /\ "prepare_only" \notin {c.policy.mode, d.policy.mode}
            => \A q \in Question :
                   Evaluate({Stored(p) : p \in Existing}, q, now, FALSE).rule # a.loser.rule.id

\* A recorded evaluation of the current version of its policy still says what
\* the policy says: an execution that names it is not bound to an outdated
\* simulation, although row and rules were read by two statements.
EvaluationCurrent ==
    \A q \in Question :
        LET e == evaluation[q]
            v == Evaluate({Stored(e.policy)}, q, now, FALSE)
        IN  /\ e # None /\ e.policy # None
            /\ Stands(e.policy)
            /\ row[e.policy].version = e.version
            => v.rule = e.rule /\ v.decision = e.decision

\* An active grant of the current version has a pre-authorized rule for every
\* action it allows: no edit of the policy leaves a stale authorization.
GrantBacked ==
    \A p \in Policy :
        /\ grant[p] # None /\ row[p] # None
        /\ grant[p].active
        /\ grant[p].version = row[p].version
        => \A act \in grant[p].actions : \E r \in rules[p] : RulePreauthorizes(r, act)

\* The cap of a grant is counted before the execution is inserted: threads
\* that overlap exceed it, each by one at most.
GrantCapBound ==
    \A p \in Policy : grant[p] # None =>
        Cardinality({i \in DOMAIN runs :
                        runs[i].policy = p /\ runs[i].preauth /\ runs[i].at + Hour >= now})
            <= grant[p].cap + Cardinality(Client) - 1

=============================================================================
