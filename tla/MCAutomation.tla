---------------------------- MODULE MCAutomation ----------------------------
(***************************************************************************)
(* Two policies, one target dimension of each kind, and the rules that     *)
(* make the interesting pairs: equal, nested, disjoint and one-sided       *)
(* scopes; deny against allow; pre-authorized and not.                     *)
(***************************************************************************)
EXTENDS Automation, TLC

CONSTANTS host1, host2, dir, file, addr1, addr2, t1, n1, n2, s1, admin, c1, c2

MCKey == {"agent_keys", "file_paths", "destination_ips"}
MCMatcher == [agent_keys |-> "exact", file_paths |-> "prefix", destination_ips |-> "network"]
MCEntry == [agent_keys |-> {{host1}, {host2}},
            file_paths |-> {{dir, file}, {file}},
            destination_ips |-> {{addr1}, {addr1, addr2}, {addr2}}]

Everywhere == [k \in MCKey |-> {}]
OnHost(h) == [Everywhere EXCEPT !["agent_keys"] = {{h}}]
Below(s) == [Everywhere EXCEPT !["file_paths"] = {s}]
In(net) == [OnHost(host1) EXCEPT !["destination_ips"] = {net}]

ARule(i, n, lo, hi, dec, pri, s, mode) ==
    [id |-> i, type |-> t1, name |-> n, minRisk |-> lo, maxRisk |-> hi, severity |-> Wild,
     decision |-> dec, requiresApproval |-> mode = "required", priority |-> pri,
     scope |-> s, approvalMode |-> mode]

Pre == ARule(1, n1, 0, 1, "allow", 1, OnHost(host1), "pre_authorized")
DenyRisky == ARule(2, Wild, 1, 1, "deny", 0, In({addr1, addr2}), "required")
AllowNet == ARule(3, n1, 1, 1, "allow", 1, In({addr2}), "required")
AllowDir == ARule(4, n1, 0, 1, "require_approval", 0, Below({dir, file}), "required")
DenyFile == ARule(5, Wild, 0, 0, "deny", 0, Below({file}), "required")
AllowAll == ARule(6, Wild, 0, 1, "allow", 1, Everywhere, "required")

APolicy(mode, pri, rs) ==
    [mode |-> mode, priority |-> pri, expires |-> 2, enabled |-> TRUE, rules |-> rs]

MCDraft == {APolicy("approval_required", 0, {Pre, DenyRisky}),
            APolicy("approval_required", 1, {AllowNet, AllowDir}),
            APolicy("prepare_only", 0, {DenyFile, AllowAll})}

MCSeed == {[p \in Policy |-> IF p = 1 THEN d ELSE None] :
              d \in {d \in MCDraft : Pre \in d.rules}}

MCPatch == {[rules |-> {AllowDir}], [rules |-> {AllowAll, DenyFile}], [enabled |-> FALSE],
            [mode |-> "approval_required", enabled |-> TRUE]}

MCBounds == {[actions |-> {<<t1, n1>>}, scope |-> OnHost(host1), maxRisk |-> 1, cap |-> 1,
              expires |-> 2]}

Target(h, f, a) == [agent_keys |-> h, file_paths |-> f, destination_ips |-> a]
Ask(n, risk, t) == [type |-> t1, name |-> n, risk |-> risk, severity |-> s1, target |-> t]

MCQuestion == {Ask(n1, 0, Target(host1, file, addr1)), Ask(n1, 1, Target(host1, None, addr2))}

\* Every scope that names at most one entry per dimension, and two names.
Pick(k) == {{}} \cup {{e} : e \in MCEntry[k]}
MCSample ==
    {ARule(1, n1, 0, 0, "deny", 0, s, "required") :
        s \in {s \in [MCKey -> UNION {Pick(k) : k \in MCKey}] : \A k \in MCKey : s[k] \in Pick(k)}}
    \cup {ARule(1, n, 1, 1, "deny", 0, Below({dir, file}), "required") : n \in {n2, Wild}}
    \cup {Pre, DenyRisky, AllowNet, AllowDir, DenyFile, AllowAll,
          ARule(2, n2, 0, 1, "allow", 0, [Everywhere EXCEPT !["agent_keys"] = {{host1}, {host2}}],
                "required")}

Alike == Permutations(Client)
=============================================================================
