---------------------------- MODULE HostActions ----------------------------
(***************************************************************************)
(* What the registered response actions do to a Windows host:              *)
(* guardian/actions/process.py, network.py and persistence.py, as the      *)
(* envelope drives them (snapshot, execute, verify) and a rollback request *)
(* undoes them.  ActionResponse has the rows; here a row is its outcome,   *)
(* and the host is what the commands of the operating system read and      *)
(* change.  The commands are external: they work, refuse, or time out,     *)
(* which says nothing of whether they worked.  Whoever put an entry there  *)
(* may put it there again.                                                 *)
(***************************************************************************)
EXTENDS FiniteSets

CONSTANTS
    Attempt,     \* attempts, each of one action on one target
    RunKey,      \* registry keys
    EntryName,   \* names of entries, in the registry and the startup folder
    Address,     \* destination addresses
    Port,        \* destination ports
    Task,        \* scheduled tasks
    Process      \* process ids

VARIABLES
    job,      \* what each attempt is about: never changes
    status,   \* the status of its row
    step,     \* where its execute is, or "none"
    host,     \* the host
    met       \* history: attempts that worked on one startup entry together

hostVars == <<job, status, step, host, met>>

Job ==
    [kind : {"process"}, at : Process] \cup [kind : {"block"}, at : Address \X Port]
      \cup [kind : {"value"}, at : RunKey \X EntryName] \cup [kind : {"task"}, at : Task]
      \cup [kind : {"startup"}, at : EntryName]

\* rollback_supported: a terminated process stays so.
Reversible(j) == j.kind # "process"

\* Where the file of a startup entry can be.
Place == {"entry", "backup", "disabled"}

Status == {"approved", "executing", "verifying", "succeeded", "execution_failed",
           "verification_failed", "rolled_back", "rollback_failed"}

HostTypeOK ==
    /\ job \in [Attempt -> Job]
    /\ status \in [Attempt -> Status]
    /\ step \in [Attempt -> {"none", "remove", "backup", "disable", "rename"}]
    /\ host \in [files : [EntryName -> SUBSET Place], values : SUBSET (RunKey \X EntryName),
                 exported : [EntryName -> SUBSET SUBSET (RunKey \X EntryName)],
                 rules : SUBSET (Address \X Port), enabled : SUBSET Task, alive : SUBSET Process]
    /\ met \subseteq Attempt

\* Every persistence mechanism is in place, and no rule is.  There is one exported
\* file per name, or none.
HostInit ==
    /\ job \in [Attempt -> Job]
    /\ status = [x \in Attempt |-> "approved"]
    /\ step = [x \in Attempt |-> "none"]
    /\ host = [files |-> [n \in EntryName |-> {"entry"}], values |-> RunKey \X EntryName,
               exported |-> [n \in EntryName |-> {}],
               rules |-> {}, enabled |-> Task, alive |-> Process]
    /\ met = {}

-----------------------------------------------------------------------------
\* Outcomes.

Becomes(x, s) == status' = [status EXCEPT ![x] = s]

\* A command works, refuses, or runs into its timeout with the work done or not.
Command(x, done) ==
    /\ \/ host' = done /\ Becomes(x, "verifying")
       \/ host' \in {host, done} /\ Becomes(x, "execution_failed")
    /\ UNCHANGED <<job, step, met>>

-----------------------------------------------------------------------------
\* execute.

Start(x) ==
    /\ status[x] = "approved"
    /\ Becomes(x, "executing")
    /\ UNCHANGED <<job, step, host, met>>

Executing(x, kind) == status[x] = "executing" /\ job[x].kind = kind

\* taskkill: without /F the process may outlive a command that worked.
Terminate(x) ==
    /\ Executing(x, "process")
    /\ \/ /\ job[x].at \in host.alive
          /\ \/ Command(x, [host EXCEPT !.alive = @ \ {job[x].at}])
             \/ Command(x, host)
       \/ /\ job[x].at \notin host.alive
          /\ Becomes(x, "execution_failed")
          /\ UNCHANGED <<job, step, host, met>>

\* The rule is named after the address alone.
Block(x) ==
    /\ Executing(x, "block")
    /\ Command(x, [host EXCEPT !.rules = @ \cup {job[x].at}])

DisableTask(x) ==
    /\ Executing(x, "task")
    /\ Command(x, [host EXCEPT !.enabled = @ \ {job[x].at}])

\* Mutant of ValuesOf: the export takes the hive, not the key.
WholeHive(key) == host.values

ValuesOf(key) == {v \in host.values : v[1] = key}

\* reg export of the whole key, to a file named after the entry; then reg delete of
\* the value.  The outcome of the export is not looked at.
DeleteValue(x) ==
    LET key == job[x].at[1]  name == job[x].at[2]
    IN  /\ Executing(x, "value")
        /\ \E file \in {{ValuesOf(key)}, host.exported[name]} :
             LET exported == [host EXCEPT !.exported[name] = file]
             IN  \/ /\ job[x].at \in host.values
                    /\ Command(x, [exported EXCEPT !.values = @ \ {job[x].at}])
                 \/ /\ host' = exported /\ Becomes(x, "execution_failed")
                    /\ UNCHANGED <<job, step, met>>

Files(x) == host.files[job[x].at]
Moved(x, from, to) == [host EXCEPT !.files[job[x].at] = (@ \ {from}) \cup {to}]

Goes(x, s) == step' = [step EXCEPT ![x] = s]
Fails(x) == Goes(x, "none") /\ Becomes(x, "execution_failed") /\ UNCHANGED <<job, host, met>>

\* Those in the middle of the same startup entry.
Others(x) == {y \in Attempt \ {x} : step[y] # "none" /\ job[y] = job[x]}

\* The entry is there, and so is a backup from an earlier time or it is not.  Without the
\* parameter backup the entry is renamed once.
Found(x) ==
    /\ Executing(x, "startup") /\ step[x] = "none"
    /\ "entry" \in Files(x)
    /\ Goes(x, "remove") \/ Goes(x, "rename")
    /\ met' = IF Others(x) = {} THEN met ELSE met \cup Others(x) \cup {x}
    /\ UNCHANGED <<job, status, host>>

\* Mutant of NotFound: the old backup goes before the entry is looked for.
ClearsFirst(x) ==
    /\ Executing(x, "startup") /\ step[x] = "none"
    /\ "entry" \notin Files(x)
    /\ host' = [host EXCEPT !.files[job[x].at] = @ \ {"backup"}]
    /\ Becomes(x, "execution_failed")
    /\ UNCHANGED <<job, step, met>>

NotFound(x) ==
    /\ Executing(x, "startup") /\ step[x] = "none"
    /\ "entry" \notin Files(x)
    /\ Fails(x)

\* The old backup goes before the file takes its name.
RemoveOld(x) ==
    /\ step[x] = "remove"
    /\ host' = [host EXCEPT !.files[job[x].at] = @ \ {"backup"}]
    /\ Goes(x, "backup")
    /\ UNCHANGED <<job, status, met>>

\* A rename whose source is gone, or whose target exists, raises.
ToBackup(x) ==
    /\ step[x] = "backup"
    /\ "entry" \in Files(x) /\ "backup" \notin Files(x)
    /\ host' = Moved(x, "entry", "backup")
    /\ Goes(x, "disable")
    /\ UNCHANGED <<job, status, met>>

ToDisabled(x) ==
    /\ step[x] = "disable"
    /\ "backup" \in Files(x) /\ "disabled" \notin Files(x)
    /\ host' = Moved(x, "backup", "disabled")
    /\ Goes(x, "none") /\ Becomes(x, "verifying")
    /\ UNCHANGED <<job, met>>

RenameOnce(x) ==
    /\ step[x] = "rename"
    /\ "entry" \in Files(x) /\ "disabled" \notin Files(x)
    /\ host' = Moved(x, "entry", "disabled")
    /\ Goes(x, "none") /\ Becomes(x, "verifying")
    /\ UNCHANGED <<job, met>>

\* So may any of them for a reason of the operating system.
Raises(x) == step[x] # "none" /\ Fails(x)

-----------------------------------------------------------------------------
\* verify and rollback.

\* What verify looks for: a process by its id, a rule by its name, an entry where the
\* action put it.  For a task it repeats what the command said.
ProcessGone(p) == p \notin host.alive
RuleExists(a) == \E r \in host.rules : r[1] = a
EntryDisabled(j) ==
    \/ j.kind = "value" /\ j.at \notin host.values
    \/ j.kind = "startup" /\ "entry" \notin host.files[j.at] /\ "disabled" \in host.files[j.at]
    \/ j.kind = "task"

InForce(j) ==
    \/ j.kind = "process" /\ ProcessGone(j.at)
    \/ j.kind = "block" /\ RuleExists(j.at[1])
    \/ EntryDisabled(j)

\* A check that cannot be made does not pass.
HostVerify(x) ==
    /\ status[x] = "verifying"
    /\ \/ InForce(job[x]) /\ Becomes(x, "succeeded")
       \/ Becomes(x, "verification_failed")
    /\ UNCHANGED <<job, step, host, met>>

\* An import or a deletion that times out may have worked.
Restored(x, h) ==
    /\ host' = h
    /\ \/ Becomes(x, "rolled_back")
       \/ Becomes(x, "rollback_failed") /\ job[x].kind # "startup"

\* Every rule of that name goes.
Unblock(x) ==
    /\ job[x].kind = "block" /\ RuleExists(job[x].at[1])
    /\ Restored(x, [host EXCEPT !.rules = {r \in @ : r[1] # job[x].at[1]}])

\* The whole exported file is imported; a file goes back under its own name.
RestoreEntry(x) ==
    \/ /\ job[x].kind = "value"
       /\ \E file \in host.exported[job[x].at[2]] :
            Restored(x, [host EXCEPT !.values = @ \cup file])
    \/ /\ job[x].kind = "startup" /\ "entry" \notin Files(x)
       /\ \/ "backup" \in Files(x) /\ Restored(x, Moved(x, "backup", "entry"))
          \/ /\ "backup" \notin Files(x) /\ "disabled" \in Files(x)
             /\ Restored(x, Moved(x, "disabled", "entry"))

HostRollBack(x) ==
    /\ status[x] = "verification_failed" /\ Reversible(job[x])
    /\ \/ Unblock(x)
       \/ RestoreEntry(x)
       \/ Becomes(x, "rollback_failed") /\ UNCHANGED host
    /\ UNCHANGED <<job, step, met>>

\* Malware puts its entry back, or its process starts again.
ComesBack ==
    /\ \/ \E n \in EntryName : host' = [host EXCEPT !.files[n] = @ \cup {"entry"}]
       \/ \E v \in RunKey \X EntryName : host' = [host EXCEPT !.values = @ \cup {v}]
       \/ \E p \in Process : host' = [host EXCEPT !.alive = @ \cup {p}]
    /\ UNCHANGED <<job, status, step, met>>

HostNext ==
    \/ \E x \in Attempt :
          \/ Start(x)
          \/ Terminate(x) \/ Block(x) \/ DisableTask(x) \/ DeleteValue(x)
          \/ Found(x) \/ NotFound(x) \/ RemoveOld(x) \/ ToBackup(x)
          \/ ToDisabled(x) \/ RenameOnce(x) \/ Raises(x)
          \/ HostVerify(x) \/ HostRollBack(x)
    \/ ComesBack

HostSpec == HostInit /\ [][HostNext]_hostVars

-----------------------------------------------------------------------------
\* A startup entry is renamed, not deleted (persistence.py, _disable_startup_entry): its
\* file is lost only when two attempts were in the middle of the same entry, whatever
\* renames failed, came back or were rolled back before.
LostOnlyInARace ==
    \A n \in EntryName : host.files[n] = {} => \E x \in met : job[x] = [kind |-> "startup", at |-> n]

\* The rollback of y reaches what x disabled: one rule name, one startup entry, or the
\* file of y's name, to which someone exported x's key.
Reaches(y, x) ==
    LET i == job[x]  j == job[y]
    IN  /\ i.kind = j.kind
        /\ CASE i.kind = "block" -> i.at[1] = j.at[1]
             [] i.kind = "value" ->
                  \E z \in Attempt : job[z] = [kind |-> "value", at |-> <<i.at[1], j.at[2]>>]
             [] OTHER            -> i.at = j.at

\* Verification is made once, and success is final: what an attempt has put in force
\* stays in force until someone outside puts the mechanism back or the rollback of
\* another attempt, on the same rule, entry or exported key, undoes it.
StaysInForce ==
    [][\A x \in Attempt :
         status[x] = "succeeded" /\ InForce(job[x]) =>
            \/ InForce(job[x])'
            \/ UNCHANGED <<status, step>>
            \/ \E y \in Attempt : /\ status[y] = "verification_failed" /\ status'[y] # status[y]
                                  /\ Reaches(y, x)]_hostVars
=============================================================================
