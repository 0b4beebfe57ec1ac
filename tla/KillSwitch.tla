----------------------------- MODULE KillSwitch -----------------------------
(***************************************************************************)
(* One kill switch: the in-memory singleton of guardian/safety/            *)
(* kill_switch.py and its row in guardian_kill_switches, written by        *)
(* guardian/safety/kill_switch_store.py on behalf of the endpoints of      *)
(* backend/api_guardian_phase5.py.  The memory is set before the row is    *)
(* read, changed and committed, and the commit may fail.  The scopes       *)
(* (global, agent, action) are one switch here: a request is blocked by    *)
(* any of those that cover it.                                             *)
(***************************************************************************)
EXTENDS Naturals

CONSTANTS
    MaxStops,     \* bound: calls of activate
    AdminsOverlap \* may an activation and a deactivation be in progress at once?

ASSUME KillSwitchAssumption == MaxStops \in Nat /\ AdminsOverlap \in BOOLEAN

VARIABLES
    stopMem,  \* the singleton's state
    stopDb,   \* the committed row's column active (FALSE: also no row)
    admin,    \* per operation, how far the endpoint's call has got
    stopHeld, \* history: an activation returned and no deactivation has run since
    stops     \* activations so far

stopVars == <<stopMem, stopDb, admin, stopHeld, stops>>

Operation == {"activate", "deactivate"}

\* A call has set the memory, or has also read the row as active or inactive.
Stage == {"idle", "set", "read_on", "read_off"}

StopTypeOK ==
    /\ stopMem \in BOOLEAN
    /\ stopDb \in BOOLEAN
    /\ admin \in [Operation -> Stage]
    /\ stopHeld \in BOOLEAN
    /\ stops \in Nat

StopInit ==
    /\ stopMem = FALSE
    /\ stopDb = FALSE
    /\ admin = [op \in Operation |-> "idle"]
    /\ stopHeld = FALSE
    /\ stops = 0

\* is_blocked_combined: memory OR row.
Blocked == stopMem \/ stopDb

MayBegin(op) ==
    /\ admin[op] = "idle"
    /\ AdminsOverlap \/ \A o \in Operation : admin[o] = "idle"
    /\ admin' = [admin EXCEPT ![op] = "set"]

BeginActivate ==
    /\ MayBegin("activate")
    /\ stops < MaxStops
    /\ stops' = stops + 1
    /\ stopMem' = TRUE
    /\ UNCHANGED <<stopDb, stopHeld>>

BeginDeactivate ==
    /\ MayBegin("deactivate")
    /\ stopMem' = FALSE
    /\ stopHeld' = FALSE
    /\ UNCHANGED <<stopDb, stops>>

\* The query that loads the row; a row that is not there reads as inactive.
ReadRow(op) ==
    /\ admin[op] = "set"
    /\ admin' = [admin EXCEPT ![op] = IF stopDb THEN "read_on" ELSE "read_off"]
    /\ UNCHANGED <<stopMem, stopDb, stopHeld, stops>>

Return(op) == admin' = [admin EXCEPT ![op] = "idle"]

\* Mutant of CommitActivate: a row that reads as inactive is not set active.
TouchRow ==
    /\ admin["activate"] \in {"read_on", "read_off"}
    /\ stopHeld' = (admin["deactivate"] = "idle")
    /\ Return("activate")
    /\ UNCHANGED <<stopMem, stopDb, stops>>

\* Flush and commit.  The session's UPDATE sets the columns that differ from
\* what was read: an active row is not set active again.
CommitActivate ==
    /\ admin["activate"] \in {"read_on", "read_off"}
    /\ stopDb' = IF admin["activate"] = "read_off" THEN TRUE ELSE stopDb
    /\ stopHeld' = (admin["deactivate"] = "idle")
    /\ Return("activate")
    /\ UNCHANGED <<stopMem, stops>>

CommitDeactivate ==
    /\ admin["deactivate"] \in {"read_on", "read_off"}
    /\ stopDb' = IF admin["deactivate"] = "read_on" THEN FALSE ELSE stopDb
    /\ Return("deactivate")
    /\ UNCHANGED <<stopMem, stopHeld, stops>>

\* A database error: the endpoint answers 500, the memory keeps its new state.
CommitFails(op) ==
    /\ admin[op] # "idle"
    /\ Return(op)
    /\ UNCHANGED <<stopMem, stopDb, stopHeld, stops>>

\* A restart clears the memory; sync_to_memory has no caller in the program.
StopRestart ==
    /\ stopMem' = FALSE
    /\ admin' = [op \in Operation |-> "idle"]
    /\ UNCHANGED <<stopDb, stopHeld, stops>>

AdminStep ==
    \/ BeginActivate \/ CommitActivate
    \/ BeginDeactivate \/ CommitDeactivate
    \/ \E op \in Operation : ReadRow(op) \/ CommitFails(op)

-----------------------------------------------------------------------------
(***************************************************************************)
(* "Activate in memory AND persist.  Both or (on DB error) memory + raise":*)
(* while an activation that returned is in force, its row is active, which *)
(* is what a restart has to go by.                                         *)
(***************************************************************************)
ActivationPersists == stopHeld => stopDb
=============================================================================
