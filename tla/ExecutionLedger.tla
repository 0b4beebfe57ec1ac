-------------------------- MODULE ExecutionLedger ---------------------------
(***************************************************************************)
(* What the safety envelope promises of each execution_id (the docstring   *)
(* of guardian/automation/envelope.py): a request is refused or claimed,   *)
(* once and for all; only a claimed request has an effect, at most one;    *)
(* it is settled after the effect and stays settled.                       *)
(***************************************************************************)
EXTENDS Naturals

CONSTANT Execution  \* execution_ids

VARIABLES
    fate,    \* "new", "refused", "claimed" or "settled"
    effects  \* how often the action was executed

ledgerVars == <<fate, effects>>

Init ==
    /\ fate = [x \in Execution |-> "new"]
    /\ effects = [x \in Execution |-> 0]

Decide(x, f) ==
    /\ fate[x] = "new"
    /\ fate' = [fate EXCEPT ![x] = f]
    /\ UNCHANGED effects

Refuse(x) == Decide(x, "refused")

Claim(x) == Decide(x, "claimed")

Perform(x) ==
    /\ fate[x] = "claimed"
    /\ effects[x] = 0
    /\ effects' = [effects EXCEPT ![x] = 1]
    /\ UNCHANGED fate

Settle(x) ==
    /\ fate[x] = "claimed"
    /\ effects[x] = 1
    /\ fate' = [fate EXCEPT ![x] = "settled"]
    /\ UNCHANGED effects

Next == \E x \in Execution : Refuse(x) \/ Claim(x) \/ Perform(x) \/ Settle(x)

Spec == Init /\ [][Next]_ledgerVars
=============================================================================
