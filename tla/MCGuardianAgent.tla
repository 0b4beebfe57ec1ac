-------------------------- MODULE MCGuardianAgent --------------------------
(***************************************************************************)
(* GuardianAgent for TLC, with one collector, a buffer of two events and a *)
(* queue of one row.  Both overflow; a batch of two overflows at its first *)
(* event or, with one stored or known before, at its second.  The two      *)
(* configurations differ in the key and in the host.                       *)
(***************************************************************************)
EXTENDS GuardianAgent, TLC

CONSTANTS process, key1, key2, host1, host2

MCKind == {process}
MCOrder == <<process>>
MCConfig == {[key |-> key1, host |-> host1], [key |-> key2, host |-> host2]}
=============================================================================
