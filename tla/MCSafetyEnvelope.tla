-------------------------- MODULE MCSafetyEnvelope --------------------------
(***************************************************************************)
(* SafetyEnvelope with two threads that submit the same execution: the     *)
(* races of the envelope are between duplicates of one execution_id.       *)
(***************************************************************************)
EXTENDS SafetyEnvelope, TLC

CONSTANTS t1, t2, x1

MCThread == {t1, t2}
MCExecution == {x1}
MCSlot == [x \in MCExecution |-> 1]

\* Threads are interchangeable; the liveness run does without this.
MCThreads == Permutations(MCThread)
=============================================================================
