--------------------------- MODULE MCHostActions ---------------------------
(* Response actions on one host: two registry keys and two names, so that  *)
(* an export can hold what another attempt deleted; two ports behind one   *)
(* rule name.                                                              *)
EXTENDS HostActions, TLC

Symmetry == Permutations(Attempt) \cup Permutations(RunKey) \cup Permutations(EntryName)
              \cup Permutations(Port)
=============================================================================
