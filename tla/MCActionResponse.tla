-------------------------- MODULE MCActionResponse --------------------------
(* ActionResponse with two actions under one approval. *)
EXTENDS ActionResponse

CONSTANTS r1, a1, a2, p1, p2, q1, q2

MCRequest == {r1}
MCAction == {a1, a2}
MCApprovalOf == [a \in MCAction |-> r1]
MCApprover == {p1, p2}
MCRequester == {q1, q2}
=============================================================================
