--------------------------- MODULE MCSyncPipeline ---------------------------
(***************************************************************************)
(* Instances of SyncPipeline for TLC.  Three events, the third of them     *)
(* oversized: a batch of two small ones fits one request, any batch with   *)
(* the large one has to be trimmed.                                        *)
(***************************************************************************)
EXTENDS SyncPipeline, TLC

CONSTANTS e1, e2, e3

MCEvent == {e1, e2, e3}
MCSize == (e1 :> 1) @@ (e2 :> 1) @@ (e3 :> 2)
MCInvalid == {e2}
=============================================================================
