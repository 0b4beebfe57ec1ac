-------------------------- MODULE MCBreakerCallers --------------------------
(* BreakerCallers on three request threads. *)
EXTENDS BreakerCallers

CONSTANTS c1, c2, c3

MCCaller == {c1, c2, c3}
=============================================================================
