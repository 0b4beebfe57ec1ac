---------------------------- MODULE MCDetection ----------------------------
(***************************************************************************)
(* One host and three events: two of the same process that make an         *)
(* incident each by themselves, and one with a single network detection.   *)
(***************************************************************************)
EXTENDS Detection, TLC

CONSTANTS h1, h2, tool, addr, w1, w2

Ev(c, p, a, s) == [category |-> c, process |-> p, ip |-> a, signals |-> s]

MCContent == <<Ev("process", tool, None, {"listed", "location"}),
               Ev("process", tool, None, {"listed", "location", "pair"}),
               Ev("network", None, addr, {"dport"})>>

MCBatch == {<<1, 3>>, <<2>>, <<1, 2>>, <<3, 3>>}

Alike == Permutations(Worker)
=============================================================================
