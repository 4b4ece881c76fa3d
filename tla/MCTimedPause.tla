---------------------------- MODULE MCTimedPause ----------------------------
EXTENDS TimedPause, TLC
CONSTANTS w1, w2, p1, p2
MCWorkers == {w1, w2}
MCProcs == {p1, p2}
(* Neither a worker nor a process is special; no liveness is checked here.  *)
Perms == Permutations(MCWorkers) \union Permutations(MCProcs)
(* An object at 9.9 cm and one at 12 cm.                                   *)
MCEchoes == {580, 700}
=============================================================================
