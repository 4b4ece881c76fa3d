---------------------------- MODULE MCNetlinkPause ----------------------------
EXTENDS PauseOnce
CONSTANTS w1, w2, p1, p2
MCWorkers == {w1, w2}
MCProcs == {p1, p2}
=============================================================================
