---------------------------- MODULE MCSerialPause ----------------------------
EXTENDS SerialPause
CONSTANTS w1, w2, p1, p2
MCWorkers == {w1, w2}
MCProcs == {p1, p2}
(* An object at 9.9 cm and one at 12 cm.                                   *)
MCEchoes == {580, 700}
=============================================================================
