------------------------- MODULE MCUltrasonicSystem -------------------------
EXTENDS UltrasonicSystem
CONSTANTS w1, hello
MCWorkers == {w1}
MCProcs == {hello}
(* An object at 9.9 cm and one at 12 cm.                                   *)
MCEchoes == {580, 700}
=============================================================================
