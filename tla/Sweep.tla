-------------------------------- MODULE Sweep --------------------------------
(***************************************************************************)
(* What both servo sketches promise: the position sweeps from one end of   *)
(* the range to the other and back, one increment per character received.  *)
(***************************************************************************)
EXTENDS Integers

CONSTANT Turns  \* increments in a full sweep: 36 in the sketches

Inc == 5            \* degrees per character
Top == Inc * Turns  \* the far end, 180 degrees

VARIABLES
  at,      \* the position
  heading  \* 1 on the way up, -1 on the way down

Ends == {0, Top}

Init ==
  /\ at \in {Inc * i : i \in 0 .. Turns}
  /\ heading \in {1, -1}

(* One increment, never out of the range, and never back before an end.    *)
Move ==
  /\ heading' \in {1, -1}
  /\ at' = at + Inc * heading'
  /\ at' \in 0 .. Top
  /\ heading' # heading => at \in Ends

Spec == Init /\ [][Move]_<<at, heading>>
=============================================================================
