----------------------------- MODULE ServoRotate -----------------------------
(***************************************************************************)
(* UltrasonicTrigger4/servoRotation/servoRotate.ino: the other sketch for  *)
(* the servo. It keeps the direction in the sign of "inc", flips it at     *)
(* either end before it moves, and writes every position it computes. The  *)
(* servo board runs one of the two sketches.                               *)
(***************************************************************************)
EXTENDS ServoSketch

CONSTANT Middle  \* the increment it starts from: 18, for 90 degrees

(* attach() of the Servo library puts the servo at 90 degrees as well.      *)
ASSUME RotateAssumption == Middle \in 1 .. Turns /\ Rest = Inc * Middle

VARIABLES
  sketch,  \* which of the two the board runs
  inc      \* what the next character adds to pos, in servoRotate.ino

boardVars == <<servoVars, sketch, inc>>

Rotates == sketch = "servoRotate"

(* Every variable has a value of its type, and the sketch is at an end     *)
(* only with the sign that took it there: at 0 with a positive increment   *)
(* it would step out of the range and stay there (servoRotate.ino:17).     *)
BoardTypeOK ==
  /\ TypeOK
  /\ sketch \in {"serialRead1", "servoRotate"}
  /\ inc \in {Inc, -Inc}
  /\ Rotates => (pos = 0 => inc = -Inc) /\ (pos = Top => inc = Inc)

BoardInit ==
  /\ sketch \in {"serialRead1", "servoRotate"}
  /\ inc = Inc
  /\ IF Rotates
       THEN rx = 0 /\ pos = Inc * Middle /\ dir = 0 /\ angle = Rest
       ELSE Init

(* Mutant: the test of the near end is off by one increment.               *)
AtOrBelow == pos >= Top \/ pos <= Inc

AtAnEnd == pos >= Top \/ pos <= 0

(* loop() of servoRotate.ino, a character having arrived.                  *)
Rotate ==
  /\ Rotates
  /\ rx > 0
  /\ rx' = rx - 1
  /\ inc' = IF AtAnEnd THEN -inc ELSE inc
  /\ pos' = pos + inc'
  /\ Write(pos')
  /\ UNCHANGED <<dir, sketch>>

BoardLoop == (~Rotates /\ Loop /\ UNCHANGED <<sketch, inc>>) \/ Rotate

BoardNext == (Receive /\ UNCHANGED <<sketch, inc>>) \/ BoardLoop

BoardSpec ==
  /\ BoardInit
  /\ [][BoardNext]_boardVars
  /\ WF_boardVars(BoardLoop)

-----------------------------------------------------------------------------
(* The position sweeps, whichever sketch the board runs: no character      *)
(* takes it out of the range or turns it in the middle (serialRead1.ino:   *)
(* 26-38, servoRotate.ino:14-20).                                          *)
Heading ==
  IF Rotates THEN (IF inc > 0 THEN 1 ELSE -1) ELSE (IF dir = 0 THEN 1 ELSE -1)

SweepOfBoard == INSTANCE Sweep WITH at <- pos, heading <- Heading

BoardSweeps == SweepOfBoard!Spec

(* The servo is where pos is; in serialRead1.ino it may be one increment   *)
(* behind, because the last character turned the sweep around at an end.   *)
BoardFollows == IF Rotates THEN angle = pos ELSE ServoFollows
=============================================================================
