----------------------------- MODULE ServoProofs -----------------------------
(***************************************************************************)
(* Both sketches sweep, and the servo follows, for every range.            *)
(***************************************************************************)
EXTENDS ServoRotate, TLAPS

(* pos is a multiple of the increment, so it meets both ends exactly.      *)
LEMMA OnePositionOn ==
  ASSUME NEW i \in 0 .. Turns, NEW p, p = Inc * i
  PROVE  /\ p \in 0 .. Top
         /\ p < Top => p + Inc \in {Inc * j : j \in 0 .. Turns}
         /\ p > 0 => p - Inc \in {Inc * j : j \in 0 .. Turns}
<1> USE SketchAssumption DEF Inc, Top
<1>1. p \in 0 .. Top
  OBVIOUS
<1>2. ASSUME p < Top
      PROVE  p + Inc \in {Inc * j : j \in 0 .. Turns}
  <2>1. i + 1 \in 0 .. Turns /\ p + Inc = Inc * (i + 1)
    BY <1>2
  <2> QED
    BY <2>1
<1>3. ASSUME p > 0
      PROVE  p - Inc \in {Inc * j : j \in 0 .. Turns}
  <2>1. i - 1 \in 0 .. Turns /\ p - Inc = Inc * (i - 1)
    BY <1>3
  <2> QED
    BY <2>1
<1> QED
  BY <1>1, <1>2, <1>3

(* What typing says of the position, without the set of its values.        *)
LEMMA PositionRange ==
  ASSUME TypeOK
  PROVE  /\ pos \in 0 .. Top
         /\ pos < Top => pos + Inc \in {Inc * j : j \in 0 .. Turns}
         /\ pos > 0 => pos - Inc \in {Inc * j : j \in 0 .. Turns}
<1>1. PICK i \in 0 .. Turns : pos = Inc * i
  BY DEF TypeOK
<1> QED
  BY <1>1, OnePositionOn

(* A step of serialRead1.ino keeps the types and is a step of the sweep.   *)
LEMMA LoopStep ==
  ASSUME TypeOK, Loop, ~Rotates, UNCHANGED <<sketch, inc>>
  PROVE  /\ TypeOK'
         /\ SweepOfBoard!Move
<1> USE SketchAssumption, PositionRange
<1>1. Top > 0 /\ Top \in Nat /\ Inc = 5
  BY DEF Top, Inc
<1>2. rx' \in 0 .. RxMax
  BY DEF Loop, TypeOK
<1>3. CASE Up
  <2>1. pos' = pos + Inc /\ angle' = pos' /\ dir = 0 /\ dir' = 0 /\ pos < Top
    BY <1>3 DEF Up, Write
  <2>2. pos' \in {Inc * j : j \in 0 .. Turns} /\ pos' \in 0 .. Top
    BY <2>1, OnePositionOn
  <2> QED
    BY <1>1, <1>2, <2>1, <2>2
       DEF TypeOK, SweepOfBoard!Move, SweepOfBoard!Ends, SweepOfBoard!Inc, SweepOfBoard!Top,
           Top, Rotates, Heading
<1>4. CASE Down
  <2>1. pos' = pos - Inc /\ angle' = pos' /\ dir = 1 /\ dir' = 1 /\ pos > 0
    BY <1>4 DEF Down, Write
  <2>2. pos' \in {Inc * j : j \in 0 .. Turns} /\ pos' \in 0 .. Top
    BY <2>1, OnePositionOn
  <2> QED
    BY <1>1, <1>2, <2>1, <2>2
       DEF TypeOK, SweepOfBoard!Move, SweepOfBoard!Ends, SweepOfBoard!Inc, SweepOfBoard!Top,
           Top, Rotates, Heading
<1>5. CASE TurnDown
  <2>1. /\ pos' = pos - Inc /\ angle' = angle /\ dir = 0 /\ dir' = 1
        /\ pos = Top
    BY <1>1, <1>5 DEF TurnDown
  <2>2. pos' \in {Inc * j : j \in 0 .. Turns} /\ pos' \in 0 .. Top
    BY <1>1, <2>1, OnePositionOn
  <2> QED
    BY <1>1, <1>2, <2>1, <2>2
       DEF TypeOK, SweepOfBoard!Move, SweepOfBoard!Ends, SweepOfBoard!Inc, SweepOfBoard!Top,
           Top, Rotates, Heading
<1>6. CASE TurnUp
  <2>1. /\ pos' = pos + Inc /\ angle' = angle /\ dir = 1 /\ dir' = 0
        /\ pos = 0
    BY <1>1, <1>6 DEF TurnUp
  <2>2. pos' \in {Inc * j : j \in 0 .. Turns} /\ pos' \in 0 .. Top
    BY <1>1, <2>1, OnePositionOn
  <2> QED
    BY <1>1, <1>2, <2>1, <2>2
       DEF TypeOK, SweepOfBoard!Move, SweepOfBoard!Ends, SweepOfBoard!Inc, SweepOfBoard!Top,
           Top, Rotates, Heading
<1> QED
  BY <1>3, <1>4, <1>5, <1>6 DEF Loop

(* So does a step of servoRotate.ino: the sign it has at an end is the one *)
(* that took it there.                                                     *)
LEMMA RotateStep ==
  ASSUME BoardTypeOK, Rotate
  PROVE  /\ BoardTypeOK'
         /\ SweepOfBoard!Move
<1> USE SketchAssumption, PositionRange DEF BoardTypeOK
<1>1. Top > 0 /\ Top \in Nat /\ Inc = 5
  BY DEF Top, Inc
<1>2. /\ Rotates /\ Rotates' /\ sketch' = sketch /\ dir' = dir
      /\ rx' \in 0 .. RxMax /\ angle' = pos' /\ pos' = pos + inc'
  BY DEF Rotate, Rotates, Write, TypeOK
<1>3. /\ inc' \in {Inc, -Inc}
      /\ inc' = Inc => pos < Top
      /\ inc' = -Inc => pos > 0
      /\ inc' # inc => pos \in {0, Top}
  BY <1>1, <1>2 DEF Rotate, AtAnEnd, TypeOK
<1>4. pos' \in {Inc * j : j \in 0 .. Turns}
  <2>1. CASE inc' = Inc
    BY <1>2, <1>3, <2>1
  <2>2. CASE inc' = -Inc
    <3>1. pos' = pos - Inc /\ pos > 0
      BY <1>1, <1>2, <1>3, <2>2
    <3> QED
      BY <3>1
  <2> QED
    BY <1>3, <2>1, <2>2
<1>5. pos' \in 0 .. Top
  BY <1>4, OnePositionOn
<1>6. TypeOK'
  BY <1>2, <1>4, <1>5 DEF TypeOK
<1>7. BoardTypeOK'
  BY <1>1, <1>2, <1>3, <1>6
<1>8. SweepOfBoard!Move
  <2>1. SweepOfBoard!Inc = Inc /\ SweepOfBoard!Top = Top
    BY DEF SweepOfBoard!Inc, SweepOfBoard!Top, Inc, Top
  <2>2. Heading' \in {1, -1} /\ pos' = pos + Inc * Heading'
    BY <1>1, <1>2, <1>3 DEF Heading
  <2>3. Heading' # Heading => pos \in {0, Top}
    BY <1>1, <1>2, <1>3 DEF Heading
  <2> QED
    BY <1>2, <1>5, <2>1, <2>2, <2>3 DEF SweepOfBoard!Move, SweepOfBoard!Ends
<1> QED
  BY <1>7, <1>8

(* What every step of the board does.                                      *)
LEMMA BoardStep ==
  ASSUME BoardTypeOK, [BoardNext]_boardVars
  PROVE  /\ BoardTypeOK'
         /\ SweepOfBoard!Move \/ UNCHANGED <<pos, dir, inc, sketch>>
<1>1. CASE Receive /\ UNCHANGED <<sketch, inc>>
  BY <1>1, SketchAssumption DEF Receive, TypeOK, BoardTypeOK, Rotates
<1>2. CASE UNCHANGED boardVars
  BY <1>2 DEF boardVars, servoVars, TypeOK, BoardTypeOK, Rotates
<1>3. CASE ~Rotates /\ Loop /\ UNCHANGED <<sketch, inc>>
  <2>1. TypeOK' /\ SweepOfBoard!Move
    BY <1>3, LoopStep DEF BoardTypeOK
  <2> QED
    BY <1>3, <2>1 DEF BoardTypeOK, Rotates
<1>4. CASE Rotate
  BY <1>4, RotateStep
<1> QED
  BY <1>1, <1>2, <1>3, <1>4 DEF BoardNext, BoardLoop

LEMMA Typing == BoardInit /\ [][BoardNext]_boardVars => []BoardTypeOK
<1>1. BoardInit => BoardTypeOK
  <2> SUFFICES ASSUME BoardInit
               PROVE  BoardTypeOK
    OBVIOUS
  <2> USE SketchAssumption, RotateAssumption
  <2>1. 0 \in 0 .. Turns /\ 0 = Inc * 0
    BY DEF Inc
  <2>2. pos \in {Inc * i : i \in 0 .. Turns}
    BY <2>1 DEF BoardInit, Init
  <2>3. Rotates => pos > 0 /\ inc = Inc
    BY DEF BoardInit, Inc
  <2> QED
    BY <2>2, <2>3 DEF BoardInit, Init, TypeOK, BoardTypeOK
<1>2. BoardTypeOK /\ [BoardNext]_boardVars => BoardTypeOK'
  BY BoardStep
<1> QED
  BY <1>1, <1>2, PTL

(* Every variable keeps its type: the position never leaves 0..Top, and is *)
(* always a multiple of the increment.                                     *)
THEOREM TypeCorrect == BoardSpec => []BoardTypeOK
  BY Typing, PTL DEF BoardSpec

(* Both sketches implement the abstract sweep.                             *)
THEOREM SketchesSweep == BoardSpec => BoardSweeps
<1>1. BoardInit => SweepOfBoard!Init
  <2> SUFFICES ASSUME BoardInit
               PROVE  SweepOfBoard!Init
    OBVIOUS
  <2>1. 0 \in 0 .. Turns /\ 0 = Inc * 0
    BY SketchAssumption DEF Inc
  <2>2. pos \in {Inc * i : i \in 0 .. Turns}
    BY <2>1, SketchAssumption, RotateAssumption DEF BoardInit, Init
  <2>3. Heading = 1
    BY DEF BoardInit, Init, Inc, Heading
  <2> QED
    BY <2>2, <2>3 DEF SweepOfBoard!Init, SweepOfBoard!Inc, Inc
<1>2. BoardTypeOK /\ [BoardNext]_boardVars => [SweepOfBoard!Move]_<<pos, Heading>>
  BY BoardStep DEF Rotates, Heading
<1> QED
  BY <1>1, <1>2, Typing, PTL DEF BoardSpec, BoardSweeps, SweepOfBoard!Spec

(* The servo is at the position, or one increment behind it after a turn   *)
(* of serialRead1.ino.                                                     *)
THEOREM ServoIsNear == BoardSpec => []BoardFollows
<1> USE SketchAssumption, RotateAssumption
<1>1. BoardInit => BoardFollows
  BY DEF BoardInit, Init, BoardFollows, ServoFollows, NothingReceived
<1>2. BoardTypeOK /\ BoardFollows /\ [BoardNext]_boardVars => BoardFollows'
  <2> SUFFICES ASSUME BoardTypeOK, BoardFollows, [BoardNext]_boardVars
               PROVE  BoardFollows'
    OBVIOUS
  <2>1. CASE (Receive /\ UNCHANGED <<sketch, inc>>) \/ UNCHANGED boardVars
    BY <2>1 DEF Receive, boardVars, servoVars, Rotates, BoardFollows,
                ServoFollows, NothingReceived
  <2>2. CASE Rotate
    BY <2>2 DEF Rotate, Rotates, Write, BoardFollows
  <2>3. CASE ~Rotates /\ Loop /\ UNCHANGED <<sketch, inc>>
    <3>1. ~Rotates' /\ ServoFollows
      BY <2>3 DEF Rotates, BoardFollows
    <3>2. CASE Up \/ Down
      BY <3>1, <3>2 DEF Up, Down, Write, ServoFollows, BoardFollows
    <3>3. CASE TurnDown \/ TurnUp
      <4>1. pos \in 0 .. Top /\ Top > 0
        BY PositionRange DEF BoardTypeOK, Top, Inc
      <4> QED
        BY <3>1, <3>3, <4>1 DEF TurnDown, TurnUp, ServoFollows, BoardFollows,
                                NothingReceived, Inc, Top
    <3> QED
      BY <2>3, <3>2, <3>3 DEF Loop
  <2> QED
    BY <2>1, <2>2, <2>3 DEF BoardNext, BoardLoop
<1> QED
  BY <1>1, <1>2, Typing, PTL DEF BoardSpec
=============================================================================
