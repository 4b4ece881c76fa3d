----------------------------- MODULE ServoSketch -----------------------------
(***************************************************************************)
(* UltrasonicTrigger4/serialReader/serialRead1.ino: every character        *)
(* received moves the position, and the servo follows, except for the      *)
(* character that turns the sweep around: it moves "pos" but does not      *)
(* write it to the servo.                                                  *)
(***************************************************************************)
EXTENDS Integers

CONSTANTS
  Turns,  \* increments in a full sweep: 36 in the sketch
  Rest,   \* the angle of the servo before the first write, 90 degrees
  RxMax   \* characters the UART buffer holds; later ones are dropped

Inc == 5
Top == Inc * Turns

ASSUME SketchAssumption ==
  /\ Turns \in Nat \ {0}
  /\ Rest \in 0 .. Top
  /\ RxMax \in Nat \ {0}

VARIABLES
  rx,    \* characters received and not yet read
  pos,   \* the sketch's position
  dir,   \* 0 on the way up, 1 on the way down
  angle  \* where the servo was last told to be

servoVars == <<rx, pos, dir, angle>>

(* Every variable has a value of its type; pos stays within the range.     *)
TypeOK ==
  /\ rx \in 0 .. RxMax
  /\ pos \in {Inc * i : i \in 0 .. Turns}
  /\ dir \in {0, 1}
  /\ angle \in 0 .. Top

Init ==
  /\ rx = 0
  /\ pos = 0
  /\ dir = 0
  /\ angle = Rest

(* A character arrives; the UART drops it when its buffer is full.         *)
Receive ==
  /\ rx < RxMax
  /\ rx' = rx + 1
  /\ UNCHANGED <<pos, dir, angle>>

Write(p) == angle' = p

Up ==
  /\ dir = 0 /\ pos < Top
  /\ pos' = pos + Inc
  /\ Write(pos')
  /\ UNCHANGED dir

(* Mutant: the way down does not write.                                    *)
DownSilent ==
  /\ dir = 1 /\ pos > 0
  /\ pos' = pos - Inc
  /\ UNCHANGED <<dir, angle>>

Down ==
  /\ dir = 1 /\ pos > 0
  /\ pos' = pos - Inc
  /\ Write(pos')
  /\ UNCHANGED dir

(* Mutant: the direction is not changed.                                   *)
TurnDownForgets ==
  /\ dir = 0 /\ pos >= Top
  /\ pos' = pos - Inc
  /\ UNCHANGED <<dir, angle>>

TurnDown ==
  /\ dir = 0 /\ pos >= Top
  /\ dir' = 1
  /\ pos' = pos - Inc
  /\ UNCHANGED angle

(* Mutant: the sweep turns one increment early.                            *)
TurnUpEarly ==
  /\ dir = 1 /\ pos <= Inc
  /\ dir' = 0
  /\ pos' = pos + Inc
  /\ UNCHANGED angle

TurnUp ==
  /\ dir = 1 /\ pos <= 0
  /\ dir' = 0
  /\ pos' = pos + Inc
  /\ UNCHANGED angle

(* loop(): recvOneChar() takes one character, if any, and one of the four  *)
(* branches deals with it.                                                 *)
Loop ==
  /\ rx > 0
  /\ rx' = rx - 1
  /\ Up \/ Down \/ TurnDown \/ TurnUp

Next == Receive \/ Loop

Spec == Init /\ [][Next]_servoVars /\ WF_servoVars(Loop)

-----------------------------------------------------------------------------
(* Only the first character finds the sketch at position 0 going up.       *)
NothingReceived == pos = 0 /\ dir = 0

(* The servo is where pos is, or one increment behind because the last     *)
(* character turned the sweep around at an end.                            *)
ServoFollows ==
  \/ NothingReceived
  \/ angle = pos
  \/ dir = 1 /\ angle = Top /\ pos = Top - Inc
  \/ dir = 0 /\ angle = 0 /\ pos = Inc

(* As long as characters keep coming the servo reaches both ends, although *)
(* the write that would take it from an end is left out.                   *)
Live == []<><<Receive>>_servoVars =>
          /\ []<>(angle = 0)
          /\ []<>(angle = Top)
=============================================================================
