-------------------------- MODULE UltrasonicSystem --------------------------
(***************************************************************************)
(* The whole of UltrasonicTrigger4: the sensor board and the kernel module *)
(* (SerialPause), the user process helloWorld.c that writes a character to *)
(* the servo board every 600 ms, and the servo board (ServoSketch). The    *)
(* module stops the process, so the servo stands still while an object is  *)
(* near. The boards share nothing with the computer but serial lines.      *)
(***************************************************************************)
EXTENDS SerialPause

CONSTANTS
  Turns, Rest, RxMax,  \* of the servo board: see ServoSketch
  Hello                \* the process that runs helloWorld.c

ASSUME SystemAssumption == Hello \in Procs

VARIABLES
  rx, pos, dir, angle,  \* of the servo board
  opened                \* has helloWorld opened its serial port?

Servo == INSTANCE ServoSketch

boardVars == <<rx, pos, dir, angle>>
systemVars == <<vars, boardVars, opened>>

SystemInit ==
  /\ Init
  /\ Servo!Init
  /\ opened = FALSE

(* A stopped process executes nothing; one whose open() fails ends.        *)
HelloOpens ==
  /\ proc[Hello] = "running"
  /\ ~opened
  /\ opened' = TRUE
  /\ UNCHANGED <<vars, boardVars>>

(* One turn of the endless loop: write(), usleep().                        *)
HelloWrites ==
  /\ proc[Hello] = "running"
  /\ opened
  /\ Servo!Receive
  /\ UNCHANGED <<vars, opened>>

ServoLoop == Servo!Loop /\ UNCHANGED <<vars, opened>>

SystemNext ==
  \/ Next /\ UNCHANGED <<boardVars, opened>>
  \/ HelloOpens
  \/ HelloWrites
  \/ ServoLoop

(* The fairness of SerialPause; the process runs unless it is stopped, and *)
(* the servo board runs.                                                   *)
SystemFairness ==
  /\ Fairness
  /\ WF_systemVars(HelloOpens)
  /\ WF_systemVars(HelloWrites)
  /\ WF_systemVars(ServoLoop)

SystemSpec == SystemInit /\ [][SystemNext]_systemVars /\ SystemFairness

-----------------------------------------------------------------------------
(* While the module holds pid and nobody interferes, an object that stays  *)
(* near the sensor brings the servo to rest: the report, the worker, the   *)
(* signal and the characters still in the UART are all that separate them. *)
ServoRests == <>[]InFront(Hello) => <>[][FALSE]_angle

(* When the object stays away the servo moves for ever, whatever stops and *)
(* resumes came before.                                                    *)
ServoMoves == <>[]Away(Hello) => []<><<TRUE>>_angle
=============================================================================
