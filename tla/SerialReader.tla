---------------------------- MODULE SerialReader ----------------------------
(***************************************************************************)
(* The serial reader kernel thread of the UltrasonicTrigger modules        *)
(* (serial_reader.c), its loading and unloading, and the ultrasonic sensor *)
(* that feeds it over a tty (UltrasonicTest.ino).                          *)
(*                                                                         *)
(* The module says nothing of what a report makes the reader do: the       *)
(* modules that extend this one (SerialPause, TimedPause) add the actions  *)
(* that leave the "decide" state and the kernel threads they start.        *)
(*                                                                         *)
(* Time is counted in ticks, so that msleep() lasts at least as long as    *)
(* the code asks for; everything else takes any number of ticks.           *)
(***************************************************************************)
EXTENDS ModuleLife, Integers, Sequences

CONSTANTS
  SleepTicks,  \* msleep() between two reads, in ticks
  QueueMax,    \* reports the tty buffer holds; later ones are dropped
  MaxChunk,    \* reports one kernel_read() may return: 1 in canonical mode
  Echoes       \* echo durations, in microseconds, that pulseIn() may return

ASSUME ReaderAssumption ==
  /\ SleepTicks \in Nat \ {0}
  /\ QueueMax \in Nat \ {0}
  /\ MaxChunk \in Nat \ {0}
  /\ Echoes \subseteq Nat /\ Echoes # {}

VARIABLES
  reader,  \* where the reader thread is: see ReaderPCs
  slept,   \* ticks spent in the current msleep(), counted up to SleepTicks
  port,    \* is the serial device plugged in?
  tty,     \* reports received and not yet read
  chunk,   \* the kinds of report in the reader's buffer
  echo     \* the duration the next measurement will see

readerVars == <<module, reader, slept, port, tty, chunk, echo, faults>>

Reports == {"Detected", "NotDetected"}

ReaderPCs == {"none", "open", "loop", "read", "decide", "elseif", "sleep",
              "close", "dead"}

ReaderTypeOK ==
  /\ module \in Modules
  /\ reader \in ReaderPCs
  /\ slept \in 0 .. SleepTicks
  /\ port \in BOOLEAN
  /\ tty \in Seq(Reports)
  /\ Len(tty) <= QueueMax
  /\ chunk \subseteq Reports
  /\ echo \in Echoes
  /\ faults \subseteq Faults

ReaderInit ==
  /\ module = "absent"
  /\ reader = "none"
  /\ slept = 0
  /\ port \in BOOLEAN
  /\ tty = <<>>
  /\ chunk = {}
  /\ echo \in Echoes
  /\ faults = {}

-----------------------------------------------------------------------------
(* The sensor and the tty.                                                 *)

(* distance = duration * .0343 / 2, against a threshold of 10 cm. pulseIn  *)
(* returns 0 when it times out, which is nearer than any object.           *)
Near(duration) == duration * 343 < 200000

ReportOf(duration) == IF Near(duration) THEN "Detected" ELSE "NotDetected"

(* The sketch's loop(): one measurement, one line. A line that finds the   *)
(* tty buffer full is dropped.                                             *)
SensorLoop ==
  /\ port
  /\ Len(tty) < QueueMax
  /\ tty' = Append(tty, ReportOf(echo))
  /\ UNCHANGED <<module, reader, slept, port, chunk, echo, faults>>

(* Something moves in front of the sensor.                                 *)
EchoChanges ==
  /\ echo' \in Echoes \ {echo}
  /\ UNCHANGED <<module, reader, slept, port, tty, chunk, faults>>

(* The serial device is unplugged: what the tty held is flushed.           *)
Unplug ==
  /\ port
  /\ port' = FALSE
  /\ tty' = <<>>
  /\ UNCHANGED <<module, reader, slept, chunk, echo, faults>>

-----------------------------------------------------------------------------
(* The module's entry points.                                              *)

(* insmod. When kthread_run fails the handler returns the error and the    *)
(* module is not loaded: nothing has changed.                              *)
ModuleInit ==
  /\ module = "absent"
  /\ module' = "loaded"
  /\ reader' = "open"
  /\ UNCHANGED <<slept, port, tty, chunk, echo, faults>>

(* rmmod enters the exit handler, which calls kthread_stop: the request    *)
(* reaches a reader that is still alive.                                   *)
StopReader ==
  /\ module = "loaded"
  /\ reader # "dead"
  /\ module' = "exiting"
  /\ UNCHANGED <<reader, slept, port, tty, chunk, echo, faults>>

(* The same call when the reader has already returned: serial_thread still *)
(* points at its task structure, which has been freed. The memory may      *)
(* still look like a dead thread, or the call may crash.                   *)
StopDeadReader ==
  /\ module = "loaded"
  /\ reader = "dead"
  /\ module' \in {"gone", "wedged"}
  /\ faults' = faults \union {"deadThread"}
  /\ UNCHANGED <<reader, slept, port, tty, chunk, echo>>

(* Mutant: the exit handler returns without waiting for the reader.        *)
ReaderNotAwaited ==
  /\ module = "exiting"
  /\ module' = "gone"
  /\ UNCHANGED <<reader, slept, port, tty, chunk, echo, faults>>

(* kthread_stop returns once the reader has ended, and the module goes.    *)
ReaderStopped ==
  /\ module = "exiting"
  /\ reader = "dead"
  /\ module' = "gone"
  /\ UNCHANGED <<reader, slept, port, tty, chunk, echo, faults>>

-----------------------------------------------------------------------------
(* The reader thread.                                                      *)

ReaderGoes(from, to) ==
  /\ reader = from
  /\ reader' = to

(* A thread asked to stop before it first runs never calls its function.   *)
NeverStarted ==
  /\ module = "exiting"
  /\ ReaderGoes("open", "dead")
  /\ UNCHANGED <<module, slept, port, tty, chunk, echo, faults>>

(* filp_open fails when there is no device, and the thread returns.        *)
OpenPort ==
  /\ ReaderGoes("open", IF port THEN "loop" ELSE "dead")
  /\ UNCHANGED <<module, slept, port, tty, chunk, echo, faults>>

(* Mutant: while (1).                                                      *)
TestNothing ==
  /\ ReaderGoes("loop", "read")
  /\ UNCHANGED <<module, slept, port, tty, chunk, echo, faults>>

(* while (!kthread_should_stop())                                          *)
TestStop ==
  /\ ReaderGoes("loop", IF module = "exiting" THEN "close" ELSE "read")
  /\ UNCHANGED <<module, slept, port, tty, chunk, echo, faults>>

(* kernel_read returns what the tty holds, up to its mode's limit.         *)
ReadReports ==
  /\ ReaderGoes("read", "decide")
  /\ \E n \in 1 .. MaxChunk :
       /\ n <= Len(tty)
       /\ chunk' = {tty[i] : i \in 1 .. n}
       /\ tty' = SubSeq(tty, n + 1, Len(tty))
  /\ UNCHANGED <<module, slept, port, echo, faults>>

(* Without a device kernel_read fails: -ENODEV ends the loop, any other    *)
(* error, and the end-of-file of a hung-up tty, does not.                  *)
ReadFails ==
  /\ ~port
  /\ tty = <<>>
  /\ \E next \in {"close", "sleep"} : ReaderGoes("read", next)
  /\ slept' = 0
  /\ UNCHANGED <<module, port, tty, chunk, echo, faults>>

(* Entering msleep() after a report has been dealt with.                   *)
EnterSleep ==
  /\ reader' = "sleep"
  /\ slept' = 0
  /\ chunk' = {}

(* Mutant: no msleep() between two reads.                                  *)
WakeUpAtOnce ==
  /\ ReaderGoes("sleep", "loop")
  /\ UNCHANGED <<module, slept, port, tty, chunk, echo, faults>>

(* msleep() returns, no sooner than asked.                                 *)
WakeUp ==
  /\ slept = SleepTicks
  /\ ReaderGoes("sleep", "loop")
  /\ UNCHANGED <<module, slept, port, tty, chunk, echo, faults>>

ClosePort ==
  /\ ReaderGoes("close", "dead")
  /\ UNCHANGED <<module, slept, port, tty, chunk, echo, faults>>

(* A tick of the clock, as the sleeping reader counts it.                  *)
ReaderTick ==
  slept' = IF reader = "sleep" /\ slept < SleepTicks THEN slept + 1 ELSE slept

Sensor == SensorLoop \/ EchoChanges \/ Unplug

Exit == StopReader \/ StopDeadReader \/ ReaderStopped

ReaderThread ==
  \/ NeverStarted \/ OpenPort \/ TestStop \/ ReadReports \/ ReadFails
  \/ WakeUp \/ ClosePort

ReaderNext == ModuleInit \/ Exit \/ Sensor \/ ReaderThread
=============================================================================
