----------------------------- MODULE TimedPause -----------------------------
(***************************************************************************)
(* UltrasonicTrigger2/serial_reader.c and UltrasonicTrigger3/              *)
(* serial_reader.c: a report of an object makes the serial reader start a  *)
(* worker that stops a user process for five seconds. The second module    *)
(* starts none while "paused" is set; the first, which has no flag, starts *)
(* one for every report. Neither waits for its workers when it is          *)
(* unloaded.                                                               *)
(***************************************************************************)
EXTENDS SerialReader, PauseThread

ownReaderVars == <<reader, slept, port, tty, chunk, echo>>
vars == <<readerVars, threadVars>>

(* Every variable has a value of its type.                                 *)
TypeOK == ReaderTypeOK /\ ThreadTypeOK

(* Either module may be the one that is loaded. The first one's pid is a   *)
(* constant of its source.                                                 *)
Init ==
  /\ ReaderInit
  /\ ThreadInit
  /\ paused \in {NoFlag, 0}
  /\ pid \in IF Flagged THEN Pids ELSE Procs

-----------------------------------------------------------------------------
(* Mutant: the flag is not tested.                                         *)
ShouldPauseAlways == "Detected" \in chunk

ShouldPause == "Detected" \in chunk /\ (Flagged => paused = 0)

StartPause ==
  /\ reader = "decide"
  /\ ShouldPause
  /\ \E w \in Workers : StartThread(w)
  /\ EnterSleep
  /\ UNCHANGED <<module, port, tty, echo, faults, pid>>

(* Nothing to do, or kthread_run fails.                                    *)
NoPause ==
  /\ reader = "decide"
  /\ EnterSleep
  /\ UNCHANGED <<module, port, tty, echo, faults, threadVars>>

Worker(w) == WorkerThread(w) /\ UNCHANGED ownReaderVars

(* Only the second module has the parameter.                               *)
Parameter == Flagged /\ \E p \in Pids : WritePid(p)

Tick ==
  /\ ThreadTick
  /\ ReaderTick
  /\ UNCHANGED <<reader, port, tty, chunk, echo>>

Next ==
  \/ ReaderNext /\ UNCHANGED threadVars
  \/ StartPause
  \/ NoPause
  \/ \E w \in Workers : Worker(w)
  \/ (Parameter \/ \E p \in Procs : ProcExits(p)) /\ UNCHANGED ownReaderVars
  \/ Tick

Spec == Init /\ [][Next]_vars

-----------------------------------------------------------------------------
Pausing(w) == wpc[w] \notin {"idle", "end"}

(* The module with the flag starts a worker only when the one before has   *)
(* let its process continue and cleared the flag, although it tests the    *)
(* flag long before the worker sets it. The one before need not have ended *)
(* (serial_reader.c:51-55), but will signal nobody any more.               *)
OnePauses ==
  Flagged => \A v, w \in Workers : Pausing(v) /\ Pausing(w) => v = w

(* So none of its pauses is cut short. In the other module a worker        *)
(* started for an earlier report ends the pause of a later one             *)
(* (UltrasonicTrigger2/serial_reader.c:80).                                *)
FlagKeepsPauses ==
  [][Flagged => \A p \in Procs : ~CutShort(p)]_threadVars
=============================================================================
