----------------------------- MODULE SerialPause -----------------------------
(***************************************************************************)
(* UltrasonicTrigger4/serial_reader.c: the serial reader thread stops a    *)
(* user process while an object is near the sensor. The thread does not    *)
(* signal the process itself: for every change it starts a short-lived     *)
(* kernel thread, a worker here, that looks the process up, signals it and *)
(* records what it did in the global flag "paused". Nothing waits for a    *)
(* worker; only the reader's own msleep() keeps two of them, or a worker   *)
(* and the unloading of the module, apart.                                 *)
(***************************************************************************)
EXTENDS SerialReader

CONSTANTS
  Workers,  \* the kernel threads kthread_run may create
  Procs,    \* user processes
  NoPid,    \* the parameter's default, -1
  Latency   \* the longest a worker takes from its creation, in ticks

ASSUME PauseAssumption ==
  /\ Workers # {}
  /\ NoPid \notin Procs
  /\ Latency \in Nat

(* A worker is over before the reader's msleep() is. The code relies on    *)
(* it; the theorems and runs that need it say so.                          *)
Prompt == Latency < SleepTicks

VARIABLES
  wpc,       \* where each worker is: see WorkerPCs
  wkind,     \* the function it runs: pause_thread or resume_thread
  wtask,     \* the task it has looked up
  age,       \* ticks since its creation
  paused,    \* the module's flag
  pid,       \* the module parameter, writable through sysfs
  proc,      \* what each user process is doing
  abandoned  \* history: processes pid named when it was overwritten, with
             \* the module holding them, or about to

workerVars == <<wpc, wkind, wtask, age>>
pauseVars == <<workerVars, paused, pid, proc, abandoned>>
vars == <<readerVars, pauseVars>>

WorkerPCs == {"idle", "start", "signal", "flag"}
Kinds == {"pause", "resume"}
Pids == Procs \union {NoPid}
ProcStates == {"running", "stopped", "exited"}

(* Every variable has a value of its type.                                 *)
TypeOK ==
  /\ ReaderTypeOK
  /\ wpc \in [Workers -> WorkerPCs]
  /\ wkind \in [Workers -> Kinds]
  /\ wtask \in [Workers -> Pids]
  /\ age \in [Workers -> 0 .. Latency]
  /\ paused \in {0, 1}
  /\ pid \in Pids
  /\ proc \in [Procs -> ProcStates]
  /\ abandoned \subseteq Procs

Init ==
  /\ ReaderInit
  /\ wpc = [w \in Workers |-> "idle"]
  /\ wkind = [w \in Workers |-> "pause"]
  /\ wtask = [w \in Workers |-> NoPid]
  /\ age = [w \in Workers |-> 0]
  /\ paused = 0
  /\ pid \in Pids
  /\ proc = [p \in Procs |-> "running"]
  /\ abandoned = {}

Busy(w) == wpc[w] # "idle"
Quiet == \A w \in Workers : ~Busy(w)

-----------------------------------------------------------------------------
(* The reader's decision: if (... && paused == 0) else if (... && paused   *)
(* == 1). kthread_run either starts a worker or fails, and the reader then *)
(* goes to sleep without having changed anything.                          *)

(* Mutant: the test of the flag is inverted.                               *)
ShouldPausePaused == "Detected" \in chunk /\ paused = 1

ShouldPause == "Detected" \in chunk /\ paused = 0
ShouldResume == "NotDetected" \in chunk /\ paused = 1

StartWorker(kind) ==
  \E w \in Workers :
    /\ ~Busy(w)
    /\ wpc' = [wpc EXCEPT ![w] = "start"]
    /\ wkind' = [wkind EXCEPT ![w] = kind]
    /\ age' = [age EXCEPT ![w] = 0]
    /\ UNCHANGED wtask

StartPause ==
  /\ reader = "decide"
  /\ ShouldPause
  /\ StartWorker("pause")
  /\ EnterSleep
  /\ UNCHANGED <<module, port, tty, echo, faults, paused, pid, proc, abandoned>>

StartResume ==
  /\ reader = "elseif"
  /\ ShouldResume
  /\ StartWorker("resume")
  /\ EnterSleep
  /\ UNCHANGED <<module, port, tty, echo, faults, paused, pid, proc, abandoned>>

NoPause ==
  /\ ~ShouldPause
  /\ ReaderGoes("decide", "elseif")
  /\ UNCHANGED <<module, slept, port, tty, chunk, echo, faults, pauseVars>>

NoResume ==
  /\ reader = "elseif"
  /\ ~ShouldResume
  /\ EnterSleep
  /\ UNCHANGED <<module, port, tty, echo, faults, pauseVars>>

StartFails ==
  /\ \/ reader = "decide" /\ ShouldPause
     \/ reader = "elseif" /\ ShouldResume
  /\ EnterSleep
  /\ UNCHANGED <<module, port, tty, echo, faults, pauseVars>>

Decide == StartPause \/ StartResume \/ NoPause \/ NoResume

-----------------------------------------------------------------------------
(* The worker: pause_thread and resume_thread differ in the signal they    *)
(* send and the value they give the flag.                                  *)

Ends(w) ==
  /\ wpc' = [wpc EXCEPT ![w] = "idle"]
  /\ wtask' = [wtask EXCEPT ![w] = NoPid]
  /\ age' = [age EXCEPT ![w] = 0]
  /\ UNCHANGED wkind

(* pid is unset, or names no process: the worker returns an error.         *)
NoSuchTask(w) ==
  /\ wpc[w] = "start"
  /\ pid = NoPid \/ (pid \in Procs /\ proc[pid] = "exited")
  /\ Ends(w)
  /\ UNCHANGED <<readerVars, paused, pid, proc, abandoned>>

(* The pointer is taken under rcu_read_lock, without a reference.          *)
FindTask(w) ==
  /\ wpc[w] = "start"
  /\ pid \in Procs
  /\ proc[pid] # "exited"
  /\ wpc' = [wpc EXCEPT ![w] = "signal"]
  /\ wtask' = [wtask EXCEPT ![w] = pid]
  /\ UNCHANGED <<readerVars, wkind, age, paused, pid, proc, abandoned>>

(* Mutant: resume_thread sends SIGSTOP, as the function it was copied from.*)
AlwaysStops(kind) == "stopped"

AfterSignal(kind) == IF kind = "pause" THEN "stopped" ELSE "running"

SendSignal(w) ==
  /\ wpc[w] = "signal"
  /\ proc[wtask[w]] # "exited"
  /\ proc' = [proc EXCEPT ![wtask[w]] = AfterSignal(wkind[w])]
  /\ wpc' = [wpc EXCEPT ![w] = "flag"]
  /\ UNCHANGED <<readerVars, wkind, wtask, age, paused, pid, abandoned>>

(* The task ended after rcu_read_unlock: the signal goes to freed memory.  *)
(* Nothing may come of it, the memory may be the task of another process   *)
(* by now, or the worker may die there.                                    *)
SignalFreedTask(w) ==
  /\ wpc[w] = "signal"
  /\ proc[wtask[w]] = "exited"
  /\ \/ /\ wpc' = [wpc EXCEPT ![w] = "flag"]
        /\ \/ UNCHANGED proc
           \/ \E q \in Procs : /\ proc[q] # "exited"
                              /\ proc' = [proc EXCEPT ![q] = AfterSignal(wkind[w])]
        /\ UNCHANGED <<wkind, wtask, age>>
     \/ Ends(w) /\ UNCHANGED proc
  /\ faults' = faults \union {"freedTask"}
  /\ UNCHANGED <<module, reader, slept, port, tty, chunk, echo,
                 paused, pid, abandoned>>

(* Mutant: pause_thread does not set the flag.                             *)
FlagNeverSet(kind) == 0

FlagOf(kind) == IF kind = "pause" THEN 1 ELSE 0

SetFlag(w) ==
  /\ wpc[w] = "flag"
  /\ paused' = FlagOf(wkind[w])
  /\ Ends(w)
  /\ UNCHANGED <<readerVars, pid, proc, abandoned>>

(* The exit handler does not wait for workers: one that is left executes   *)
(* memory that no longer holds the module.                                 *)
RunFreedText(w) ==
  /\ Busy(w)
  /\ Ends(w)
  /\ faults' = faults \union {"freedText"}
  /\ UNCHANGED <<module, reader, slept, port, tty, chunk, echo,
                 paused, pid, proc, abandoned>>

WorkerThread(w) ==
  IF TextLoaded
    THEN NoSuchTask(w) \/ FindTask(w) \/ SendSignal(w) \/ SignalFreedTask(w) \/ SetFlag(w)
    ELSE RunFreedText(w)

-----------------------------------------------------------------------------
(* The rest of the system.                                                 *)

(* echo p > /sys/module/serial_reader/parameters/pid                       *)
WritePid(p) ==
  /\ p # pid
  /\ module \in {"loaded", "exiting", "wedged"}
  /\ pid' = p
  /\ abandoned' = abandoned \union
       IF paused = 1 \/ \E w \in Workers : wpc[w] \in {"signal", "flag"}
         THEN {pid} \ {NoPid} ELSE {}
  /\ UNCHANGED <<readerVars, workerVars, paused, proc>>

(* A process ends, or is killed: SIGKILL ends a stopped one too.           *)
ProcExits(p) ==
  /\ proc[p] # "exited"
  /\ proc' = [proc EXCEPT ![p] = "exited"]
  /\ UNCHANGED <<readerVars, workerVars, paused, pid, abandoned>>

(* Time passes, but not past the latency of a worker.                      *)
Tick ==
  /\ \A w \in Workers : Busy(w) => age[w] < Latency
  /\ age' = [w \in Workers |-> IF Busy(w) THEN age[w] + 1 ELSE age[w]]
  /\ ReaderTick
  /\ UNCHANGED <<module, reader, port, tty, chunk, echo, faults,
                 wpc, wkind, wtask, paused, pid, proc, abandoned>>

Next ==
  \/ ReaderNext /\ UNCHANGED pauseVars
  \/ Decide
  \/ StartFails
  \/ \E w \in Workers : WorkerThread(w)
  \/ \E p \in Pids : WritePid(p)
  \/ \E p \in Procs : ProcExits(p)
  \/ Tick

Spec == Init /\ [][Next]_vars

(* Threads that can run do run, the clock and the sensor go on, and        *)
(* kthread_run does not fail for ever. Nothing is assumed of the user, of  *)
(* what moves in front of the sensor or of the plug.                       *)
Fairness ==
  /\ WF_vars((ReaderThread \/ ReaderStopped) /\ UNCHANGED pauseVars)
  /\ WF_vars(Decide \/ StartFails)
  /\ SF_vars(StartPause)
  /\ SF_vars(StartResume)
  /\ \A w \in Workers : WF_vars(WorkerThread(w))
  /\ WF_vars(SensorLoop /\ UNCHANGED pauseVars)
  /\ WF_vars(Tick)

FairSpec == Spec /\ Fairness

-----------------------------------------------------------------------------
(* Properties. All of them are stated for prompt workers.                  *)

(* Two workers never run at once, so the check of "paused" by the reader   *)
(* is never made on a flag another worker is about to change, although     *)
(* neither a lock nor a wait says so (serial_reader.c:104, :110).          *)
OneWorker == \A v, w \in Workers : Busy(v) /\ Busy(w) => v = w

(* rmmod never frees code a worker still runs, although the exit handler   *)
(* stops the reader only (serial_reader.c:134).                            *)
UnloadSafe ==
  /\ module = "gone" => Quiet
  /\ "freedText" \notin faults

(* A process is left stopped only where the module knows it: when no       *)
(* worker runs, a stopped process is the one "pid" names, and "paused" is  *)
(* set, so that the next "Object Not Detected" resumes it. The exception   *)
(* is a process whose pid was overwritten while the module held it.        *)
NeverStuck ==
  Quiet /\ "freedTask" \notin faults =>
    \A p \in Procs \ abandoned :
      proc[p] = "stopped" => p = pid /\ paused = 1

(* Nobody interferes with the module and process p.                        *)
Undisturbed(p) ==
  /\ module = "loaded"
  /\ port
  /\ pid = p
  /\ proc[p] # "exited"
  /\ faults = {}
  /\ abandoned = {}

Away(p) == Undisturbed(p) /\ ~Near(echo)
InFront(p) == Undisturbed(p) /\ Near(echo)

(* rmmod returns: the reader notices kthread_stop from wherever it is, its *)
(* blocking read included.                                                 *)
UnloadEnds == module = "exiting" ~> module \in {"gone", "wedged"}
=============================================================================
