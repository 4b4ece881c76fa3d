---------------------------- MODULE PauseThread ----------------------------
(***************************************************************************)
(* pause_thread(), which ppause, user-pid-pause and UltrasonicTrigger 1 to *)
(* 3 have in common: a kernel thread, a worker here, that looks a process  *)
(* up, stops it, sleeps for five seconds and lets it continue. The third   *)
(* UltrasonicTrigger also keeps a flag "paused" meanwhile. The modules     *)
(* that extend this one say who starts workers, when, and whether there is *)
(* a flag.                                                                 *)
(***************************************************************************)
EXTENDS ModuleLife, Integers

CONSTANTS
  Workers,  \* the kernel threads kthread_run may create
  Procs,    \* user processes
  NoPid,    \* -1
  Latency,  \* the longest a worker runs without sleeping, in ticks
  Delay     \* the worker's msleep(), in ticks

ASSUME ThreadAssumption ==
  /\ Workers # {}
  /\ NoPid \notin Procs
  /\ Latency \in Nat
  /\ Delay \in Nat \ {0}

VARIABLES
  wpc,     \* where each worker is: see WorkerPCs
  wtask,   \* the task it has looked up
  clock,   \* ticks since its creation, or in or since its msleep()
  paused,  \* the module's flag; NoFlag in a module that has none
  pid,     \* the static int, -1 by default
  proc,    \* what each user process is doing
  held     \* history: ticks since it was last stopped, up to Delay

workerVars == <<wpc, wtask, clock>>
threadVars == <<workerVars, paused, pid, proc, held>>

(* At "end" only a printk() and the return are left of it.                 *)
WorkerPCs == {"idle", "start", "stop", "set", "delay", "cont", "clear", "end"}
Pids == Procs \union {NoPid}
ProcStates == {"running", "stopped", "exited"}
NoFlag == -1
Flagged == paused # NoFlag
AtMost(a, b) == IF a < b THEN a ELSE b

ThreadTypeOK ==
  /\ module \in Modules
  /\ faults \subseteq Faults
  /\ wpc \in [Workers -> WorkerPCs]
  /\ wtask \in [Workers -> Pids]
  /\ clock \in [Workers -> 0 .. Latency + Delay]
  /\ paused \in {NoFlag, 0, 1}
  /\ pid \in Pids
  /\ proc \in [Procs -> ProcStates]
  /\ held \in [Procs -> 0 .. Delay]

ThreadInit ==
  /\ wpc = [w \in Workers |-> "idle"]
  /\ wtask = [w \in Workers |-> NoPid]
  /\ clock = [w \in Workers |-> 0]
  /\ proc = [p \in Procs |-> "running"]
  /\ held = [p \in Procs |-> 0]

Busy(w) == wpc[w] # "idle"
Quiet == \A w \in Workers : ~Busy(w)

(* kthread_run succeeds.                                                   *)
StartThread(w) ==
  /\ ~Busy(w)
  /\ wpc' = [wpc EXCEPT ![w] = "start"]
  /\ clock' = [clock EXCEPT ![w] = 0]
  /\ UNCHANGED <<wtask, paused, proc, held>>

-----------------------------------------------------------------------------
(* pause_thread().                                                         *)

Ends(w) ==
  /\ wpc' = [wpc EXCEPT ![w] = "idle"]
  /\ wtask' = [wtask EXCEPT ![w] = NoPid]
  /\ clock' = [clock EXCEPT ![w] = 0]

WorkerGoes(w, from, to) ==
  /\ wpc[w] = from
  /\ wpc' = [wpc EXCEPT ![w] = to]

IsThrough(w) ==
  /\ wpc' = [wpc EXCEPT ![w] = "end"]
  /\ wtask' = [wtask EXCEPT ![w] = NoPid]
  /\ UNCHANGED clock

NoSuchTask(w) ==
  /\ wpc[w] = "start"
  /\ pid = NoPid \/ (pid \in Procs /\ proc[pid] = "exited")
  /\ IsThrough(w)
  /\ UNCHANGED <<module, faults, paused, pid, proc, held>>

FindTask(w) ==
  /\ WorkerGoes(w, "start", "stop")
  /\ pid \in Procs
  /\ proc[pid] # "exited"
  /\ wtask' = [wtask EXCEPT ![w] = pid]
  /\ UNCHANGED <<module, faults, clock, paused, pid, proc, held>>

(* msleep() begins; the flagged module sets its flag before.               *)
StopTask(w) ==
  /\ WorkerGoes(w, "stop", IF Flagged THEN "set" ELSE "delay")
  /\ proc[wtask[w]] # "exited"
  /\ proc' = [proc EXCEPT ![wtask[w]] = "stopped"]
  /\ held' = IF proc[wtask[w]] = "stopped" THEN held
             ELSE [held EXCEPT ![wtask[w]] = 0]
  /\ clock' = IF Flagged THEN clock ELSE [clock EXCEPT ![w] = 0]
  /\ UNCHANGED <<module, faults, wtask, paused, pid>>

SetFlag(w) ==
  /\ WorkerGoes(w, "set", "delay")
  /\ paused' = 1
  /\ clock' = [clock EXCEPT ![w] = 0]
  /\ UNCHANGED <<module, faults, wtask, pid, proc, held>>

(* Mutant: no msleep() between the two signals.                            *)
WakeWorkerAtOnce(w) ==
  /\ WorkerGoes(w, "delay", "cont")
  /\ clock' = [clock EXCEPT ![w] = 0]
  /\ UNCHANGED <<module, faults, wtask, paused, pid, proc, held>>

(* Mutant: it is not woken when the time is over.                          *)
WakeWorkerNever(w) ==
  /\ WorkerGoes(w, "delay", "cont")
  /\ clock[w] > Delay
  /\ clock' = [clock EXCEPT ![w] = 0]
  /\ UNCHANGED <<module, faults, wtask, paused, pid, proc, held>>

WakeWorker(w) ==
  /\ WorkerGoes(w, "delay", "cont")
  /\ clock[w] = Delay
  /\ clock' = [clock EXCEPT ![w] = 0]
  /\ UNCHANGED <<module, faults, wtask, paused, pid, proc, held>>

(* Mutant: no SIGCONT.                                                     *)
ContinueNothing(w) ==
  /\ wpc[w] = "cont"
  /\ proc[wtask[w]] # "exited"
  /\ IF Flagged
       THEN wpc' = [wpc EXCEPT ![w] = "clear"] /\ UNCHANGED <<wtask, clock>>
       ELSE IsThrough(w)
  /\ UNCHANGED <<module, faults, paused, pid, proc, held>>

ContinueTask(w) ==
  /\ wpc[w] = "cont"
  /\ proc[wtask[w]] # "exited"
  /\ proc' = [proc EXCEPT ![wtask[w]] = "running"]
  /\ IF Flagged
       THEN wpc' = [wpc EXCEPT ![w] = "clear"] /\ UNCHANGED <<wtask, clock>>
       ELSE IsThrough(w)
  /\ UNCHANGED <<module, faults, paused, pid, held>>

(* From here on the reader may start another worker.                       *)
ClearFlag(w) ==
  /\ wpc[w] = "clear"
  /\ paused' = 0
  /\ IsThrough(w)
  /\ UNCHANGED <<module, faults, pid, proc, held>>

WorkerReturns(w) ==
  /\ wpc[w] = "end"
  /\ Ends(w)
  /\ UNCHANGED <<module, faults, paused, pid, proc, held>>

(* The process ended after the lookup, five seconds ago perhaps: the       *)
(* signal goes to freed memory. The worker carries on, another task may    *)
(* have been hit; or it dies there.                                        *)
SignalFreedTask(w) ==
  /\ wpc[w] \in {"stop", "cont"}
  /\ proc[wtask[w]] = "exited"
  /\ \/ Ends(w) /\ UNCHANGED proc
     \/ /\ \/ wpc[w] = "stop" /\ Flagged /\ WorkerGoes(w, "stop", "set") /\ UNCHANGED clock
           \/ wpc[w] = "stop" /\ ~Flagged /\ WorkerGoes(w, "stop", "delay")
                /\ clock' = [clock EXCEPT ![w] = 0]
           \/ wpc[w] = "cont" /\ Flagged /\ WorkerGoes(w, "cont", "clear") /\ UNCHANGED clock
           \/ wpc[w] = "cont" /\ ~Flagged /\ WorkerGoes(w, "cont", "end") /\ UNCHANGED clock
        /\ proc' \in {proc} \union
             {[proc EXCEPT ![q] = IF wpc[w] = "stop" THEN "stopped" ELSE "running"] :
                q \in {r \in Procs : proc[r] # "exited"}}
        /\ wtask' = IF wpc'[w] = "end" THEN [wtask EXCEPT ![w] = NoPid] ELSE wtask
  /\ faults' = faults \union {"freedTask"}
  /\ UNCHANGED <<module, paused, pid, held>>

(* The exit handler does not wait for workers, and most are asleep.        *)
RunFreedText(w) ==
  /\ Busy(w)
  /\ wpc[w] = "delay" => clock[w] = Delay
  /\ Ends(w)
  /\ faults' = faults \union {"freedText"}
  /\ UNCHANGED <<module, paused, pid, proc, held>>

WorkerThread(w) ==
  IF TextLoaded
    THEN \/ NoSuchTask(w) \/ FindTask(w) \/ StopTask(w) \/ SetFlag(w)
         \/ WakeWorker(w) \/ ContinueTask(w) \/ ClearFlag(w) \/ SignalFreedTask(w)
         \/ WorkerReturns(w)
    ELSE RunFreedText(w)

-----------------------------------------------------------------------------
(* kthread_stop(w), for the modules whose exit handler calls it.           *)

(* The worker is alive, or its task structure is freed memory: that may    *)
(* still look like a dead thread, or the call may crash.                   *)
StopThread(w) ==
  \/ Busy(w) /\ module' = "exiting" /\ UNCHANGED faults
  \/ /\ ~Busy(w)
     /\ module' \in {"gone", "wedged"}
     /\ faults' = faults \union {"deadThread"}

(* A thread asked to stop before it first runs never calls its function.   *)
WorkerNeverStarted(w) ==
  /\ module = "exiting"
  /\ wpc[w] = "start"
  /\ Ends(w)
  /\ UNCHANGED <<module, faults, paused, pid, proc, held>>

(* msleep() is not cut short, so kthread_stop() may take five seconds.     *)
ThreadStopped(w) ==
  /\ module = "exiting"
  /\ ~Busy(w)
  /\ module' = "gone"
  /\ UNCHANGED <<faults, threadVars>>

-----------------------------------------------------------------------------
(* The rest of the system.                                                 *)

(* A parameter is written through sysfs.                                   *)
WritePid(p) ==
  /\ module \in {"loaded", "exiting", "wedged"}
  /\ pid' = p
  /\ UNCHANGED <<module, faults, workerVars, paused, proc, held>>

ProcExits(p) ==
  /\ proc[p] # "exited"
  /\ proc' = [proc EXCEPT ![p] = "exited"]
  /\ UNCHANGED <<module, faults, workerVars, paused, pid, held>>

(* A worker that does not sleep does not stay longer than its latency.     *)
ThreadTick ==
  /\ \A w \in Workers : Busy(w) /\ wpc[w] # "delay" => clock[w] < Latency
  /\ clock' = [w \in Workers |->
       IF wpc[w] = "delay" THEN AtMost(clock[w] + 1, Delay)
       ELSE IF Busy(w) THEN clock[w] + 1 ELSE clock[w]]
  /\ held' = [p \in Procs |->
       IF proc[p] = "stopped" THEN AtMost(held[p] + 1, Delay) ELSE held[p]]
  /\ UNCHANGED <<module, faults, wpc, wtask, paused, pid, proc>>

-----------------------------------------------------------------------------
(* What every user of the thread hopes for.                                *)

CutShort(p) ==
  /\ proc[p] = "stopped"
  /\ proc'[p] = "running"
  /\ faults' = {}
  /\ held[p] < Delay

(* Stops and continues are paired however many workers overlap, whatever   *)
(* is written to pid meanwhile: without workers nobody is stopped, unless  *)
(* a worker was lost to freed memory.                                      *)
AllResumed ==
  Quiet /\ faults \subseteq {"deadThread", "noThread"} =>
    \A p \in Procs : proc[p] # "stopped"

(* Every stop ends, with the same exception: overlapping workers do not    *)
(* keep a process stopped between them, as one that must be resumed is     *)
(* always held by a worker that will.                                      *)
StopEnds ==
  \A p \in Procs :
    proc[p] = "stopped" ~>
      (proc[p] # "stopped" \/ ~(faults \subseteq {"deadThread", "noThread"}))

(* rmmod returns once the thread it waits for is over.                     *)
UnloadEnds == module = "exiting" ~> module = "gone"
=============================================================================
