-------------------------- MODULE TimedPauseProofs --------------------------
(***************************************************************************)
(* UltrasonicTrigger2 and 3, for any number of workers and processes:      *)
(* nobody is left stopped, and the flag of the third module keeps its      *)
(* pauses apart and whole. Then ppause and the netlink module, *)
(* whose workers run the same function, by the same lemmas about it.       *)
(***************************************************************************)
EXTENDS TimedPause, PauseOnce, TLAPS

(* The reader's sleep is longer than a worker takes without sleeping.      *)
Prompt == Latency < SleepTicks

Types == ThreadTypeOK /\ slept \in 0 .. SleepTicks

Holds(w, p) == wtask[w] = p /\ wpc[w] \in {"set", "delay", "cont"}
NoneLost == faults \subseteq {"deadThread", "noThread"}

(* Where a worker can be, and for how long without sleeping.               *)
Placed ==
  \A w \in Workers :
    /\ wpc[w] \in {"stop", "set", "delay", "cont"} => wtask[w] \in Procs
    /\ ~Flagged => wpc[w] \notin {"set", "clear"}
    /\ Busy(w) /\ wpc[w] # "delay" => clock[w] <= Latency

(* A process that is stopped is held by a worker that will resume it.      *)
Kept ==
  NoneLost => \A p \in Procs : proc[p] = "stopped" => \E w \in Workers : Holds(w, p)

TaskInv == Types /\ Placed /\ Kept

(* A worker that has not yet set the flag was started in this sleep of the *)
(* reader; one that has is seen by it.                                     *)
Young == {"start", "stop", "set"}
Sheltered ==
  Flagged => \A w \in Workers :
    /\ wpc[w] \in Young => reader = "sleep" /\ slept <= clock[w]
    /\ wpc[w] \in {"delay", "cont", "clear"} => paused = 1

(* A process that is stopped has been so for as long as its worker slept.  *)
SleptAsLong(w) ==
  /\ wpc[w] = "delay" /\ proc[wtask[w]] = "stopped" => held[wtask[w]] >= clock[w]
  /\ wpc[w] = "cont" /\ proc[wtask[w]] = "stopped" => held[wtask[w]] >= Delay

Timed == Flagged /\ faults = {} => \A w \in Workers : SleptAsLong(w)

FlagInv ==
  /\ TaskInv /\ OnePauses /\ Sheltered /\ Timed
  /\ module = "absent" => reader = "none"

LEMMA Initially == Init => FlagInv
<1> SUFFICES ASSUME Init
             PROVE  FlagInv
  OBVIOUS
<1> USE DEF Init, ReaderInit, ThreadInit
<1>1. Types
  BY ThreadAssumption, ReaderAssumption DEF Types, ThreadTypeOK, Modules, Faults,
     WorkerPCs, Pids, ProcStates, NoFlag
<1>2. Placed /\ Kept
  BY DEF Placed, Kept, Busy
<1>3. OnePauses /\ Sheltered /\ Timed
  BY DEF OnePauses, Sheltered, Timed, SleptAsLong, Pausing, Young
<1> QED
  BY <1>1, <1>2, <1>3 DEF FlagInv, TaskInv

-----------------------------------------------------------------------------
(* Typing and places.                                                      *)

(* The other workers stay where they are.                                  *)
Others(w) ==
  \A v \in Workers : v # w =>
    wpc'[v] = wpc[v] /\ wtask'[v] = wtask[v] /\ clock'[v] = clock[v]

LEMMA WorkerTypes ==
  ASSUME ThreadTypeOK, Placed, NEW w \in Workers, WorkerThread(w) \/ RunFreedText(w)
  PROVE  ThreadTypeOK' /\ Placed' /\ Others(w) /\ Flagged' = Flagged
<1> USE ThreadAssumption DEF ThreadTypeOK, WorkerGoes, IsThrough, Ends, Busy, Flagged, NoFlag
<1>1. CASE NoSuchTask(w)
  BY <1>1 DEF NoSuchTask, Placed, Others, WorkerPCs, Pids
<1>2. CASE FindTask(w)
  BY <1>2 DEF FindTask, Placed, Others, WorkerPCs, Pids
<1>3. CASE StopTask(w)
  BY <1>3 DEF StopTask, Placed, Others, WorkerPCs, ProcStates
<1>4. CASE SetFlag(w)
  BY <1>4 DEF SetFlag, Placed, Others, WorkerPCs
<1>5. CASE WakeWorker(w)
  BY <1>5 DEF WakeWorker, Placed, Others, WorkerPCs
<1>6. CASE ContinueTask(w)
  BY <1>6 DEF ContinueTask, Placed, Others, WorkerPCs, Pids, ProcStates
<1>7. CASE ClearFlag(w)
  BY <1>7 DEF ClearFlag, Placed, Others, WorkerPCs, Pids
<1>8. CASE SignalFreedTask(w)
  <2>1. faults' \subseteq Faults
    BY <1>8 DEF SignalFreedTask, Faults
  <2>2. proc' \in [Procs -> ProcStates]
    BY <1>8 DEF SignalFreedTask, ProcStates
  <2>3. /\ wpc' \in [Workers -> WorkerPCs] /\ wtask' \in [Workers -> Pids]
        /\ clock' \in [Workers -> 0 .. Latency + Delay]
    BY <1>8 DEF SignalFreedTask, WorkerPCs, Pids
  <2>4. Others(w)
    BY <1>8 DEF SignalFreedTask, Others
  <2>5. /\ wpc'[w] \in {"set", "delay"} => wtask'[w] = wtask[w] /\ wpc[w] = "stop"
        /\ ~Flagged => wpc'[w] \notin {"set", "clear"}
        /\ wpc'[w] \in {"idle", "set", "delay", "clear", "end"}
        /\ clock'[w] = clock[w] \/ clock'[w] = 0
    BY <1>8 DEF SignalFreedTask
  <2>6. UNCHANGED <<module, paused, pid, held>>
    BY <1>8 DEF SignalFreedTask
  <2> QED
    BY <2>1, <2>2, <2>3, <2>4, <2>5, <2>6, <1>8 DEF Placed, Others, SignalFreedTask
<1>9. CASE RunFreedText(w)
  BY <1>9 DEF RunFreedText, Placed, Others, WorkerPCs, Pids, Faults
<1>10. CASE WorkerReturns(w)
  BY <1>10 DEF WorkerReturns, Placed, Others, WorkerPCs, Pids
<1> QED
  BY <1>1, <1>2, <1>3, <1>4, <1>5, <1>6, <1>7, <1>8, <1>9, <1>10 DEF WorkerThread

(* What the reader does besides starting workers.                          *)
LEMMA ReaderSteps ==
  ASSUME Types, ReaderNext \/ NoPause, module = "absent" => reader = "none"
  PROVE  /\ module' \in Modules /\ faults' \subseteq Faults /\ slept' \in 0 .. SleepTicks
         /\ faults \subseteq faults'
         /\ module' = "absent" => reader' = "none"
<1> USE ReaderAssumption DEF Types, ThreadTypeOK, Modules, Faults, ReaderGoes
<1>1. CASE ModuleInit
  BY <1>1 DEF ModuleInit
<1>2. CASE Exit
  BY <1>2 DEF Exit, StopReader, StopDeadReader, ReaderStopped
<1>3. CASE Sensor
  BY <1>3 DEF Sensor, SensorLoop, EchoChanges, Unplug
<1>4. CASE ReaderThread
  <2>1. reader # "none" /\ module' = module /\ faults' = faults
    BY <1>4 DEF ReaderThread, NeverStarted, OpenPort, TestStop, ReadReports,
                ReadFails, WakeUp, ClosePort
  <2>2. slept' = slept \/ slept' = 0
    BY <1>4 DEF ReaderThread, NeverStarted, OpenPort, TestStop, ReadReports,
                ReadFails, WakeUp, ClosePort
  <2> QED
    BY <2>1, <2>2
<1>5. CASE NoPause
  BY <1>5 DEF NoPause, EnterSleep
<1> QED
  BY <1>1, <1>2, <1>3, <1>4, <1>5 DEF ReaderNext

(* The steps that are not a worker's.                                      *)
LEMMA OtherTypes ==
  ASSUME Types, Placed, module = "absent" => reader = "none", [Next]_vars,
         \A w \in Workers : ~Worker(w)
  PROVE  /\ Types' /\ Placed' /\ Flagged' = Flagged /\ faults \subseteq faults'
         /\ module' = "absent" => reader' = "none"
<1> USE ThreadAssumption, ReaderAssumption DEF Types, ThreadTypeOK, Busy, Flagged, NoFlag
<1>1. CASE (ReaderNext \/ NoPause) /\ UNCHANGED threadVars
  BY <1>1, ReaderSteps DEF threadVars, workerVars, Placed
<1>2. CASE StartPause
  <2>1. PICK w \in Workers : StartThread(w)
    BY <1>2 DEF StartPause
  <2>2. module' = module /\ faults' = faults /\ slept' = 0 /\ pid' = pid /\ reader # "none"
    BY <1>2 DEF StartPause, EnterSleep
  <2> QED
    BY <2>1, <2>2 DEF StartThread, WorkerPCs, Placed
<1>3. CASE Parameter /\ UNCHANGED ownReaderVars
  BY <1>3 DEF Parameter, WritePid, workerVars, ownReaderVars, Placed, Pids
<1>4. ASSUME NEW p \in Procs, ProcExits(p), UNCHANGED ownReaderVars
      PROVE  /\ Types' /\ Placed' /\ Flagged' = Flagged /\ faults \subseteq faults'
             /\ module' = "absent" => reader' = "none"
  BY <1>4 DEF ProcExits, workerVars, ownReaderVars, Placed, ProcStates
<1>5. CASE Tick
  <2>1. clock' \in [Workers -> 0 .. Latency + Delay]
    BY <1>5 DEF Tick, ThreadTick, AtMost, Placed
  <2>2. held' \in [Procs -> 0 .. Delay]
    BY <1>5 DEF Tick, ThreadTick, AtMost
  <2>3. slept' \in 0 .. SleepTicks
    BY <1>5 DEF Tick, ReaderTick
  <2>4. UNCHANGED <<module, faults, wpc, wtask, paused, pid, proc, reader>>
    BY <1>5 DEF Tick, ThreadTick
  <2>5. \A w \in Workers : Busy(w)' /\ wpc'[w] # "delay" => clock'[w] <= Latency
    BY <1>5 DEF Tick, ThreadTick
  <2> QED
    BY <2>1, <2>2, <2>3, <2>4, <2>5 DEF Placed
<1>6. CASE UNCHANGED vars
  BY <1>6 DEF vars, readerVars, threadVars, workerVars, Placed
<1> QED
  BY <1>1, <1>2, <1>3, <1>4, <1>5, <1>6 DEF Next, NoPause

-----------------------------------------------------------------------------
(* Nobody is left stopped.                                                 *)

LEMMA KeptByOthers ==
  ASSUME Types, Placed, Kept, module = "absent" => reader = "none", [Next]_vars,
         \A w \in Workers : ~Worker(w)
  PROVE  Kept'
<1>1. NoneLost' => NoneLost
  BY OtherTypes DEF NoneLost
<1>2. \A p \in Procs : proc'[p] = "stopped" => proc[p] = "stopped"
  BY DEF Next, threadVars, StartPause, StartThread, NoPause, Parameter, WritePid,
         ProcExits, Tick, ThreadTick, vars, Types, ThreadTypeOK
<1>3. \A w \in Workers : Busy(w) => wpc'[w] = wpc[w] /\ wtask'[w] = wtask[w]
  BY DEF Next, threadVars, workerVars, StartPause, StartThread, NoPause, Parameter, WritePid,
         ProcExits, Tick, ThreadTick, vars, Types, ThreadTypeOK, Busy
<1> QED
  BY <1>1, <1>2, <1>3 DEF Kept, Holds, Busy

LEMMA KeptByWorker ==
  ASSUME ThreadTypeOK, Placed, Kept, NEW w \in Workers, WorkerThread(w) \/ RunFreedText(w)
  PROVE  Kept'
<1> USE DEF ThreadTypeOK, WorkerGoes, IsThrough, Ends, Kept, Holds
<1>0. Others(w)
  BY WorkerTypes
<1> SUFFICES ASSUME NoneLost', NEW p \in Procs, proc'[p] = "stopped"
             PROVE  \E v \in Workers : wtask'[v] = p /\ wpc'[v] \in {"set", "delay", "cont"}
  OBVIOUS
<1>1. CASE NoSuchTask(w) \/ FindTask(w) \/ ClearFlag(w) \/ WorkerReturns(w)
  <2>1. proc' = proc /\ faults' = faults /\ ~Holds(w, p)
    BY <1>1 DEF NoSuchTask, FindTask, ClearFlag, WorkerReturns
  <2>2. PICK v \in Workers : Holds(v, p)
    BY <2>1 DEF NoneLost
  <2> QED
    BY <1>0, <2>1, <2>2 DEF Others
<1>2. CASE StopTask(w)
  <2>1. CASE p = wtask[w]
    BY <1>2, <2>1 DEF StopTask
  <2>2. CASE p # wtask[w]
    <3>1. proc[p] = "stopped" /\ faults' = faults /\ wpc[w] = "stop"
      BY <1>2, <2>2 DEF StopTask
    <3>2. PICK v \in Workers : Holds(v, p)
      BY <3>1 DEF NoneLost
    <3> QED
      BY <1>0, <3>1, <3>2 DEF Others
  <2> QED
    BY <2>1, <2>2
<1>3. CASE SetFlag(w) \/ WakeWorker(w)
  <2>1. proc' = proc /\ faults' = faults /\ wtask' = wtask
    BY <1>3 DEF SetFlag, WakeWorker
  <2>2. PICK v \in Workers : Holds(v, p)
    BY <2>1 DEF NoneLost
  <2> QED
    BY <1>0, <1>3, <2>1, <2>2 DEF SetFlag, WakeWorker, Others
<1>4. CASE ContinueTask(w)
  <2>1. proc[p] = "stopped" /\ faults' = faults /\ p # wtask[w]
    BY <1>4 DEF ContinueTask
  <2>2. PICK v \in Workers : Holds(v, p)
    BY <2>1 DEF NoneLost
  <2> QED
    BY <1>0, <2>1, <2>2 DEF Others
<1>5. CASE SignalFreedTask(w) \/ RunFreedText(w)
  <2>1. "freedTask" \in faults' \/ "freedText" \in faults'
    BY <1>5 DEF SignalFreedTask, RunFreedText
  <2> QED
    BY <2>1 DEF NoneLost
<1> QED
  BY <1>1, <1>2, <1>3, <1>4, <1>5 DEF WorkerThread

(* The invariant that needs no assumption on the time a worker takes.      *)
Always == TaskInv /\ (module = "absent" => reader = "none")

LEMMA AlwaysStep ==
  ASSUME Always, [Next]_vars
  PROVE  Always' /\ Flagged' = Flagged
<1> USE DEF Always, TaskInv
<1>1. ASSUME NEW w \in Workers, Worker(w)
      PROVE  Always' /\ Flagged' = Flagged
  <2>1. UNCHANGED ownReaderVars /\ (WorkerThread(w) \/ RunFreedText(w))
    BY <1>1 DEF Worker
  <2>2. module' = module
    BY <2>1 DEF WorkerThread, NoSuchTask, FindTask, StopTask, SetFlag, WakeWorker,
                ContinueTask, ClearFlag, SignalFreedTask, WorkerReturns, RunFreedText
  <2> QED
    BY <2>1, <2>2, WorkerTypes, KeptByWorker DEF Types, ownReaderVars
<1>2. CASE \A w \in Workers : ~Worker(w)
  BY <1>2, OtherTypes, KeptByOthers
<1> QED
  BY <1>1, <1>2

(* However many workers overlap and whatever is written to pid, a process  *)
(* is stopped only while a worker that will resume it is alive, unless one *)
(* was lost to freed memory. It holds for every delay, sleep and latency.  *)
THEOREM NobodyLeft == Spec => []AllResumed
<1>1. Init => Always
  BY Initially DEF FlagInv, Always
<1>2. Always /\ [Next]_vars => Always'
  BY AlwaysStep
<1>3. Always => AllResumed
  BY DEF Always, TaskInv, Kept, Holds, NoneLost, AllResumed, Quiet, Busy
<1> QED
  BY <1>1, <1>2, <1>3, PTL DEF Spec

-----------------------------------------------------------------------------
(* How long a process has been stopped.                                    *)

LEMMA SleptByWorker ==
  ASSUME ThreadTypeOK, Placed, NEW w \in Workers, SleptAsLong(w), faults' = {},
         WorkerThread(w) \/ RunFreedText(w)
  PROVE  SleptAsLong(w)'
<1> USE ThreadAssumption DEF SleptAsLong, ThreadTypeOK, WorkerGoes, IsThrough, Ends
<1>1. CASE NoSuchTask(w) \/ ClearFlag(w) \/ WorkerReturns(w)
  BY <1>1 DEF NoSuchTask, ClearFlag, WorkerReturns
<1>2. CASE FindTask(w)
  BY <1>2 DEF FindTask
<1>3. CASE StopTask(w)
  <2>1. wtask[w] \in Procs /\ wtask'[w] = wtask[w] /\ wpc'[w] \in {"set", "delay"}
    BY <1>3 DEF StopTask, Placed
  <2>2. wpc'[w] = "delay" => clock'[w] = 0
    BY <1>3 DEF StopTask
  <2>3. held'[wtask[w]] >= 0
    BY <1>3, <2>1 DEF StopTask
  <2> QED
    BY <2>1, <2>2, <2>3
<1>4. CASE SetFlag(w)
  <2>1. wpc'[w] = "delay" /\ clock'[w] = 0 /\ wtask' = wtask /\ held' = held
    BY <1>4 DEF SetFlag
  <2>2. held[wtask[w]] >= 0
    BY <1>4 DEF SetFlag, Placed
  <2> QED
    BY <2>1, <2>2
<1>5. CASE WakeWorker(w)
  BY <1>5 DEF WakeWorker
<1>6. CASE ContinueTask(w)
  BY <1>6 DEF ContinueTask
<1>7. CASE SignalFreedTask(w) \/ RunFreedText(w)
  BY <1>7 DEF SignalFreedTask, RunFreedText
<1> QED
  BY <1>1, <1>2, <1>3, <1>4, <1>5, <1>6, <1>7 DEF WorkerThread

LEMMA SleptByTick ==
  ASSUME ThreadTypeOK, Placed, NEW w \in Workers, SleptAsLong(w), ThreadTick
  PROVE  SleptAsLong(w)'
<1> USE ThreadAssumption DEF ThreadTypeOK, ThreadTick
<1> SUFFICES ASSUME wpc[w] \in {"delay", "cont"}, proc[wtask[w]] = "stopped"
             PROVE  SleptAsLong(w)'
  BY DEF SleptAsLong
<1>1. held'[wtask[w]] = AtMost(held[wtask[w]] + 1, Delay) /\ held[wtask[w]] \in 0 .. Delay
  BY DEF Placed
<1>2. wpc[w] = "delay" => clock'[w] = AtMost(clock[w] + 1, Delay) /\ clock[w] <= held[wtask[w]]
  BY DEF SleptAsLong
<1>3. wpc[w] = "cont" => held[wtask[w]] >= Delay
  BY DEF SleptAsLong
<1> QED
  BY <1>1, <1>2, <1>3 DEF AtMost, SleptAsLong

(* A process that exits is no longer stopped.                              *)
LEMMA SleptByExit ==
  ASSUME ThreadTypeOK, Placed, NEW w \in Workers, SleptAsLong(w),
         NEW p \in Procs, ProcExits(p)
  PROVE  SleptAsLong(w)'
BY DEF ThreadTypeOK, Placed, SleptAsLong, ProcExits, workerVars

-----------------------------------------------------------------------------
(* What the flag does, when a worker is quicker than the reader's sleep.   *)

FlagParts == OnePauses /\ Sheltered /\ Timed

(* The reader is not about to start a worker while one pauses.             *)
LEMMA AwakeMeansSeen ==
  ASSUME Types, Placed, Sheltered, Prompt, Flagged,
         reader # "sleep" \/ slept = SleepTicks, NEW w \in Workers, Pausing(w)
  PROVE  wpc[w] \notin Young /\ paused = 1
<1>1. wpc[w] \notin Young
  <2>1. SUFFICES ASSUME wpc[w] \in Young
                 PROVE  FALSE
    OBVIOUS
  <2>2. slept = SleepTicks /\ slept <= clock[w] /\ clock[w] <= Latency
    BY <2>1 DEF Sheltered, Placed, Young, Busy
  <2> QED
    BY <2>2, ReaderAssumption, ThreadAssumption DEF Prompt, Types, ThreadTypeOK
<1>2. wpc[w] \in {"delay", "cont", "clear"}
  BY <1>1 DEF Types, ThreadTypeOK, WorkerPCs, Young, Pausing
<1> QED
  BY <1>1, <1>2 DEF Sheltered

(* The reader's own steps leave a worker that has not set the flag asleep. *)
LEMMA FlagByReader ==
  ASSUME FlagInv, Flagged, Prompt, ReaderNext \/ NoPause, UNCHANGED threadVars
  PROVE  FlagParts'
<1> USE DEF FlagInv, TaskInv
<1>1. \/ reader' = reader /\ slept' = slept
      \/ reader # "sleep" \/ slept = SleepTicks
  BY DEF ReaderNext, ModuleInit, Exit, StopReader, StopDeadReader, ReaderStopped, Sensor,
         SensorLoop, EchoChanges, Unplug, ReaderThread, NeverStarted, OpenPort, TestStop,
         ReadReports, ReadFails, WakeUp, ClosePort, ReaderGoes, NoPause
<1>2. Sheltered'
  <2>1. CASE reader' = reader /\ slept' = slept
    BY <2>1 DEF Sheltered, threadVars, workerVars, Flagged
  <2>2. CASE reader # "sleep" \/ slept = SleepTicks
    <3>1. \A w \in Workers : wpc[w] \notin Young
      BY <2>2, AwakeMeansSeen DEF Pausing, Young
    <3> QED
      BY <3>1, <2>2, AwakeMeansSeen DEF Sheltered, threadVars, workerVars, Flagged, Pausing
  <2> QED
    BY <1>1, <2>1, <2>2
<1>3. faults' = {} => faults = {}
  BY ReaderSteps
<1> QED
  BY <1>2, <1>3 DEF FlagParts, OnePauses, Timed, SleptAsLong, Pausing, Flagged, threadVars,
     workerVars

(* A worker is started only when none pauses.                              *)
LEMMA FlagByStart ==
  ASSUME FlagInv, Flagged, Prompt, StartPause
  PROVE  FlagParts'
<1> USE DEF FlagInv, TaskInv
<1>1. \A v \in Workers : ~Pausing(v)
  <2>1. reader # "sleep" /\ paused = 0
    BY DEF StartPause, ShouldPause
  <2> QED
    BY <2>1, AwakeMeansSeen
<1>2. PICK w \in Workers : StartThread(w)
  BY DEF StartPause
<1>3. /\ wpc'[w] = "start" /\ clock'[w] = 0
      /\ \A v \in Workers : v # w => wpc'[v] \in {"idle", "end"}
  BY <1>1, <1>2 DEF StartThread, Types, ThreadTypeOK, Pausing
<1>4. reader' = "sleep" /\ slept' = 0
  BY DEF StartPause, EnterSleep
<1> QED
  BY <1>3, <1>4 DEF FlagParts, OnePauses, Sheltered, Timed, SleptAsLong, Pausing, Young

(* The only worker that pauses goes from place to place, another returns.  *)
LEMMA FlagByWorker ==
  ASSUME FlagInv, Flagged, Prompt, NEW w \in Workers, Worker(w)
  PROVE  FlagParts'
<1> USE DEF FlagInv, TaskInv, Types, ThreadTypeOK, WorkerGoes, IsThrough, Ends, Pausing
<1>1. reader' = reader /\ slept' = slept /\ (WorkerThread(w) \/ RunFreedText(w))
  BY DEF Worker, ownReaderVars
<1>2. Others(w) /\ Flagged' = Flagged
  BY <1>1, WorkerTypes
<1>3. CASE WorkerReturns(w) \/ (RunFreedText(w) /\ ~Pausing(w))
  <2>1. wpc'[w] = "idle" /\ paused' = paused /\ proc' = proc /\ held' = held
    BY <1>3 DEF WorkerReturns, RunFreedText
  <2>2. faults' = {} => faults = {}
    BY <1>3 DEF WorkerReturns, RunFreedText
  <2>3. \A v \in Workers : Pausing(v)' => Pausing(v) /\ v # w
    BY <1>2, <2>1 DEF Others
  <2>4. OnePauses'
    BY <1>2, <2>3 DEF OnePauses
  <2>5. Sheltered'
    <3>1. \A v \in Workers : v # w =>
            /\ wpc[v] \in Young => reader = "sleep" /\ slept <= clock[v]
            /\ wpc[v] \in {"delay", "cont", "clear"} => paused = 1
      BY DEF Sheltered
    <3>2. \A v \in Workers : v # w => wpc'[v] = wpc[v] /\ clock'[v] = clock[v]
      BY <1>2 DEF Others
    <3> QED
      BY <1>1, <2>1, <3>1, <3>2 DEF Sheltered, Young
  <2>6. Timed'
    BY <1>2, <2>1, <2>2 DEF Timed, SleptAsLong, Others
  <2> QED
    BY <2>4, <2>5, <2>6 DEF FlagParts
<1> SUFFICES ASSUME ~WorkerReturns(w), Pausing(w)
             PROVE  FlagParts'
  <2>1. WorkerThread(w) => WorkerReturns(w) \/ RunFreedText(w) \/ Pausing(w)
    BY DEF WorkerThread, NoSuchTask, FindTask, StopTask, SetFlag, WakeWorker,
           ContinueTask, ClearFlag, SignalFreedTask
  <2> QED
    BY <1>1, <1>3, <2>1
<1>4. \A v \in Workers : v # w => wpc[v] \in {"idle", "end"} /\ wpc'[v] = wpc[v]
  BY <1>2 DEF OnePauses, Others
<1>5. faults' = {} => faults = {}
  BY <1>1 DEF WorkerThread, NoSuchTask, FindTask, StopTask, SetFlag, WakeWorker,
         ContinueTask, ClearFlag, SignalFreedTask, RunFreedText
<1>6. SUFFICES
        /\ wpc'[w] \in Young => reader = "sleep" /\ slept <= clock'[w]
        /\ wpc'[w] \in {"delay", "cont", "clear"} => paused' = 1
        /\ faults' = {} => SleptAsLong(w)'
  <2>1. OnePauses'
    BY <1>4 DEF OnePauses
  <2>2. \A v \in Workers : v # w => wpc'[v] \notin Young \union {"delay", "cont", "clear"}
    BY <1>4 DEF Young
  <2> QED
    BY <1>1, <2>1, <2>2 DEF FlagParts, Sheltered, Timed, SleptAsLong
<1>7. faults' = {} => SleptAsLong(w)'
  BY <1>1, <1>5, SleptByWorker DEF Timed
<1>8. CASE NoSuchTask(w) \/ ClearFlag(w) \/ RunFreedText(w)
  BY <1>7, <1>8 DEF NoSuchTask, ClearFlag, RunFreedText, Young
<1>9. CASE FindTask(w)
  BY <1>7, <1>9 DEF FindTask, Sheltered, Young
<1>10. CASE StopTask(w)
  BY <1>2, <1>7, <1>10 DEF StopTask, Sheltered, Young, Flagged
<1>11. CASE SetFlag(w) \/ WakeWorker(w)
  BY <1>7, <1>11 DEF SetFlag, WakeWorker, Sheltered, Young
<1>12. CASE ContinueTask(w)
  BY <1>2, <1>7, <1>12 DEF ContinueTask, Sheltered, Young
<1>13. CASE SignalFreedTask(w)
  <2>1. paused' = paused
    BY <1>13 DEF SignalFreedTask
  <2>2. \/ wpc'[w] = "idle"
        \/ wpc[w] = "stop" /\ wpc'[w] = "set" /\ clock' = clock
        \/ wpc[w] = "cont" /\ wpc'[w] = "clear"
    BY <1>2, <1>13 DEF SignalFreedTask
  <2> QED
    BY <1>7, <2>1, <2>2 DEF Sheltered, Young
<1> QED
  BY <1>1, <1>8, <1>9, <1>10, <1>11, <1>12, <1>13 DEF WorkerThread

(* Time passes for the reader and its worker alike.                        *)
LEMMA FlagByTick ==
  ASSUME FlagInv, Flagged, Tick
  PROVE  FlagParts'
<1> USE ThreadAssumption, ReaderAssumption DEF FlagInv, TaskInv, Types, ThreadTypeOK
<1>1. UNCHANGED <<faults, wpc, wtask, paused, proc, reader>>
  BY DEF Tick, ThreadTick
<1>2. slept' <= slept + 1
  BY DEF Tick, ReaderTick
<1>3. \A w \in Workers : wpc[w] \in Young => clock'[w] = clock[w] + 1
  BY DEF Tick, ThreadTick, Young, Busy
<1>4. slept' \in Nat /\ slept \in Nat
  BY DEF Tick, ReaderTick
<1>5. Sheltered'
  BY <1>1, <1>2, <1>3, <1>4 DEF Sheltered, Flagged
<1>6. Timed'
  BY <1>1, SleptByTick DEF Tick, Timed, Flagged
<1> QED
  BY <1>1, <1>5, <1>6 DEF FlagParts, OnePauses, Pausing, Flagged

LEMMA FlagStep ==
  ASSUME FlagInv, Prompt, [Next]_vars
  PROVE  FlagInv'
<1>1. Always' /\ Flagged' = Flagged
  BY AlwaysStep DEF Always, FlagInv
<1>2. CASE ~Flagged
  BY <1>1, <1>2 DEF Always, FlagInv, OnePauses, Sheltered, Timed
<1>3. CASE Flagged
  <2>1. CASE UNCHANGED vars \/ (Parameter /\ UNCHANGED ownReaderVars)
    <3>1. UNCHANGED <<faults, wpc, wtask, clock, paused, proc, held, reader, slept>>
      BY <2>1 DEF vars, readerVars, threadVars, workerVars, Parameter, WritePid, ownReaderVars
    <3> QED
      BY <1>1, <3>1 DEF Always, FlagInv, OnePauses, Sheltered, Timed, SleptAsLong, Pausing, Flagged
  <2>2. ASSUME NEW p \in Procs, ProcExits(p), UNCHANGED ownReaderVars
        PROVE  FlagInv'
    <3>1. /\ UNCHANGED <<faults, wpc, wtask, clock, paused, held, reader, slept>>
          /\ \A w \in Workers : wpc[w] \in {"delay", "cont"} /\ proc'[wtask[w]] = "stopped"
               => proc[wtask[w]] = "stopped"
      BY <2>2 DEF ProcExits, workerVars, ownReaderVars, FlagInv, TaskInv, Types, ThreadTypeOK,
                  Placed
    <3> QED
      BY <1>1, <3>1 DEF Always, FlagInv, OnePauses, Sheltered, Timed, SleptAsLong, Pausing, Flagged
  <2>3. CASE (ReaderNext /\ UNCHANGED threadVars) \/ NoPause
    BY <1>1, <1>3, <2>3, FlagByReader DEF Always, FlagInv, FlagParts, NoPause
  <2>4. CASE StartPause
    BY <1>1, <1>3, <2>4, FlagByStart DEF Always, FlagInv, FlagParts
  <2>5. ASSUME NEW w \in Workers, Worker(w)
        PROVE  FlagInv'
    BY <1>1, <1>3, <2>5, FlagByWorker DEF Always, FlagInv, FlagParts
  <2>6. CASE Tick
    BY <1>1, <1>3, <2>6, FlagByTick DEF Always, FlagInv, FlagParts
  <2> QED
    BY <2>1, <2>2, <2>3, <2>4, <2>5, <2>6 DEF Next
<1> QED
  BY <1>2, <1>3

LEMMA FlagInvariance ==
  ASSUME Prompt
  PROVE  Spec => []FlagInv
<1>1. Init => FlagInv
  BY Initially
<1>2. FlagInv /\ [Next]_vars => FlagInv'
  BY FlagStep
<1> QED
  BY <1>1, <1>2, PTL DEF Spec

(* While a worker is quicker than the sleep of the reader, the flag lets   *)
(* one worker pause at a time, although it is tested long before the       *)
(* worker sets it and without a lock. Only one that has cleared it and has *)
(* nothing left but to return may still be there.                          *)
THEOREM FlagAdmitsOne ==
  ASSUME Prompt
  PROVE  Spec => []OnePauses
<1>1. FlagInv => OnePauses
  BY DEF FlagInv
<1> QED
  BY <1>1, FlagInvariance, PTL

(* A process goes on by the last step of its own worker, which has slept   *)
(* for the whole delay.                                                    *)
LEMMA GoesOnInTime ==
  ASSUME FlagInv, [Next]_vars, Flagged, NEW p \in Procs
  PROVE  ~CutShort(p)
<1> SUFFICES ASSUME CutShort(p)
             PROVE  FALSE
  OBVIOUS
<1> USE DEF CutShort, FlagInv, TaskInv, Types, ThreadTypeOK
<1>1. PICK w \in Workers : ContinueTask(w)
  <2>1. ASSUME ~\E w \in Workers : Worker(w)
        PROVE  FALSE
    BY <2>1 DEF Next, threadVars, StartPause, StartThread, NoPause, Parameter, WritePid,
                ProcExits, Tick, ThreadTick, vars
  <2>2. PICK w \in Workers : Worker(w)
    BY <2>1
  <2>3. ~SignalFreedTask(w) /\ ~RunFreedText(w)
    BY DEF SignalFreedTask, RunFreedText
  <2>4. proc' # proc
    OBVIOUS
  <2>5. StopTask(w) \/ ContinueTask(w)
    BY <2>2, <2>3, <2>4 DEF Worker, WorkerThread, NoSuchTask, FindTask, SetFlag,
                            WakeWorker, ClearFlag, WorkerReturns
  <2>6. ~StopTask(w)
    BY DEF StopTask
  <2> QED
    BY <2>5, <2>6
<1>2. wtask[w] = p /\ wpc[w] = "cont" /\ faults = {}
  BY <1>1 DEF ContinueTask, Placed
<1>3. held[p] >= Delay /\ held[p] \in 0 .. Delay
  BY <1>2 DEF Timed, SleptAsLong
<1> QED
  BY <1>3, ThreadAssumption

(* So no pause of the module with the flag is shorter than its msleep(),   *)
(* whatever is written to pid and however often objects are reported.      *)
THEOREM PausesAreWhole ==
  ASSUME Prompt
  PROVE  Spec => FlagKeepsPauses
<1>1. FlagInv /\ [Next]_vars => [Flagged => \A p \in Procs : ~CutShort(p)]_threadVars
  BY GoesOnInTime
<1> QED
  BY <1>1, FlagInvariance, PTL DEF Spec, FlagKeepsPauses

-----------------------------------------------------------------------------
(* ppause and the netlink module, whose workers are the same.              *)

(* The only worker of ppause is the one it remembers, and none outlives    *)
(* the module.                                                             *)
Lone ==
  /\ \A w \in Workers : Busy(w) => w = task
  /\ module \in {"absent", "gone"} => Quiet
  /\ faults \subseteq {"deadThread", "freedTask"}

PauserInv ==
  /\ ThreadTypeOK /\ Placed /\ Kept
  /\ ~Flagged
  /\ ppause => Lone /\ (faults = {} => \A w \in Workers : SleptAsLong(w))

LEMMA SameWorker ==
  ASSUME NEW w \in Workers, PauserWorker(w)
  PROVE  /\ UNCHANGED <<module, task, spc, gap>>
         /\ IF TextLoaded THEN WorkerThread(w) ELSE RunFreedText(w)
BY DEF PauserWorker, senderVars, WorkerThread, NoSuchTask, FindTask, StopTask, SetFlag,
       WakeWorker, ContinueTask, ClearFlag, SignalFreedTask, WorkerReturns, RunFreedText

(* What a step does that is not a worker's: it starts one; it leaves the   *)
(* workers alone, or writes the pid, or ends a process; it lets time pass; *)
(* or it ends a worker that has not begun.                                 *)
Starts(w) == StartThread(w) /\ UNCHANGED <<faults, pid>>
Elsewhere ==
  /\ UNCHANGED threadVars
  /\ faults \subseteq faults'
  /\ faults' \subseteq faults \union {"deadThread", "noThread"}
PidWritten ==
  pid' \in Pids /\ UNCHANGED <<module, faults, workerVars, paused, proc, held>>
NeverBegins(w) ==
  wpc[w] = "start" /\ Ends(w) /\ UNCHANGED <<module, faults, paused, pid, proc, held>>

LEMMA PauserSteps ==
  ASSUME module \in Modules, [PauserNext]_pauserVars
  PROVE  \/ \E w \in Workers : PauserWorker(w)
         \/ /\ module' \in Modules
            /\ \/ Elsewhere \/ PidWritten \/ ThreadTick
               \/ \E w \in Workers : Starts(w) \/ NeverBegins(w)
               \/ \E p \in Procs : ProcExits(p)
<1> USE DEF Modules, threadVars, workerVars
<1>1. hello_init => Elsewhere /\ module' \in Modules
  BY DEF hello_init, Elsewhere
<1>2. ASSUME NEW w, StopThread(w)
      PROVE  /\ module' \in Modules
             /\ faults' = faults \/ faults' = faults \union {"deadThread"}
  BY <1>2 DEF StopThread
<1>3. hello_exit => Elsewhere /\ module' \in Modules
  BY <1>2 DEF hello_exit, Elsewhere
<1>4. ExitReturns =>
        /\ module' \in Modules
        /\ Elsewhere \/ \E w \in Workers : NeverBegins(w)
  BY DEF ExitReturns, WorkerNeverStarted, ThreadStopped, Elsewhere, NeverBegins, Ends
<1>5. pause_module_init => module' \in Modules /\ \E w \in Workers : Starts(w)
  BY DEF pause_module_init, StartThread, Busy, Starts
<1>6. pause_module_exit => Elsewhere /\ module' \in Modules
  BY <1>2 DEF pause_module_exit, Elsewhere
<1>7. ASSUME NEW p \in Procs, ProcExits(p)
      PROVE  ProcExits(p) /\ module' \in Modules
  BY <1>7 DEF ProcExits
<1>8. ASSUME NEW p \in Pids, WritePid(p)
      PROVE  PidWritten /\ module' \in Modules
  BY <1>8 DEF WritePid, PidWritten
<1>9. ASSUME NEW p \in Procs, Sender(p), ~SenderExits(p)
      PROVE  /\ module' \in Modules
             /\ Elsewhere \/ PidWritten \/ \E w \in Workers : Starts(w)
  <2>1. RunThread(p) => module' \in Modules /\ \E w \in Workers : Starts(w)
    BY DEF RunThread, StartThread, Busy, Starts
  <2>2. WriteSender(p) => module' \in Modules /\ PidWritten
    BY DEF WriteSender, PidWritten, Pids
  <2>3. OpenSocket(p) \/ SendMessage(p) \/ AllocFails(p)
          \/ RunThreadFails(p) => module' \in Modules /\ Elsewhere
    BY DEF OpenSocket, SendMessage, AllocFails, RunThreadFails, Elsewhere
  <2> QED
    BY <1>9, <2>1, <2>2, <2>3 DEF Sender
<1>10. PauserTick => ThreadTick /\ module' \in Modules
  BY DEF PauserTick, ThreadTick, Busy, AtMost
<1>11. CASE PPauseNext
  BY <1>4, <1>5, <1>6, <1>7, <1>8, <1>10, <1>11 DEF PPauseNext, Pids
<1>12. CASE NetlinkNext
  BY <1>1, <1>3, <1>4, <1>7, <1>9, <1>10, <1>12 DEF NetlinkNext, SenderExits
<1>13. CASE UNCHANGED pauserVars
  BY <1>13 DEF pauserVars, netlinkVars, Elsewhere
<1> QED
  BY <1>11, <1>12, <1>13 DEF PauserNext

LEMMA PauserTypes ==
  ASSUME ThreadTypeOK, Placed, Kept, [PauserNext]_pauserVars
  PROVE  ThreadTypeOK' /\ Placed' /\ Kept' /\ Flagged' = Flagged
<1>1. ASSUME NEW w \in Workers, PauserWorker(w)
      PROVE  ThreadTypeOK' /\ Placed' /\ Kept' /\ Flagged' = Flagged
  <2>1. WorkerThread(w) \/ RunFreedText(w)
    BY <1>1, SameWorker
  <2> QED
    BY <2>1, WorkerTypes, KeptByWorker
<1> SUFFICES ASSUME \/ Elsewhere \/ PidWritten \/ ThreadTick
                    \/ \E w \in Workers : Starts(w) \/ NeverBegins(w)
                    \/ \E p \in Procs : ProcExits(p),
                    module' \in Modules
             PROVE  ThreadTypeOK' /\ Placed' /\ Kept' /\ Flagged' = Flagged
  BY <1>1, PauserSteps DEF ThreadTypeOK
<1>2. /\ faults \subseteq faults' /\ faults' \subseteq faults \union {"deadThread", "noThread"}
      /\ paused' = paused
  BY DEF Elsewhere, PidWritten, ThreadTick, Starts, StartThread, NeverBegins, ProcExits,
         threadVars
<1>3. Flagged' = Flagged /\ faults' \subseteq Faults /\ (NoneLost' => NoneLost)
  BY <1>2 DEF Flagged, ThreadTypeOK, Faults, NoneLost
<1> USE ThreadAssumption DEF ThreadTypeOK, Busy
<1>4. CASE Elsewhere
  BY <1>3, <1>4 DEF Elsewhere, threadVars, workerVars, Placed, Kept, Holds
<1>5. CASE PidWritten
  BY <1>3, <1>5 DEF PidWritten, workerVars, Placed, Kept, Holds
<1>6. CASE ThreadTick
  <2>1. clock' \in [Workers -> 0 .. Latency + Delay] /\ held' \in [Procs -> 0 .. Delay]
    BY <1>6 DEF ThreadTick, AtMost, Placed
  <2>2. UNCHANGED <<faults, wpc, wtask, paused, pid, proc>>
    BY <1>6 DEF ThreadTick
  <2>3. \A w \in Workers : Busy(w) /\ wpc[w] # "delay" => clock'[w] <= Latency
    BY <1>6 DEF ThreadTick
  <2> QED
    BY <1>3, <2>1, <2>2, <2>3 DEF Placed, Kept, Holds
<1>7. ASSUME NEW w \in Workers, Starts(w)
      PROVE  ThreadTypeOK' /\ Placed' /\ Kept'
  <2>1. ThreadTypeOK' /\ Placed'
    BY <1>3, <1>7 DEF Starts, StartThread, WorkerPCs, Placed
  <2>2. Kept'
    BY <1>3, <1>7 DEF Starts, StartThread, Kept, Holds
  <2> QED
    BY <2>1, <2>2
<1>8. ASSUME NEW w \in Workers, NeverBegins(w)
      PROVE  ThreadTypeOK' /\ Placed' /\ Kept'
  <2>1. ThreadTypeOK' /\ Placed'
    BY <1>3, <1>8 DEF NeverBegins, Ends, WorkerPCs, Placed, Pids
  <2>2. Kept'
    BY <1>3, <1>8 DEF NeverBegins, Ends, Kept, Holds
  <2> QED
    BY <2>1, <2>2
<1>9. ASSUME NEW p \in Procs, ProcExits(p)
      PROVE  ThreadTypeOK' /\ Placed' /\ Kept'
  BY <1>3, <1>9 DEF ProcExits, workerVars, ProcStates, Placed, Kept, Holds
<1> QED
  BY <1>3, <1>4, <1>5, <1>6, <1>7, <1>8, <1>9

LEMMA LoneStep ==
  ASSUME PauserInv, ppause, [PauserNext]_pauserVars
  PROVE  Lone'
<1> USE DEF PauserInv, ThreadTypeOK, Lone, Quiet, Busy
<1>1. CASE pause_module_init
  BY <1>1 DEF pause_module_init, StartThread, Busy
<1>2. CASE pause_module_exit
  BY <1>2 DEF pause_module_exit, StopThread, Busy, threadVars, workerVars
<1>3. CASE ExitReturns
  BY <1>3 DEF ExitReturns, WorkerNeverStarted, ThreadStopped, Busy, Ends, threadVars,
              workerVars
<1>4. ASSUME NEW w \in Workers, PauserWorker(w)
      PROVE  Lone'
  <2>1. /\ UNCHANGED <<module, task>>
        /\ IF TextLoaded THEN WorkerThread(w) ELSE RunFreedText(w)
    BY <1>4, SameWorker
  <2>2. Others(w)
    BY <2>1, WorkerTypes
  <2>3. Busy(w)
    BY <2>1 DEF WorkerThread, NoSuchTask, FindTask, StopTask, SetFlag, WakeWorker,
                ContinueTask, ClearFlag, SignalFreedTask, WorkerReturns, RunFreedText, WorkerGoes
  <2>4. TextLoaded
    BY <2>3 DEF TextLoaded
  <2>5. faults' = faults \/ faults' = faults \union {"freedTask"}
    BY <2>1, <2>4 DEF WorkerThread, NoSuchTask, FindTask, StopTask, SetFlag, WakeWorker,
                      ContinueTask, ClearFlag, SignalFreedTask, WorkerReturns
  <2> QED
    BY <2>1, <2>2, <2>3, <2>5 DEF Others
<1>5. CASE \/ (\E p \in Pids : WritePid(p)) /\ UNCHANGED task
           \/ (\E p \in Procs : ProcExits(p)) /\ UNCHANGED task
           \/ PauserTick \/ UNCHANGED pauserVars
  <2>1. UNCHANGED <<wpc, task, module, faults>>
    BY <1>5 DEF WritePid, ProcExits, PauserTick, ThreadTick, pauserVars, netlinkVars,
                threadVars, workerVars
  <2> QED
    BY <2>1
<1> QED
  BY <1>1, <1>2, <1>3, <1>4, <1>5
     DEF PauserNext, PPauseNext, Pids

LEMMA PauserSlept ==
  ASSUME PauserInv, ppause, [PauserNext]_pauserVars, faults' = {},
         NEW v \in Workers
  PROVE  SleptAsLong(v)'
<1> USE DEF PauserInv, Lone
<1>1. faults = {} /\ SleptAsLong(v)
  <2>1. ASSUME NEW w \in Workers, WorkerThread(w) \/ RunFreedText(w)
        PROVE  faults \subseteq faults'
    BY <2>1 DEF WorkerThread, NoSuchTask, FindTask, StopTask, SetFlag, WakeWorker,
                ContinueTask, ClearFlag, SignalFreedTask, WorkerReturns, RunFreedText
  <2>2. faults \subseteq faults'
    BY <2>1, PauserSteps, SameWorker
       DEF ThreadTypeOK, Elsewhere, PidWritten, ThreadTick, Starts, NeverBegins, ProcExits
  <2> QED
    BY <2>2
<1>2. ASSUME NEW w \in Workers, PauserWorker(w)
      PROVE  SleptAsLong(v)'
  <2>1. WorkerThread(w) \/ RunFreedText(w)
    BY <1>2, SameWorker
  <2>2. CASE v = w
    BY <1>1, <2>1, <2>2, SleptByWorker
  <2>3. CASE v # w
    <3>1. Busy(w)
      BY <2>1 DEF WorkerThread, NoSuchTask, FindTask, StopTask, SetFlag, WakeWorker,
                  ContinueTask, ClearFlag, SignalFreedTask, WorkerReturns, RunFreedText, WorkerGoes, Busy
    <3>2. wpc'[v] = "idle"
      BY <2>1, <2>3, <3>1, WorkerTypes DEF Others, Busy
    <3> QED
      BY <3>2 DEF SleptAsLong
  <2> QED
    BY <2>2, <2>3
<1>3. CASE Elsewhere \/ PidWritten
  BY <1>1, <1>3 DEF Elsewhere, PidWritten, threadVars, workerVars, SleptAsLong
<1>4. CASE ThreadTick
  BY <1>1, <1>4, SleptByTick
<1>5. ASSUME NEW w \in Workers, Starts(w) \/ NeverBegins(w)
      PROVE  SleptAsLong(v)'
  BY <1>1, <1>5 DEF Starts, StartThread, NeverBegins, Ends, SleptAsLong, ThreadTypeOK
<1>6. ASSUME NEW p \in Procs, ProcExits(p)
      PROVE  SleptAsLong(v)'
  BY <1>1, <1>6, SleptByExit
<1> QED
  BY <1>2, <1>3, <1>4, <1>5, <1>6, PauserSteps DEF ThreadTypeOK

LEMMA PauserInvariance == PauserSpec => []PauserInv
<1>1. PauserInit => PauserInv
  <2> SUFFICES ASSUME PauserInit
               PROVE  PauserInv
    OBVIOUS
  <2>1. /\ module = "absent" /\ faults = {} /\ paused = NoFlag /\ pid \in Pids
        /\ ThreadInit
    BY DEF PauserInit, NetlinkInit, Unloaded, ThreadInit, NoFlag, Pids
  <2>2. ThreadTypeOK
    BY <2>1, ThreadAssumption
       DEF ThreadInit, ThreadTypeOK, Modules, Faults, WorkerPCs, Pids, ProcStates, NoFlag
  <2>3. Placed /\ Kept /\ Lone /\ ~Flagged /\ \A w \in Workers : SleptAsLong(w)
    BY <2>1 DEF ThreadInit, Placed, Kept, Lone, Quiet, Busy, Flagged, SleptAsLong
  <2> QED
    BY <2>2, <2>3 DEF PauserInv
<1>2. PauserInv /\ [PauserNext]_pauserVars => PauserInv'
  <2> SUFFICES ASSUME PauserInv, [PauserNext]_pauserVars
               PROVE  PauserInv'
    OBVIOUS
  <2>1. installed' = installed
    BY DEF PauserNext, pauserVars
  <2>2. ThreadTypeOK' /\ Placed' /\ Kept' /\ Flagged' = Flagged
    BY PauserTypes DEF PauserInv
  <2>3. CASE ppause
    BY <2>1, <2>2, <2>3, LoneStep, PauserSlept DEF PauserInv, ppause
  <2>4. CASE ~ppause
    BY <2>1, <2>2, <2>4 DEF PauserInv, ppause
  <2> QED
    BY <2>3, <2>4
<1> QED
  BY <1>1, <1>2, PTL DEF PauserSpec

(* The types of the netlink module and its senders, and of ppause: what    *)
(* rmmod hands to kthread_stop() is a worker, an error or nothing.         *)
THEOREM PausersTyped == PauserSpec => []NetlinkTypeOK
<1> DEFINE OwnTypes == /\ task \in Workers \union {NoThread, ErrPtr}
                       /\ spc \in [Procs -> SenderPCs]
                       /\ gap \in [Procs -> 0 .. Gap]
<1>1. PauserInit => OwnTypes
  BY NetlinkAssumption DEF PauserInit, NetlinkInit, Unloaded, SenderPCs
<1>2. OwnTypes /\ [PauserNext]_pauserVars => OwnTypes'
  <2> SUFFICES ASSUME OwnTypes, [PauserNext]_pauserVars
               PROVE  OwnTypes'
    OBVIOUS
  <2> USE NetlinkAssumption DEF SenderPCs, senderVars
  <2>1. ASSUME NEW p \in Procs, Sender(p)
        PROVE  OwnTypes'
    BY <2>1 DEF Sender, OpenSocket, SendMessage, WriteSender, AllocFails, RunThread,
                RunThreadFails, SenderExits, HandlerReturns, SenderGoes
  <2>2. CASE PauserTick
    BY <2>2 DEF PauserTick, AtMost
  <2>3. CASE pause_module_init
    BY <2>3 DEF pause_module_init
  <2>4. CASE UNCHANGED <<task, spc, gap>>
    BY <2>4
  <2>5. CASE \/ hello_init \/ hello_exit \/ ExitReturns \/ pause_module_exit
             \/ \E w \in Workers : PauserWorker(w)
    BY <2>4, <2>5 DEF hello_init, hello_exit, ExitReturns, pause_module_exit,
                      PauserWorker
  <2> QED
    BY <2>1, <2>2, <2>3, <2>4, <2>5
       DEF PauserNext, PPauseNext, NetlinkNext, pauserVars, netlinkVars
<1>3. PauserInv /\ OwnTypes => NetlinkTypeOK
  BY DEF PauserInv, NetlinkTypeOK
<1> QED
  BY <1>1, <1>2, <1>3, PauserInvariance, PTL DEF PauserSpec

(* Neither ppause nor the netlink module leaves a process stopped when its *)
(* workers are done, for any number of senders and workers.                *)
THEOREM PausersLeaveNobody == PauserSpec => []AllResumed
<1>1. PauserInv => AllResumed
  BY DEF PauserInv, Kept, Holds, NoneLost, AllResumed, Quiet, Busy
<1> QED
  BY <1>1, PauserInvariance, PTL

(* rmmod of ppause, even in the middle of the delay, leaves no process     *)
(* stopped, unless a process ended while its worker still held its task.   *)
THEOREM UnloadReleases == PauserSpec => []ReleasedOnUnload
<1>1. PauserInv => ReleasedOnUnload
  BY DEF PauserInv, Lone, Kept, Holds, NoneLost, Quiet, Busy, ThreadTypeOK,
         ReleasedOnUnload
<1> QED
  BY <1>1, PauserInvariance, PTL

(* A pause of ppause lasts for the whole of its delay, for every delay and *)
(* latency, whatever is written to the parameter and whenever it unloads.  *)
THEOREM OncePausesFully == PauserSpec => FullPause
<1>1. PauserInv /\ [PauserNext]_pauserVars =>
        [ppause => \A p \in Procs : ~CutShort(p)]_threadVars
  <2> SUFFICES ASSUME PauserInv, [PauserNext]_pauserVars, ppause,
                      NEW p \in Procs, CutShort(p)
               PROVE  FALSE
    OBVIOUS
  <2>1. proc[p] = "stopped" /\ proc'[p] = "running" /\ faults' = {} /\ held[p] < Delay
    BY DEF CutShort
  <2>2. PICK w \in Workers : PauserWorker(w)
    BY <2>1, PauserSteps
       DEF PauserInv, ThreadTypeOK, Elsewhere, threadVars, PidWritten, ThreadTick, Starts,
           StartThread, NeverBegins, ProcExits
  <2>3. ContinueTask(w)
    BY <2>1, <2>2, SameWorker
       DEF PauserInv, ThreadTypeOK, WorkerThread, NoSuchTask, FindTask, StopTask, SetFlag,
           WakeWorker, ClearFlag, SignalFreedTask, WorkerReturns, RunFreedText
  <2>4. wtask[w] = p /\ wpc[w] = "cont" /\ faults = {}
    BY <2>1, <2>3 DEF ContinueTask, PauserInv, ThreadTypeOK
  <2>5. held[p] >= Delay
    BY <2>1, <2>4 DEF PauserInv, SleptAsLong
  <2> QED
    BY <2>1, <2>5, ThreadAssumption DEF PauserInv, ThreadTypeOK
<1> QED
  BY <1>1, PauserInvariance, PTL DEF PauserSpec, FullPause
=============================================================================
