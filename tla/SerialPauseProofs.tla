-------------------------- MODULE SerialPauseProofs --------------------------
(***************************************************************************)
(* What SerialPause promises for any number of workers, processes, sensor  *)
(* readings, tty sizes and sleep times, proved; and that it still does, as *)
(* the servo board does, when it is a part of UltrasonicSystem.            *)
(***************************************************************************)
EXTENDS UltrasonicSystem, TLAPS

-----------------------------------------------------------------------------
(* The inductive invariant.                                                *)

(* A worker past its lookup holds a task.                                  *)
HoldsTask ==
  \A w \in Workers : wpc[w] \in {"signal", "flag"} => wtask[w] \in Procs

(* There is a reader only while the module is loaded.                      *)
Lifecycle ==
  /\ module = "absent" => reader = "none"
  /\ module = "gone" => reader = "dead"

(* A worker lives inside the sleep the reader entered when it started it.  *)
Sheltered ==
  \A w \in Workers : Busy(w) => reader = "sleep" /\ slept <= age[w]

(* What is known of a stopped process that was not abandoned: the worker   *)
(* that is about to signal holds that process, and the one about to set    *)
(* the flag will not clear it.                                             *)
Accounted ==
  \A p \in Procs \ abandoned : proc[p] = "stopped" =>
    /\ p = pid
    /\ paused = 1 \/ \E w \in Workers : wpc[w] = "flag"
    /\ \A w \in Workers : wpc[w] = "flag" => wkind[w] = "pause"
    /\ \A w \in Workers : wpc[w] = "signal" => wtask[w] = p

(* A worker's task is the one pid names, unless pid was overwritten.       *)
Traceable ==
  \A w \in Workers :
    wpc[w] \in {"signal", "flag"} => wtask[w] = pid \/ wtask[w] \in abandoned


-----------------------------------------------------------------------------
(* Typing.                                                                 *)

(* What a kernel_read leaves in the tty is a shorter sequence of reports.  *)
LEMMA RestOfTty ==
  ASSUME NEW s \in Seq(Reports), NEW n \in Nat \ {0}, n <= Len(s)
  PROVE  /\ SubSeq(s, n + 1, Len(s)) \in Seq(Reports)
         /\ Len(SubSeq(s, n + 1, Len(s))) <= Len(s)
         /\ {s[i] : i \in 1 .. n} \subseteq Reports
<1>1. /\ Len(s) \in Nat
      /\ \A i \in 1 .. Len(s) : s[i] \in Reports
  OBVIOUS
<1>2. /\ SubSeq(s, n + 1, Len(s)) \in Seq(Reports)
      /\ Len(SubSeq(s, n + 1, Len(s))) =
           IF n + 1 <= Len(s) THEN Len(s) - (n + 1) + 1 ELSE 0
  OBVIOUS
<1>3. Len(SubSeq(s, n + 1, Len(s))) <= Len(s)
  BY <1>1, <1>2
<1>4. {s[i] : i \in 1 .. n} \subseteq Reports
  BY <1>1
<1> QED
  BY <1>2, <1>3, <1>4

(* A step of the reader thread, of its sensor or of the module's entry     *)
(* points keeps the types.                                                 *)
LEMMA ReaderTyping ==
  ASSUME ReaderTypeOK, ReaderNext
  PROVE  ReaderTypeOK'
<1> USE ReaderAssumption DEF ReaderTypeOK
<1>1. CASE ModuleInit
  BY <1>1 DEF ModuleInit, Modules, ReaderPCs
<1>2. CASE Exit
  BY <1>2 DEF Exit, StopReader, StopDeadReader, ReaderStopped, Modules, Faults
<1>3. CASE SensorLoop
  <2>1. ReportOf(echo) \in Reports
    BY DEF ReportOf, Reports
  <2>2. tty' \in Seq(Reports) /\ Len(tty') = Len(tty) + 1
    BY <1>3, <2>1 DEF SensorLoop
  <2> QED
    BY <1>3, <2>2 DEF SensorLoop
<1>4. CASE EchoChanges
  BY <1>4 DEF EchoChanges
<1>5. CASE Unplug
  <2>1. tty' \in Seq(Reports) /\ Len(tty') <= QueueMax
    BY <1>5 DEF Unplug
  <2>2. port' \in BOOLEAN
    BY <1>5, Zenon DEF Unplug
  <2> QED
    BY <1>5, <2>1, <2>2 DEF Unplug
<1>6. CASE ReadReports
  <2>1. PICK n \in 1 .. MaxChunk :
          /\ n <= Len(tty)
          /\ chunk' = {tty[i] : i \in 1 .. n}
          /\ tty' = SubSeq(tty, n + 1, Len(tty))
    BY <1>6 DEF ReadReports
  <2>2. n \in Nat \ {0} /\ n <= Len(tty)
    BY <2>1
  <2>3. tty' \in Seq(Reports) /\ Len(tty') <= Len(tty) /\ chunk' \subseteq Reports
    BY <2>1, <2>2, RestOfTty
  <2>4. Len(tty') \in Nat /\ Len(tty) \in Nat
    BY <2>3
  <2> QED
    BY <1>6, <2>3, <2>4 DEF ReadReports, ReaderGoes, ReaderPCs
<1>7. CASE NeverStarted \/ OpenPort \/ TestStop \/ ReadFails \/ WakeUp \/ ClosePort
  BY <1>7 DEF NeverStarted, OpenPort, TestStop, ReadFails, WakeUp, ClosePort,
              ReaderGoes, ReaderPCs
<1> QED
  BY <1>1, <1>2, <1>3, <1>4, <1>5, <1>6, <1>7
     DEF ReaderNext, Sensor, ReaderThread

(* A step of the reader's decision, of a worker or of the environment      *)
(* keeps the types.                                                        *)
LEMMA Typing ==
  ASSUME TypeOK, HoldsTask, [Next]_vars
  PROVE  TypeOK'
<1> USE PauseAssumption DEF TypeOK, WorkerPCs, Kinds, ProcStates, Pids
<1>1. CASE ReaderNext /\ UNCHANGED pauseVars
  BY <1>1, ReaderTyping DEF pauseVars, workerVars
<1>2. CASE Decide \/ StartFails
  <2>1. ASSUME EnterSleep, UNCHANGED <<module, port, tty, echo, faults>>
        PROVE  ReaderTypeOK'
    BY <2>1, ReaderAssumption DEF EnterSleep, ReaderTypeOK, ReaderPCs
  <2>2. ASSUME NEW kind \in Kinds, StartWorker(kind)
        PROVE  /\ wpc' \in [Workers -> WorkerPCs]
               /\ wkind' \in [Workers -> Kinds]
               /\ wtask' \in [Workers -> Pids]
               /\ age' \in [Workers -> 0 .. Latency]
    BY <2>2 DEF StartWorker
  <2>3. CASE StartPause
    BY <2>1, <2>2, <2>3 DEF StartPause
  <2>4. CASE StartResume
    BY <2>1, <2>2, <2>4 DEF StartResume
  <2>5. CASE NoPause
    BY <2>5 DEF NoPause, ReaderGoes, ReaderTypeOK, ReaderPCs, pauseVars, workerVars
  <2>6. CASE NoResume \/ StartFails
    BY <2>1, <2>6 DEF NoResume, StartFails, pauseVars, workerVars
  <2> QED
    BY <1>2, <2>3, <2>4, <2>5, <2>6 DEF Decide
<1>3. ASSUME NEW w \in Workers, WorkerThread(w)
      PROVE  TypeOK'
  <2>1. ASSUME Ends(w)
        PROVE  /\ wpc' \in [Workers -> WorkerPCs]
               /\ wkind' \in [Workers -> Kinds]
               /\ wtask' \in [Workers -> Pids]
               /\ age' \in [Workers -> 0 .. Latency]
    BY <2>1 DEF Ends
  <2>2. ASSUME UNCHANGED readerVars
        PROVE  ReaderTypeOK'
    BY <2>2 DEF readerVars, ReaderTypeOK
  <2>3. CASE NoSuchTask(w)
    BY <2>1, <2>2, <2>3 DEF NoSuchTask
  <2>4. CASE FindTask(w)
    BY <2>2, <2>4 DEF FindTask
  <2>5. CASE SendSignal(w)
    BY <2>2, <2>5 DEF SendSignal, AfterSignal, HoldsTask
  <2>6. CASE SetFlag(w)
    BY <2>1, <2>2, <2>6 DEF SetFlag, FlagOf
  <2>7. CASE SignalFreedTask(w) \/ RunFreedText(w)
    <3>1. ReaderTypeOK'
      BY <2>7 DEF SignalFreedTask, RunFreedText, ReaderTypeOK, Faults
    <3>2. proc' \in [Procs -> ProcStates]
      BY <2>7 DEF SignalFreedTask, RunFreedText, AfterSignal
    <3> QED
      BY <2>1, <2>7, <3>1, <3>2 DEF SignalFreedTask, RunFreedText
  <2> QED
    BY <1>3, <2>3, <2>4, <2>5, <2>6, <2>7 DEF WorkerThread
<1>4. ASSUME NEW p \in Pids, WritePid(p)
      PROVE  TypeOK'
  BY <1>4 DEF WritePid, workerVars, readerVars, ReaderTypeOK
<1>5. ASSUME NEW p \in Procs, ProcExits(p)
      PROVE  TypeOK'
  BY <1>5 DEF ProcExits, workerVars, readerVars, ReaderTypeOK
<1>6. CASE Tick
  <2>1. age' \in [Workers -> 0 .. Latency]
    BY <1>6 DEF Tick
  <2>2. slept' \in 0 .. SleepTicks
    BY <1>6, ReaderAssumption DEF Tick, ReaderTick, ReaderTypeOK
  <2> QED
    BY <1>6, <2>1, <2>2 DEF Tick, ReaderTypeOK
<1>7. CASE UNCHANGED vars
  BY <1>7 DEF vars, pauseVars, workerVars, readerVars, ReaderTypeOK
<1> QED
  BY <1>1, <1>2, <1>3, <1>4, <1>5, <1>6, <1>7 DEF Next
(* A worker signals only after it has found a task.                        *)
LEMMA HoldsTaskStep ==
  ASSUME TypeOK, HoldsTask, [Next]_vars
  PROVE  HoldsTask'
<1> USE DEF HoldsTask
<1>1. CASE (ReaderNext /\ UNCHANGED pauseVars) \/ UNCHANGED vars \/ Tick
  BY <1>1 DEF vars, pauseVars, workerVars, Tick
<1>2. CASE Decide \/ StartFails
  BY <1>2 DEF Decide, StartFails, StartPause, StartResume, NoPause, NoResume,
              StartWorker, pauseVars, workerVars, TypeOK
<1>3. ASSUME NEW w \in Workers, WorkerThread(w)
      PROVE  HoldsTask'
  BY <1>3 DEF WorkerThread, NoSuchTask, FindTask, SendSignal, SignalFreedTask,
              SetFlag, RunFreedText, Ends, TypeOK
<1>4. ASSUME NEW p \in Pids, WritePid(p) \/ (p \in Procs /\ ProcExits(p))
      PROVE  HoldsTask'
  BY <1>4 DEF WritePid, ProcExits, workerVars
<1> QED
  BY <1>1, <1>2, <1>3, <1>4 DEF Next, Pids

-----------------------------------------------------------------------------
(* Workers live inside the reader's sleep.                                 *)

(* The reader does not leave its sleep while a worker runs.                *)
LEMMA AwakeMeansQuiet ==
  ASSUME TypeOK, Sheltered, Prompt, reader # "sleep" \/ slept = SleepTicks
  PROVE  Quiet
<1>1. ASSUME NEW w \in Workers, Busy(w)
      PROVE  FALSE
  <2>1. slept <= age[w] /\ reader = "sleep"
    BY <1>1 DEF Sheltered
  <2>2. age[w] \in 0 .. Latency /\ slept \in 0 .. SleepTicks
    BY DEF TypeOK, ReaderTypeOK
  <2> QED
    BY <2>1, <2>2, ReaderAssumption, PauseAssumption DEF Prompt
<1> QED
  BY <1>1 DEF Quiet

(* The conjuncts of the invariant that say when workers run.               *)
Shelter ==
  /\ Lifecycle
  /\ Sheltered
  /\ OneWorker
  /\ "freedText" \notin faults

LEMMA ShelterStep ==
  ASSUME TypeOK, Shelter, Prompt, [Next]_vars
  PROVE  Shelter'
<1> USE DEF Shelter
<1>1. CASE ReaderNext /\ UNCHANGED pauseVars
  <2> USE <1>1 DEF pauseVars, workerVars
  <2>1. CASE ModuleInit
    BY <2>1, AwakeMeansQuiet
       DEF ModuleInit, Lifecycle, Sheltered, OneWorker, Quiet, Busy
  <2>2. CASE Exit
    BY <2>2 DEF Exit, StopReader, StopDeadReader, ReaderStopped, Lifecycle,
                Sheltered, OneWorker, Busy
  <2>3. CASE Sensor
    BY <2>3 DEF Sensor, SensorLoop, EchoChanges, Unplug, Lifecycle,
                Sheltered, OneWorker, Busy
  <2>4. CASE ReaderThread
    <3>1. Quiet /\ Quiet'
      BY <2>4, AwakeMeansQuiet
         DEF ReaderThread, NeverStarted, OpenPort, TestStop, ReadReports,
             ReadFails, WakeUp, ClosePort, ReaderGoes, Quiet, Busy
    <3>2. Lifecycle' /\ faults' = faults
      BY <2>4 DEF ReaderThread, NeverStarted, OpenPort, TestStop, ReadReports,
                  ReadFails, WakeUp, ClosePort, ReaderGoes, Lifecycle
    <3> QED
      BY <3>1, <3>2 DEF Quiet, Sheltered, OneWorker, Busy
  <2> QED
    BY <1>1, <2>1, <2>2, <2>3, <2>4 DEF ReaderNext
<1>2. CASE Decide \/ StartFails
  <2>1. Quiet /\ reader \in {"decide", "elseif"}
    BY <1>2, AwakeMeansQuiet
       DEF Decide, StartFails, StartPause, StartResume, NoPause, NoResume,
           ReaderGoes
  <2>2. module' = module /\ faults' = faults
    BY <1>2 DEF Decide, StartFails, StartPause, StartResume, NoPause, NoResume
  <2>3. CASE StartPause \/ StartResume
    <3>1. PICK w \in Workers :
            /\ wpc' = [wpc EXCEPT ![w] = "start"]
            /\ age' = [age EXCEPT ![w] = 0]
      BY <2>3 DEF StartPause, StartResume, StartWorker
    <3>2. reader' = "sleep" /\ slept' = 0
      BY <2>3 DEF StartPause, StartResume, EnterSleep
    <3>3. \A v \in Workers : Busy(v)' => v = w
      BY <2>1, <3>1 DEF Quiet, Busy, TypeOK
    <3>4. age'[w] = 0
      BY <3>1 DEF TypeOK
    <3>5. Sheltered' /\ OneWorker'
      BY <3>2, <3>3, <3>4 DEF Sheltered, OneWorker
    <3> QED
      BY <2>1, <2>2, <3>2, <3>5 DEF Lifecycle
  <2>4. CASE NoPause \/ NoResume \/ StartFails
    BY <2>1, <2>2, <2>4
       DEF NoPause, NoResume, StartFails, pauseVars, workerVars, EnterSleep,
           ReaderGoes, Quiet, Busy, Lifecycle, Sheltered, OneWorker
  <2> QED
    BY <1>2, <2>3, <2>4 DEF Decide
<1>3. ASSUME NEW w \in Workers, WorkerThread(w)
      PROVE  Shelter'
  <2>1. Busy(w)
    BY <1>3 DEF WorkerThread, NoSuchTask, FindTask, SendSignal, SignalFreedTask,
                SetFlag, RunFreedText, Busy
  <2>2. TextLoaded
    BY <2>1 DEF TextLoaded, Lifecycle, Sheltered
  <2>3. UNCHANGED <<module, reader, slept>> /\ "freedText" \notin faults'
    BY <1>3, <2>2
       DEF WorkerThread, NoSuchTask, FindTask, SendSignal, SignalFreedTask,
           SetFlag, RunFreedText, readerVars
  <2>4. \A v \in Workers : v # w => wpc'[v] = wpc[v] /\ age'[v] = age[v]
    BY <1>3 DEF WorkerThread, NoSuchTask, FindTask, SendSignal, SignalFreedTask,
                SetFlag, RunFreedText, Ends, TypeOK
  <2>5. Busy(w)' => age'[w] = age[w]
    BY <1>3 DEF WorkerThread, NoSuchTask, FindTask, SendSignal, SignalFreedTask,
                SetFlag, RunFreedText, Ends, Busy, TypeOK
  <2> QED
    BY <2>1, <2>3, <2>4, <2>5 DEF Lifecycle, Sheltered, OneWorker, Busy
<1>4. ASSUME NEW p \in Pids, WritePid(p)
      PROVE  Shelter'
  BY <1>4 DEF WritePid, readerVars, workerVars, Lifecycle, Sheltered, OneWorker, Busy
<1>5. ASSUME NEW p \in Procs, ProcExits(p)
      PROVE  Shelter'
  BY <1>5 DEF ProcExits, readerVars, workerVars, Lifecycle, Sheltered, OneWorker, Busy
<1>6. CASE Tick
  <2>1. slept' <= slept + 1
    BY <1>6 DEF Tick, ReaderTick, TypeOK, ReaderTypeOK
  <2>2. \A w \in Workers : Busy(w) => age'[w] = age[w] + 1
    BY <1>6 DEF Tick
  <2>3. slept \in Nat /\ slept' \in Nat /\ \A w \in Workers : age[w] \in Nat
    BY <1>6, ReaderAssumption, PauseAssumption
       DEF TypeOK, ReaderTypeOK, Tick, ReaderTick
  <2>4. Sheltered'
    BY <1>6, <2>1, <2>2, <2>3 DEF Tick, Sheltered, Busy
  <2> QED
    BY <1>6, <2>4 DEF Tick, Lifecycle, OneWorker, Busy
<1>7. CASE UNCHANGED vars
  BY <1>7 DEF vars, pauseVars, workerVars, readerVars, Lifecycle, Sheltered,
              OneWorker, Busy
<1> QED
  BY <1>1, <1>2, <1>3, <1>4, <1>5, <1>6, <1>7 DEF Next
-----------------------------------------------------------------------------
(* Whom the module has stopped.                                            *)

Accounts == HoldsTask /\ Accounted /\ Traceable

(* The account of a worker that has only been created or has ended.        *)
LEMMA AccountsOfOthers ==
  ASSUME TypeOK, Accounts, Shelter, [Next]_vars,
         UNCHANGED <<paused, pid, proc, abandoned>>,
         \A w \in Workers : wpc'[w] \in {"signal", "flag"} =>
            /\ wpc'[w] = wpc[w]
            /\ wkind'[w] = wkind[w]
            /\ wtask'[w] = wtask[w],
         \A p \in Procs \ abandoned : proc[p] = "stopped" =>
            paused = 1 \/ \E w \in Workers : wpc'[w] = "flag"
  PROVE  Accounts'
  BY DEF Accounts, HoldsTask, Accounted, Traceable

(* No signal has gone to a task that had ended.                            *)
NoStraySignal == "freedTask" \notin faults

LEMMA FaultsStay ==
  ASSUME [Next]_vars, NoStraySignal'
  PROVE  NoStraySignal
<1> USE DEF NoStraySignal
<1>1. CASE ReaderNext
  BY <1>1 DEF ReaderNext, ModuleInit, Exit, StopReader, StopDeadReader, ReaderStopped,
              Sensor, SensorLoop, EchoChanges, Unplug, ReaderThread, NeverStarted,
              OpenPort, TestStop, ReadReports, ReadFails, WakeUp, ClosePort
<1>2. CASE Decide \/ StartFails
  BY <1>2 DEF Decide, StartFails, StartPause, StartResume, NoPause, NoResume
<1>3. ASSUME NEW w \in Workers, WorkerThread(w)
      PROVE  NoStraySignal
  BY <1>3 DEF WorkerThread, NoSuchTask, FindTask, SendSignal, SignalFreedTask,
              SetFlag, RunFreedText, readerVars
<1>4. CASE \/ \E p \in Pids : WritePid(p)
           \/ \E p \in Procs : ProcExits(p)
           \/ Tick
           \/ UNCHANGED vars
  BY <1>4 DEF WritePid, ProcExits, Tick, vars, readerVars
<1> QED
  BY <1>1, <1>2, <1>3, <1>4 DEF Next

LEMMA TraceStep ==
  ASSUME TypeOK, HoldsTask, Traceable, [Next]_vars
  PROVE  Traceable'
<1> USE DEF Traceable
<1>1. CASE (ReaderNext /\ UNCHANGED pauseVars) \/ UNCHANGED vars \/ Tick
  BY <1>1 DEF vars, pauseVars, workerVars, Tick
<1>2. CASE Decide \/ StartFails
  BY <1>2 DEF Decide, StartFails, StartPause, StartResume, NoPause, NoResume,
              StartWorker, pauseVars, workerVars, TypeOK
<1>3. ASSUME NEW w \in Workers, WorkerThread(w)
      PROVE  Traceable'
  BY <1>3 DEF WorkerThread, NoSuchTask, FindTask, SendSignal, SignalFreedTask,
              SetFlag, RunFreedText, Ends, TypeOK
<1>4. ASSUME NEW p \in Pids, WritePid(p)
      PROVE  Traceable'
  <2>1. UNCHANGED <<wpc, wtask>> /\ abandoned \subseteq abandoned'
    BY <1>4 DEF WritePid, workerVars
  <2>2. (\E w \in Workers : wpc[w] \in {"signal", "flag"}) /\ pid # NoPid
          => pid \in abandoned'
    BY <1>4 DEF WritePid
  <2> QED
    BY <2>1, <2>2, PauseAssumption DEF HoldsTask
<1>5. ASSUME NEW p \in Procs, ProcExits(p)
      PROVE  Traceable'
  BY <1>5 DEF ProcExits, workerVars
<1> QED
  BY <1>1, <1>2, <1>3, <1>4, <1>5 DEF Next

LEMMA AccountsStep ==
  ASSUME TypeOK, Shelter, Accounts, Prompt, [Next]_vars, NoStraySignal'
  PROVE  Accounts'
<1> USE DEF Accounts
<1>0. HoldsTask' /\ Traceable'
  BY HoldsTaskStep, TraceStep
<1>1. CASE (ReaderNext /\ UNCHANGED pauseVars) \/ UNCHANGED vars
  BY <1>1 DEF vars, pauseVars, workerVars, Accounts, HoldsTask, Accounted, Traceable
<1>2. CASE Decide \/ StartFails
  <2>1. Quiet
    BY <1>2, AwakeMeansQuiet
       DEF Decide, StartFails, StartPause, StartResume, NoPause, NoResume,
           ReaderGoes, Shelter
  <2>2. \A p \in Procs \ abandoned : proc[p] = "stopped" => paused = 1
    BY <2>1 DEF Quiet, Busy, Accounts, Accounted
  <2>3. \A w \in Workers : wpc'[w] \notin {"signal", "flag"}
    BY <1>2, <2>1
       DEF Decide, StartFails, StartPause, StartResume, NoPause, NoResume,
           StartWorker, pauseVars, workerVars, Quiet, Busy, TypeOK
  <2>4. UNCHANGED <<paused, pid, proc, abandoned>>
    BY <1>2 DEF Decide, StartFails, StartPause, StartResume, NoPause, NoResume,
                pauseVars
  <2> QED
    BY <2>2, <2>3, <2>4, AccountsOfOthers
<1>3. ASSUME NEW w \in Workers, WorkerThread(w)
      PROVE  Accounts'
  <2>1. Busy(w) /\ TextLoaded
    BY <1>3 DEF WorkerThread, NoSuchTask, FindTask, SendSignal, SignalFreedTask,
                SetFlag, RunFreedText, Busy, TextLoaded, Shelter, Lifecycle, Sheltered
  <2>2. \A v \in Workers : v # w => ~Busy(v) /\ wpc'[v] = wpc[v]
    BY <1>3, <2>1
       DEF WorkerThread, NoSuchTask, FindTask, SendSignal, SignalFreedTask,
           SetFlag, RunFreedText, Ends, TypeOK, Shelter, OneWorker
  <2>3. CASE NoSuchTask(w)
    BY <2>2, <2>3 DEF NoSuchTask, Ends, Busy, TypeOK, HoldsTask, Accounted, Traceable
  <2>4. CASE FindTask(w)
    BY <2>2, <2>4 DEF FindTask, Busy, TypeOK, HoldsTask, Accounted, Traceable
  <2>5. CASE SendSignal(w)
    <3>1. wtask[w] \in Procs /\ (wtask[w] = pid \/ wtask[w] \in abandoned)
      BY <2>5 DEF SendSignal, HoldsTask, Traceable
    <3>2. \A p \in Procs \ abandoned :
            p # wtask[w] => proc'[p] = proc[p] /\ proc[p] # "stopped"
      BY <2>5, <3>1 DEF SendSignal, Accounted, TypeOK
    <3>3. wpc'[w] = "flag" /\ wkind' = wkind /\ wtask' = wtask
      BY <2>5 DEF SendSignal, TypeOK
    <3>4. proc'[wtask[w]] = "stopped" => wkind[w] = "pause"
      BY <2>5, <3>1 DEF SendSignal, AfterSignal, TypeOK
    <3>5. paused' = paused /\ pid' = pid /\ abandoned' = abandoned
      BY <2>5 DEF SendSignal
    <3> QED
      BY <2>2, <3>1, <3>2, <3>3, <3>4, <3>5
         DEF Busy, HoldsTask, Accounted, Traceable
  <2>6. ~SignalFreedTask(w)
    BY DEF SignalFreedTask, NoStraySignal
  <2>7. CASE SetFlag(w)
    BY <2>2, <2>7
       DEF SetFlag, Ends, FlagOf, Busy, TypeOK, HoldsTask, Accounted, Traceable
  <2> QED
    BY <1>3, <2>1, <2>3, <2>4, <2>5, <2>6, <2>7 DEF WorkerThread, RunFreedText
<1>4. ASSUME NEW p \in Pids, WritePid(p)
      PROVE  Accounts'
  <2>1. UNCHANGED <<wpc, wkind, wtask, paused, proc>> /\ pid' = p
    BY <1>4 DEF WritePid, workerVars
  <2>3. abandoned \subseteq abandoned'
    BY <1>4 DEF WritePid
  <2>6. \A q \in Procs \ abandoned' : proc[q] # "stopped"
    <3>1. SUFFICES ASSUME NEW q \in Procs \ abandoned', proc[q] = "stopped"
                   PROVE  FALSE
      OBVIOUS
    <3>2. q = pid /\ (paused = 1 \/ \E w \in Workers : wpc[w] = "flag")
      BY <2>3, <3>1 DEF Accounted
    <3> QED
      BY <1>4, <3>1, <3>2, PauseAssumption DEF WritePid
  <2> QED
    BY <1>0, <2>1, <2>6 DEF Accounted
<1>5. ASSUME NEW p \in Procs, ProcExits(p)
      PROVE  Accounts'
  BY <1>5 DEF ProcExits, workerVars, TypeOK, Accounts, HoldsTask, Accounted, Traceable
<1>6. CASE Tick
  BY <1>6 DEF Tick, Accounts, HoldsTask, Accounted, Traceable
<1> QED
  BY <1>1, <1>2, <1>3, <1>4, <1>5, <1>6 DEF Next

-----------------------------------------------------------------------------
(* The theorems.                                                           *)

LEMMA Initially == Init => TypeOK /\ Shelter /\ Accounts
<1> SUFFICES ASSUME Init
             PROVE  TypeOK /\ Shelter /\ Accounts
  OBVIOUS
<1>1. <<>> \in Seq(Reports) /\ Len(<<>>) = 0
  OBVIOUS
<1>2. ReaderTypeOK
  BY <1>1, ReaderAssumption
     DEF Init, ReaderInit, ReaderTypeOK, Modules, ReaderPCs, Faults
<1>3. TypeOK
  BY <1>2, PauseAssumption DEF Init, TypeOK, WorkerPCs, Kinds, Pids, ProcStates
<1>4. Shelter
  BY DEF Init, ReaderInit, Shelter, Lifecycle, Sheltered, OneWorker, Busy
<1>5. Accounts
  BY DEF Init, Accounts, HoldsTask, Accounted, Traceable
<1> QED
  BY <1>3, <1>4, <1>5

IndInv ==
  /\ TypeOK
  /\ Shelter
  /\ HoldsTask
  /\ Traceable
  /\ NoStraySignal => Accounted

(* The invariant holds as long as workers are prompt.                      *)
THEOREM Invariance ==
  ASSUME Prompt
  PROVE  Spec => []IndInv
<1>1. Init => IndInv
  BY Initially DEF IndInv, Accounts
<1>2. IndInv /\ [Next]_vars => IndInv'
  <2> SUFFICES ASSUME IndInv, [Next]_vars
               PROVE  IndInv'
    OBVIOUS
  <2>1. TypeOK' /\ HoldsTask'
    BY Typing, HoldsTaskStep DEF IndInv
  <2>2. Shelter'
    BY ShelterStep DEF IndInv
  <2>3. Traceable'
    BY TraceStep DEF IndInv
  <2>4. ASSUME NoStraySignal'
        PROVE  Accounted'
    <3>1. Accounts
      BY <2>4, FaultsStay DEF IndInv, Accounts
    <3> QED
      BY <2>4, <3>1, AccountsStep DEF IndInv, Accounts
  <2> QED
    BY <2>1, <2>2, <2>3, <2>4 DEF IndInv
<1> QED
  BY <1>1, <1>2, PTL DEF Spec

(* Every variable keeps its type, however late workers are: a worker past  *)
(* its lookup always holds a task to signal.                               *)
THEOREM TypeCorrect == Spec => []TypeOK
<1>1. Init => TypeOK /\ HoldsTask
  BY Initially DEF Accounts
<1>2. (TypeOK /\ HoldsTask) /\ [Next]_vars => (TypeOK /\ HoldsTask)'
  BY Typing, HoldsTaskStep
<1> QED
  BY <1>1, <1>2, PTL DEF Spec

(* The reader's sleep, and nothing else, keeps two workers apart: with     *)
(* prompt workers the flag is never read while one is about to change it.  *)
THEOREM OneWorkerAtATime ==
  ASSUME Prompt
  PROVE  Spec => []OneWorker
<1>1. IndInv => OneWorker
  BY DEF IndInv, Shelter
<1> QED
  BY <1>1, Invariance, PTL

(* The exit handler stops the reader only, and yet no worker is left when  *)
(* the module's code is freed.                                             *)
THEOREM UnloadIsSafe ==
  ASSUME Prompt
  PROVE  Spec => []UnloadSafe
<1>1. IndInv => UnloadSafe
  BY DEF IndInv, Shelter, Lifecycle, Sheltered, UnloadSafe, Quiet
<1> QED
  BY <1>1, Invariance, PTL

(* A process is left stopped only if the module knows that it is, unless   *)
(* its pid was overwritten meanwhile.                                      *)
THEOREM NeverStuckForever ==
  ASSUME Prompt
  PROVE  Spec => []NeverStuck
<1>1. IndInv => NeverStuck
  BY DEF IndInv, NoStraySignal, Accounted, NeverStuck, Quiet, Busy
<1> QED
  BY <1>1, Invariance, PTL

-----------------------------------------------------------------------------
(* The module and the servo board as parts of the whole system.            *)

(* The safety part of the servo board's specification.                     *)
ServoSafety == Servo!Init /\ [][Servo!Next]_(Servo!servoVars)

(* Nothing that helloWorld or the servo board does is a step of the module *)
(* but a stutter, and its threads are scheduled as they are alone: whatever*)
(* it promises under FairSpec, liveness included, holds in the system. The *)
(* board in turn sees a line on which characters arrive now and then.      *)
THEOREM SystemImplementsParts == SystemSpec => FairSpec /\ ServoSafety
<1>1. SystemInit => Init /\ Servo!Init
  BY DEF SystemInit
<1>2. [SystemNext]_systemVars => [Next]_vars
  BY DEF SystemNext, systemVars, HelloOpens, HelloWrites, ServoLoop
<1>3. [SystemNext]_systemVars => [Servo!Next]_(Servo!servoVars)
  BY DEF SystemNext, systemVars, boardVars, HelloOpens, HelloWrites, ServoLoop, Servo!Next,
         Servo!servoVars
<1> QED
  BY <1>1, <1>2, <1>3, PTL DEF SystemSpec, SystemFairness, FairSpec, Spec, ServoSafety

(* In the whole system, workers are still apart, the unloading is safe, and*)
(* helloWorld is left stopped only where the module knows it is.           *)
THEOREM SystemIsSafe ==
  ASSUME Prompt
  PROVE  SystemSpec => [](OneWorker /\ UnloadSafe /\ NeverStuck)
<1>1. SystemSpec => Spec
  BY SystemImplementsParts, PTL DEF FairSpec
<1> QED
  BY <1>1, OneWorkerAtATime, UnloadIsSafe, NeverStuckForever, PTL
=============================================================================
