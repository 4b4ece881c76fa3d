----------------------------- MODULE PauseOnce -----------------------------
(***************************************************************************)
(* ppause/pause_mod.c: loading the module pauses one process for five      *)
(* seconds; rmmod calls kthread_stop() for the worker, whether or not it   *)
(* is still there. The netlink module grew out of it: it remembers its     *)
(* worker in the same way and is unloaded in the same way. One of the two  *)
(* is installed.                                                           *)
(***************************************************************************)
EXTENDS NetlinkPause

VARIABLE installed  \* which of the two modules

ppause == installed = "ppause"

pauserVars == <<netlinkVars, installed>>

(* ppause has a parameter, given when it is loaded.                        *)
PauserInit ==
  /\ installed \in {"ppause", "user-pid-pause"}
  /\ IF ppause THEN Unloaded /\ pid \in Pids ELSE NetlinkInit

(* When kthread_run fails nothing has changed.                             *)
pause_module_init ==
  /\ module = "absent"
  /\ module' = "loaded"
  /\ \E w \in Workers : StartThread(w) /\ task' = w
  /\ UNCHANGED <<faults, pid, senderVars>>

(* Mutant: the exit handler does not stop the thread.                      *)
pause_module_exit_at_once ==
  /\ module = "loaded"
  /\ module' = "gone"
  /\ UNCHANGED <<faults, threadVars, task, senderVars>>

pause_module_exit ==
  /\ module = "loaded"
  /\ StopThread(task)
  /\ UNCHANGED <<threadVars, task, senderVars>>

PPauseNext ==
  \/ pause_module_init \/ pause_module_exit \/ ExitReturns
  \/ \E w \in Workers : PauserWorker(w)
  \/ ((\E p \in Pids : WritePid(p)) \/ (\E p \in Procs : ProcExits(p)))
       /\ UNCHANGED <<task, senderVars>>
  \/ PauserTick

PauserNext ==
  /\ IF ppause THEN PPauseNext ELSE NetlinkNext
  /\ UNCHANGED installed

(* Workers that can run do run, time passes, and kthread_stop() returns.   *)
PauserSpec ==
  /\ PauserInit
  /\ [][PauserNext]_pauserVars
  /\ WF_netlinkVars(PauserTick)
  /\ WF_netlinkVars(ExitReturns)
  /\ \A w \in Workers : WF_netlinkVars(PauserWorker(w))

-----------------------------------------------------------------------------
(* rmmod of ppause in the middle of the five seconds does not leave the    *)
(* process stopped: it waits for the worker, which lets the process        *)
(* continue, even when the parameter has been rewritten meanwhile          *)
(* (pause_mod.c:48).                                                       *)
ReleasedOnUnload ==
  ppause /\ module = "gone" /\ "freedTask" \notin faults =>
    \A p \in Procs : proc[p] # "stopped"

(* The delay in pause_thread is commented "5 seconds delay": a process     *)
(* that ppause resumes has been stopped for that long.                     *)
FullPause == [][ppause => \A p \in Procs : ~CutShort(p)]_threadVars
=============================================================================
