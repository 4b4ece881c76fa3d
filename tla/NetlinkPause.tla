---------------------------- MODULE NetlinkPause ----------------------------
(***************************************************************************)
(* UltrasonicTrigger/ and user-pid-pause/: a user process asks the module  *)
(* over a netlink socket to pause it (netlink_user.c), and the module's    *)
(* handler starts a worker for the process whose pid the message carries   *)
(* (pause_mod.c). The handler runs in the thread that sends, so that the   *)
(* handlers of two senders interleave; it hands the pid to the worker in a *)
(* static variable. A netlink socket holds a reference to the module.      *)
(***************************************************************************)
EXTENDS PauseThread

CONSTANTS
  Gap,       \* the sender's usleep() between two turns of its loop, in ticks
  NoThread,  \* task is NULL
  ErrPtr     \* task is an error returned by kthread_run

ASSUME NetlinkAssumption ==
  /\ Gap \in Nat \ {0}
  /\ NoThread # ErrPtr
  /\ {NoThread, ErrPtr} \cap Workers = {}

VARIABLES
  task,  \* the static pointer to the last worker
  spc,   \* where each sender is, handler included: see SenderPCs
  gap    \* ticks since its last turn, up to Gap

senderVars == <<spc, gap>>
netlinkVars == <<module, faults, threadVars, task, senderVars>>

SenderPCs == {"closed", "ready", "write", "alloc"}

(* Every variable has a value of its type.                                 *)
NetlinkTypeOK ==
  /\ ThreadTypeOK
  /\ task \in Workers \union {NoThread, ErrPtr}
  /\ spc \in [Procs -> SenderPCs]
  /\ gap \in [Procs -> 0 .. Gap]

(* Neither module has a flag.                                              *)
Unloaded ==
  /\ ThreadInit
  /\ module = "absent"
  /\ faults = {}
  /\ paused = NoFlag
  /\ task = NoThread
  /\ spc = [p \in Procs |-> "closed"]
  /\ gap = [p \in Procs |-> Gap]

NetlinkInit == Unloaded /\ pid = NoPid

-----------------------------------------------------------------------------
(* insmod and rmmod.                                                       *)

hello_init ==
  /\ module = "absent"
  /\ module' = "loaded"
  /\ UNCHANGED <<faults, threadVars, task, senderVars>>

ModuleUsers == {p \in Procs : spc[p] # "closed"}

(* The socket goes, and kthread_stop() is called for the last worker only, *)
(* or for what kthread_run returned instead of one.                        *)
hello_exit ==
  /\ module = "loaded"
  /\ ModuleUsers = {}
  /\ \/ task = NoThread /\ module' = "gone" /\ UNCHANGED faults
     \/ task = ErrPtr /\ module' = "wedged" /\ faults' = faults \union {"noThread"}
     \/ task \in Workers /\ StopThread(task)
  /\ UNCHANGED <<threadVars, task, senderVars>>

ExitReturns ==
  /\ task \in Workers
  /\ WorkerNeverStarted(task) \/ ThreadStopped(task)
  /\ UNCHANGED <<task, senderVars>>

-----------------------------------------------------------------------------
(* The sender's loop, and the handler its sendmsg() calls.                 *)

SenderGoes(p, from, to) ==
  /\ spc[p] = from
  /\ spc' = [spc EXCEPT ![p] = to]

OpenSocket(p) ==
  /\ module = "loaded"
  /\ proc[p] = "running"
  /\ SenderGoes(p, "closed", "ready")
  /\ UNCHANGED <<module, faults, threadVars, task, gap>>

(* There is "Object Detected" in what it reads. (When there is not, the    *)
(* turn changes nothing.)                                                  *)
SendMessage(p) ==
  /\ proc[p] = "running"
  /\ gap[p] = Gap
  /\ SenderGoes(p, "ready", "write")
  /\ UNCHANGED <<module, faults, threadVars, task, gap>>

(* A signal takes effect only when the handler has returned.               *)
WriteSender(p) ==
  /\ SenderGoes(p, "write", "alloc")
  /\ pid' = p
  /\ UNCHANGED <<module, faults, workerVars, paused, proc, held, task, gap>>

HandlerReturns(p) ==
  /\ SenderGoes(p, "alloc", "ready")
  /\ gap' = [gap EXCEPT ![p] = 0]

(* nlmsg_new() fails.                                                      *)
AllocFails(p) ==
  /\ HandlerReturns(p)
  /\ UNCHANGED <<module, faults, threadVars, task>>

RunThread(p) ==
  /\ HandlerReturns(p)
  /\ \E w \in Workers :
       /\ StartThread(w)
       /\ task' = w
  /\ UNCHANGED <<module, faults, pid>>

(* kthread_run() fails, and the error replaces the pointer.                *)
RunThreadFails(p) ==
  /\ HandlerReturns(p)
  /\ task' = ErrPtr
  /\ UNCHANGED <<module, faults, threadVars>>

(* It reaches the end of its loop or is killed; not inside the handler.    *)
SenderExits(p) ==
  /\ spc[p] \in {"closed", "ready"}
  /\ ProcExits(p)
  /\ spc' = [spc EXCEPT ![p] = "closed"]
  /\ UNCHANGED <<task, gap>>

Sender(p) ==
  \/ OpenSocket(p) \/ SendMessage(p) \/ WriteSender(p) \/ AllocFails(p)
  \/ RunThread(p) \/ RunThreadFails(p) \/ SenderExits(p)

PauserWorker(w) == WorkerThread(w) /\ UNCHANGED <<task, senderVars>>

PauserTick ==
  /\ ThreadTick
  /\ gap' = [p \in Procs |-> AtMost(gap[p] + 1, Gap)]
  /\ UNCHANGED <<task, spc>>

NetlinkNext ==
  \/ hello_init \/ hello_exit \/ ExitReturns
  \/ \E p \in Procs : Sender(p)
  \/ \E w \in Workers : PauserWorker(w)
  \/ PauserTick
=============================================================================
