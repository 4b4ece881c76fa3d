----------------------------- MODULE UeventCall -----------------------------
(***************************************************************************)
(* kernelUserCall and kernelUserBuffer: loading call.c announces a kernel  *)
(* object; a daemon (uevent_daemon.c) receives the announcement and runs a *)
(* program (user.c), which writes a value into a second module through     *)
(* sysfs (interact.c). The daemon runs one program at a time, while the    *)
(* announcements wait in its socket; when they do not fit, the next recv() *)
(* fails and the daemon ends.                                              *)
(***************************************************************************)
EXTENDS Integers, Sequences, FiniteSets

CONSTANTS
  QueueMax,  \* announcements the daemon's socket holds
  SentMax    \* announcements in a behaviour

ASSUME CallAssumption == QueueMax \in Nat \ {0} /\ SentMax \in Nat

VARIABLES
  call,      \* the module call.c: see CallStages
  interact,  \* is interact.c loaded?
  my_value,
  daemon,    \* what the daemon is doing
  queue,     \* announcements in its socket: what each is about
  overrun,   \* one did not fit
  user,      \* what the program the daemon runs is doing
  sent,      \* history: announcements since the daemon has its socket
  called,    \* history: those of them from "call"
  runs,      \* history: how often the daemon has called system()
  failed,    \* history: has one of those calls failed to run the program?
  reloaded   \* history: has interact.c been loaded or unloaded since then?

kernelVars == <<call, interact, my_value>>
socketVars == <<queue, overrun, sent, called>>
historyVars == <<failed, reloaded>>
callVars == <<kernelVars, daemon, socketVars, user, runs, historyVars>>

CallStages == {"absent", "created", "announced", "loaded", "removed"}
DaemonPCs == {"start", "recv", "system", "ended"}
UserPCs == {"none", "open", "read", "write", "close"}
Sources == {"call", "other"}

(* Every variable has a value of its type.                                 *)
CallTypeOK ==
  /\ call \in CallStages
  /\ interact \in BOOLEAN
  /\ my_value \in {0, 42}
  /\ daemon \in DaemonPCs
  /\ queue \in Seq(Sources) /\ Len(queue) <= QueueMax
  /\ overrun \in BOOLEAN
  /\ user \in UserPCs
  /\ sent \in 0 .. SentMax /\ called \in 0 .. sent /\ runs \in 0 .. called
  /\ failed \in BOOLEAN /\ reloaded \in BOOLEAN

CallInit ==
  /\ call = "absent"
  /\ interact \in BOOLEAN
  /\ my_value = 0
  /\ daemon = "start"
  /\ queue = <<>>
  /\ overrun = FALSE
  /\ user = "none"
  /\ sent = 0 /\ called = 0 /\ runs = 0
  /\ failed = FALSE /\ reloaded = FALSE

-----------------------------------------------------------------------------
(* Announcements.                                                          *)

Listening == daemon \in {"recv", "system"}

(* The kernel tells whoever listens.                                       *)
Announce(source) ==
  IF Listening
    THEN /\ sent < SentMax
         /\ sent' = sent + 1
         /\ called' = IF source = "call" THEN called + 1 ELSE called
         /\ IF Len(queue) < QueueMax
              THEN queue' = Append(queue, source) /\ UNCHANGED overrun
              ELSE overrun' = TRUE /\ UNCHANGED queue
    ELSE UNCHANGED socketVars

(* Any other device or module.                                             *)
AnnounceOther ==
  /\ Listening
  /\ Announce("other")
  /\ UNCHANGED <<kernelVars, daemon, user, runs, historyVars>>

-----------------------------------------------------------------------------
(* call.c. The module loader announces the module, too, under the same     *)
(* name. When depends on the kernel: before 5.13 it does so before init,   *)
(* since then after an init that succeeds; and again when the module goes, *)
(* if it had announced it.                                                 *)

CallGoes(from, to) == call = from /\ call' = to

(* Whatever the kernel, each of its announcements is made or is not.       *)
MayAnnounceModule == Announce("call") \/ UNCHANGED socketVars

LoadCall ==
  /\ CallGoes("absent", "created")
  /\ MayAnnounceModule
  /\ UNCHANGED <<interact, my_value, daemon, user, runs, historyVars>>

(* The object cannot be created; or it cannot be announced, and is put     *)
(* without another word.                                                   *)
InitFails ==
  /\ CallGoes("created", "removed")
  /\ UNCHANGED <<interact, my_value, daemon, socketVars, user, runs, historyVars>>

call_init ==
  /\ CallGoes("created", "announced")
  /\ Announce("call")
  /\ UNCHANGED <<interact, my_value, daemon, user, runs, historyVars>>

InitSucceeded ==
  /\ CallGoes("announced", "loaded")
  /\ MayAnnounceModule
  /\ UNCHANGED <<interact, my_value, daemon, user, runs, historyVars>>

(* The last kobject_put() announces that the object goes.                  *)
call_exit ==
  /\ CallGoes("loaded", "removed")
  /\ Announce("call")
  /\ UNCHANGED <<interact, my_value, daemon, user, runs, historyVars>>

UnloadCall ==
  /\ CallGoes("removed", "absent")
  /\ MayAnnounceModule
  /\ UNCHANGED <<interact, my_value, daemon, user, runs, historyVars>>

-----------------------------------------------------------------------------
(* interact.c.                                                             *)

interact_init ==
  /\ ~interact
  /\ interact' = TRUE
  /\ my_value' = 0
  /\ reloaded' = TRUE
  /\ UNCHANGED <<call, daemon, socketVars, user, runs, failed>>

interact_exit ==
  /\ interact
  /\ interact' = FALSE
  /\ my_value' = 0
  /\ reloaded' = TRUE
  /\ UNCHANGED <<call, daemon, socketVars, user, runs, failed>>

-----------------------------------------------------------------------------
(* uevent_daemon.c.                                                        *)

OpensSocket ==
  /\ daemon = "start"
  /\ daemon' = "recv"
  /\ UNCHANGED <<kernelVars, socketVars, user, runs, historyVars>>

(* recv() reports an overrun before it returns what is in the queue.       *)
RecvFails ==
  /\ daemon = "recv"
  /\ overrun
  /\ daemon' = "ended"
  /\ UNCHANGED <<kernelVars, socketVars, user, runs, historyVars>>

(* Mutant: the daemon goes on receiving while the program runs.            *)
ReceiveUnawaited ==
  /\ daemon = "recv"
  /\ ~overrun
  /\ queue # <<>>
  /\ queue' = Tail(queue)
  /\ IF Head(queue) = "call" /\ user = "none"
       THEN user' = "open" /\ runs' = runs + 1
       ELSE UNCHANGED <<user, runs>>
  /\ UNCHANGED <<kernelVars, daemon, overrun, sent, called, historyVars>>

(* strstr() finds "call" in the path of the object.                        *)
ReceiveUevent ==
  /\ daemon = "recv"
  /\ ~overrun
  /\ queue # <<>>
  /\ queue' = Tail(queue)
  /\ IF Head(queue) = "call"
       THEN daemon' = "system" /\ user' = "open" /\ runs' = runs + 1
       ELSE UNCHANGED <<daemon, user, runs>>
  /\ UNCHANGED <<kernelVars, overrun, sent, called, historyVars>>

SystemReturns ==
  /\ daemon = "system"
  /\ user = "none"
  /\ daemon' = "recv"
  /\ UNCHANGED <<kernelVars, socketVars, user, runs, historyVars>>

Daemon == OpensSocket \/ RecvFails \/ ReceiveUevent \/ SystemReturns

-----------------------------------------------------------------------------
(* user.c, and what it calls in interact.c.                                *)

UserGoes(from, to) ==
  /\ user = from
  /\ user' = to
  /\ UNCHANGED <<call, interact, daemon, socketVars, runs, reloaded>>

(* The program ends when there is no such attribute.                       *)
OpenAttribute ==
  /\ UserGoes("open", IF interact THEN "read" ELSE "none")
  /\ UNCHANGED <<my_value, failed>>

(* system() cannot start the program, or the attribute is not the user's   *)
(* to open: the daemon does not look at what system() returns.             *)
ProgramFails ==
  /\ UserGoes("open", "none")
  /\ failed' = TRUE
  /\ UNCHANGED my_value

(* What it reads it only prints.                                           *)
my_value_show ==
  /\ UserGoes("read", "write")
  /\ UNCHANGED <<my_value, failed>>

(* Mutant: nothing is stored.                                              *)
my_value_kept ==
  /\ UserGoes("write", "close")
  /\ UNCHANGED <<my_value, failed>>

(* Once the attribute is gone, the write fails unnoticed.                  *)
my_value_store ==
  /\ UserGoes("write", "close")
  /\ my_value' = IF interact THEN 42 ELSE my_value
  /\ UNCHANGED failed

CloseAttribute ==
  /\ UserGoes("close", "none")
  /\ UNCHANGED <<my_value, failed>>

User ==
  \/ OpenAttribute \/ ProgramFails
  \/ my_value_show \/ my_value_store \/ CloseAttribute

CallNext ==
  \/ AnnounceOther
  \/ LoadCall \/ InitFails \/ call_init \/ InitSucceeded \/ call_exit \/ UnloadCall
  \/ interact_init \/ interact_exit
  \/ Daemon
  \/ User

-----------------------------------------------------------------------------
(* The announcements in q that are about "call".                           *)
FromCall(q) == Cardinality({i \in 1 .. Len(q) : q[i] = "call"})

(* No announcement is lost unnoticed: the daemon calls system() once for   *)
(* every one from "call", loading and unloading alike, whether the earlier *)
(* programs could run or not, and ends only when one did not fit into its  *)
(* socket (uevent_daemon.c:36).                                            *)
NoneLost ==
  /\ ~overrun => called = runs + FromCall(queue)
  /\ daemon = "ended" => overrun

(* As long as interact.c stays loaded, an announcement from "call" brings  *)
(* the value 42 into it, through the daemon and the program, unless the    *)
(* daemon could not keep up or could not run the program.                  *)
ValueArrives ==
  called > 0 ~> (my_value = 42 \/ ~interact \/ reloaded \/ overrun \/ failed)
=============================================================================
