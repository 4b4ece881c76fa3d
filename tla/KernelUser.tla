----------------------------- MODULE KernelUser -----------------------------
(***************************************************************************)
(* Two ways in which the repository lets a program and a module talk       *)
(* about a value: a character device (CharDevice), and an announcement     *)
(* answered through sysfs (UeventCall). A machine runs one of the two.     *)
(***************************************************************************)
EXTENDS CharDevice, UeventCall

VARIABLE example  \* which of them

kernelUserVars == <<deviceVars, callVars, example>>

Init ==
  /\ DeviceInit
  /\ CallInit
  /\ example \in {"kernel-user", "kernelUserCall"}

Device == example = "kernel-user" /\ DeviceNext /\ UNCHANGED <<callVars, example>>
Call == example = "kernelUserCall" /\ CallNext /\ UNCHANGED <<deviceVars, example>>

Next == Device \/ Call

(* The daemon and the program it runs go on.                               *)
Spec ==
  /\ Init
  /\ [][Next]_kernelUserVars
  /\ WF_callVars(example = "kernelUserCall" /\ Daemon)
  /\ WF_callVars(example = "kernelUserCall" /\ User)
=============================================================================
