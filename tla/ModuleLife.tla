----------------------------- MODULE ModuleLife -----------------------------
(***************************************************************************)
(* The life of a loadable kernel module that runs kernel threads, shared   *)
(* by every module of the repository that pauses processes.                *)
(***************************************************************************)
VARIABLES
  module,  \* see Modules
  faults   \* uses of freed memory that have happened: see Faults

(* "exiting" is an rmmod that waits for a thread in kthread_stop, "gone"   *)
(* an unloaded module, "wedged" an rmmod that died in the exit handler and *)
(* left the module loaded for ever.                                        *)
Modules == {"absent", "loaded", "exiting", "gone", "wedged"}

(* kthread_stop() on a thread that has ended, or on the error kthread_run  *)
(* returned instead of one; a thread that runs code of an unloaded module; *)
(* a signal to a task that has been freed.                                 *)
Faults == {"deadThread", "noThread", "freedText", "freedTask"}

TextLoaded == module # "gone"
=============================================================================
