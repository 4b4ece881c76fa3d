----------------------------- MODULE PermDriver -----------------------------
(***************************************************************************)
(* perm-driver/perm-driver.c: the directory is locked while the module is  *)
(* loaded. It is what usb-perm-driver grew out of, without the device: the *)
(* same two functions, called only by the thread of insmod or rmmod. One   *)
(* of the two drivers is installed.                                        *)
(***************************************************************************)
EXTENDS UsbPerm

VARIABLE installed  \* which of the two drivers

permVars == <<vars, installed>>

perm_driver == installed = "perm-driver"

PermInit == Init /\ installed \in {"perm-driver", "usb-perm-driver"}

perm_driver_init ==
  /\ StageGoes("absent", "init")
  /\ CallsRemove(Loader)
  /\ UNCHANGED <<dirData, plugged, iface, shared>>

(* Init returns 0 whatever came of the call.                               *)
PermInitReturns ==
  /\ StageGoes("init", "loaded")
  /\ AllIdle
  /\ UNCHANGED <<dirVars, plugged, iface, shared>>

perm_driver_exit ==
  /\ StageGoes("loaded", "exit")
  /\ CallsAdd(Loader)
  /\ UNCHANGED <<dirData, plugged, iface, shared>>

(* A module that is loaded again starts with fresh static variables.       *)
PermExitReturns ==
  /\ StageGoes("exit", "absent")
  /\ AllIdle
  /\ ForgetsData
  /\ UNCHANGED <<mode, there, pc, owner, missed, lost, plugged, iface, shared>>

PermDriverNext ==
  \/ perm_driver_init \/ PermInitReturns \/ perm_driver_exit \/ PermExitReturns
  \/ (DirStep(Loader) \/ Owner) /\ UNCHANGED usbVars

PermNext ==
  /\ IF perm_driver THEN PermDriverNext ELSE Next
  /\ UNCHANGED installed

PermSpec == PermInit /\ [][PermNext]_permVars

-----------------------------------------------------------------------------
(* Unless a call could not resolve the path, perm-driver's directory has   *)
(* no permissions while the module is loaded, and has its owner's again    *)
(* once it is not, after any number of loads and unloads.                  *)
LockedWhileLoaded ==
  perm_driver /\ ~missed =>
    /\ stage = "loaded" => Locked
    /\ stage = "absent" => mode = owner

(* A directory that rmmod has left locked stays locked: the next load      *)
(* saves the cleared mode as if it were the original (perm-driver.c:29),   *)
(* so that no later unload, probe or disconnect can bring the owner's mode *)
(* back.                                                                   *)
StaysLost == [](stage = "absent" /\ Locked => []Locked)
=============================================================================
