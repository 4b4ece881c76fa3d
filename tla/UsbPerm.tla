------------------------------ MODULE UsbPerm ------------------------------
(***************************************************************************)
(* usb-perm-driver/driver.c: the directory is locked unless a certain USB  *)
(* device is plugged in. probe() restores its mode and disconnect() locks  *)
(* it, once for every interface of the device; init locks it and exit      *)
(* restores it.                                                            *)
(*                                                                         *)
(* The callbacks for the interfaces of one device are serialised by that   *)
(* device's lock. Nothing serialises those of two devices, or init and     *)
(* exit against a callback.                                                *)
(***************************************************************************)
EXTENDS DirPerms

CONSTANTS
  Loader,      \* the thread that runs insmod or rmmod
  Interfaces,  \* those the driver's id table matches
  Devices,
  DeviceOf     \* the device each interface belongs to

ASSUME UsbAssumption ==
  /\ Actors = Interfaces \union {Loader}
  /\ Loader \notin Interfaces
  /\ DeviceOf \in [Interfaces -> Devices]

VARIABLES
  stage,    \* of the module's life: see Stages
  plugged,  \* the devices that are plugged in
  iface,    \* what the driver is doing with each interface
  shared    \* history: has it ever dealt with two interfaces at once?

usbVars == <<stage, plugged, iface, shared>>
vars == <<dirVars, usbVars>>

Stages == {"absent", "init", "register", "attach", "loaded", "exit", "deregister"}
IfaceStates == {"unbound", "probing", "bound", "leaving"}

UsbTypeOK ==
  /\ stage \in Stages
  /\ plugged \subseteq Devices
  /\ iface \in [Interfaces -> IfaceStates]
  /\ shared \in BOOLEAN

(* Every variable has a value of its type.                                 *)
TypeOK == DirTypeOK /\ UsbTypeOK

Init ==
  /\ DirInit
  /\ stage = "absent"
  /\ plugged \in SUBSET Devices
  /\ iface = [i \in Interfaces |-> "unbound"]
  /\ shared = FALSE

StageGoes(from, to) == stage = from /\ stage' = to

dirData == <<mode, moduleData, there, owner, missed, lost>>

-----------------------------------------------------------------------------
(* insmod and rmmod.                                                       *)

usb_perm_init ==
  /\ StageGoes("absent", "init")
  /\ CallsRemove(Loader)
  /\ UNCHANGED <<dirData, plugged, iface, shared>>

InitLocks ==
  /\ StageGoes("init", "register")
  /\ pc[Loader] = "idle"
  /\ UNCHANGED <<dirVars, plugged, iface, shared>>

(* usb_register() succeeds: the driver core probes what is plugged in.     *)
Register ==
  /\ StageGoes("register", "attach")
  /\ UNCHANGED <<dirVars, plugged, iface, shared>>

ForgetsData == original_mode' = NoMode /\ mode_saved' = 0

(* It fails, and with it the load; nothing undoes what init has done.      *)
RegisterFails ==
  /\ StageGoes("register", "absent")
  /\ ForgetsData
  /\ UNCHANGED <<mode, there, pc, owner, missed, lost, plugged, iface, shared>>

Settled ==
  \A i \in Interfaces :
    iface[i] = IF DeviceOf[i] \in plugged THEN "bound" ELSE "unbound"

InitReturns ==
  /\ StageGoes("attach", "loaded")
  /\ Settled
  /\ UNCHANGED <<dirVars, plugged, iface, shared>>

usb_perm_exit ==
  /\ StageGoes("loaded", "exit")
  /\ CallsAdd(Loader)
  /\ UNCHANGED <<dirData, plugged, iface, shared>>

(* usb_deregister() disconnects every bound interface.                     *)
Deregister ==
  /\ StageGoes("exit", "deregister")
  /\ pc[Loader] = "idle"
  /\ UNCHANGED <<dirVars, plugged, iface, shared>>

ExitReturns ==
  /\ StageGoes("deregister", "absent")
  /\ \A i \in Interfaces : iface[i] = "unbound"
  /\ ForgetsData
  /\ UNCHANGED <<mode, there, pc, owner, missed, lost, plugged, iface, shared>>

-----------------------------------------------------------------------------
(* The USB core's calls into the driver.                                   *)

Unbound == \A i \in Interfaces : iface[i] = "unbound"
Registered == stage \in {"attach", "loaded", "exit"}

HasDeviceLock(i) ==
  \A j \in Interfaces :
    DeviceOf[j] = DeviceOf[i] => iface[j] \notin {"probing", "leaving"}

IfaceGoes(i, from, to) ==
  /\ iface[i] = from
  /\ iface' = [iface EXCEPT ![i] = to]

(* Mutant: probe() locks.                                                  *)
usb_perm_probe_locks(i) ==
  /\ Registered
  /\ DeviceOf[i] \in plugged
  /\ HasDeviceLock(i)
  /\ IfaceGoes(i, "unbound", "probing")
  /\ CallsRemove(i)
  /\ shared' = (shared \/ ~Unbound)
  /\ UNCHANGED <<dirData, stage, plugged>>

usb_perm_probe(i) ==
  /\ Registered
  /\ DeviceOf[i] \in plugged
  /\ HasDeviceLock(i)
  /\ IfaceGoes(i, "unbound", "probing")
  /\ CallsAdd(i)
  /\ shared' = (shared \/ ~Unbound)
  /\ UNCHANGED <<dirData, stage, plugged>>

(* Probe returns 0 whatever came of the call.                              *)
ProbeReturns(i) ==
  /\ pc[i] = "idle"
  /\ IfaceGoes(i, "probing", "bound")
  /\ UNCHANGED <<dirVars, stage, plugged, shared>>

(* Mutant: disconnect() restores.                                          *)
usb_perm_disconnect_restores(i) ==
  /\ DeviceOf[i] \notin plugged \/ stage = "deregister"
  /\ HasDeviceLock(i)
  /\ IfaceGoes(i, "bound", "leaving")
  /\ CallsAdd(i)
  /\ UNCHANGED <<dirData, stage, plugged, shared>>

usb_perm_disconnect(i) ==
  /\ DeviceOf[i] \notin plugged \/ stage = "deregister"
  /\ HasDeviceLock(i)
  /\ IfaceGoes(i, "bound", "leaving")
  /\ CallsRemove(i)
  /\ UNCHANGED <<dirData, stage, plugged, shared>>

DisconnectReturns(i) ==
  /\ pc[i] = "idle"
  /\ IfaceGoes(i, "leaving", "unbound")
  /\ UNCHANGED <<dirVars, stage, plugged, shared>>

Plug(d) ==
  /\ d \notin plugged
  /\ \A i \in Interfaces : DeviceOf[i] = d => iface[i] = "unbound"
  /\ plugged' = plugged \union {d}
  /\ UNCHANGED <<dirVars, stage, iface, shared>>

Unplug(d) ==
  /\ d \in plugged
  /\ plugged' = plugged \ {d}
  /\ UNCHANGED <<dirVars, stage, iface, shared>>

LoaderStep ==
  \/ usb_perm_init \/ InitLocks \/ Register \/ RegisterFails \/ InitReturns
  \/ usb_perm_exit \/ Deregister \/ ExitReturns

Callback(i) ==
  \/ usb_perm_probe(i) \/ ProbeReturns(i)
  \/ usb_perm_disconnect(i) \/ DisconnectReturns(i)

Next ==
  \/ LoaderStep
  \/ \E i \in Interfaces : Callback(i)
  \/ \E d \in Devices : Plug(d) \/ Unplug(d)
  \/ ((\E a \in Actors : DirStep(a)) \/ Owner) /\ UNCHANGED usbVars

Spec == Init /\ [][Next]_vars

-----------------------------------------------------------------------------
(* Properties.                                                             *)

(* While the driver is loaded and no device is bound, the directory is     *)
(* locked, however the callbacks of several devices interleave. The        *)
(* exception is a path that once did not resolve: the error is ignored     *)
(* (driver.c:134, :143, :168).                                             *)
LockedWhenUnbound ==
  stage \in {"register", "attach", "loaded"} /\ Unbound /\ ~missed => Locked

(* As long as one interface has gone before the next one came: once it is  *)
(* bound, its owner's mode is back, changes the owner made during earlier  *)
(* visits included, unless an earlier unload had left the directory        *)
(* locked. With two at once it is not: see the README.                     *)
OpenWhenBound ==
  /\ stage = "loaded"
  /\ AllIdle
  /\ ~shared
  /\ ~missed
  /\ ~lost
  => \A i \in Interfaces : iface[i] = "bound" => mode = owner

(* The comment at driver.c:68 says that the flag indicates that the        *)
(* original mode is saved: what a disconnect saves as the original is the  *)
(* mode the owner chose, unless that was lost before, as long as one       *)
(* interface has gone before the next one came. (While the exit handler    *)
(* runs it may have written an older mode back.)                           *)
SavesOriginal ==
  [][\A i \in Interfaces :
       Save(i) /\ stage = "loaded" /\ ~shared /\ ~missed /\ ~lost
         => mode = owner]_vars
=============================================================================
