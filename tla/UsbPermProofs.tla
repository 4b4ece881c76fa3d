---------------------------- MODULE UsbPermProofs ----------------------------
(***************************************************************************)
(* usb-perm-driver keeps the directory locked while no device is bound,    *)
(* for any number of devices and interfaces; perm-driver keeps it locked   *)
(* while it is loaded; and neither brings back a mode once it is lost.     *)
(* usb-perm-driver gives the owner's mode back to one visit after another. *)
(***************************************************************************)
EXTENDS PermDriver, TLAPS

InRemove == {"lookup", "save", "clear"}
InAdd == {"check", "find", "restore"}

(* Which of the two functions an actor may be in, and when.                *)
Schedule ==
  /\ pc[Loader] \in InRemove => stage = "init"
  /\ pc[Loader] \in InAdd => stage = "exit"
  /\ \A i \in Interfaces :
       /\ pc[i] \in InRemove => iface[i] = "leaving"
       /\ pc[i] \in InAdd => iface[i] = "probing"
       /\ stage \in {"absent", "init", "register"} => iface[i] = "unbound"

(* A call gets to the restoring of the mode only with a mode to restore.   *)
Cleared == {m \ RWX : m \in Modes}
SavedMode ==
  /\ mode_saved = 1 => original_mode \in Modes \union Cleared
  /\ \A a \in Actors : pc[a] \in {"find", "restore"} => mode_saved = 1

(* Somebody is answerable for a directory that is not locked.              *)
Opener(i) ==
  \/ iface[i] \in {"probing", "bound"}
  \/ iface[i] = "leaving" /\ pc[i] \in InRemove

Answerable ==
  ~missed /\ ~Locked =>
    /\ stage = "init" => pc[Loader] \in InRemove
    /\ stage \in {"register", "attach", "loaded"} =>
         \E i \in Interfaces : Opener(i)

IndInv == TypeOK /\ Schedule /\ SavedMode /\ Answerable

-----------------------------------------------------------------------------
LEMMA Initially == Init => IndInv
<1> SUFFICES ASSUME Init
             PROVE  IndInv
  OBVIOUS
<1>1. TypeOK
  BY ModesAssumption DEF Init, DirInit, TypeOK, DirTypeOK, UsbTypeOK, Stages,
     IfaceStates, PCs
<1>2. Schedule /\ SavedMode /\ Answerable
  BY UsbAssumption
     DEF Init, DirInit, Schedule, SavedMode, Answerable, InRemove, InAdd
<1> QED
  BY <1>1, <1>2 DEF IndInv

(* A step inside one of the two functions.                                 *)
LEMMA DirStepKeeps ==
  ASSUME IndInv, NEW a \in Actors, DirStep(a), UNCHANGED usbVars
  PROVE  IndInv'
<1> USE DEF IndInv
<1> DEFINE Known == Modes \union Cleared
<1>1. \A m \in Known : m \ RWX \in Cleared
  BY DEF Cleared
<1>2. /\ UNCHANGED <<stage, plugged, iface, there, owner>>
      /\ \A b \in Actors : b # a => pc'[b] = pc[b]
      /\ pc' \in [Actors -> PCs]
      /\ pc[a] \in InRemove \/ pc[a] \in InAdd
      /\ pc'[a] \in InRemove => pc[a] \in InRemove
      /\ pc'[a] \in InAdd => pc[a] \in InAdd
  BY DEF usbVars, DirStep, PathFails, PathResolves, Save, Clear, Check, Restore,
         GoesTo, InRemove, InAdd, PCs, TypeOK, DirTypeOK
<1>2a. UsbTypeOK'
  <2>1. stage' = stage /\ plugged' = plugged /\ iface' = iface /\ shared' = shared
    BY DEF usbVars
  <2> QED
    BY <2>1, Zenon DEF UsbTypeOK, TypeOK
<1>3. Schedule'
  BY <1>2, UsbAssumption DEF Schedule
<1>4. CASE PathFails(a)
  <2>1. SavedMode'
    BY <1>2, <1>4 DEF PathFails, GoesTo, moduleData, SavedMode, TypeOK, DirTypeOK
  <2>2. DirTypeOK'
    BY <1>2, <1>4 DEF PathFails, moduleData, TypeOK, DirTypeOK
  <2> QED
    BY <1>3, <1>2a, <1>4, <2>1, <2>2 DEF TypeOK, PathFails, Answerable
<1>5. CASE PathResolves(a)
  <2>1. SavedMode'
    BY <1>2, <1>5 DEF PathResolves, GoesTo, moduleData, SavedMode, TypeOK, DirTypeOK
  <2>2. DirTypeOK'
    BY <1>2, <1>5 DEF PathResolves, moduleData, TypeOK, DirTypeOK
  <2>3. pc[a] \in InRemove => pc'[a] \in InRemove
    BY <1>5 DEF PathResolves, GoesTo, InRemove, TypeOK, DirTypeOK
  <2>4. Answerable'
    BY <1>2, <1>5, <2>3, UsbAssumption
       DEF PathResolves, Answerable, Locked, Opener
  <2> QED
    BY <1>3, <1>2a, <2>1, <2>2, <2>4 DEF TypeOK
<1>6. CASE Save(a)
  <2>1. SavedMode'
    BY <1>2, <1>6 DEF Save, GoesTo, SavedMode, Cleared, TypeOK, DirTypeOK
  <2>2. DirTypeOK'
    <3>1. original_mode' \in Known /\ mode' = mode /\ missed' = missed
      BY <1>6 DEF Save, Cleared, TypeOK, DirTypeOK
    <3>2. lost' \in BOOLEAN
      BY <1>6 DEF Save, TypeOK, DirTypeOK
    <3>3. mode_saved' = 1
      BY <1>6 DEF Save
    <3> QED
      BY <1>2, <3>1, <3>2, <3>3 DEF Cleared, TypeOK, DirTypeOK
  <2>3. pc'[a] \in InRemove
    BY <1>6 DEF Save, GoesTo, InRemove, TypeOK, DirTypeOK
  <2>4. Answerable'
    BY <1>2, <1>6, <2>3, UsbAssumption DEF Save, Answerable, Locked, Opener
  <2> QED
    BY <1>3, <1>2a, <2>1, <2>2, <2>4 DEF TypeOK
<1>7. CASE Clear(a)
  <2>1. mode' \in Cleared /\ Locked'
    BY <1>1, <1>7 DEF Clear, Locked, Cleared, TypeOK, DirTypeOK
  <2>2. SavedMode' /\ DirTypeOK'
    BY <1>2, <1>7, <2>1
       DEF Clear, GoesTo, moduleData, SavedMode, Cleared, TypeOK, DirTypeOK
  <2> QED
    BY <1>3, <1>2a, <2>1, <2>2 DEF TypeOK, Answerable
<1>8. CASE Check(a)
  <2>1. SavedMode' /\ DirTypeOK'
    BY <1>2, <1>8 DEF Check, GoesTo, moduleData, SavedMode, TypeOK, DirTypeOK
  <2>2. pc[a] = "check"
    BY <1>8 DEF Check, GoesTo
  <2>3. Answerable'
    BY <1>2, <1>8, <2>2, UsbAssumption
       DEF Check, Answerable, Locked, Opener, InRemove
  <2> QED
    BY <1>3, <1>2a, <2>1, <2>3 DEF TypeOK
<1>9. CASE Restore(a)
  <2>1. mode' \in Known /\ pc[a] = "restore"
    BY <1>9 DEF Restore, GoesTo, SavedMode
  <2>2. SavedMode' /\ DirTypeOK'
    BY <1>2, <1>9, <2>1
       DEF Restore, GoesTo, moduleData, SavedMode, Cleared, TypeOK, DirTypeOK
  <2>3. Answerable'
    <3>1. CASE a = Loader
      BY <1>2, <2>1, <3>1 DEF Schedule, Answerable, InAdd
    <3>2. CASE a \in Interfaces
      BY <1>2, <2>1, <3>2 DEF Schedule, Answerable, InAdd, Opener
    <3> QED
      BY <3>1, <3>2, UsbAssumption
  <2> QED
    BY <1>3, <1>2a, <2>2, <2>3 DEF TypeOK
<1> QED
  BY <1>4, <1>5, <1>6, <1>7, <1>8, <1>9 DEF DirStep

(* A step of insmod, rmmod or the USB core outside those functions.        *)
LEMMA LoaderKeeps ==
  ASSUME IndInv, LoaderStep
  PROVE  IndInv'
<1> USE UsbAssumption DEF IndInv
<1>1. CASE usb_perm_init \/ usb_perm_exit
  <2>1. TypeOK' /\ Schedule' /\ SavedMode'
    BY <1>1 DEF usb_perm_init, usb_perm_exit, StageGoes, CallsRemove, CallsAdd,
                Calls, dirData, moduleData, TypeOK, DirTypeOK, UsbTypeOK, Stages, PCs,
                Schedule, SavedMode, InRemove, InAdd
  <2>2. Answerable'
    BY <1>1 DEF usb_perm_init, usb_perm_exit, StageGoes, CallsRemove, Calls,
                dirData, TypeOK, DirTypeOK, UsbTypeOK, Answerable, InRemove
  <2> QED
    BY <2>1, <2>2
<1>2. CASE InitLocks \/ Register \/ InitReturns \/ Deregister
  <2>1. TypeOK' /\ Schedule' /\ SavedMode'
    BY <1>2 DEF InitLocks, Register, InitReturns, Deregister, StageGoes, dirVars,
                moduleData, TypeOK, DirTypeOK, UsbTypeOK, Stages, Schedule, SavedMode,
                InRemove, InAdd
  <2>2. Answerable'
    BY <1>2 DEF InitLocks, Register, InitReturns, Deregister, StageGoes, dirVars,
                Answerable, Locked, Opener, InRemove
  <2> QED
    BY <2>1, <2>2
<1>3. CASE RegisterFails \/ ExitReturns
  <2>1. \A a \in Actors : pc[a] = "idle"
    BY <1>3 DEF RegisterFails, ExitReturns, StageGoes, Schedule, InRemove, InAdd,
                TypeOK, DirTypeOK, UsbTypeOK, PCs
  <2>2. Schedule' /\ SavedMode' /\ Answerable'
    BY <1>3, <2>1 DEF RegisterFails, ExitReturns, StageGoes, ForgetsData,
                      Schedule, SavedMode, Answerable, InRemove, InAdd
  <2>3. TypeOK'
    BY <1>3 DEF RegisterFails, ExitReturns, StageGoes, ForgetsData, TypeOK,
                DirTypeOK, UsbTypeOK, Stages
  <2> QED
    BY <2>2, <2>3
<1> QED
  BY <1>1, <1>2, <1>3 DEF LoaderStep

LEMMA CallbackKeeps ==
  ASSUME IndInv, NEW i \in Interfaces, Callback(i)
  PROVE  IndInv'
<1> USE UsbAssumption DEF IndInv
<1>1. UNCHANGED <<dirData, stage, plugged>>
  BY DEF Callback, usb_perm_probe, usb_perm_disconnect, ProbeReturns,
         DisconnectReturns, dirVars, dirData
<1>2. /\ iface' \in [Interfaces -> IfaceStates]
      /\ pc' \in [Actors -> PCs]
      /\ \A j \in Interfaces : j # i => iface'[j] = iface[j]
      /\ \A a \in Actors : a # i => pc'[a] = pc[a]
      /\ pc'[i] \notin {"find", "restore"}
  BY DEF Callback, usb_perm_probe, usb_perm_disconnect, ProbeReturns,
         DisconnectReturns, IfaceGoes, CallsAdd, CallsRemove, Calls, dirVars,
         TypeOK, DirTypeOK, UsbTypeOK, IfaceStates, PCs
<1>3. /\ pc'[i] \in InRemove => iface'[i] = "leaving"
      /\ pc'[i] \in InAdd => iface'[i] = "probing"
      /\ Opener(i) => Opener(i)'
  BY DEF Callback, usb_perm_probe, usb_perm_disconnect, ProbeReturns,
         DisconnectReturns, IfaceGoes, CallsAdd, CallsRemove, Calls, dirVars,
         TypeOK, DirTypeOK, UsbTypeOK, IfaceStates, PCs, InRemove, InAdd, Opener
<1>4. stage \notin {"absent", "init", "register"}
  BY DEF Callback, usb_perm_probe, usb_perm_disconnect, ProbeReturns,
         DisconnectReturns, IfaceGoes, Registered, Schedule
<1>5. TypeOK'
  <2>1. CASE usb_perm_probe(i)
    <3>1. shared' \in BOOLEAN
      BY <2>1 DEF usb_perm_probe, TypeOK, UsbTypeOK
    <3> QED
      BY <1>1, <1>2, <3>1 DEF TypeOK, DirTypeOK, UsbTypeOK, dirData, moduleData
  <2>2. CASE ~usb_perm_probe(i)
    <3>1. shared' = shared
      BY <2>2 DEF Callback, usb_perm_disconnect, ProbeReturns, DisconnectReturns
    <3> QED
      BY <1>1, <1>2, <3>1 DEF TypeOK, DirTypeOK, UsbTypeOK, dirData, moduleData
  <2> QED
    BY <2>1, <2>2
<1>6. Schedule' /\ SavedMode'
  BY <1>1, <1>2, <1>3, <1>4 DEF Schedule, SavedMode, dirData, moduleData
<1>7. Answerable'
  <2>1. \A j \in Interfaces : Opener(j) => Opener(j)'
    BY <1>2, <1>3 DEF Opener
  <2> QED
    BY <1>1, <1>4, <2>1 DEF Answerable, Locked, dirData
<1> QED
  BY <1>5, <1>6, <1>7

LEMMA EnvironmentKeeps ==
  ASSUME IndInv,
         \/ \E d \in Devices : Plug(d) \/ Unplug(d)
         \/ Owner /\ UNCHANGED usbVars
         \/ UNCHANGED vars
  PROVE  IndInv'
<1> USE DEF IndInv
<1>1. CASE (\E d \in Devices : Plug(d) \/ Unplug(d)) \/ UNCHANGED vars
  BY <1>1 DEF Plug, Unplug, vars, usbVars, dirVars, moduleData, TypeOK, DirTypeOK,
              UsbTypeOK, Schedule, SavedMode, Answerable, Locked, Opener
<1>2. CASE Mounts /\ UNCHANGED usbVars
  BY <1>2 DEF Mounts, usbVars, moduleData, TypeOK, DirTypeOK, UsbTypeOK,
              Schedule, SavedMode, Answerable, Locked, Opener
<1>3. CASE Chmod /\ UNCHANGED usbVars
  BY <1>3 DEF Chmod, usbVars, moduleData, TypeOK, DirTypeOK, UsbTypeOK,
              Schedule, SavedMode, Answerable, Locked, Opener
<1> QED
  BY <1>1, <1>2, <1>3 DEF Owner

(* The inductive invariant of usb-perm-driver, for any devices.             *)
THEOREM Invariance == Spec => []IndInv
<1>1. IndInv /\ [Next]_vars => IndInv'
  BY DirStepKeeps, LoaderKeeps, CallbackKeeps, EnvironmentKeeps DEF Next
<1> QED
  BY <1>1, Initially, PTL DEF Spec

(* Every variable keeps its type. In particular the mode that is restored  *)
(* is always one that was saved, never the static variable's initial zero. *)
THEOREM TypeCorrect == Spec => []TypeOK
<1>1. IndInv => TypeOK
  BY DEF IndInv
<1> QED
  BY <1>1, Invariance, PTL

(* The directory is locked while nothing is bound, whatever the number of  *)
(* devices and the interleaving of their callbacks.                        *)
THEOREM LockedUnlessBound == Spec => []LockedWhenUnbound
<1>1. IndInv => LockedWhenUnbound
  BY DEF IndInv, Answerable, LockedWhenUnbound, Unbound, Opener
<1> QED
  BY <1>1, Invariance, PTL

-----------------------------------------------------------------------------
(* perm-driver, whose functions only the loader's thread calls.            *)

NoCallbacks ==
  perm_driver => stage \in {"absent", "init", "loaded", "exit"} /\ Unbound

(* Where the owner's mode is at each point of perm-driver's life.          *)
OwnersMode ==
  /\ stage = "absent" => mode = owner
  /\ stage = "init" /\ pc[Loader] \in {"lookup", "save"} => mode = owner
  /\ \/ stage = "init" /\ pc[Loader] \in {"clear", "idle"}
     \/ stage = "loaded"
     \/ stage = "exit" /\ pc[Loader] \in InAdd
     => original_mode = owner /\ mode_saved = 1
  /\ stage = "exit" /\ pc[Loader] = "idle" => mode = owner

Kept == perm_driver /\ ~missed => OwnersMode

(* A module that is not loaded remembers nothing.                          *)
Forgotten == stage = "absent" => original_mode = NoMode

PermInv == IndInv /\ NoCallbacks /\ Kept /\ Forgotten

LEMMA InitiallyPerm == PermInit => PermInv
BY Initially
   DEF PermInit, Init, DirInit, PermInv, NoCallbacks, Unbound, Kept, OwnersMode, Forgotten

(* Between the calls of a stage, and in perm-driver outside the loader's   *)
(* thread, nobody is in one of the two functions.                          *)
LEMMA NobodyInside ==
  ASSUME IndInv
  PROVE  /\ stage \in {"absent", "register"} => AllIdle
         /\ Unbound => \A i \in Interfaces : pc[i] = "idle"
BY UsbAssumption
   DEF IndInv, TypeOK, DirTypeOK, UsbTypeOK, PCs, Schedule, InRemove, InAdd,
       AllIdle, Unbound

(* The steps of perm-driver's insmod and rmmod.                            *)
LEMMA PermLoaderKeeps ==
  ASSUME PermInv, perm_driver, UNCHANGED installed,
         perm_driver_init \/ PermInitReturns \/ perm_driver_exit \/ PermExitReturns
  PROVE  PermInv'
<1> USE UsbAssumption DEF PermInv, IndInv
<1>1. Unbound /\ Unbound'
  BY DEF NoCallbacks, Unbound, perm_driver_init, PermInitReturns,
         perm_driver_exit, PermExitReturns
<1>2. CASE perm_driver_init \/ perm_driver_exit
  <2>1. TypeOK' /\ Schedule' /\ SavedMode'
    BY <1>2 DEF perm_driver_init, perm_driver_exit, StageGoes, CallsRemove, CallsAdd,
                Calls, dirData, moduleData, TypeOK, DirTypeOK, UsbTypeOK, Stages, PCs,
                Schedule, SavedMode, InRemove, InAdd
  <2>2. Answerable' /\ NoCallbacks'
    BY <1>1, <1>2 DEF perm_driver_init, perm_driver_exit, StageGoes, CallsRemove,
                Calls, dirData, TypeOK, DirTypeOK, UsbTypeOK, Answerable, InRemove,
                NoCallbacks
  <2>3. Kept' /\ Forgotten'
    BY <1>2 DEF perm_driver_init, perm_driver_exit, StageGoes, CallsRemove, CallsAdd,
                Calls, dirData, moduleData, TypeOK, DirTypeOK, Kept, OwnersMode,
                Forgotten, InAdd, perm_driver
  <2> QED
    BY <2>1, <2>2, <2>3
<1>3. CASE PermInitReturns
  <2>1. pc[Loader] = "idle" /\ pc' = pc /\ UNCHANGED <<mode, missed, owner>>
    BY <1>3 DEF PermInitReturns, AllIdle, dirVars
  <2>2. TypeOK' /\ Schedule' /\ SavedMode'
    BY <1>3 DEF PermInitReturns, StageGoes, AllIdle, dirVars, moduleData, TypeOK,
                DirTypeOK, UsbTypeOK, Stages, Schedule, SavedMode, InRemove, InAdd
  <2>3. Answerable' /\ NoCallbacks'
    BY <1>1, <1>3, <2>1 DEF PermInitReturns, StageGoes, Answerable, Locked, InRemove,
                NoCallbacks
  <2>4. Kept' /\ Forgotten'
    BY <1>3, <2>1 DEF PermInitReturns, StageGoes, dirVars, moduleData, Kept, OwnersMode,
                Forgotten, perm_driver
  <2> QED
    BY <2>2, <2>3, <2>4
<1>4. CASE PermExitReturns
  <2>1. TypeOK' /\ Schedule' /\ SavedMode' /\ Answerable'
    BY <1>4 DEF PermExitReturns, StageGoes, AllIdle, ForgetsData, TypeOK, DirTypeOK,
                UsbTypeOK, Stages, Schedule, SavedMode, Answerable, InRemove, InAdd,
                NoCallbacks, Unbound
  <2>2. NoCallbacks' /\ Kept' /\ Forgotten'
    BY <1>1, <1>4 DEF PermExitReturns, StageGoes, AllIdle, ForgetsData, NoCallbacks,
                Kept, OwnersMode, Forgotten, perm_driver
  <2> QED
    BY <2>1, <2>2
<1> QED
  BY <1>2, <1>3, <1>4

(* A step inside one of the two functions, or of the owner.                *)
LEMMA InsideKeeps ==
  ASSUME PermInv, UNCHANGED <<usbVars, installed>>,
         (\E a \in Actors : DirStep(a)) \/ Owner
  PROVE  PermInv'
<1> USE UsbAssumption DEF PermInv
<1>1. IndInv'
  BY DirStepKeeps, EnvironmentKeeps
<1>2. UNCHANGED <<stage, iface, installed>>
  BY DEF usbVars
<1>3. NoCallbacks'
  BY <1>2 DEF NoCallbacks, Unbound, perm_driver
<1>4. CASE Owner
  <2>1. Kept'
    BY <1>2, <1>4, ModesAssumption
       DEF Owner, Mounts, Chmod, moduleData, Kept, OwnersMode, perm_driver, AllIdle,
           Locked, InAdd, IndInv, Answerable, InRemove, NoCallbacks, Opener, Unbound
  <2>2. Forgotten'
    BY <1>2, <1>4 DEF Owner, Mounts, Chmod, moduleData, Forgotten
  <2> QED
    BY <1>1, <1>3, <2>1, <2>2
<1>5. CASE \E a \in Actors : DirStep(a)
  <2> PICK a \in Actors : DirStep(a)
    BY <1>5
  <2>1. pc[a] # "idle"
    BY DEF DirStep, PathFails, PathResolves, Save, Clear, Check, Restore, GoesTo
  <2>2. Forgotten'
    BY <1>2, <2>1, NobodyInside DEF Forgotten, AllIdle
  <2>3. perm_driver => a = Loader
    BY <2>1, NobodyInside DEF NoCallbacks
  <2>4. Kept'
    <3> SUFFICES ASSUME perm_driver, ~missed'
                 PROVE  OwnersMode'
      BY <1>2 DEF Kept, perm_driver
    <3>1. /\ a = Loader /\ OwnersMode /\ ~missed /\ pc \in [Actors -> PCs]
          /\ pc[Loader] \in InRemove => stage = "init"
          /\ pc[Loader] \in InAdd => stage = "exit"
      BY <2>3 DEF DirStep, PathFails, PathResolves, Save, Clear, Check, Restore,
                  Kept, IndInv, TypeOK, DirTypeOK, Schedule
    <3>2. CASE PathFails(a) \/ PathResolves(a)
      BY <1>2, <3>1, <3>2 DEF PathFails, PathResolves, GoesTo, moduleData, OwnersMode,
                  InRemove, InAdd
    <3>3. CASE Save(a) \/ Clear(a)
      BY <1>2, <3>1, <3>3 DEF Save, Clear, GoesTo, moduleData, OwnersMode, InRemove, InAdd
    <3>4. CASE Check(a) \/ Restore(a)
      BY <1>2, <3>1, <3>4 DEF Check, Restore, GoesTo, moduleData, OwnersMode,
                  InRemove, InAdd
    <3> QED
      BY <3>2, <3>3, <3>4 DEF DirStep
  <2> QED
    BY <1>1, <1>3, <2>2, <2>4
<1> QED
  BY <1>4, <1>5

(* What the USB driver does besides does not concern perm-driver.          *)
LEMMA UsbKeeps ==
  ASSUME PermInv, ~perm_driver, UNCHANGED installed,
         \/ LoaderStep
         \/ \E i \in Interfaces : Callback(i)
         \/ \E d \in Devices : Plug(d) \/ Unplug(d)
  PROVE  PermInv'
<1>1. IndInv'
  BY LoaderKeeps, CallbackKeeps, EnvironmentKeeps DEF PermInv
<1>2. Forgotten'
  <2>1. CASE LoaderStep
    BY <2>1 DEF PermInv, Forgotten, LoaderStep, usb_perm_init, InitLocks, Register,
         RegisterFails, InitReturns, usb_perm_exit, Deregister, ExitReturns, StageGoes,
         ForgetsData
  <2>2. CASE ~LoaderStep
    BY <2>2 DEF PermInv, Forgotten, Callback, usb_perm_probe, ProbeReturns,
         usb_perm_disconnect, DisconnectReturns, Plug, Unplug, dirData, dirVars,
         moduleData
  <2> QED
    BY <2>1, <2>2
<1> QED
  BY <1>1, <1>2 DEF PermInv, NoCallbacks, Kept, perm_driver

LEMMA PermInvariance == PermSpec => []PermInv
<1>1. ASSUME PermInv, [PermNext]_permVars
      PROVE  PermInv'
  <2>1. CASE UNCHANGED permVars
    <3>1. IndInv'
      BY <1>1, <2>1, EnvironmentKeeps DEF permVars, PermInv
    <3> QED
      BY <1>1, <2>1, <3>1 DEF permVars, vars, dirVars, usbVars, moduleData, PermInv,
         NoCallbacks, Unbound, Kept, OwnersMode, Forgotten, perm_driver
  <2>2. CASE PermNext /\ perm_driver
    BY <1>1, <2>2, PermLoaderKeeps, InsideKeeps, UsbAssumption
       DEF PermNext, PermDriverNext
  <2>3. CASE PermNext /\ ~perm_driver
    BY <1>1, <2>3, UsbKeeps, InsideKeeps DEF PermNext, Next
  <2> QED
    BY <1>1, <2>1, <2>2, <2>3
<1> QED
  BY <1>1, InitiallyPerm, PTL DEF PermSpec

(* LockedWhenUnbound whichever of the two drivers is installed.            *)
THEOREM BothLockUnlessBound == PermSpec => []LockedWhenUnbound
<1>1. PermInv => LockedWhenUnbound
  BY DEF PermInv, IndInv, Answerable, LockedWhenUnbound, Unbound, Opener
<1> QED
  BY <1>1, PermInvariance, PTL

(* perm-driver's directory is locked while it is loaded and has its        *)
(* owner's mode when it is not, after any number of loads and unloads.     *)
THEOREM PermDriverLocks == PermSpec => []LockedWhileLoaded
<1>1. PermInv => LockedWhileLoaded
  BY DEF PermInv, IndInv, Answerable, NoCallbacks, Unbound, Opener, Kept, OwnersMode,
         LockedWhileLoaded
<1> QED
  BY <1>1, PermInvariance, PTL

-----------------------------------------------------------------------------
(* Where a mode is lost no step has anything but the cleared mode to save  *)
(* or to restore.                                                          *)
LostForGood == Locked /\ original_mode \cap RWX = {}

LEMMA LostStaysLost == LostForGood /\ [PermNext]_permVars => LostForGood'
<1> SUFFICES ASSUME LostForGood, [PermNext]_permVars
             PROVE  LostForGood'
  OBVIOUS
<1> USE DEF LostForGood, Locked
<1>1. CASE UNCHANGED <<mode, moduleData>>
  BY <1>1 DEF moduleData
<1>2. CASE \E a \in Actors : Save(a) \/ Clear(a) \/ Restore(a)
  BY <1>2 DEF Save, Clear, Restore, moduleData
<1>3. CASE UNCHANGED mode /\ ForgetsData
  BY <1>3 DEF ForgetsData, NoMode
<1>4. \/ UNCHANGED <<mode, moduleData>>
      \/ \E a \in Actors : Save(a) \/ Clear(a) \/ Restore(a)
      \/ UNCHANGED mode /\ ForgetsData
  <2>1. CASE (\E a \in Actors : DirStep(a)) \/ Owner \/ UNCHANGED permVars
    BY <2>1 DEF DirStep, PathFails, PathResolves, Check, Owner, Mounts, Chmod,
         permVars, vars, dirVars
  <2>2. CASE LoaderStep
    BY <2>2 DEF LoaderStep, usb_perm_init, InitLocks, Register, RegisterFails,
         InitReturns, usb_perm_exit, Deregister, ExitReturns, dirVars, dirData
  <2>3. CASE (\E i \in Interfaces : Callback(i)) \/ (\E d \in Devices : Plug(d) \/ Unplug(d))
    BY <2>3 DEF Callback, usb_perm_probe, ProbeReturns, usb_perm_disconnect,
         DisconnectReturns, Plug, Unplug, dirVars, dirData
  <2>4. CASE perm_driver_init \/ PermInitReturns \/ perm_driver_exit \/ PermExitReturns
    BY <2>4 DEF perm_driver_init, PermInitReturns, perm_driver_exit, PermExitReturns,
         dirVars, dirData
  <2> QED
    BY <2>1, <2>2, <2>3, <2>4, UsbAssumption DEF PermNext, PermDriverNext, Next
<1> QED
  BY <1>1, <1>2, <1>3, <1>4

(* What an unload or a failed load has left locked stays locked for ever,  *)
(* whichever driver is installed and whatever is plugged in later.         *)
THEOREM LostForEver == PermSpec => StaysLost
<1>1. PermInv /\ stage = "absent" /\ Locked => LostForGood
  BY DEF PermInv, Forgotten, LostForGood, NoMode
<1>2. LostForGood => Locked
  BY DEF LostForGood
<1> QED
  BY <1>1, <1>2, LostStaysLost, PermInvariance, PTL DEF PermSpec, StaysLost

-----------------------------------------------------------------------------
(* usb-perm-driver, as long as its interfaces come one after another.      *)

OneAtATime ==
  ~shared => \A i, j \in Interfaces :
    iface[i] # "unbound" /\ iface[j] # "unbound" => i = j

Remembers == original_mode = owner /\ mode_saved = 1
Waiting == Locked /\ Remembers

(* Where the owner's mode is during the visit of an interface: with the    *)
(* module while it is locked out, in the directory while it is let in.     *)
Visit(i) ==
  \/ iface[i] = "probing" /\ pc[i] \in InAdd /\ Waiting
  \/ iface[i] = "probing" /\ pc[i] = "idle" /\ mode = owner
  \/ iface[i] = "bound" /\ mode = owner
  \/ iface[i] = "leaving" /\ pc[i] \in {"lookup", "save"} /\ mode = owner
  \/ iface[i] = "leaving" /\ pc[i] = "clear" /\ Remembers
  \/ iface[i] = "leaving" /\ pc[i] = "idle" /\ Waiting

Undisturbed == ~shared /\ ~missed /\ ~lost

(* At each stage of a load. Nothing is said of the time after an unload,   *)
(* when the owner may do anything: the next load saves what it finds.      *)
VisitKept ==
  /\ stage = "init" /\ pc[Loader] = "clear" => Remembers
  /\ stage = "init" /\ pc[Loader] = "idle" => Waiting
  /\ stage \in {"register", "attach", "loaded"} =>
       /\ Unbound => Waiting
       /\ \A i \in Interfaces : iface[i] # "unbound" => Visit(i)

VisitInv ==
  /\ PermInv
  /\ OneAtATime
  /\ ~perm_driver /\ Undisturbed => VisitKept

LEMMA InitiallyVisit == PermInit => VisitInv
BY InitiallyPerm
   DEF PermInit, Init, VisitInv, OneAtATime, VisitKept

(* A new interface is probed at the end of a visit, or "shared" says that  *)
(* it was not; nothing else starts a visit, and nothing takes back what    *)
(* disturbs one.                                                           *)
LEMMA OneAtATimeStep ==
  ASSUME PermInv, OneAtATime, [PermNext]_permVars
  PROVE  OneAtATime' /\ (Undisturbed' => Undisturbed)
<1> USE DEF PermInv, IndInv, TypeOK, UsbTypeOK, DirTypeOK
<1>1. \/ UNCHANGED <<iface, shared>>
      \/ \E i \in Interfaces : Callback(i)
  BY DEF PermNext, PermDriverNext, Next, LoaderStep, usb_perm_init, InitLocks, Register,
         RegisterFails, InitReturns, usb_perm_exit, Deregister, ExitReturns, Plug, Unplug,
         perm_driver_init, PermInitReturns, perm_driver_exit, PermExitReturns, permVars,
         vars, usbVars
<1>2. (missed => missed') /\ (lost => lost')
  <2>1. CASE \E a \in Actors : DirStep(a)
    BY <2>1 DEF DirStep, PathFails, PathResolves, Save, Clear, Check, Restore
  <2>2. CASE ~\E a \in Actors : DirStep(a)
    BY <2>2, UsbAssumption
       DEF PermNext, PermDriverNext, Next, LoaderStep, usb_perm_init, InitLocks, Register,
         RegisterFails, InitReturns, usb_perm_exit, Deregister, ExitReturns, Plug, Unplug,
         Callback, usb_perm_probe, ProbeReturns, usb_perm_disconnect, DisconnectReturns,
         perm_driver_init, PermInitReturns, perm_driver_exit, PermExitReturns, permVars,
         vars, dirVars, dirData, Owner, Mounts, Chmod
  <2> QED
    BY <2>1, <2>2
<1>3. ASSUME NEW i \in Interfaces, Callback(i)
      PROVE  OneAtATime' /\ (shared => shared')
  <2>1. CASE usb_perm_probe(i)
    <3>1. /\ shared' = (shared \/ ~Unbound)
          /\ \A j \in Interfaces : j # i => iface'[j] = iface[j]
      BY <2>1 DEF usb_perm_probe, IfaceGoes
    <3> QED
      BY <3>1 DEF OneAtATime, Unbound
  <2>2. CASE ProbeReturns(i) \/ usb_perm_disconnect(i) \/ DisconnectReturns(i)
    <3>1. /\ shared' = shared
          /\ \A j \in Interfaces : iface'[j] # "unbound" => iface[j] # "unbound"
      BY <2>2 DEF ProbeReturns, usb_perm_disconnect, DisconnectReturns, IfaceGoes
    <3> QED
      BY <3>1 DEF OneAtATime
  <2> QED
    BY <1>3, <2>1, <2>2 DEF Callback
<1> QED
  BY <1>1, <1>2, <1>3 DEF OneAtATime, Undisturbed

(* A step inside one of the two functions.                                 *)
LEMMA VisitByFunction ==
  ASSUME VisitInv, VisitKept, Undisturbed', UNCHANGED usbVars,
         NEW a \in Actors, DirStep(a)
  PROVE  VisitKept'
<1> USE UsbAssumption DEF VisitInv, PermInv, IndInv
<1>1. /\ UNCHANGED <<stage, iface, owner>> /\ ~PathFails(a)
      /\ pc \in [Actors -> PCs]
      /\ pc[a] \in InRemove \/ pc[a] \in InAdd
      /\ \A b \in Actors : b # a => pc'[b] = pc[b]
      /\ ~shared
  BY DEF usbVars, Undisturbed, TypeOK, DirTypeOK, DirStep, PathFails, PathResolves, Save,
         Clear, Check, Restore, GoesTo, InRemove, InAdd
<1>2. CASE a = Loader
  <2>1. stage \in {"init", "exit"} /\ (pc[a] \in InAdd => stage = "exit")
    BY <1>1, <1>2 DEF Schedule
  <2>2. CASE PathResolves(a)
    BY <1>1, <1>2, <2>1, <2>2 DEF PathResolves, GoesTo, VisitKept, InAdd
  <2>3. CASE Save(a)
    BY <1>1, <1>2, <2>1, <2>3 DEF Save, GoesTo, VisitKept, Undisturbed, Remembers
  <2>4. CASE Clear(a)
    BY <1>1, <1>2, <2>1, <2>4
       DEF Clear, GoesTo, VisitKept, Remembers, Waiting, Locked, moduleData
  <2>5. CASE Check(a) \/ Restore(a)
    BY <1>1, <1>2, <2>1, <2>5 DEF Check, Restore, GoesTo, VisitKept, InAdd
  <2> QED
    BY <1>1, <2>2, <2>3, <2>4, <2>5 DEF DirStep
<1>3. CASE a \in Interfaces
  <2> SUFFICES ASSUME stage \in {"attach", "loaded"}
               PROVE  Visit(a)' /\ ~Unbound
    <3>1. iface[a] # "unbound"
      BY <1>1, <1>3 DEF Schedule
    <3>2. stage \notin {"init", "register"} /\ ~Unbound
      BY <1>3, <3>1 DEF Schedule, Unbound
    <3>3. \A i \in Interfaces : iface[i] # "unbound" => i = a
      BY <1>1, <1>3, <3>1 DEF OneAtATime
    <3> QED
      BY <1>1, <3>2, <3>3 DEF VisitKept, Unbound
  <2>1. iface[a] # "unbound" /\ Visit(a) /\ ~Unbound
    BY <1>1, <1>3 DEF Schedule, VisitKept, Unbound
  <2>2. CASE PathResolves(a)
    BY <1>1, <2>1, <2>2
       DEF PathResolves, GoesTo, Visit, Waiting, Locked, Remembers, moduleData, InAdd
  <2>3. CASE Save(a)
    BY <1>1, <2>1, <2>3 DEF Save, GoesTo, Visit, Remembers, InAdd
  <2>4. CASE Clear(a)
    <3>1. pc[a] = "clear" /\ pc'[a] = "idle" /\ Locked' /\ UNCHANGED <<moduleData, owner>>
      BY <1>1, <2>4 DEF Clear, GoesTo, Locked
    <3>2. iface[a] = "leaving" /\ Remembers
      BY <1>1, <1>3, <2>1, <3>1 DEF Visit, Schedule, InAdd, InRemove
    <3> QED
      BY <1>1, <2>1, <3>1, <3>2 DEF Visit, Waiting, Remembers, moduleData
  <2>5. CASE Check(a)
    BY <1>1, <2>1, <2>5
       DEF Check, GoesTo, Visit, Remembers, Waiting, Locked, moduleData, InAdd
  <2>6. CASE Restore(a)
    <3>1. pc[a] = "restore" /\ pc'[a] = "idle" /\ mode' = original_mode
      BY <1>1, <2>6 DEF Restore, GoesTo
    <3>2. iface[a] = "probing" /\ Remembers
      BY <1>3, <2>1, <3>1 DEF Visit, Waiting, Schedule, InAdd
    <3> QED
      BY <1>1, <2>1, <3>1, <3>2 DEF Visit, Remembers
  <2> QED
    BY <1>1, <2>1, <2>2, <2>3, <2>4, <2>5, <2>6 DEF DirStep
<1> QED
  BY <1>2, <1>3

(* The owner changes the mode only of a directory that is let open.         *)
LEMMA VisitByOwner ==
  ASSUME VisitInv, VisitKept, Owner, UNCHANGED usbVars
  PROVE  VisitKept'
<1> USE DEF VisitKept, usbVars, moduleData, Remembers, Waiting, Locked, Unbound
<1>1. CASE Mounts
  BY <1>1 DEF Mounts, Visit
<1>2. CASE Chmod
  <2>1. mode \cap RWX # {} /\ UNCHANGED <<stage, iface, pc>> /\ mode' = owner'
    BY <1>2 DEF Chmod
  <2>2. pc[Loader] = "idle" /\ \A i \in Interfaces : pc[i] = "idle"
    BY <1>2, UsbAssumption DEF Chmod, AllIdle
  <2>3. \A i \in Interfaces : Visit(i) => Visit(i)'
    BY <2>1, <2>2 DEF Visit, InAdd
  <2> QED
    BY <2>1, <2>2, <2>3
<1> QED
  BY <1>1, <1>2 DEF Owner

LEMMA VisitByLoader ==
  ASSUME VisitInv, VisitKept, LoaderStep
  PROVE  VisitKept'
<1> USE DEF VisitInv, PermInv, IndInv, VisitKept, StageGoes, Remembers, Waiting, Locked
<1>1. CASE usb_perm_init
  BY <1>1, UsbAssumption DEF usb_perm_init, CallsRemove, Calls, TypeOK, DirTypeOK
<1>2. CASE InitLocks \/ Register \/ InitReturns
  <2>1. /\ UNCHANGED <<mode, moduleData, owner, pc, iface>>
        /\ \A i \in Interfaces : Visit(i) => Visit(i)'
    BY <1>2 DEF InitLocks, Register, InitReturns, dirVars, moduleData, Visit
  <2> QED
    BY <1>2, <2>1 DEF InitLocks, Register, InitReturns, moduleData, Unbound, Schedule
<1>3. CASE RegisterFails \/ usb_perm_exit \/ Deregister \/ ExitReturns
  BY <1>3 DEF RegisterFails, usb_perm_exit, Deregister, ExitReturns
<1> QED
  BY <1>1, <1>2, <1>3 DEF LoaderStep

(* The visit of an interface begins and ends.                              *)
LEMMA VisitByCallback ==
  ASSUME VisitInv, VisitKept, Undisturbed, Undisturbed', NEW i \in Interfaces, Callback(i)
  PROVE  VisitKept'
<1> USE UsbAssumption DEF VisitInv, PermInv, IndInv, TypeOK, DirTypeOK, UsbTypeOK,
        Remembers, Waiting, Locked
<1>1. /\ UNCHANGED <<mode, original_mode, mode_saved, owner, stage>>
      /\ \A j \in Interfaces : j # i => iface'[j] = iface[j]
      /\ pc'[Loader] = pc[Loader]
  BY DEF Callback, usb_perm_probe, ProbeReturns, usb_perm_disconnect, DisconnectReturns,
         dirVars, dirData, moduleData, IfaceGoes, CallsAdd, CallsRemove, Calls
<1>2. stage \notin {"init", "register"} /\ \A j \in Interfaces : j # i => iface[j] = "unbound"
  <2>1. CASE usb_perm_probe(i)
    BY <2>1 DEF usb_perm_probe, Registered, Undisturbed, Unbound
  <2>2. CASE ~usb_perm_probe(i)
    <3>1. iface[i] # "unbound"
      BY <2>2 DEF Callback, ProbeReturns, usb_perm_disconnect, DisconnectReturns, IfaceGoes
    <3> QED
      BY <3>1 DEF OneAtATime, Undisturbed, Schedule
  <2> QED
    BY <2>1, <2>2
<1> SUFFICES ASSUME stage \in {"attach", "loaded"}
             PROVE  IF iface'[i] = "unbound" THEN Waiting ELSE Visit(i)'
  BY <1>1, <1>2 DEF VisitKept, Unbound
<1>3. IF iface[i] = "unbound" THEN Waiting ELSE Visit(i)
  BY <1>2 DEF VisitKept, Unbound
<1>4. CASE usb_perm_probe(i)
  BY <1>1, <1>3, <1>4 DEF usb_perm_probe, IfaceGoes, CallsAdd, Calls, Visit, InAdd
<1>5. CASE ProbeReturns(i)
  BY <1>1, <1>3, <1>5 DEF ProbeReturns, IfaceGoes, Visit, InAdd
<1>6. CASE usb_perm_disconnect(i)
  BY <1>1, <1>3, <1>6 DEF usb_perm_disconnect, IfaceGoes, CallsRemove, Calls, Visit, InAdd
<1>7. CASE DisconnectReturns(i)
  BY <1>1, <1>3, <1>7 DEF DisconnectReturns, IfaceGoes, Visit, InAdd
<1> QED
  BY <1>4, <1>5, <1>6, <1>7 DEF Callback

LEMMA VisitInvariance == PermSpec => []VisitInv
<1>1. ASSUME VisitInv, PermInv', [PermNext]_permVars
      PROVE  VisitInv'
  <2>1. OneAtATime' /\ (Undisturbed' => Undisturbed) /\ installed' = installed
    BY <1>1, OneAtATimeStep DEF VisitInv, PermNext, permVars
  <2> SUFFICES ASSUME ~perm_driver, Undisturbed, Undisturbed', VisitKept
               PROVE  VisitKept'
    BY <1>1, <2>1 DEF VisitInv, perm_driver
  <2>2. CASE (\E d \in Devices : Plug(d) \/ Unplug(d)) \/ UNCHANGED permVars
    BY <2>2 DEF Plug, Unplug, permVars, vars, usbVars, dirVars, moduleData, VisitKept, Visit,
         Waiting, Remembers, Locked, Unbound
  <2>3. CASE ((\E a \in Actors : DirStep(a)) \/ Owner) /\ UNCHANGED usbVars
    BY <1>1, <2>3, VisitByFunction, VisitByOwner
  <2>4. CASE LoaderStep \/ \E i \in Interfaces : Callback(i)
    BY <1>1, <2>4, VisitByLoader, VisitByCallback
  <2> QED
    BY <1>1, <2>2, <2>3, <2>4 DEF PermNext, Next
<1> QED
  BY <1>1, InitiallyVisit, PermInvariance, PTL DEF PermSpec

(* Whatever the owner changes and however often the driver is loaded: once *)
(* an interface is bound, its owner's mode is back, if interfaces came one *)
(* after another and no mode was lost before.                              *)
THEOREM OwnerIsServed == PermSpec => []OpenWhenBound
<1>1. VisitInv => OpenWhenBound
  <2> SUFFICES ASSUME VisitInv, stage = "loaded", Undisturbed,
                      NEW i \in Interfaces, iface[i] = "bound"
               PROVE  mode = owner
    BY DEF OpenWhenBound, Undisturbed
  <2>1. ~perm_driver
    BY DEF VisitInv, PermInv, NoCallbacks, Unbound
  <2> QED
    BY <2>1 DEF VisitInv, VisitKept, Visit
<1> QED
  BY <1>1, VisitInvariance, PTL

(* What a disconnect saves as the original is the mode the owner chose.    *)
THEOREM OriginalIsSaved == PermSpec => SavesOriginal
<1>1. ASSUME VisitInv, NEW i \in Interfaces, Save(i), stage = "loaded", Undisturbed
      PROVE  mode = owner
  <2>1. iface[i] = "leaving" /\ pc[i] = "save"
    BY <1>1, UsbAssumption DEF Save, GoesTo, VisitInv, PermInv, IndInv, Schedule, InRemove
  <2>2. ~perm_driver
    BY <1>1, <2>1 DEF VisitInv, PermInv, NoCallbacks, Unbound
  <2> QED
    BY <1>1, <2>1, <2>2 DEF VisitInv, VisitKept, Visit, InAdd
<1>2. VisitInv /\ [PermNext]_permVars =>
        [\A i \in Interfaces :
           Save(i) /\ stage = "loaded" /\ ~shared /\ ~missed /\ ~lost => mode = owner]_vars
  BY <1>1 DEF Undisturbed
<1> QED
  BY <1>2, VisitInvariance, PTL DEF PermSpec, SavesOriginal
=============================================================================
