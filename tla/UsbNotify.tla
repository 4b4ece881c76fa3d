----------------------------- MODULE UsbNotify -----------------------------
(***************************************************************************)
(* usbCheck/usb-check.c and usbEject/usb-eject.c: a notifier that the USB  *)
(* core calls for every device that is added or removed, and that compares *)
(* the device with a list of allowed ones. usb-check only logs the         *)
(* verdict; usb-eject (Ejects) unbinds a device that is not allowed.       *)
(*                                                                         *)
(* The core calls the notifier from the hub's thread, one event at a time, *)
(* with the lock of the device held, while the generic driver of the       *)
(* device is being probed or disconnected. Unregistering the notifier      *)
(* waits for a call in progress.                                           *)
(***************************************************************************)
CONSTANTS
  Devices,
  Allowed,   \* those allowed_ids lists
  Ejects,    \* does the module unbind the others?
  NoDevice

ASSUME NotifyAssumption ==
  /\ Allowed \subseteq Devices
  /\ NoDevice \notin Devices
  /\ Ejects \in BOOLEAN

VARIABLES
  notifier, \* of the module's life: see NotifierStages
  hub,      \* where the hub's thread is: see HubPCs
  dev,      \* the device it deals with, whose lock it holds
  present,  \* the devices that are plugged in
  added,    \* those the core has added
  driven,   \* those the generic driver is bound to
  judged,   \* history: those the notifier was called for when added
  early     \* history: those added when no notifier was registered

deviceVars == <<present, added, driven, judged, early>>
notifyVars == <<notifier, hub, dev, deviceVars>>

NotifierStages == {"absent", "loaded", "exiting"}
HubPCs == {"idle", "add", "remove", "compare", "report", "unbind",
           "end", "forget"}

(* The notifier chain is held by a call of the handler.                    *)
InNotifier == hub \in {"compare", "report", "unbind"}

(* Every variable has a value of its type, and the hub's thread holds the  *)
(* lock of a device only while it deals with an event.                     *)
NotifyTypeOK ==
  /\ notifier \in NotifierStages
  /\ hub \in HubPCs
  /\ dev \in Devices \union {NoDevice}
  /\ (hub = "idle") = (dev = NoDevice)
  /\ present \subseteq Devices
  /\ added \subseteq Devices
  /\ driven \subseteq Devices
  /\ judged \subseteq Devices
  /\ early \subseteq Devices

NotifyInit ==
  /\ notifier = "absent"
  /\ hub = "idle"
  /\ dev = NoDevice
  /\ present = {}
  /\ added = {}
  /\ driven = {}
  /\ judged = {}
  /\ early = {}

-----------------------------------------------------------------------------
(* insmod and rmmod.                                                       *)

usb_detect_init ==
  /\ notifier = "absent"
  /\ notifier' = "loaded"
  /\ UNCHANGED <<hub, dev, deviceVars>>

(* usb_unregister_notify() is called, and waits for the chain.             *)
usb_detect_exit ==
  /\ notifier = "loaded"
  /\ notifier' = "exiting"
  /\ UNCHANGED <<hub, dev, deviceVars>>

Unregister ==
  /\ notifier = "exiting"
  /\ ~InNotifier
  /\ notifier' = "absent"
  /\ UNCHANGED <<hub, dev, deviceVars>>

-----------------------------------------------------------------------------
(* The USB core.                                                           *)

Arrives(d) ==
  /\ d \notin present
  /\ present' = present \union {d}
  /\ UNCHANGED <<notifier, hub, dev, added, driven, judged, early>>

Leaves(d) ==
  /\ d \in present
  /\ present' = present \ {d}
  /\ UNCHANGED <<notifier, hub, dev, added, driven, judged, early>>

HubGoes(from, to) ==
  /\ hub = from
  /\ hub' = to

Add(d) ==
  /\ d \in present \ added
  /\ HubGoes("idle", "add")
  /\ dev' = d
  /\ added' = added \union {d}
  /\ driven' = driven \union {d}
  /\ UNCHANGED <<notifier, present, judged, early>>

Remove(d) ==
  /\ d \in added \ present
  /\ HubGoes("idle", "remove")
  /\ dev' = d
  /\ UNCHANGED <<notifier, deviceVars>>

(* The chain is empty.                                                     *)
NobodyToCall ==
  /\ notifier = "absent"
  /\ HubGoes("add", "end") \/ HubGoes("remove", "forget")
  /\ early' = IF hub = "add" THEN early \union {dev} ELSE early
  /\ UNCHANGED <<notifier, dev, present, added, driven, judged>>

(* The call returns: the thread goes on, and drops the device's lock.      *)
Added ==
  /\ HubGoes("end", "idle")
  /\ dev' = NoDevice
  /\ UNCHANGED <<notifier, deviceVars>>

Removed ==
  /\ HubGoes("forget", "idle")
  /\ dev' = NoDevice
  /\ added' = added \ {dev}
  /\ driven' = driven \ {dev}
  /\ judged' = judged \ {dev}
  /\ early' = early \ {dev}
  /\ UNCHANGED <<notifier, present>>

-----------------------------------------------------------------------------
(* The notifier.                                                           *)

(* Mutant: the removal of a device is not dealt with and not returned from.*)
usb_notify_handler_stays ==
  /\ notifier # "absent"
  /\ HubGoes("add", "compare") \/ HubGoes("remove", "unbind")
  /\ UNCHANGED <<notifier, dev, deviceVars>>

usb_notify_handler ==
  /\ notifier # "absent"
  /\ HubGoes("add", "compare") \/ HubGoes("remove", "report")
  /\ UNCHANGED <<notifier, dev, deviceVars>>

(* Mutant: an allowed device is not looked at.                             *)
CompareOthers ==
  /\ hub' = IF dev \notin Allowed /\ Ejects /\ dev \in driven
              THEN "unbind" ELSE "end"
  /\ hub = "compare"
  /\ judged' = judged \union ({dev} \ Allowed)
  /\ UNCHANGED <<notifier, dev, present, added, driven, early>>

(* Mutant: every device is unbound, by usb-check too.                      *)
CompareAlwaysUnbinds ==
  /\ hub' = "unbind"
  /\ hub = "compare"
  /\ judged' = judged \union {dev}
  /\ UNCHANGED <<notifier, dev, present, added, driven, early>>

(* The device is compared with allowed_ids. One that is not allowed is     *)
(* bound (the generic driver is being probed), so usb_unbind_device()      *)
(* calls device_release_driver(). That takes the lock of the device, which *)
(* this thread holds: it does not go on from "unbind".                     *)
Compare ==
  /\ hub' = IF dev \notin Allowed /\ Ejects /\ dev \in driven
              THEN "unbind" ELSE "end"
  /\ hub = "compare"
  /\ judged' = judged \union {dev}
  /\ UNCHANGED <<notifier, dev, present, added, driven, early>>

Report ==
  /\ HubGoes("report", "forget")
  /\ UNCHANGED <<notifier, dev, deviceVars>>

Hub ==
  \/ \E d \in Devices : Add(d) \/ Remove(d)
  \/ NobodyToCall \/ Added \/ Removed \/ usb_notify_handler \/ Compare \/ Report

NotifyNext ==
  \/ usb_detect_init \/ usb_detect_exit \/ Unregister
  \/ \E d \in Devices : Arrives(d) \/ Leaves(d)
  \/ Hub

NotifySpec == NotifyInit /\ [][NotifyNext]_notifyVars

(* The hub's thread works and serves its ports in turn; a writer that      *)
(* waits for the chain gets it between two calls.                          *)
NotifyFairSpec ==
  /\ NotifySpec
  /\ WF_notifyVars(Hub)
  /\ \A d \in Devices : SF_notifyVars(Add(d)) /\ SF_notifyVars(Remove(d))
  /\ SF_notifyVars(Unregister)

-----------------------------------------------------------------------------
(* No device slips past the notifier while it is registered, nor while it  *)
(* is being unregistered: one that has been added but not compared was     *)
(* there before the module (usb-check.c:61 does not look at those).        *)
EveryDeviceJudged == hub = "idle" => added \subseteq judged \union early

(* rmmod returns: a call in progress ends.                                 *)
UnregisterEnds == notifier = "exiting" ~> notifier = "absent"

(* The notifier does not keep the hub's thread: a device that is plugged   *)
(* in and stays is added, and one that goes is removed.                    *)
HubKeepsUp ==
  \A d \in Devices :
    /\ <>[](d \in present) => <>[](d \in added)
    /\ <>[](d \notin present) => <>[](d \notin added)

(* "Eject the unauthorized device" (usb-eject.c:52): the generic driver    *)
(* does not stay bound to a device that has been compared and found not to *)
(* be allowed.                                                             *)
EjectsUnauthorized ==
  \A d \in Devices \ Allowed : d \in judged ~> d \notin driven
=============================================================================
