----------------------------- MODULE UsbTrigger -----------------------------
(***************************************************************************)
(* usb-trigger: a USB driver that remembers in a global flag whether its   *)
(* memory stick is plugged in (driver.c), and a program that asks it over  *)
(* a netlink socket and, if so, launches the file editor (netlink_user.c). *)
(*                                                                         *)
(* The handler of a request runs in the thread of the program that sends   *)
(* it, concurrently with the USB core's calls of probe and disconnect. A   *)
(* netlink socket holds a reference to the module, so rmmod is refused     *)
(* while a program has one open.                                           *)
(***************************************************************************)
EXTENDS Integers, FiniteSets

CONSTANTS
  Interfaces,  \* those the driver's id table matches
  Clients      \* instances of the user program

VARIABLES
  stage,         \* of the module's life: see Stages
  nl_sk,         \* is the kernel's netlink socket registered?
  usbConnected,  \* the driver's flag
  plugged,       \* the interfaces that are plugged in
  bound,         \* those the driver is bound to
  cpc,           \* where each client is, handler included: see ClientPCs
  msg,           \* the answer the handler prepares, then the one received
  seen,          \* history: was the stick there when the handler looked?
  dropped        \* history: has the handler given up on this request?

usbVars == <<plugged, bound, usbConnected>>
clientVars == <<cpc, msg, seen, dropped>>
vars == <<stage, nl_sk, usbVars, clientVars>>

(* "leaked": the load has failed, the netlink socket is still registered.  *)
Stages == {"absent", "register", "loaded", "deregister", "leaked"}

InHandler == {"check", "alloc", "reply"}
HasSocket == InHandler \union {"send", "wait", "app"}
ClientPCs == HasSocket \union {"start"}
(* The last is the answer of the modules in NetlinkLaunch.                 *)
Answers == {"none", "USB connected", "USB not connected", "Hello from kernel"}

(* Every variable has a value of its type.                                 *)
TypeOK ==
  /\ stage \in Stages
  /\ nl_sk \in BOOLEAN
  /\ usbConnected \in {0, 1}
  /\ plugged \subseteq Interfaces
  /\ bound \subseteq Interfaces
  /\ cpc \in [Clients -> ClientPCs]
  /\ msg \in [Clients -> Answers]
  /\ seen \in [Clients -> BOOLEAN]
  /\ dropped \in [Clients -> BOOLEAN]

Init ==
  /\ stage = "absent"
  /\ nl_sk = FALSE
  /\ usbConnected = 0
  /\ plugged \in SUBSET Interfaces
  /\ bound = {}
  /\ cpc = [c \in Clients |-> "start"]
  /\ msg = [c \in Clients |-> "none"]
  /\ seen = [c \in Clients |-> FALSE]
  /\ dropped = [c \in Clients |-> FALSE]

-----------------------------------------------------------------------------
(* insmod and rmmod.                                                       *)

StageGoes(from, to) == stage = from /\ stage' = to

(* netlink_kernel_create() succeeds. It does not while a socket of that    *)
(* number is registered, and then nothing has changed.                     *)
CreateSocket ==
  /\ StageGoes("absent", "register")
  /\ nl_sk' = TRUE
  /\ UNCHANGED <<usbVars, clientVars>>

RegisterDriver ==
  /\ StageGoes("register", "loaded")
  /\ UNCHANGED <<nl_sk, usbVars, clientVars>>

(* usb_register() fails: its error is returned, the socket stays.          *)
RegisterFails ==
  /\ StageGoes("register", "leaked")
  /\ UNCHANGED <<nl_sk, usbVars, clientVars>>

ModuleUsers == {c \in Clients : cpc[c] \in HasSocket}

ReleaseSocket ==
  /\ ModuleUsers = {}
  /\ StageGoes("loaded", "deregister")
  /\ nl_sk' = FALSE
  /\ UNCHANGED <<usbVars, clientVars>>

(* A module that is loaded again starts with fresh variables.              *)
DriverDeregistered ==
  /\ bound = {}
  /\ StageGoes("deregister", "absent")
  /\ usbConnected' = 0
  /\ UNCHANGED <<nl_sk, plugged, bound, clientVars>>

Loader ==
  \/ CreateSocket \/ RegisterDriver \/ RegisterFails
  \/ ReleaseSocket \/ DriverDeregistered

-----------------------------------------------------------------------------
(* The USB core.                                                           *)

Plug(i) ==
  /\ i \notin plugged \union bound
  /\ plugged' = plugged \union {i}
  /\ UNCHANGED <<stage, nl_sk, usbConnected, bound, clientVars>>

Unplug(i) ==
  /\ i \in plugged
  /\ plugged' = plugged \ {i}
  /\ UNCHANGED <<stage, nl_sk, usbConnected, bound, clientVars>>

etx_usb_probe(i) ==
  /\ stage = "loaded"
  /\ i \in plugged \ bound
  /\ bound' = bound \union {i}
  /\ usbConnected' = 1
  /\ UNCHANGED <<stage, nl_sk, plugged, clientVars>>

(* Mutant: the flag is not cleared.                                        *)
etx_usb_disconnect_keeps(i) ==
  /\ i \in bound
  /\ i \notin plugged \/ stage = "deregister"
  /\ bound' = bound \ {i}
  /\ UNCHANGED <<stage, nl_sk, usbConnected, plugged, clientVars>>

etx_usb_disconnect(i) ==
  /\ i \in bound
  /\ i \notin plugged \/ stage = "deregister"
  /\ bound' = bound \ {i}
  /\ usbConnected' = 0
  /\ UNCHANGED <<stage, nl_sk, plugged, clientVars>>

-----------------------------------------------------------------------------
(* The user program, and the handler that its sendmsg() calls.             *)

ClientGoes(c, from, to) ==
  /\ cpc[c] = from
  /\ cpc' = [cpc EXCEPT ![c] = to]

(* socket() and bind(). Without a registered kernel socket, or while the   *)
(* module is being unloaded, socket() fails and the program ends. A leaked *)
(* socket still refers to the memory of the module: it may appear to work. *)
OpenSocket(c) ==
  /\ nl_sk
  /\ ClientGoes(c, "start", "send")
  /\ UNCHANGED <<stage, nl_sk, usbVars, msg, seen, dropped>>

SendRequest(c) ==
  /\ stage # "leaked"
  /\ ClientGoes(c, "send", "check")
  /\ UNCHANGED <<stage, nl_sk, usbVars, msg, seen, dropped>>

(* The handler's code has been freed with the module that did not load:    *)
(* the call kills the program.                                             *)
CallFreedHandler(c) ==
  /\ stage = "leaked"
  /\ ClientGoes(c, "send", "start")
  /\ UNCHANGED <<stage, nl_sk, usbVars, msg, seen, dropped>>

(* Mutant: the test of the flag is inverted.                               *)
CheckFlagInverted(c) ==
  /\ ClientGoes(c, "check", "alloc")
  /\ msg' = [msg EXCEPT ![c] =
       IF usbConnected = 0 THEN "USB connected" ELSE "USB not connected"]
  /\ seen' = [seen EXCEPT ![c] = bound # {}]
  /\ UNCHANGED <<stage, nl_sk, usbVars, dropped>>

CheckFlag(c) ==
  /\ ClientGoes(c, "check", "alloc")
  /\ msg' = [msg EXCEPT ![c] =
       IF usbConnected = 0 THEN "USB not connected" ELSE "USB connected"]
  /\ seen' = [seen EXCEPT ![c] = bound # {}]
  /\ UNCHANGED <<stage, nl_sk, usbVars, dropped>>

AllocReply(c) ==
  /\ ClientGoes(c, "alloc", "reply")
  /\ UNCHANGED <<stage, nl_sk, usbVars, msg, seen, dropped>>

(* nlmsg_new() fails: the handler returns, and sendmsg() with it.          *)
AllocFails(c) ==
  /\ ClientGoes(c, "alloc", "wait")
  /\ msg' = [msg EXCEPT ![c] = "none"]
  /\ dropped' = [dropped EXCEPT ![c] = TRUE]
  /\ UNCHANGED <<stage, nl_sk, usbVars, seen>>

(* Mutant: the answer goes to another port number.                         *)
UnicastElsewhere(c) ==
  /\ ClientGoes(c, "reply", "wait")
  /\ msg' = [msg EXCEPT ![c] = "none"]
  /\ UNCHANGED <<stage, nl_sk, usbVars, seen, dropped>>

Unicast(c) ==
  /\ ClientGoes(c, "reply", "wait")
  /\ UNCHANGED <<stage, nl_sk, usbVars, msg, seen, dropped>>

(* What the next instance of the program starts with.                      *)
Forget(c) ==
  /\ msg' = [msg EXCEPT ![c] = "none"]
  /\ seen' = [seen EXCEPT ![c] = FALSE]
  /\ dropped' = [dropped EXCEPT ![c] = FALSE]

(* recvmsg() blocks until there is an answer.                              *)
ReceiveYes(c) ==
  /\ msg[c] = "USB connected"
  /\ ClientGoes(c, "wait", "app")
  /\ UNCHANGED <<stage, nl_sk, usbVars, msg, seen, dropped>>

ReceiveNo(c) ==
  /\ msg[c] = "USB not connected"
  /\ ClientGoes(c, "wait", "start")
  /\ Forget(c)
  /\ UNCHANGED <<stage, nl_sk, usbVars>>

(* system() returns when the editor is closed; the socket is closed after. *)
EditorCloses(c) ==
  /\ ClientGoes(c, "app", "start")
  /\ Forget(c)
  /\ UNCHANGED <<stage, nl_sk, usbVars>>

(* The program is killed; not inside the handler, which it runs itself.    *)
Killed(c) ==
  /\ \E from \in {"send", "wait", "app"} : ClientGoes(c, from, "start")
  /\ Forget(c)
  /\ UNCHANGED <<stage, nl_sk, usbVars>>

Handler(c) == CheckFlag(c) \/ AllocReply(c) \/ AllocFails(c) \/ Unicast(c)

Client(c) ==
  \/ OpenSocket(c) \/ SendRequest(c) \/ CallFreedHandler(c)
  \/ ReceiveYes(c) \/ ReceiveNo(c)

Next ==
  \/ Loader
  \/ \E i \in Interfaces :
       Plug(i) \/ Unplug(i) \/ etx_usb_probe(i) \/ etx_usb_disconnect(i)
  \/ \E c \in Clients :
       Client(c) \/ Handler(c) \/ EditorCloses(c) \/ Killed(c)

Spec == Init /\ [][Next]_vars

-----------------------------------------------------------------------------
(* Properties.                                                             *)

(* The editor is launched only if a stick was bound when the driver was    *)
(* asked by this very instance of the program, however probe, disconnect   *)
(* and handlers interleave. The stick may be gone again by then.           *)
LaunchJustified == \A c \in Clients : cpc[c] = "app" => seen[c]

(* The flag is never set without a bound stick, for any number of sticks:  *)
(* the last one to be probed clears it when it goes.                       *)
FlagHasStick == usbConnected = 1 => bound # {}
=============================================================================
