--------------------------- MODULE NetlinkLaunch ---------------------------
(***************************************************************************)
(* netlink-socket, -2 and -3: what usb-trigger grew out of. They are no    *)
(* USB drivers: they answer every request (the third, every request that   *)
(* finds a device plugged in, and the others not at all), and the editor   *)
(* is run by the program that got the answer or, in the second, by the     *)
(* kernel. One of the four modules is installed, with its program.         *)
(***************************************************************************)
EXTENDS UsbTrigger

VARIABLES
  installed,  \* which of the four
  helper      \* has the kernel run the editor for this request?

launchVars == <<vars, installed, helper>>

First == installed = "netlink-socket"
Second == installed = "netlink-socket-2"
Third == installed = "netlink-socket-3"
UsbDriver == installed = "usb-trigger"

LaunchInit ==
  /\ Init
  /\ installed \in
       {"netlink-socket", "netlink-socket-2", "netlink-socket-3", "usb-trigger"}
  /\ helper = [c \in Clients |-> FALSE]

hello_init ==
  /\ StageGoes("absent", "loaded")
  /\ nl_sk' = TRUE
  /\ UNCHANGED <<usbVars, clientVars>>

hello_exit ==
  /\ ModuleUsers = {}
  /\ StageGoes("loaded", "absent")
  /\ nl_sk' = FALSE
  /\ UNCHANGED <<usbVars, clientVars>>

HelloLoader == hello_init \/ hello_exit

-----------------------------------------------------------------------------
(* The handler.                                                            *)

SaysHello(c) ==
  /\ ClientGoes(c, "check", "alloc")
  /\ msg' = [msg EXCEPT ![c] = "Hello from kernel"]

(* The first two ask for nothing, so nothing they ask for is missing.      *)
NoTest(c) ==
  /\ ~Third
  /\ SaysHello(c)
  /\ seen' = [seen EXCEPT ![c] = TRUE]
  /\ UNCHANGED <<stage, nl_sk, usbVars, dropped, helper>>

(* Mutant: the test is inverted.                                           *)
usb_device_absent(c) ==
  /\ Third
  /\ seen' = [seen EXCEPT ![c] = plugged # {}]
  /\ IF plugged = {} THEN SaysHello(c)
                     ELSE ClientGoes(c, "check", "wait") /\ UNCHANGED msg
  /\ UNCHANGED <<stage, nl_sk, usbVars, dropped, helper>>

(* The third returns without an answer when there is no device.            *)
usb_device_present(c) ==
  /\ Third
  /\ seen' = [seen EXCEPT ![c] = plugged # {}]
  /\ IF plugged # {} THEN SaysHello(c)
                     ELSE ClientGoes(c, "check", "wait") /\ UNCHANGED msg
  /\ UNCHANGED <<stage, nl_sk, usbVars, dropped, helper>>

SendHello(c) ==
  /\ \/ AllocReply(c)
     \/ AllocFails(c)
     \/ Unicast(c) /\ ~Second
  /\ UNCHANGED helper

(* The second runs the editor itself once it has sent the answer, and does *)
(* not wait for its end; the execution may fail.                           *)
call_usermodehelper(c) ==
  /\ Second
  /\ Unicast(c)
  /\ helper' \in {helper, [helper EXCEPT ![c] = TRUE]}

hello_nl_recv_msg(c) ==
  NoTest(c) \/ usb_device_present(c) \/ SendHello(c) \/ call_usermodehelper(c)

-----------------------------------------------------------------------------
(* The program.                                                            *)

SendsRequest(c) == (OpenSocket(c) \/ SendRequest(c)) /\ UNCHANGED helper

RunsEditor(c) ==
  /\ ~Second
  /\ msg[c] = "Hello from kernel"
  /\ ClientGoes(c, "wait", "app")
  /\ UNCHANGED <<stage, nl_sk, usbVars, msg, seen, dropped, helper>>

EndsRequest(c) == helper' = [helper EXCEPT ![c] = FALSE]

(* In the second program system() is commented out.                        *)
OnlyReports(c) ==
  /\ Second
  /\ msg[c] = "Hello from kernel"
  /\ ClientGoes(c, "wait", "start")
  /\ Forget(c)
  /\ EndsRequest(c)
  /\ UNCHANGED <<stage, nl_sk, usbVars>>

HelloProgram(c) == SendsRequest(c) \/ RunsEditor(c) \/ OnlyReports(c)

-----------------------------------------------------------------------------
Runs(c) ==
  \/ ~UsbDriver /\ (HelloProgram(c) \/ hello_nl_recv_msg(c)) /\ UNCHANGED installed
  \/ UsbDriver /\ (Client(c) \/ Handler(c)) /\ UNCHANGED <<installed, helper>>

HelloNext ==
  \/ HelloLoader /\ UNCHANGED helper
  \/ \E i \in Interfaces : (Plug(i) \/ Unplug(i)) /\ UNCHANGED helper
  \/ \E c \in Clients : (EditorCloses(c) \/ Killed(c)) /\ EndsRequest(c)

LaunchNext ==
  \/ \E c \in Clients : Runs(c)
  \/ ~UsbDriver /\ HelloNext /\ UNCHANGED installed
  \/ UsbDriver /\ Next /\ UNCHANGED <<installed, helper>>

LaunchSpec ==
  /\ LaunchInit
  /\ [][LaunchNext]_launchVars
  /\ \A c \in Clients : WF_launchVars(Runs(c))
  /\ \A i \in Interfaces :
       WF_launchVars(UsbDriver /\ etx_usb_disconnect(i) /\ UNCHANGED <<installed, helper>>)

-----------------------------------------------------------------------------
(* A program waits for ever only if the handler could not allocate an      *)
(* answer (usb-trigger/driver.c:73) or, in the third module, found no      *)
(* device: there is no time-out and no second try.                         *)
Answered ==
  \A c \in Clients :
    cpc[c] \in InHandler ~>
      (cpc[c] \in {"app", "start"} \/ dropped[c] \/ (Third /\ ~seen[c]))

(* All four do what Consult promises, with the stick each of them means:   *)
(* none, one that is plugged in, one that is bound.                        *)
Present ==
  /\ UsbDriver => bound # {}
  /\ Third => plugged # {}

Phase(c) ==
  IF cpc[c] \in {"start", "send"} THEN "idle"
  ELSE IF cpc[c] = "check" THEN "asked"
  ELSE IF cpc[c] = "app" \/ helper[c] THEN "editing"
  ELSE IF msg[c] \in {"USB connected", "Hello from kernel"} THEN "granted"
  ELSE "refused"

Promise == INSTANCE Consult WITH
  present <- Present, phase <- [c \in Clients |-> Phase(c)]

Consults == Promise!Spec
=============================================================================
