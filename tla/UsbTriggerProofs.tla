-------------------------- MODULE UsbTriggerProofs --------------------------
(***************************************************************************)
(* The editor is launched only where a stick was bound, for any number of  *)
(* sticks and programs; and all four modules, with their programs, do what *)
(* Consult promises. The notifier of usb-check and usb-eject sees every    *)
(* device.                                                                 *)
(***************************************************************************)
EXTENDS NetlinkLaunch, UsbNotify, TLAPS

(* An answer that grants the request was prepared while there was a stick. *)
Yes == {"USB connected", "Hello from kernel"}

YesIsSeen ==
  \A c \in Clients :
    /\ msg[c] \in Yes => seen[c]
    /\ cpc[c] = "app" => msg[c] \in Yes

IndInv == TypeOK /\ FlagHasStick /\ YesIsSeen

LEMMA Initially == Init => IndInv
<1> SUFFICES ASSUME Init
             PROVE  IndInv
  OBVIOUS
<1>1. TypeOK
  BY DEF Init, TypeOK, Stages, ClientPCs, Answers
<1>2. FlagHasStick /\ YesIsSeen
  BY DEF Init, FlagHasStick, YesIsSeen, Yes
<1> QED
  BY <1>1, <1>2 DEF IndInv

(* A step of insmod or rmmod.                                              *)
LEMMA LoaderKeeps ==
  ASSUME IndInv, Loader
  PROVE  IndInv'
<1> USE DEF IndInv
<1>1. UNCHANGED <<plugged, bound, clientVars>>
  BY DEF Loader, CreateSocket, RegisterDriver, RegisterFails, ReleaseSocket,
         DriverDeregistered, usbVars
<1>2. usbConnected' = usbConnected \/ (usbConnected' = 0 /\ bound = {})
  BY DEF Loader, CreateSocket, RegisterDriver, RegisterFails, ReleaseSocket,
         DriverDeregistered, usbVars
<1>3. stage' \in Stages /\ nl_sk' \in BOOLEAN
  BY DEF Loader, CreateSocket, RegisterDriver, RegisterFails, ReleaseSocket,
         DriverDeregistered, StageGoes, Stages, TypeOK
<1>4. TypeOK'
  BY <1>1, <1>2, <1>3 DEF TypeOK, clientVars
<1>5. FlagHasStick' /\ YesIsSeen'
  <2>1. FlagHasStick'
    BY <1>1, <1>2 DEF FlagHasStick
  <2>2. UNCHANGED <<cpc, msg, seen>>
    BY <1>1 DEF clientVars
  <2>3. YesIsSeen'
    BY <2>2, Zenon DEF YesIsSeen
  <2> QED
    BY <2>1, <2>3
<1> QED
  BY <1>4, <1>5

(* A step of the USB core.                                                 *)
LEMMA UsbKeeps ==
  ASSUME IndInv, NEW i \in Interfaces,
         Plug(i) \/ Unplug(i) \/ etx_usb_probe(i) \/ etx_usb_disconnect(i)
  PROVE  IndInv'
<1> USE DEF IndInv
<1>1. UNCHANGED <<stage, nl_sk, clientVars>>
  BY DEF Plug, Unplug, etx_usb_probe, etx_usb_disconnect
<1>2. /\ plugged' \subseteq Interfaces
      /\ bound' \subseteq Interfaces
      /\ usbConnected' \in {0, 1}
  BY DEF Plug, Unplug, etx_usb_probe, etx_usb_disconnect, TypeOK
<1>3. FlagHasStick'
  BY DEF Plug, Unplug, etx_usb_probe, etx_usb_disconnect, FlagHasStick
<1>4. TypeOK' /\ YesIsSeen'
  BY <1>1, <1>2 DEF TypeOK, YesIsSeen, clientVars
<1> QED
  BY <1>3, <1>4

(* A step of a program or of the handler it has called.                    *)
LEMMA ClientKeeps ==
  ASSUME IndInv, NEW c \in Clients,
         Client(c) \/ Handler(c) \/ EditorCloses(c) \/ Killed(c)
  PROVE  IndInv'
<1> USE DEF IndInv
<1>1. UNCHANGED <<stage, nl_sk, usbVars>>
  BY DEF Client, Handler, OpenSocket, SendRequest, CallFreedHandler, CheckFlag,
         AllocReply, AllocFails, Unicast, ReceiveYes, ReceiveNo, EditorCloses, Killed
<1>2. FlagHasStick'
  BY <1>1 DEF FlagHasStick, usbVars
<1>3. /\ cpc' \in [Clients -> ClientPCs]
      /\ \A b \in Clients : b # c => cpc'[b] = cpc[b]
  BY DEF Client, Handler, OpenSocket, SendRequest, CallFreedHandler, CheckFlag,
         AllocReply, AllocFails, Unicast, ReceiveYes, ReceiveNo, EditorCloses,
         Killed, ClientGoes, TypeOK, ClientPCs, HasSocket, InHandler
<1>4. CASE CheckFlag(c)
  <2>1. seen' = [seen EXCEPT ![c] = bound # {}] /\ dropped' = dropped
    BY <1>4 DEF CheckFlag
  <2>2. seen' \in [Clients -> BOOLEAN] /\ (usbConnected # 0 => seen'[c])
    BY <2>1 DEF TypeOK, FlagHasStick
  <2>3. /\ msg' \in [Clients -> Answers]
        /\ msg'[c] \in Yes => usbConnected # 0
        /\ cpc'[c] = "alloc"
    BY <1>4 DEF CheckFlag, ClientGoes, TypeOK, Answers, Yes
  <2>4. \A b \in Clients : b # c => msg'[b] = msg[b] /\ seen'[b] = seen[b]
    BY <1>4, <2>1 DEF CheckFlag, TypeOK
  <2>5. YesIsSeen'
    BY <1>3, <2>2, <2>3, <2>4 DEF YesIsSeen
  <2>6. TypeOK'
    BY <1>1, <1>3, <2>1, <2>2, <2>3 DEF TypeOK, usbVars
  <2> QED
    BY <1>2, <2>5, <2>6
<1>5. CASE AllocFails(c)
  <2>1. TypeOK'
    BY <1>1, <1>3, <1>5 DEF AllocFails, TypeOK, Answers, usbVars
  <2>2. YesIsSeen'
    BY <1>3, <1>5 DEF AllocFails, ClientGoes, YesIsSeen, Yes, TypeOK
  <2> QED
    BY <1>2, <2>1, <2>2
<1>6. CASE /\ UNCHANGED <<msg, seen, dropped>>
           /\ cpc'[c] = "app" => msg[c] \in Yes
  BY <1>1, <1>2, <1>3, <1>6 DEF TypeOK, YesIsSeen, usbVars
<1>7. CASE Forget(c) /\ cpc'[c] = "start"
  <2>1. TypeOK'
    BY <1>1, <1>3, <1>7 DEF Forget, TypeOK, Answers, usbVars
  <2>2. YesIsSeen'
    BY <1>3, <1>7 DEF Forget, YesIsSeen, Yes, TypeOK
  <2> QED
    BY <1>2, <2>1, <2>2
<1>8. CASE \/ OpenSocket(c) \/ SendRequest(c) \/ CallFreedHandler(c)
           \/ AllocReply(c) \/ Unicast(c) \/ ReceiveYes(c)
  BY <1>6, <1>8 DEF OpenSocket, SendRequest, CallFreedHandler, AllocReply,
                    Unicast, ReceiveYes, ClientGoes, TypeOK, Yes
<1>9. CASE ReceiveNo(c) \/ EditorCloses(c) \/ Killed(c)
  BY <1>7, <1>9 DEF ReceiveNo, EditorCloses, Killed, ClientGoes, TypeOK
<1> QED
  BY <1>4, <1>5, <1>8, <1>9 DEF Client, Handler

LEMMA Stuttering == IndInv /\ UNCHANGED vars => IndInv'
<1> SUFFICES ASSUME IndInv, UNCHANGED vars
             PROVE  IndInv'
  OBVIOUS
<1>1. /\ UNCHANGED <<stage, nl_sk, usbConnected, plugged, bound>>
      /\ UNCHANGED <<cpc, msg, seen, dropped>>
  BY DEF vars, usbVars, clientVars
<1>2. TypeOK'
  BY <1>1, Zenon DEF IndInv, TypeOK
<1>3. FlagHasStick' /\ YesIsSeen'
  BY <1>1, Zenon DEF IndInv, FlagHasStick, YesIsSeen
<1> QED
  BY <1>2, <1>3 DEF IndInv

(* The inductive invariant of usb-trigger, for any sticks and programs.     *)
THEOREM Invariance == Spec => []IndInv
<1>1. IndInv /\ [Next]_vars => IndInv'
  BY Stuttering, LoaderKeeps, UsbKeeps, ClientKeeps DEF Next
<1> QED
  BY <1>1, Initially, PTL DEF Spec

(* Every variable keeps its type.                                          *)
THEOREM TypeCorrect == Spec => []TypeOK
<1>1. IndInv => TypeOK
  BY DEF IndInv
<1> QED
  BY <1>1, Invariance, PTL

(* The flag is set only while some stick is bound.                         *)
THEOREM FlagImpliesStick == Spec => []FlagHasStick
<1>1. IndInv => FlagHasStick
  BY DEF IndInv
<1> QED
  BY <1>1, Invariance, PTL

(* The editor is launched only by a program that asked while a stick was   *)
(* bound.                                                                  *)
THEOREM LaunchIsJustified == Spec => []LaunchJustified
<1>1. IndInv => LaunchJustified
  BY DEF IndInv, YesIsSeen, LaunchJustified
<1> QED
  BY <1>1, Invariance, PTL

-----------------------------------------------------------------------------
(* The modules that are no USB drivers.                                    *)

(* When each of them prepares which answer, and who runs the editor.       *)
Answering ==
  /\ helper \in [Clients -> BOOLEAN]
  /\ ~UsbDriver => bound = {}
  /\ \A c \in Clients :
       /\ helper[c] => Second /\ cpc[c] = "wait"
       /\ cpc[c] \in {"start", "send", "check"} => msg[c] = "none"
       /\ ~UsbDriver /\ cpc[c] \in {"alloc", "reply"} => msg[c] = "Hello from kernel"

LaunchInv == IndInv /\ Answering

LEMMA InitiallyLaunch == LaunchInit => LaunchInv
BY Initially DEF LaunchInit, Init, LaunchInv, Answering

(* The two entry points.                                                   *)
LEMMA HelloLoaderKeeps ==
  ASSUME LaunchInv, ~UsbDriver, HelloLoader, UNCHANGED <<helper, installed>>
  PROVE  LaunchInv'
<1> USE DEF LaunchInv, IndInv
<1>1. UNCHANGED <<usbVars, clientVars>>
  BY DEF HelloLoader, hello_init, hello_exit
<1>2. TypeOK' /\ FlagHasStick' /\ YesIsSeen' /\ Answering'
  <2>1. stage' \in Stages /\ nl_sk' \in BOOLEAN
    BY DEF HelloLoader, hello_init, hello_exit, StageGoes, Stages
  <2>2. /\ UNCHANGED <<plugged, bound, usbConnected, cpc, msg, seen, dropped>>
        /\ UNCHANGED <<helper, installed>>
    BY <1>1 DEF usbVars, clientVars
  <2>3. TypeOK'
    BY <2>1, <2>2, Zenon DEF TypeOK
  <2>4. FlagHasStick' /\ YesIsSeen'
    BY <2>2, Zenon DEF FlagHasStick, YesIsSeen
  <2>5. Answering'
    BY <2>2, Zenon DEF Answering, UsbDriver, Second
  <2> QED
    BY <2>3, <2>4, <2>5
<1> QED
  BY <1>2

(* What differs in the handler and in the program.                         *)
LEMMA HelloKeeps ==
  ASSUME LaunchInv, NEW c \in Clients,
         NoTest(c) \/ usb_device_present(c) \/ RunsEditor(c) \/ OnlyReports(c)
  PROVE  IndInv'
<1> USE DEF LaunchInv, IndInv
<1>1. UNCHANGED <<stage, nl_sk, usbVars>>
  BY DEF NoTest, usb_device_present, RunsEditor, OnlyReports
<1>2. /\ cpc' \in [Clients -> ClientPCs]
      /\ \A b \in Clients : b # c => cpc'[b] = cpc[b]
      /\ cpc[c] \in HasSocket
  BY DEF NoTest, usb_device_present, RunsEditor, OnlyReports, SaysHello, ClientGoes,
         TypeOK, ClientPCs, HasSocket, InHandler
<1>3. FlagHasStick'
  BY <1>1 DEF FlagHasStick, usbVars
<1>4. /\ msg' \in [Clients -> Answers]
      /\ seen' \in [Clients -> BOOLEAN]
      /\ dropped' \in [Clients -> BOOLEAN]
      /\ \A b \in Clients : b # c => msg'[b] = msg[b] /\ seen'[b] = seen[b]
  BY DEF NoTest, usb_device_present, RunsEditor, OnlyReports, SaysHello, Forget,
         TypeOK, Answers
<1>5. TypeOK'
  BY <1>1, <1>2, <1>4 DEF TypeOK, usbVars
<1>6. /\ msg'[c] \in Yes => seen'[c]
      /\ cpc'[c] = "app" => msg'[c] \in Yes
  <2>1. CASE NoTest(c)
    BY <2>1 DEF NoTest, SaysHello, ClientGoes, TypeOK
  <2>2. CASE usb_device_present(c)
    BY <2>2 DEF usb_device_present, SaysHello, ClientGoes, TypeOK, Answering, Yes
  <2>3. CASE RunsEditor(c)
    BY <2>3 DEF RunsEditor, YesIsSeen, Yes
  <2>4. CASE OnlyReports(c)
    BY <2>4 DEF OnlyReports, Forget, ClientGoes, TypeOK, Yes
  <2> QED
    BY <2>1, <2>2, <2>3, <2>4
<1>7. YesIsSeen'
  BY <1>2, <1>4, <1>6 DEF YesIsSeen
<1> QED
  BY <1>3, <1>5, <1>7

(* Answering is kept by a step that concerns one request.                  *)
LEMMA RequestKeeps ==
  ASSUME Answering, NEW c \in Clients,
         UNCHANGED <<installed, bound>>,
         helper' \in [Clients -> BOOLEAN],
         \A b \in Clients : b # c =>
           helper'[b] = helper[b] /\ cpc'[b] = cpc[b] /\ msg'[b] = msg[b],
         helper'[c] => Second /\ cpc'[c] = "wait",
         cpc'[c] \in {"start", "send", "check"} => msg'[c] = "none",
         ~UsbDriver /\ cpc'[c] \in {"alloc", "reply"} => msg'[c] = "Hello from kernel"
  PROVE  Answering'
BY DEF Answering, UsbDriver, Second

(* A step that usb-trigger takes too.                                      *)
LEMMA SharedKeeps ==
  ASSUME LaunchInv, NEW c \in Clients, UNCHANGED installed,
         \/ /\ UsbDriver /\ helper' = helper
            /\ Client(c) \/ Handler(c) \/ EditorCloses(c) \/ Killed(c)
         \/ SendsRequest(c) \/ SendHello(c) \/ call_usermodehelper(c)
         \/ (EditorCloses(c) \/ Killed(c)) /\ EndsRequest(c)
  PROVE  LaunchInv'
<1> USE DEF LaunchInv
<1>0. Client(c) \/ Handler(c) \/ EditorCloses(c) \/ Killed(c)
  BY DEF SendsRequest, SendHello, call_usermodehelper, Client, Handler
<1>1. IndInv'
  BY <1>0, ClientKeeps
<1>2. /\ UNCHANGED bound
      /\ \A b \in Clients : b # c => cpc'[b] = cpc[b] /\ msg'[b] = msg[b]
  BY <1>0 DEF Client, Handler, OpenSocket, SendRequest, CallFreedHandler,
         CheckFlag, AllocReply, AllocFails, Unicast, ReceiveYes, ReceiveNo,
         EditorCloses, Killed, Forget, ClientGoes, IndInv, TypeOK, usbVars
<1>3. /\ helper' \in [Clients -> BOOLEAN]
      /\ \A b \in Clients : b # c => helper'[b] = helper[b]
  BY DEF SendsRequest, SendHello, EndsRequest, call_usermodehelper, Answering
<1>4. helper'[c] => Second /\ cpc'[c] = "wait"
  <2>1. CASE call_usermodehelper(c)
    BY <2>1 DEF call_usermodehelper, Unicast, ClientGoes, IndInv, TypeOK
  <2>2. CASE EndsRequest(c)
    BY <2>2 DEF EndsRequest, Answering
  <2>3. CASE UsbDriver /\ helper' = helper
    BY <2>3 DEF Answering, UsbDriver, Second
  <2>4. CASE SendsRequest(c) \/ SendHello(c)
    BY <2>4 DEF SendsRequest, SendHello, OpenSocket, SendRequest, AllocReply,
       AllocFails, Unicast, ClientGoes, Answering
  <2> QED
    BY <2>1, <2>2, <2>3, <2>4
<1>5. /\ cpc'[c] \in {"start", "send", "check"} => msg'[c] = "none"
      /\ ~UsbDriver /\ cpc'[c] \in {"alloc", "reply"} => msg'[c] = "Hello from kernel"
  <2>1. CASE OpenSocket(c) \/ SendRequest(c) \/ CallFreedHandler(c)
    BY <2>1 DEF OpenSocket, SendRequest, CallFreedHandler, ClientGoes, Answering,
       IndInv, TypeOK
  <2>2. CASE AllocReply(c) \/ AllocFails(c) \/ Unicast(c)
    BY <2>2 DEF AllocReply, AllocFails, Unicast, ClientGoes, Answering, IndInv, TypeOK
  <2>3. CASE ReceiveYes(c) \/ ReceiveNo(c) \/ EditorCloses(c) \/ Killed(c)
    BY <2>3 DEF ReceiveYes, ReceiveNo, EditorCloses, Killed, Forget, ClientGoes,
       IndInv, TypeOK
  <2>4. CASE CheckFlag(c) /\ UsbDriver
    BY <2>4 DEF CheckFlag, ClientGoes, IndInv, TypeOK
  <2> QED
    BY <2>1, <2>2, <2>3, <2>4 DEF Client, Handler, SendsRequest, SendHello,
       call_usermodehelper
<1>6. Answering'
  BY <1>2, <1>3, <1>4, <1>5, RequestKeeps
<1> QED
  BY <1>1, <1>6

(* A step that is not usb-trigger's.                                       *)
LEMMA OwnKeeps ==
  ASSUME LaunchInv, NEW c \in Clients, UNCHANGED installed, ~UsbDriver,
         \/ (NoTest(c) \/ usb_device_present(c) \/ RunsEditor(c)) /\ helper' = helper
         \/ OnlyReports(c)
  PROVE  LaunchInv'
<1> USE DEF LaunchInv
<1>1. IndInv'
  BY HelloKeeps
<1>2. /\ UNCHANGED bound
      /\ \A b \in Clients : b # c => cpc'[b] = cpc[b] /\ msg'[b] = msg[b]
  BY DEF NoTest, usb_device_present, RunsEditor, OnlyReports, SaysHello, Forget,
         ClientGoes, IndInv, TypeOK, usbVars
<1>3. /\ helper' \in [Clients -> BOOLEAN]
      /\ \A b \in Clients : b # c => helper'[b] = helper[b]
  BY DEF EndsRequest, OnlyReports, Answering
<1>4. ~helper'[c]
  BY DEF NoTest, usb_device_present, RunsEditor, OnlyReports, SaysHello, EndsRequest,
     ClientGoes, Answering
<1>5. /\ cpc'[c] \in {"start", "send", "check"} => msg'[c] = "none"
      /\ cpc'[c] \in {"alloc", "reply"} => msg'[c] = "Hello from kernel"
  BY DEF NoTest, usb_device_present, RunsEditor, OnlyReports, SaysHello, Forget,
         ClientGoes, IndInv, TypeOK
<1>6. Answering'
  BY <1>2, <1>3, <1>4, <1>5, RequestKeeps
<1> QED
  BY <1>1, <1>6

(* A step of the USB core or of insmod and rmmod, of whichever module.     *)
LEMMA BusKeeps ==
  ASSUME LaunchInv, UNCHANGED <<installed, helper>>,
         \/ \E i \in Interfaces : Plug(i) \/ Unplug(i)
         \/ UsbDriver /\ \E i \in Interfaces : etx_usb_probe(i) \/ etx_usb_disconnect(i)
         \/ UsbDriver /\ Loader
  PROVE  LaunchInv'
<1> USE DEF LaunchInv
<1>1. IndInv'
  BY LoaderKeeps, UsbKeeps
<1>2. UNCHANGED <<cpc, msg>> /\ (~UsbDriver => UNCHANGED bound)
  BY DEF Loader, CreateSocket, RegisterDriver, RegisterFails, ReleaseSocket,
         DriverDeregistered, Plug, Unplug, etx_usb_probe, etx_usb_disconnect, clientVars
<1>3. Answering'
  BY <1>2, Zenon DEF Answering, UsbDriver, Second
<1> QED
  BY <1>1, <1>3

(* The inductive invariant of the four modules that launch the editor.     *)
THEOREM LaunchInvariance == LaunchSpec => []LaunchInv
<1>1. ASSUME LaunchInv, LaunchNext
      PROVE  LaunchInv'
  <2>1. ASSUME NEW c \in Clients, Runs(c)
        PROVE  LaunchInv'
    <3>1. CASE UsbDriver /\ (Client(c) \/ Handler(c)) /\ UNCHANGED <<installed, helper>>
      BY <1>1, <3>1, SharedKeeps
    <3>2. CASE ~UsbDriver /\ UNCHANGED installed /\ SendsRequest(c)
      BY <1>1, <3>2, SharedKeeps
    <3>3. CASE /\ ~UsbDriver /\ UNCHANGED installed
               /\ SendHello(c) \/ call_usermodehelper(c)
      BY <1>1, <3>3, SharedKeeps
    <3>4. CASE /\ ~UsbDriver /\ UNCHANGED installed
               /\ \/ NoTest(c) \/ usb_device_present(c)
                  \/ RunsEditor(c) \/ OnlyReports(c)
      <4>1. CASE OnlyReports(c)
        BY <1>1, <3>4, <4>1, OwnKeeps
      <4>2. CASE NoTest(c) \/ usb_device_present(c) \/ RunsEditor(c)
        <5>1. helper' = helper
          BY <4>2, Zenon DEF NoTest, usb_device_present, RunsEditor
        <5> QED
          BY <1>1, <3>4, <4>2, <5>1, OwnKeeps
      <4> QED
        BY <3>4, <4>1, <4>2
    <3> QED
      BY <2>1, <3>1, <3>2, <3>3, <3>4 DEF Runs, HelloProgram, hello_nl_recv_msg
  <2>2. ASSUME ~UsbDriver, HelloNext, UNCHANGED installed
        PROVE  LaunchInv'
    <3>1. CASE HelloLoader /\ UNCHANGED helper
      BY <1>1, <2>2, <3>1, HelloLoaderKeeps
    <3>2. CASE \E i \in Interfaces : (Plug(i) \/ Unplug(i)) /\ UNCHANGED helper
      BY <1>1, <2>2, <3>2, BusKeeps
    <3>3. ASSUME NEW c \in Clients, EditorCloses(c) \/ Killed(c), EndsRequest(c)
          PROVE  LaunchInv'
      BY <1>1, <2>2, <3>3, SharedKeeps
    <3> QED
      BY <2>2, <3>1, <3>2, <3>3 DEF HelloNext
  <2>3. ASSUME UsbDriver, Next, UNCHANGED <<installed, helper>>
        PROVE  LaunchInv'
    <3>1. CASE Loader
      BY <1>1, <2>3, <3>1, BusKeeps
    <3>2. CASE \E i \in Interfaces :
                 Plug(i) \/ Unplug(i) \/ etx_usb_probe(i) \/ etx_usb_disconnect(i)
      BY <1>1, <2>3, <3>2, BusKeeps
    <3>3. ASSUME NEW c \in Clients,
                 Client(c) \/ Handler(c) \/ EditorCloses(c) \/ Killed(c)
          PROVE  LaunchInv'
      BY <1>1, <2>3, <3>3, SharedKeeps
    <3> QED
      BY <2>3, <3>1, <3>2, <3>3 DEF Next
  <2> QED
    BY <1>1, <2>1, <2>2, <2>3 DEF LaunchNext
<1>2. ASSUME LaunchInv, UNCHANGED launchVars
      PROVE  LaunchInv'
  <2>1. /\ UNCHANGED vars
        /\ UNCHANGED <<installed, helper, bound, cpc, msg>>
    BY <1>2 DEF launchVars, vars, usbVars, clientVars
  <2>2. IndInv'
    BY <1>2, <2>1, Stuttering DEF LaunchInv
  <2>3. Answering'
    BY <1>2, <2>1, Zenon DEF LaunchInv, Answering, UsbDriver, Second
  <2> QED
    BY <2>2, <2>3 DEF LaunchInv
<1> QED
  BY <1>1, <1>2, InitiallyLaunch, PTL DEF LaunchSpec

(* Both facts hold whichever of the four modules is there: what the third  *)
(* grants, it grants with a device plugged in, and none sets a flag.       *)
THEOREM LaunchesSafely == LaunchSpec => [](LaunchJustified /\ FlagHasStick)
<1>1. LaunchInv => LaunchJustified /\ FlagHasStick
  BY DEF LaunchInv, IndInv, YesIsSeen, LaunchJustified
<1> QED
  BY <1>1, LaunchInvariance, PTL

-----------------------------------------------------------------------------
(* What the four promise: each step is one of Consult's, or none.          *)

Phases == [c \in Clients |-> Phase(c)]

(* The stick moves and no request does.                                    *)
LEMMA StickStep ==
  ASSUME UNCHANGED <<installed, helper, cpc, msg>>
  PROVE  [Promise!Next]_<<Present, Phases>>
<1>1. \A c \in Clients : Phase(c)' = Phase(c)
  BY Zenon DEF Phase
<1>2. Phases' = Phases
  BY <1>1 DEF Phases
<1>3. Present \in BOOLEAN /\ Present' \in BOOLEAN
  BY DEF Present
<1>4. CASE Present' = Present
  BY <1>2, <1>4
<1>5. CASE Present' = ~Present
  BY <1>2, <1>5 DEF Promise!Next, Promise!StickMoves, Phases
<1> QED
  BY <1>3, <1>4, <1>5

(* One request gets on and the stick does not move.                        *)
LEMMA RequestStep ==
  ASSUME NEW c \in Clients,
         UNCHANGED <<installed, plugged, bound>>,
         \A b \in Clients : b # c =>
           helper'[b] = helper[b] /\ cpc'[b] = cpc[b] /\ msg'[b] = msg[b],
         \/ Phase(c)' = Phase(c)
         \/ Phase(c) = "idle" /\ Phase(c)' = "asked"
         \/ Phase(c) = "asked" /\ Phase(c)' = "granted" /\ Present
         \/ Phase(c) \in {"asked", "granted"} /\ Phase(c)' = "refused"
         \/ Phase(c) = "granted" /\ Phase(c)' = "editing"
         \/ Phase(c) \in {"granted", "refused", "editing"} /\ Phase(c)' = "idle"
  PROVE  [Promise!Next]_<<Present, Phases>>
<1>1. UNCHANGED Present
  BY DEF Present, UsbDriver, Third
<1>2. \A b \in Clients : b # c => Phase(b)' = Phase(b)
  BY Zenon DEF Phase
<1>3. Phases' = [Phases EXCEPT ![c] = Phase(c)'] /\ Phases[c] = Phase(c)
  BY <1>2 DEF Phases
<1>4. CASE Phase(c)' = Phase(c)
  BY <1>1, <1>3, <1>4 DEF Phases
<1>5. CASE \/ Phase(c) = "idle" /\ Phase(c)' = "asked"
           \/ Phase(c) = "asked" /\ Phase(c)' = "granted" /\ Present
           \/ Phase(c) \in {"asked", "granted"} /\ Phase(c)' = "refused"
           \/ Phase(c) = "granted" /\ Phase(c)' = "editing"
           \/ Phase(c) \in {"granted", "refused", "editing"} /\ Phase(c)' = "idle"
  <2>1. \/ Promise!Ask(c) \/ Promise!Grant(c) \/ Promise!Refuse(c)
        \/ Promise!Edit(c) \/ Promise!Leave(c)
    BY <1>1, <1>3, <1>5 DEF Promise!Ask, Promise!Grant, Promise!Refuse,
       Promise!Edit, Promise!Leave, Promise!Goes, Phases
  <2> QED
    BY <2>1 DEF Promise!Next
<1> QED
  BY <1>4, <1>5

(* How a request gets on in a step of its program or of its handler.       *)
Gets(c, from, to) == Phase(c) \in from /\ Phase(c)' = to
GetsOn(c) ==
  \/ Phase(c)' = Phase(c)
  \/ Gets(c, {"idle"}, "asked")
  \/ Gets(c, {"asked"}, "granted") /\ Present
  \/ Gets(c, {"asked", "granted"}, "refused")
  \/ Gets(c, {"granted"}, "editing")
  \/ Gets(c, {"granted", "refused", "editing"}, "idle")

Requests(c) == Client(c) \/ Handler(c) \/ EditorCloses(c) \/ Killed(c)
HelloRequests(c) ==
  NoTest(c) \/ usb_device_present(c) \/ RunsEditor(c) \/ OnlyReports(c)

(* Where a request stands, by what its program and the handler have.       *)
PhaseIs(c) ==
  /\ cpc[c] \in {"start", "send"} => Phase(c) = "idle"
  /\ cpc[c] = "check" => Phase(c) = "asked"
  /\ cpc[c] = "app" \/ helper[c] => Phase(c) = "editing"
  /\ cpc[c] \in {"alloc", "reply", "wait"} /\ ~helper[c] =>
       Phase(c) = IF msg[c] \in Yes THEN "granted" ELSE "refused"
  /\ cpc[c] \in ClientPCs
  /\ helper[c] => Second /\ cpc[c] = "wait"

LEMMA PhasesAre ==
  ASSUME LaunchInv, LaunchInv', NEW c \in Clients
  PROVE  PhaseIs(c) /\ PhaseIs(c)'
<1>1. cpc[c] \in ClientPCs /\ (helper[c] => Second /\ cpc[c] = "wait")
  BY DEF LaunchInv, IndInv, TypeOK, Answering
<1>2. cpc'[c] \in ClientPCs /\ (helper'[c] => Second' /\ cpc'[c] = "wait")
  BY DEF LaunchInv, IndInv, TypeOK, Answering
<1>3. PhaseIs(c)
  BY <1>1 DEF PhaseIs, Phase, Yes
<1>4. PhaseIs(c)'
  BY <1>2 DEF PhaseIs, Phase, Yes
<1> QED
  BY <1>3, <1>4

LEMMA ClientGetsOn ==
  ASSUME LaunchInv, LaunchInv', NEW c \in Clients, UNCHANGED installed,
         Requests(c), CheckFlag(c) => UsbDriver,
         helper' = helper \/ EndsRequest(c)
  PROVE  GetsOn(c)
<1> USE DEF PhaseIs, GetsOn, Gets, ClientGoes
<1>1. PhaseIs(c) /\ PhaseIs(c)' /\ TypeOK
  BY PhasesAre DEF LaunchInv, IndInv
<1>2. CASE OpenSocket(c) \/ SendRequest(c)
  BY <1>1, <1>2 DEF OpenSocket, SendRequest, TypeOK
<1>3. CASE CheckFlag(c)
  <2>1. msg'[c] \in Yes => bound # {}
    BY <1>1, <1>3 DEF CheckFlag, LaunchInv, IndInv, FlagHasStick, TypeOK, Yes
  <2>2. ~helper[c] /\ ~helper'[c] /\ cpc[c] = "check" /\ cpc'[c] = "alloc"
    BY <1>1, <1>3 DEF CheckFlag, TypeOK
  <2> QED
    BY <1>1, <1>3, <2>1, <2>2 DEF Present, UsbDriver, Third
<1>4. CASE AllocReply(c) \/ AllocFails(c) \/ Unicast(c)
  <2>1. /\ cpc[c] \in {"alloc", "reply"} /\ cpc'[c] \in {"reply", "wait"}
        /\ ~helper[c] /\ ~helper'[c]
        /\ msg'[c] = msg[c] \/ msg'[c] \notin Yes
    BY <1>1, <1>4 DEF AllocReply, AllocFails, Unicast, TypeOK, EndsRequest, Yes,
       LaunchInv, Answering
  <2> QED
    BY <1>1, <2>1
<1>5. CASE ReceiveYes(c)
  <2>1. cpc[c] = "wait" /\ msg[c] \in Yes /\ cpc'[c] = "app"
    BY <1>1, <1>5 DEF ReceiveYes, TypeOK, Yes
  <2> QED
    BY <1>1, <2>1
<1>6. CASE CallFreedHandler(c) \/ ReceiveNo(c) \/ EditorCloses(c) \/ Killed(c)
  <2>1. cpc[c] \in {"send", "wait", "app"} /\ cpc'[c] = "start"
    BY <1>1, <1>6 DEF CallFreedHandler, ReceiveNo, EditorCloses, Killed, TypeOK
  <2> QED
    BY <1>1, <2>1
<1> QED
  BY <1>2, <1>3, <1>4, <1>5, <1>6 DEF Requests, Client, Handler

LEMMA HelloGetsOn ==
  ASSUME LaunchInv, LaunchInv', NEW c \in Clients, UNCHANGED installed, ~UsbDriver,
         \/ HelloRequests(c) /\ (helper' = helper \/ OnlyReports(c))
         \/ call_usermodehelper(c)
  PROVE  GetsOn(c)
<1> USE DEF PhaseIs, GetsOn, Gets, ClientGoes
<1>1. PhaseIs(c) /\ PhaseIs(c)' /\ TypeOK
  BY PhasesAre DEF LaunchInv, IndInv
<1>2. CASE NoTest(c)
  <2>1. cpc[c] = "check" /\ cpc'[c] = "alloc" /\ msg'[c] \in Yes
    BY <1>1, <1>2 DEF NoTest, SaysHello, TypeOK, Yes
  <2> QED
    BY <1>1, <1>2, <2>1 DEF NoTest, Present, UsbDriver, Third
<1>3. CASE usb_device_present(c) /\ plugged # {}
  <2>1. cpc[c] = "check" /\ cpc'[c] = "alloc" /\ msg'[c] \in Yes
    BY <1>1, <1>3 DEF usb_device_present, SaysHello, TypeOK, Yes
  <2> QED
    BY <1>1, <1>3, <2>1 DEF usb_device_present, Present, UsbDriver, Third
<1>4. CASE usb_device_present(c) /\ plugged = {}
  <2>1. cpc[c] = "check" /\ cpc'[c] = "wait" /\ msg'[c] = "none" /\ ~helper'[c]
    BY <1>1, <1>4 DEF usb_device_present, TypeOK, LaunchInv, Answering, Third, Second
  <2> QED
    BY <1>1, <2>1 DEF Yes
<1>5. CASE RunsEditor(c)
  <2>1. cpc[c] = "wait" /\ msg[c] \in Yes /\ cpc'[c] = "app"
    BY <1>1, <1>5 DEF RunsEditor, TypeOK, Yes
  <2> QED
    BY <1>1, <2>1
<1>6. CASE OnlyReports(c)
  <2>1. cpc[c] = "wait" /\ cpc'[c] = "start"
    BY <1>1, <1>6 DEF OnlyReports, TypeOK
  <2> QED
    BY <1>1, <2>1
<1>7. CASE call_usermodehelper(c)
  <2>1. /\ cpc[c] = "reply" /\ ~helper[c] /\ cpc'[c] = "wait"
        /\ msg[c] \in Yes /\ msg'[c] = msg[c]
    BY <1>1, <1>7 DEF call_usermodehelper, Unicast, TypeOK, LaunchInv, Answering, Yes
  <2> QED
    BY <1>1, <2>1
<1> QED
  BY <1>2, <1>3, <1>4, <1>5, <1>6, <1>7 DEF HelloRequests

(* A step of a program or of its handler is one of Consult's.              *)
LEMMA ClientPromises ==
  ASSUME NEW c \in Clients, UNCHANGED installed, GetsOn(c), LaunchInv,
         \/ Requests(c) /\ (helper' = helper \/ EndsRequest(c))
         \/ HelloRequests(c) /\ (helper' = helper \/ OnlyReports(c))
         \/ call_usermodehelper(c)
  PROVE  [Promise!Next]_<<Present, Phases>>
<1>1. UNCHANGED usbVars
  BY DEF Requests, HelloRequests, Client, Handler, OpenSocket, SendRequest,
     CallFreedHandler, CheckFlag, AllocReply, AllocFails, Unicast, ReceiveYes,
     ReceiveNo, EditorCloses, Killed, NoTest, usb_device_present, RunsEditor,
     OnlyReports, call_usermodehelper
<1>2. \A b \in Clients : b # c => cpc'[b] = cpc[b] /\ msg'[b] = msg[b]
  <2>1. CASE Requests(c) \/ call_usermodehelper(c)
    BY <2>1 DEF Requests, Client, Handler, OpenSocket, SendRequest, CallFreedHandler,
       CheckFlag, AllocReply, AllocFails, Unicast, ReceiveYes, ReceiveNo,
       EditorCloses, Killed, call_usermodehelper, Forget, ClientGoes,
       LaunchInv, IndInv, TypeOK
  <2>2. CASE HelloRequests(c)
    BY <2>2 DEF HelloRequests, NoTest, usb_device_present, RunsEditor, OnlyReports,
       SaysHello, Forget, ClientGoes, LaunchInv, IndInv, TypeOK
  <2> QED
    BY <2>1, <2>2
<1>3. \A b \in Clients : b # c => helper'[b] = helper[b]
  BY DEF EndsRequest, OnlyReports, call_usermodehelper, LaunchInv, Answering
<1> QED
  BY <1>1, <1>2, <1>3, RequestStep DEF GetsOn, Gets, usbVars

(* All four modules, with their programs, do what Consult promises.        *)
THEOREM LaunchesConsult == LaunchSpec => Consults
<1>1. LaunchInit => Promise!Init
  <2> SUFFICES ASSUME LaunchInit
               PROVE  Promise!Init
    OBVIOUS
  <2>1. Present \in BOOLEAN
    BY DEF Present
  <2>2. \A c \in Clients : Phase(c) = "idle"
    BY DEF LaunchInit, Init, Phase
  <2> QED
    BY <2>1, <2>2 DEF Promise!Init
<1>2. ASSUME LaunchInv, LaunchInv', LaunchNext
      PROVE  [Promise!Next]_<<Present, Phases>>
  <2>1. ASSUME NEW c \in Clients, UNCHANGED installed,
               \/ UsbDriver /\ Requests(c) /\ helper' = helper
               \/ SendsRequest(c) \/ SendHello(c)
               \/ (EditorCloses(c) \/ Killed(c)) /\ EndsRequest(c)
        PROVE  [Promise!Next]_<<Present, Phases>>
    <3>1. /\ Requests(c)
          /\ CheckFlag(c) => UsbDriver
          /\ helper' = helper \/ EndsRequest(c)
      BY <2>1 DEF SendsRequest, SendHello, Requests, Client, Handler, CheckFlag,
         OpenSocket, SendRequest, AllocReply, AllocFails, Unicast, EditorCloses,
         Killed, ClientGoes
    <3>2. GetsOn(c)
      BY <1>2, <2>1, <3>1, ClientGetsOn
    <3> QED
      BY <1>2, <2>1, <3>1, <3>2, ClientPromises
  <2>2. ASSUME NEW c \in Clients, UNCHANGED installed, ~UsbDriver,
               \/ HelloRequests(c) /\ (helper' = helper \/ OnlyReports(c))
               \/ call_usermodehelper(c)
        PROVE  [Promise!Next]_<<Present, Phases>>
    <3>1. GetsOn(c)
      BY <1>2, <2>2, HelloGetsOn
    <3> QED
      BY <1>2, <2>2, <3>1, ClientPromises
  <2>3. ASSUME NEW c \in Clients, Runs(c)
        PROVE  [Promise!Next]_<<Present, Phases>>
    <3>1. CASE UsbDriver /\ (Client(c) \/ Handler(c)) /\ UNCHANGED <<installed, helper>>
      BY <2>1, <3>1 DEF Requests
    <3>2. CASE /\ ~UsbDriver /\ UNCHANGED installed
               /\ SendsRequest(c) \/ SendHello(c)
      BY <2>1, <3>2
    <3>3. CASE /\ ~UsbDriver /\ UNCHANGED installed
               /\ HelloRequests(c) \/ call_usermodehelper(c)
      <4>1. HelloRequests(c) => helper' = helper \/ OnlyReports(c)
        BY Zenon DEF HelloRequests, NoTest, usb_device_present, RunsEditor
      <4> QED
        BY <2>2, <3>3, <4>1
    <3> QED
      BY <2>3, <3>1, <3>2, <3>3 DEF Runs, HelloProgram, hello_nl_recv_msg, HelloRequests
  <2>4. ASSUME \/ HelloLoader
               \/ Loader
               \/ \E i \in Interfaces :
                    Plug(i) \/ Unplug(i) \/ etx_usb_probe(i) \/ etx_usb_disconnect(i),
               UNCHANGED <<installed, helper>>
        PROVE  [Promise!Next]_<<Present, Phases>>
    <3>1. UNCHANGED <<cpc, msg>>
      BY <2>4 DEF HelloLoader, hello_init, hello_exit, Loader, CreateSocket,
         RegisterDriver, RegisterFails, ReleaseSocket, DriverDeregistered, Plug,
         Unplug, etx_usb_probe, etx_usb_disconnect, clientVars
    <3> QED
      BY <2>4, <3>1, StickStep
  <2>5. CASE ~UsbDriver /\ HelloNext /\ UNCHANGED installed
    BY <2>1, <2>4, <2>5 DEF HelloNext
  <2>6. CASE UsbDriver /\ Next /\ UNCHANGED <<installed, helper>>
    BY <2>1, <2>4, <2>6 DEF Next, Requests
  <2> QED
    BY <1>2, <2>3, <2>5, <2>6 DEF LaunchNext
<1>3. ASSUME UNCHANGED launchVars
      PROVE  [Promise!Next]_<<Present, Phases>>
  BY <1>3, StickStep DEF launchVars, vars, clientVars
<1> QED
  BY <1>1, <1>2, <1>3, LaunchInvariance, PTL DEF LaunchSpec, Consults, Promise!Spec, Phases

-----------------------------------------------------------------------------
(* The other modules that watch USB devices do so by a notifier.           *)

(* Only the device the hub's thread has just added may not have been       *)
(* looked at, and only until the notifier returns.                         *)
NewOnly ==
  \A d \in added \ (judged \union early) : hub \in {"add", "compare"} /\ dev = d

(* The hub's thread deals with one device at a time and holds no lock when *)
(* it is idle, for any devices and any list.                               *)
THEOREM NotifierTypes == NotifySpec => []NotifyTypeOK
<1>1. NotifyInit => NotifyTypeOK
  BY DEF NotifyInit, NotifyTypeOK, NotifierStages, HubPCs
<1>2. NotifyTypeOK /\ [NotifyNext]_notifyVars => NotifyTypeOK'
  <2> SUFFICES ASSUME NotifyTypeOK, [NotifyNext]_notifyVars
               PROVE  NotifyTypeOK'
    OBVIOUS
  <2> USE DEF NotifyTypeOK, NotifierStages, HubPCs, HubGoes, deviceVars
  <2>1. CASE \/ usb_detect_init \/ usb_detect_exit \/ Unregister
             \/ \E d \in Devices : Arrives(d) \/ Leaves(d)
    BY <2>1 DEF usb_detect_init, usb_detect_exit, Unregister, Arrives, Leaves
  <2>2. ASSUME NEW d \in Devices, Add(d) \/ Remove(d)
        PROVE  NotifyTypeOK'
    BY <2>2, NotifyAssumption DEF Add, Remove
  <2>3. CASE NobodyToCall
    BY <2>3 DEF NobodyToCall
  <2>4. CASE Added \/ Removed
    BY <2>4 DEF Added, Removed
  <2>5. CASE usb_notify_handler
    BY <2>5 DEF usb_notify_handler
  <2>6. CASE Compare \/ Report
    BY <2>6 DEF Compare, Report
  <2>7. CASE UNCHANGED notifyVars
    BY <2>7 DEF notifyVars
  <2> QED
    BY <2>1, <2>2, <2>3, <2>4, <2>5, <2>6, <2>7 DEF NotifyNext, Hub
<1> QED
  BY <1>1, <1>2, PTL DEF NotifySpec

(* No device that is added while the notifier is registered escapes it,    *)
(* nor one that is added while rmmod waits for a call of it, whatever the  *)
(* list allows and whether or not the module unbinds what is not on it.    *)
THEOREM NoDeviceEscapes == NotifySpec => []EveryDeviceJudged
<1>1. NotifyInit => NewOnly
  BY DEF NotifyInit, NewOnly
<1>2. NewOnly /\ [NotifyNext]_notifyVars => NewOnly'
  <2> SUFFICES ASSUME NewOnly, [NotifyNext]_notifyVars
               PROVE  NewOnly'
    OBVIOUS
  <2> USE DEF NewOnly, HubGoes, deviceVars
  <2>1. CASE \/ usb_detect_init \/ usb_detect_exit \/ Unregister
             \/ \E d \in Devices : Arrives(d) \/ Leaves(d)
    BY <2>1 DEF usb_detect_init, usb_detect_exit, Unregister, Arrives, Leaves
  <2>2. ASSUME NEW d \in Devices, Add(d) \/ Remove(d)
        PROVE  NewOnly'
    BY <2>2 DEF Add, Remove
  <2>3. CASE NobodyToCall
    BY <2>3 DEF NobodyToCall
  <2>4. CASE Added \/ Removed
    BY <2>4 DEF Added, Removed
  <2>5. CASE usb_notify_handler
    BY <2>5 DEF usb_notify_handler
  <2>6. CASE Compare \/ Report
    BY <2>6 DEF Compare, Report
  <2>7. CASE UNCHANGED notifyVars
    BY <2>7 DEF notifyVars
  <2> QED
    BY <2>1, <2>2, <2>3, <2>4, <2>5, <2>6, <2>7 DEF NotifyNext, Hub
<1>3. NewOnly => EveryDeviceJudged
  BY DEF NewOnly, EveryDeviceJudged
<1> QED
  BY <1>1, <1>2, <1>3, PTL DEF NotifySpec
=============================================================================
