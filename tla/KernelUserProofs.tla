-------------------------- MODULE KernelUserProofs --------------------------
(***************************************************************************)
(* The character device, for any number of programs: what one of them that *)
(* is alone reads, and what a load or an unload leaves behind. The uevent  *)
(* daemon beside it, for a socket of any size: no announcement is lost.    *)
(***************************************************************************)
EXTENDS KernelUser, FiniteSetTheorems, TLAPS

(* What is registered at each stage of the module's life.                  *)
Staged ==
  /\ stage \in {"absent", "gone"} => registered = {}
  /\ stage \in {"class", "class again", "chrdev", "wedged"} => registered = {"chrdev"}
  /\ stage = "device" => registered = {"chrdev", "class"}
  /\ stage = "loaded" => registered = Registrations

Alone(p) == alone[p] /\ HasOpen(p)

(* A program that is alone is the only one to have the device open, and    *)
(* the message, from its write to its read, is its own.                    *)
Apart(p) ==
  /\ \A q \in Programs : q # p => ~HasOpen(q)
  /\ ppc[p] = "sprintf" => mates[p] = {}
  /\ ppc[p] \in {"strlen", "written"} => message = {p}
  /\ ppc[p] = "written" => message_size = 1
  /\ ppc[p] \in {"reset", "done"} => got[p] = {p}

DeviceInv == DeviceTypeOK /\ Staged /\ \A p \in Programs : Alone(p) => Apart(p)

-----------------------------------------------------------------------------
(* Loading and unloading.                                                  *)

LEMMA Stages ==
  ASSUME DeviceTypeOK, Staged, [DeviceNext]_deviceVars
  PROVE  Staged' /\ stage' \in DeviceStages /\ registered' \subseteq Registrations
<1> USE DEF Staged, DeviceGoes, DeviceStages, Registrations
<1>1. CASE register_chrdev \/ class_create \/ device_create \/ my_module_exit
           \/ class_destroy \/ unregister_chrdev
  BY <1>1 DEF register_chrdev, class_create, device_create, my_module_exit, class_destroy,
              unregister_chrdev
<1>2. ASSUME NEW p \in Programs, Program(p)
      PROVE  UNCHANGED <<stage, registered>>
  BY <1>2 DEF Program, device_open, device_write, Written, SetSize, device_read, CopyFails,
              ResetSize, device_release, CallsFreedCode
<1>3. CASE UNCHANGED deviceVars
  BY <1>3 DEF deviceVars, DeviceTypeOK
<1> QED
  BY <1>1, <1>2, <1>3 DEF DeviceNext, DeviceTypeOK

-----------------------------------------------------------------------------
(* The programs.                                                           *)

LEMMA ProgramTypes ==
  ASSUME DeviceTypeOK, NEW p \in Programs, Program(p)
  PROVE  /\ message' \subseteq Programs /\ message_size' \in {0, 1}
         /\ ppc' \in [Programs -> ProgramPCs] /\ mates' \in [Programs -> SUBSET Programs]
         /\ got' \in [Programs -> SUBSET Programs] /\ alone' \in [Programs -> BOOLEAN]
<1> USE DEF DeviceTypeOK, ProgramGoes, ProgramPCs, driverData
<1>1. CASE device_open(p)
  BY <1>1 DEF device_open
<1>2. CASE device_write(p)
  BY <1>2 DEF device_write
<1>3. CASE Written(p) \/ SetSize(p)
  BY <1>3 DEF Written, SetSize
<1>4. CASE device_read(p) \/ CopyFails(p) \/ ResetSize(p)
  BY <1>4 DEF device_read, CopyFails, ResetSize
<1>5. CASE device_release(p) \/ CallsFreedCode(p)
  BY <1>5 DEF device_release, CallsFreedCode
<1> QED
  BY <1>1, <1>2, <1>3, <1>4, <1>5 DEF Program

(* Whoever acts, a program that was or is alone stays apart: the others    *)
(* have closed the device, and opening it ends its being alone.            *)
LEMMA StaysApart ==
  ASSUME DeviceTypeOK, \A r \in Programs : Alone(r) => Apart(r),
         NEW p \in Programs, Program(p), NEW q \in Programs, Alone(q)'
  PROVE  Apart(q)'
<1> USE DEF DeviceTypeOK, ProgramGoes, ProgramPCs, driverData, Alone, Apart, HasOpen
<1>1. CASE device_open(p)
  BY <1>1 DEF device_open
<1>2. CASE device_release(p) \/ CallsFreedCode(p)
  BY <1>2 DEF device_release, CallsFreedCode
<1>3. CASE device_write(p) \/ Written(p) \/ SetSize(p) \/ device_read(p) \/ CopyFails(p)
           \/ ResetSize(p)
  <2>1. alone' = alone /\ HasOpen(p) /\ \A r \in Programs : HasOpen(r)' <=> HasOpen(r)
    BY <1>3 DEF device_write, Written, SetSize, device_read, CopyFails, ResetSize
  <2>2. q = p /\ Apart(p)
    BY <2>1
  <2>3. CASE device_write(p)
    BY <2>1, <2>2, <2>3 DEF device_write
  <2>4. CASE Written(p) \/ SetSize(p)
    BY <2>1, <2>2, <2>4 DEF Written, SetSize
  <2>5. CASE device_read(p) \/ CopyFails(p) \/ ResetSize(p)
    BY <2>1, <2>2, <2>5 DEF device_read, CopyFails, ResetSize
  <2> QED
    BY <1>3, <2>3, <2>4, <2>5
<1> QED
  BY <1>1, <1>2, <1>3 DEF Program

LEMMA DeviceStep ==
  ASSUME DeviceInv, [DeviceNext]_deviceVars
  PROVE  DeviceInv'
<1> USE DEF DeviceInv
<1>1. ASSUME NEW p \in Programs, Program(p)
      PROVE  DeviceInv'
  BY <1>1, Stages, ProgramTypes, StaysApart DEF DeviceTypeOK, DeviceNext
<1>2. CASE \A p \in Programs : ~Program(p)
  <2>1. UNCHANGED <<message, message_size, ppc, mates, got, alone>>
    BY <1>2 DEF DeviceNext, deviceVars, register_chrdev, class_create, device_create,
                my_module_exit, class_destroy, unregister_chrdev, driverData, programVars
  <2>2. \A p \in Programs : (Alone(p)' <=> Alone(p)) /\ (Apart(p)' <=> Apart(p))
    BY <2>1 DEF Alone, Apart, HasOpen
  <2> QED
    BY <2>1, <2>2, Stages DEF DeviceTypeOK
<1> QED
  BY <1>1, <1>2

LEMMA DeviceInvariance == Spec => []DeviceInv
<1>1. Init => DeviceInv
  BY DEF Init, DeviceInit, DeviceInv, DeviceTypeOK, Staged, DeviceStages,
         Registrations, ProgramPCs, Alone, HasOpen
<1>2. DeviceInv /\ [Next]_kernelUserVars => DeviceInv'
  <2>1. [Next]_kernelUserVars => [DeviceNext]_deviceVars
    BY DEF Next, Device, Call, kernelUserVars
  <2> QED
    BY <2>1, DeviceStep
<1> QED
  BY <1>1, <1>2, PTL DEF Spec

(* A program that has the device to itself from open to close reads what   *)
(* it wrote, whatever others left in the device, interrupted or not, and   *)
(* however many there are.                                                 *)
THEOREM OwnMessageReturns == Spec => []OwnMessage
<1>1. DeviceInv => OwnMessage
  BY DEF DeviceInv, Alone, Apart, HasOpen, OwnMessage
<1> QED
  BY <1>1, DeviceInvariance, PTL

(* No path through a failed load or a completed unload leaves a class, a   *)
(* device or a number registered.                                          *)
THEOREM AllUndone == Spec => []NothingLeft
<1>1. DeviceInv => NothingLeft
  BY DEF DeviceInv, Staged, NothingLeft
<1> QED
  BY <1>1, DeviceInvariance, PTL

-----------------------------------------------------------------------------
(* The announcements: how a queue's count changes when one is put at its   *)
(* end or taken from its front.                                            *)

Positions(q) == {i \in 1 .. Len(q) : q[i] = "call"}

LEMMA FromCallType ==
  ASSUME NEW q \in Seq(Sources)
  PROVE  IsFiniteSet(Positions(q)) /\ FromCall(q) \in Nat /\ FromCall(q) = Cardinality(Positions(q))
<1>1. IsFiniteSet(1 .. Len(q))
  BY FS_Interval
<1>2. Positions(q) \in SUBSET (1 .. Len(q))
  BY DEF Positions
<1> QED
  BY <1>1, <1>2, FS_Subset, FS_CardinalityType DEF FromCall, Positions

LEMMA FromCallAppend ==
  ASSUME NEW q \in Seq(Sources), NEW source \in Sources
  PROVE  FromCall(Append(q, source)) = FromCall(q) + (IF source = "call" THEN 1 ELSE 0)
<1>1. Append(q, source) \in Seq(Sources)
  OBVIOUS
<1>2. Len(q) + 1 \notin Positions(q)
  BY DEF Positions
<1>3. Positions(Append(q, source)) =
        IF source = "call" THEN Positions(q) \union {Len(q) + 1} ELSE Positions(q)
  BY DEF Positions
<1>4. /\ FromCall(q) \in Nat /\ FromCall(q) = Cardinality(Positions(q))
      /\ FromCall(Append(q, source)) = Cardinality(Positions(Append(q, source)))
      /\ Cardinality(Positions(q) \union {Len(q) + 1}) = Cardinality(Positions(q)) + 1
  BY <1>1, <1>2, FromCallType, FS_AddElement
<1> QED
  BY <1>3, <1>4

LEMMA FromCallTail ==
  ASSUME NEW q \in Seq(Sources), q # <<>>
  PROVE  FromCall(q) = FromCall(Tail(q)) + (IF Head(q) = "call" THEN 1 ELSE 0)
<1> DEFINE R == Positions(q) \ {1}
           T == Positions(Tail(q))
           f == [i \in R |-> i - 1]
<1>1. /\ Len(q) \in Nat \ {0} /\ Len(Tail(q)) = Len(q) - 1
      /\ Tail(q) \in Seq(Sources)
      /\ \A i \in 1 .. Len(Tail(q)) : Tail(q)[i] = q[i + 1]
      /\ Head(q) = q[1]
  OBVIOUS
<1>2. \A i \in R : i \in Int /\ i - 1 \in T
  BY <1>1 DEF Positions
<1>3. \A j \in T : j \in Int /\ j + 1 \in R /\ (j + 1) - 1 = j
  BY <1>1 DEF Positions
<1>4. f \in Bijection(R, T)
  <2> HIDE DEF R, T
  <2>1. f \in [R -> T]
    BY <1>2
  <2>2. IsInjective(f)
    BY <1>2 DEF IsInjective
  <2>3. \A j \in T : \E i \in R : f[i] = j
    BY <1>3
  <2> HIDE DEF f
  <2> QED
    BY <2>1, <2>2, <2>3, Zenon DEF Bijection, Injection, Surjection
<1>5. IsFiniteSet(R) /\ Cardinality(T) = Cardinality(R)
  <2>1. IsFiniteSet(R)
    BY FromCallType, FS_RemoveElement
  <2>2. ExistsBijection(R, T)
    BY <1>4, Zenon DEF ExistsBijection
  <2> QED
    BY <2>1, <2>2, FS_Bijection, Zenon
<1>6. 1 \in Positions(q) <=> Head(q) = "call"
  BY <1>1 DEF Positions
<1>7. /\ FromCall(q) \in Nat /\ FromCall(q) = Cardinality(Positions(q))
      /\ FromCall(Tail(q)) = Cardinality(T)
      /\ Cardinality(R) = IF 1 \in Positions(q) THEN Cardinality(Positions(q)) - 1
                          ELSE Cardinality(Positions(q))
  BY <1>1, FromCallType, FS_RemoveElement
<1> HIDE DEF R, T
<1> QED
  BY <1>5, <1>6, <1>7

-----------------------------------------------------------------------------
(* The daemon.                                                             *)

CallInv == CallTypeOK /\ NoneLost

LEMMA Announced ==
  ASSUME CallInv, NEW source \in Sources, Announce(source) \/ UNCHANGED socketVars,
         daemon' = daemon, runs' = runs
  PROVE  /\ queue' \in Seq(Sources) /\ Len(queue') <= QueueMax
         /\ overrun' \in BOOLEAN
         /\ sent' \in 0 .. SentMax /\ called' \in 0 .. sent' /\ runs' \in 0 .. called'
         /\ NoneLost'
<1> USE CallAssumption DEF CallInv, CallTypeOK, NoneLost
<1>1. CASE ~Listening \/ UNCHANGED socketVars
  BY <1>1 DEF Announce, socketVars
<1>2. CASE Listening /\ Announce(source)
  <2>1. /\ sent' \in 0 .. SentMax
        /\ called' \in 0 .. sent' /\ runs' \in 0 .. called'
        /\ called' = called + (IF source = "call" THEN 1 ELSE 0)
    BY <1>2 DEF Announce
  <2>2. CASE Len(queue) < QueueMax
    <3>1. queue' = Append(queue, source) /\ overrun' = overrun
      BY <1>2, <2>2 DEF Announce
    <3>2. /\ FromCall(queue') = FromCall(queue) + (IF source = "call" THEN 1 ELSE 0)
          /\ FromCall(queue) \in Nat
      BY <3>1, FromCallAppend, FromCallType
    <3> QED
      BY <2>1, <2>2, <3>1, <3>2
  <2>3. CASE ~(Len(queue) < QueueMax)
    BY <1>2, <2>1, <2>3 DEF Announce
  <2> QED
    BY <2>2, <2>3
<1> QED
  BY <1>1, <1>2

LEMMA CallStep ==
  ASSUME CallInv, [CallNext]_callVars
  PROVE  CallInv'
<1> USE CallAssumption
<1>1. CASE AnnounceOther \/ LoadCall \/ call_init \/ InitSucceeded \/ call_exit
           \/ UnloadCall
  <2>1. /\ Announce("call") \/ Announce("other") \/ UNCHANGED socketVars
        /\ UNCHANGED <<interact, my_value, daemon, user, runs, historyVars>>
        /\ call' \in CallStages
    BY <1>1 DEF AnnounceOther, LoadCall, call_init, InitSucceeded, call_exit, UnloadCall,
                MayAnnounceModule, CallGoes, CallStages, kernelVars, CallInv, CallTypeOK
  <2>2. PICK source \in Sources : Announce(source) \/ UNCHANGED socketVars
    BY <2>1 DEF Sources
  <2>3. daemon' = daemon /\ runs' = runs
    BY <2>1
  <2>4. /\ queue' \in Seq(Sources) /\ Len(queue') <= QueueMax
        /\ overrun' \in BOOLEAN
        /\ sent' \in 0 .. SentMax /\ called' \in 0 .. sent' /\ runs' \in 0 .. called'
        /\ NoneLost'
    BY <2>2, <2>3, Announced
  <2> QED
    BY <2>1, <2>4 DEF CallInv, CallTypeOK, historyVars
<1>2. CASE InitFails \/ interact_init \/ interact_exit
  BY <1>2 DEF InitFails, interact_init, interact_exit, CallGoes, CallStages, socketVars,
              historyVars, CallInv, CallTypeOK, NoneLost
<1>3. CASE OpensSocket \/ RecvFails \/ SystemReturns
  BY <1>3 DEF OpensSocket, RecvFails, SystemReturns, DaemonPCs, kernelVars, socketVars,
              historyVars, CallInv, CallTypeOK, NoneLost
<1>4. CASE ReceiveUevent
  <2>1. /\ queue \in Seq(Sources) /\ queue # <<>> /\ queue' = Tail(queue)
        /\ ~overrun /\ UNCHANGED <<call, interact, my_value, overrun, sent, called, historyVars>>
    BY <1>4 DEF ReceiveUevent, kernelVars, CallInv, CallTypeOK
  <2>2. queue' \in Seq(Sources) /\ Len(queue') = Len(queue) - 1 /\ Len(queue) \in Nat
    BY <2>1
  <2>5. /\ FromCall(queue) = FromCall(queue') + (IF Head(queue) = "call" THEN 1 ELSE 0)
         /\ FromCall(queue') \in Nat
    <3>1. FromCall(queue) = FromCall(Tail(queue)) + (IF Head(queue) = "call" THEN 1 ELSE 0)
      BY <2>1, FromCallTail
    <3>2. FromCall(queue') \in Nat
      BY <2>2, FromCallType
    <3> QED
      BY <2>1, <3>1, <3>2
  <2>3. runs' = runs + (IF Head(queue) = "call" THEN 1 ELSE 0)
    BY <1>4 DEF ReceiveUevent, CallInv, CallTypeOK
  <2>4. /\ daemon = "recv" /\ daemon' \in {"recv", "system"} /\ user' \in UserPCs
    BY <1>4 DEF ReceiveUevent, UserPCs, CallInv, CallTypeOK
  <2> QED
    BY <2>1, <2>2, <2>3, <2>4, <2>5 DEF CallInv, CallTypeOK, NoneLost, DaemonPCs, historyVars
<1>5. CASE User
  BY <1>5 DEF User, OpenAttribute, ProgramFails, my_value_show, my_value_store, CloseAttribute, UserGoes,
              UserPCs, socketVars, CallInv, CallTypeOK, NoneLost
<1>6. CASE UNCHANGED callVars
  BY <1>6 DEF callVars, kernelVars, socketVars, historyVars, CallInv, CallTypeOK, NoneLost
<1> QED
  BY <1>1, <1>2, <1>3, <1>4, <1>5, <1>6 DEF CallNext, Daemon

LEMMA CallInvariance == Spec => []CallInv
<1>1. Init => CallInv
  <2> SUFFICES ASSUME Init
               PROVE  CallInv
    OBVIOUS
  <2>1. FromCall(<<>>) = 0
    <3>1. {i \in 1 .. Len(<<>>) : <<>>[i] = "call"} = {}
      OBVIOUS
    <3> QED
      BY <3>1, FS_EmptySet, Zenon DEF FromCall
  <2>2. queue = <<>> /\ runs = 0 /\ called = 0 /\ daemon = "start" /\ ~overrun
    BY DEF Init, CallInit
  <2>3. NoneLost
    BY <2>1, <2>2 DEF NoneLost
  <2>4. CallTypeOK
    <3>1. queue \in Seq(Sources) /\ Len(queue) = 0
      BY <2>2
    <3>2. Len(queue) <= QueueMax /\ 0 \in 0 .. SentMax
      BY <3>1, CallAssumption
    <3>3. /\ call \in CallStages /\ interact \in BOOLEAN /\ my_value \in {0, 42}
          /\ daemon \in DaemonPCs /\ overrun \in BOOLEAN /\ user \in UserPCs
          /\ sent = 0 /\ failed \in BOOLEAN /\ reloaded \in BOOLEAN
      BY DEF Init, CallInit, CallStages, DaemonPCs, UserPCs
    <3> QED
      BY <2>2, <3>1, <3>2, <3>3 DEF CallTypeOK
  <2> QED
    BY <2>3, <2>4 DEF CallInv
<1>2. CallInv /\ [Next]_kernelUserVars => CallInv'
  <2>1. [Next]_kernelUserVars => [CallNext]_callVars
    BY DEF Next, Device, Call, kernelUserVars
  <2> QED
    BY <2>1, CallStep
<1> QED
  BY <1>1, <1>2, PTL DEF Spec

(* For every announcement from "call" the daemon has called system(), or   *)
(* it is still in its socket, for a socket of any size, unless one did not *)
(* fit; and the daemon ends for no other reason.                           *)
THEOREM NothingLost == Spec => []NoneLost
<1>1. CallInv => NoneLost
  BY DEF CallInv
<1> QED
  BY <1>1, CallInvariance, PTL
=============================================================================
