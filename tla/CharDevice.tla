----------------------------- MODULE CharDevice -----------------------------
(***************************************************************************)
(* kernel-user/my_module.c, and the older copy of it in "Kernel User       *)
(* Communication": a character device that keeps one message for all the   *)
(* programs that open it (user_app.c is one). Its calls take no lock, so   *)
(* those of two programs interleave, and its file operations name no       *)
(* owner, so rmmod does not wait for a program that has the device open.   *)
(***************************************************************************)
CONSTANT Programs

VARIABLES
  stage,         \* of the module's life: see DeviceStages
  registered,    \* what init has registered: see Registrations
  message,       \* the programs of whose texts the message is made
  message_size,  \* 0, or the length of a text: 1
  ppc,           \* what each program is doing: see ProgramPCs
  mates,         \* history: whose sprintf() has overlapped with its own
  got,           \* the message it has read, as "message"
  alone          \* history: has nobody else had the device open with it?

deviceVars ==
  <<stage, registered, message, message_size, ppc, mates, got, alone>>
driverData == <<message, message_size>>
programVars == <<ppc, mates, got, alone>>

Registrations == {"chrdev", "class", "device"}
DeviceStages ==
  {"absent", "class", "device", "loaded", "class again", "chrdev", "gone", "wedged"}
ProgramPCs ==
  {"closed", "open", "sprintf", "strlen", "written", "reset", "done", "failed"}

(* Every variable has a value of its type.                                 *)
DeviceTypeOK ==
  /\ stage \in DeviceStages
  /\ registered \subseteq Registrations
  /\ message \subseteq Programs
  /\ message_size \in {0, 1}
  /\ ppc \in [Programs -> ProgramPCs]
  /\ mates \in [Programs -> SUBSET Programs]
  /\ got \in [Programs -> SUBSET Programs]
  /\ alone \in [Programs -> BOOLEAN]

DeviceInit ==
  /\ stage = "absent"
  /\ registered = {}
  /\ message = {}
  /\ message_size = 0
  /\ ppc = [p \in Programs |-> "closed"]
  /\ mates = [p \in Programs |-> {}]
  /\ got = [p \in Programs |-> {}]
  /\ alone = [p \in Programs |-> FALSE]

-----------------------------------------------------------------------------
(* insmod and rmmod.                                                       *)

DeviceGoes(from, to) == stage = from /\ stage' = to

register_chrdev ==
  /\ DeviceGoes("absent", "class")
  /\ registered' = {"chrdev"}
  /\ UNCHANGED <<driverData, programVars>>

class_create ==
  /\ \/ DeviceGoes("class", "device") /\ registered' = registered \union {"class"}
     \/ DeviceGoes("class", "absent") /\ registered' = registered \ {"chrdev"}
  /\ UNCHANGED <<driverData, programVars>>

(* Mutant: the number stays registered when there is no device.            *)
device_create_leaks ==
  /\ \/ DeviceGoes("device", "loaded") /\ registered' = registered \union {"device"}
     \/ DeviceGoes("device", "absent") /\ registered' = registered \ {"class"}
  /\ UNCHANGED <<driverData, programVars>>

device_create ==
  /\ \/ DeviceGoes("device", "loaded") /\ registered' = registered \union {"device"}
     \/ DeviceGoes("device", "absent") /\ registered' = registered \ {"class", "chrdev"}
  /\ UNCHANGED <<driverData, programVars>>

(* device_destroy() and class_unregister(), which frees the class.         *)
my_module_exit ==
  /\ DeviceGoes("loaded", "class again")
  /\ registered' = registered \ {"device", "class"}
  /\ UNCHANGED <<driverData, programVars>>

(* class_destroy() unregisters the freed class once more. The exit handler *)
(* carries on, or it dies there and the number stays registered.           *)
class_destroy ==
  /\ DeviceGoes("class again", "chrdev") \/ DeviceGoes("class again", "wedged")
  /\ UNCHANGED <<registered, driverData, programVars>>

unregister_chrdev ==
  /\ DeviceGoes("chrdev", "gone")
  /\ registered' = registered \ {"chrdev"}
  /\ UNCHANGED <<driverData, programVars>>

-----------------------------------------------------------------------------
(* A program, and the calls it makes into the module.                      *)

ProgramGoes(p, from, to) ==
  /\ ppc[p] = from
  /\ ppc' = [ppc EXCEPT ![p] = to]

HasOpen(p) == ppc[p] # "closed"

(* There is a device to open as long as it is registered.                  *)
device_open(p) ==
  /\ "device" \in registered
  /\ ProgramGoes(p, "closed", "open")
  /\ alone' = [q \in Programs |->
       IF q = p THEN \A r \in Programs : ~HasOpen(r) ELSE FALSE]
  /\ UNCHANGED <<stage, registered, driverData, mates, got>>

(* The message is made of the old text and the new one until sprintf() is  *)
(* through, and afterwards of all that were written at the same time.      *)
device_write(p) ==
  /\ stage # "gone"
  /\ ProgramGoes(p, "open", "sprintf")
  /\ LET writing == {q \in Programs : ppc[q] = "sprintf"} IN
       mates' = [q \in Programs |->
         IF q = p THEN writing
         ELSE IF q \in writing THEN mates[q] \union {p} ELSE mates[q]]
  /\ message' = message \union {p}
  /\ UNCHANGED <<stage, registered, message_size, got, alone>>

Written(p) ==
  /\ stage # "gone"
  /\ ProgramGoes(p, "sprintf", "strlen")
  /\ message' = mates[p] \union {p}
  /\ UNCHANGED <<stage, registered, message_size, mates, got, alone>>

SetSize(p) ==
  /\ stage # "gone"
  /\ ProgramGoes(p, "strlen", "written")
  /\ message_size' = 1
  /\ UNCHANGED <<stage, registered, message, mates, got, alone>>

(* Mutant: the size is reset before the message is copied.                 *)
device_read_resets(p) ==
  /\ stage # "gone"
  /\ ProgramGoes(p, "written", "reset")
  /\ got' = [got EXCEPT ![p] = {}]
  /\ message_size' = 0
  /\ UNCHANGED <<stage, registered, message, mates, alone>>

(* copy_to_user().                                                         *)
device_read(p) ==
  /\ stage # "gone"
  /\ ProgramGoes(p, "written", "reset")
  /\ got' = [got EXCEPT ![p] = IF message_size = 0 THEN {} ELSE message]
  /\ UNCHANGED <<stage, registered, driverData, mates, alone>>

(* The buffer of the program cannot be written: the size stays.            *)
CopyFails(p) ==
  /\ stage # "gone"
  /\ message_size # 0
  /\ ProgramGoes(p, "written", "failed")
  /\ UNCHANGED <<stage, registered, driverData, mates, got, alone>>

ResetSize(p) ==
  /\ stage # "gone"
  /\ ProgramGoes(p, "reset", "done")
  /\ message_size' = 0
  /\ UNCHANGED <<stage, registered, message, mates, got, alone>>

(* It closes the device, or is killed between two calls.                   *)
device_release(p) ==
  /\ stage # "gone"
  /\ ppc[p] \in {"open", "written", "done", "failed"}
  /\ ppc' = [ppc EXCEPT ![p] = "closed"]
  /\ got' = [got EXCEPT ![p] = {}]
  /\ mates' = [mates EXCEPT ![p] = {}]
  /\ UNCHANGED <<stage, registered, driverData, alone>>

(* The next call, or the rest of one, when the module has gone: it ends    *)
(* the program.                                                            *)
CallsFreedCode(p) ==
  /\ stage = "gone"
  /\ HasOpen(p)
  /\ ppc' = [ppc EXCEPT ![p] = "closed"]
  /\ UNCHANGED <<stage, registered, driverData, mates, got, alone>>

Program(p) ==
  \/ device_open(p) \/ device_write(p) \/ Written(p) \/ SetSize(p)
  \/ device_read(p) \/ CopyFails(p) \/ ResetSize(p)
  \/ device_release(p) \/ CallsFreedCode(p)

DeviceNext ==
  \/ register_chrdev \/ class_create \/ device_create
  \/ my_module_exit \/ class_destroy \/ unregister_chrdev
  \/ \E p \in Programs : Program(p)

DeviceSpec == DeviceInit /\ [][DeviceNext]_deviceVars

-----------------------------------------------------------------------------
(* A program that has the device to itself reads the message it has        *)
(* written, whole, whatever other programs have left in the device before  *)
(* (user_app.c writes, then reads).                                        *)
OwnMessage ==
  \A p \in Programs : ppc[p] \in {"reset", "done"} /\ alone[p] => got[p] = {p}

(* A load that fails half way, and an unload that returns, leave nothing   *)
(* registered: init undoes its steps in reverse (my_module.c:79-92).       *)
NothingLeft == stage \in {"absent", "gone"} => registered = {}
=============================================================================
