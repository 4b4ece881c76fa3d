------------------------------ MODULE DirPerms ------------------------------
(***************************************************************************)
(* remove_directory_permissions() and add_directory_permissions(), which   *)
(* perm-driver.c and usb-perm-driver/driver.c share: the first saves the   *)
(* mode of a directory in a static variable and clears its permissions,    *)
(* the second writes the saved mode back. Neither takes a lock, so they    *)
(* run step by step here, in whatever thread called them: an actor.        *)
(*                                                                         *)
(* A mode is a set of bits.                                                *)
(***************************************************************************)
CONSTANTS
  Actors,  \* the threads that may call the two functions
  RWX,     \* S_IRWXU | S_IRWXG | S_IRWXO
  Modes    \* the modes the owner gives the directory

ASSUME ModesAssumption ==
  /\ Modes # {}
  /\ \A m \in Modes : m \cap RWX # {}

VARIABLES
  mode,           \* i_mode of the directory
  original_mode,  \* the static variables of the module
  mode_saved,
  there,          \* does the path resolve now?
  pc,             \* where each actor is in one of the two functions
  owner,          \* history: the mode the owner last chose
  missed,         \* history: has a call failed to resolve the path?
  lost            \* history: has a mode the owner did not choose been saved?

moduleData == <<original_mode, mode_saved>>
dirVars == <<mode, moduleData, there, pc, owner, missed, lost>>

PCs == {"idle", "lookup", "save", "clear", "check", "find", "restore"}
Locked == mode \cap RWX = {}
NoMode == {}

DirTypeOK ==
  /\ mode \in Modes \union {m \ RWX : m \in Modes}
  /\ original_mode \in Modes \union {m \ RWX : m \in Modes} \union {NoMode}
  /\ mode_saved \in {0, 1}
  /\ there \in BOOLEAN
  /\ pc \in [Actors -> PCs]
  /\ owner \in Modes
  /\ missed \in BOOLEAN
  /\ lost \in BOOLEAN

DirInit ==
  /\ mode \in Modes
  /\ original_mode = NoMode
  /\ mode_saved = 0
  /\ there \in BOOLEAN
  /\ pc = [a \in Actors |-> "idle"]
  /\ owner = mode
  /\ missed = FALSE
  /\ lost = FALSE

AllIdle == \A a \in Actors : pc[a] = "idle"

-----------------------------------------------------------------------------
Calls(a, first) ==
  /\ pc[a] = "idle"
  /\ pc' = [pc EXCEPT ![a] = first]

CallsRemove(a) == Calls(a, "lookup")
CallsAdd(a) == Calls(a, "check")

GoesTo(a, from, to) ==
  /\ pc[a] = from
  /\ pc' = [pc EXCEPT ![a] = to]

(* kern_path() fails: the caller ignores the error.                        *)
PathFails(a) ==
  /\ ~there
  /\ GoesTo(a, "lookup", "idle") \/ GoesTo(a, "find", "idle")
  /\ missed' = TRUE
  /\ UNCHANGED <<mode, moduleData, there, owner, lost>>

PathResolves(a) ==
  /\ there
  /\ GoesTo(a, "lookup", "save") \/ GoesTo(a, "find", "restore")
  /\ UNCHANGED <<mode, moduleData, there, owner, missed, lost>>

(* Mutant: the mode is saved after it has been cleared.                    *)
SaveCleared(a) ==
  /\ GoesTo(a, "save", "clear")
  /\ original_mode' = mode \ RWX
  /\ mode_saved' = 1
  /\ lost' = (lost \/ mode # owner)
  /\ UNCHANGED <<mode, there, owner, missed>>

Save(a) ==
  /\ GoesTo(a, "save", "clear")
  /\ original_mode' = mode
  /\ mode_saved' = 1
  /\ lost' = (lost \/ mode # owner)
  /\ UNCHANGED <<mode, there, owner, missed>>

Clear(a) ==
  /\ GoesTo(a, "clear", "idle")
  /\ mode' = mode \ RWX
  /\ UNCHANGED <<moduleData, there, owner, missed, lost>>

Check(a) ==
  /\ GoesTo(a, "check", IF mode_saved = 1 THEN "find" ELSE "idle")
  /\ UNCHANGED <<mode, moduleData, there, owner, missed, lost>>

(* Mutants: everybody gets every permission; nothing is written.           *)
RestoreOpen(a) ==
  /\ GoesTo(a, "restore", "idle")
  /\ mode' = original_mode \union RWX
  /\ UNCHANGED <<moduleData, there, owner, missed, lost>>

RestoreNothing(a) ==
  /\ GoesTo(a, "restore", "idle")
  /\ UNCHANGED <<mode, moduleData, there, owner, missed, lost>>

Restore(a) ==
  /\ GoesTo(a, "restore", "idle")
  /\ mode' = original_mode
  /\ UNCHANGED <<moduleData, there, owner, missed, lost>>

DirStep(a) ==
  PathFails(a) \/ PathResolves(a) \/ Save(a) \/ Clear(a) \/ Check(a) \/ Restore(a)

-----------------------------------------------------------------------------
(* The directory's file system is mounted or unmounted.                    *)
Mounts ==
  /\ there' = ~there
  /\ UNCHANGED <<mode, moduleData, pc, owner, missed, lost>>

(* The owner changes the mode. Not of a directory the driver has locked,   *)
(* or is about to: the driver would undo it, see the README.               *)
Chmod ==
  /\ ~Locked
  /\ AllIdle
  /\ mode' \in Modes \ {mode}
  /\ owner' = mode'
  /\ UNCHANGED <<moduleData, there, pc, missed, lost>>

Owner == Mounts \/ Chmod
=============================================================================
