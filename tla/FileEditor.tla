----------------------------- MODULE FileEditor -----------------------------
(***************************************************************************)
(* USBReadWrite/Control.gd: the file editor that the launchers start. It   *)
(* lists the files of the USB stick that is mounted when it starts, and    *)
(* opens, saves and deletes files. Nothing keeps a second one from being   *)
(* started, and the stick may be pulled at any time: between the opening   *)
(* of a file, which truncates it, and the writing of its text, and after   *)
(* it, while the kernel has not yet written the text to the stick, as the  *)
(* program never asks for that. Nor does it ask whether a text did fit.    *)
(*                                                                         *)
(* A text stands for its length: what matters is that a longer one shows   *)
(* through where a shorter one is written over it.                         *)
(***************************************************************************)
EXTENDS Integers

CONSTANTS
  Editors,   \* instances of the program
  Names,     \* of files on the stick
  Mounts,    \* the directories the stick may be mounted at
  Home,      \* the one written into the source, Control.gd:94
  NoMount,   \* the stick is not mounted
  Untitled,  \* current_path of a new text
  MaxText    \* the longest text

ASSUME EditorAssumption ==
  /\ Home \in Mounts
  /\ NoMount \notin Mounts
  /\ Untitled \notin (Mounts \union {NoMount}) \X Names
  /\ MaxText \in Nat \ {0}

VARIABLES
  mounted,       \* where the stick is
  disk,          \* what each file of it holds, as programs see it
  unwritten,     \* the files whose last change is not on the stick yet
  pc,            \* what each editor is doing
  current_path,
  text,          \* in the window
  title,         \* the path the window's title shows
  listed,        \* the paths of the buttons
  handle,        \* does the file being written still exist?
  saved,         \* history: what the last save was to put there, or Torn
  misnamed,      \* history: has a "save as" failed since it got its title?
  view,          \* history: what has happened to its text: see Views
  stale          \* history: may the buttons be those of another time?

stickVars == <<mounted, disk, unwritten, saved>>
windowVars == <<pc, current_path, text, title, listed, handle>>
windowHistory == <<misnamed, view, stale>>
vars == <<stickVars, windowVars, windowHistory>>

Paths == Mounts \X Names
Empty == 0
Mixed == -1    \* one text shows through another
NoFile == -2
Torn == -3     \* the save was not left alone
Contents == 1 .. MaxText \union {Empty, Mixed}
(* As it was last loaded or saved; typed into since, or not saved whole;   *)
(* or the file has since been touched by somebody else.                    *)
Views == {"clean", "edited", "disturbed"}
PCs == {"closed", "idle", "saving", "savingAs"}

(* Every variable has a value of its type.                                 *)
TypeOK ==
  /\ mounted \in Mounts \union {NoMount}
  /\ disk \in [Names -> Contents \union {NoFile}]
  /\ unwritten \subseteq Names
  /\ saved \in [Names -> Contents \union {NoFile, Torn}]
  /\ pc \in [Editors -> PCs]
  /\ current_path \in [Editors -> Paths \union {Untitled}]
  /\ title \in [Editors -> Paths \union {Untitled}]
  /\ text \in [Editors -> Contents]
  /\ listed \in [Editors -> SUBSET Paths]
  /\ handle \in [Editors -> BOOLEAN]
  /\ misnamed \in [Editors -> BOOLEAN]
  /\ view \in [Editors -> Views]
  /\ stale \in [Editors -> BOOLEAN]

Init ==
  /\ mounted \in Mounts \union {NoMount}
  /\ disk \in [Names -> {NoFile, MaxText}]
  /\ unwritten = {}
  /\ saved = disk
  /\ pc = [e \in Editors |-> "closed"]
  /\ current_path = [e \in Editors |-> Untitled]
  /\ title = [e \in Editors |-> Untitled]
  /\ text = [e \in Editors |-> Empty]
  /\ listed = [e \in Editors |-> {}]
  /\ handle = [e \in Editors |-> FALSE]
  /\ misnamed = [e \in Editors |-> FALSE]
  /\ view = [e \in Editors |-> "clean"]
  /\ stale = [e \in Editors |-> FALSE]

-----------------------------------------------------------------------------
(* The stick.                                                              *)

Writes(e, n) == handle[e] /\ current_path[e][2] = n

(* dir_contents() finds nothing where nothing is mounted.                  *)
FilesAt(m) == {p \in Paths : p[1] = m /\ mounted = m /\ disk[p[2]] # NoFile}

(* What somebody does to some files, or to the set of them, is news to the *)
(* windows that name them, and to all that are open.                       *)
PathsOf(n) == Mounts \X {n}
DisturbedAt(paths) ==
  [f \in Editors |-> IF current_path[f] \in paths THEN "disturbed" ELSE view[f]]
Outdated(changed) ==
  [f \in Editors |-> stale[f] \/ (changed /\ pc[f] # "closed")]

Mount(m) ==
  /\ mounted = NoMount
  /\ mounted' = m
  /\ view' = DisturbedAt(Paths)
  /\ stale' = Outdated(TRUE)
  /\ UNCHANGED <<disk, unwritten, saved, windowVars, misnamed>>

(* The kernel writes back what it likes when it likes.                     *)
WriteBack(n) ==
  /\ n \in unwritten
  /\ unwritten' = unwritten \ {n}
  /\ UNCHANGED <<mounted, disk, saved, windowVars, windowHistory>>

(* Of a file that has not been written back there may be on the stick the  *)
(* old text, the new one, a part or a mixture of them, or no file at all;  *)
(* and a deleted one may be there again.                                   *)
Pull ==
  /\ mounted # NoMount
  /\ mounted' = NoMount
  /\ disk' \in {d \in [Names -> Contents \union {NoFile}] :
                  \A n \in Names \ unwritten : d[n] = disk[n]}
  /\ unwritten' = {}
  /\ saved' = [n \in Names |->
       IF n \in unwritten \/ \E e \in Editors : Writes(e, n) THEN Torn ELSE saved[n]]
  /\ handle' = [e \in Editors |-> FALSE]
  /\ view' = DisturbedAt(Paths)
  /\ stale' = Outdated(TRUE)
  /\ UNCHANGED <<pc, current_path, text, title, listed, misnamed>>

(* FileAccess.open(path, WRITE): the file is created, or is empty now. The *)
(* window knows that it was there before, unless its path has been changed *)
(* by a failed "save as", or its file by others.                           *)
OpenAs(e, p, content) ==
  LET n == p[2] IN
  /\ mounted = p[1]
  /\ disk' = [disk EXCEPT ![n] = content]
  /\ unwritten' = unwritten \union {n}
  /\ saved' = [saved EXCEPT ![n] =
       IF \E f \in Editors : Writes(f, n) THEN Torn ELSE Empty]
  /\ handle' = [handle EXCEPT ![e] = TRUE]
  /\ view' = [DisturbedAt(PathsOf(n)) EXCEPT ![e] = "edited"]
  /\ stale' = [Outdated(disk[n] = NoFile) EXCEPT
                 ![e] = stale[e] \/ misnamed[e] \/ view[e] = "disturbed"]

(* Mutant: the file keeps its old text.                                    *)
OpenUntruncated(e, p) ==
  OpenAs(e, p, IF disk[p[2]] = NoFile THEN Empty ELSE disk[p[2]])

OpenForWriting(e, p) == OpenAs(e, p, Empty)

WrittenOver(old, new) ==
  IF new = Empty THEN old
  ELSE IF old = Empty \/ (old \in 1 .. MaxText /\ new >= old) THEN new ELSE Mixed

(* What fits of a text when the stick is full.                             *)
Parts(t) == Empty .. t \union {Empty, t}

(* store_string() and close(). That they fail goes unnoticed, be it for    *)
(* want of room or of the file.                                            *)
StoreText(e) ==
  LET n == current_path[e][2] IN
  /\ handle' = [handle EXCEPT ![e] = FALSE]
  /\ IF handle[e]
       THEN \E t \in Parts(text[e]) :
              /\ disk' = [disk EXCEPT ![n] = WrittenOver(@, t)]
              /\ unwritten' = unwritten \union {n}
              /\ saved' = [saved EXCEPT ![n] =
                   IF t = text[e] /\ saved[n] # Torn THEN t ELSE Torn]
              /\ view' = [DisturbedAt(PathsOf(n)) EXCEPT ![e] =
                   IF t = text[e] /\ view[e] # "disturbed" THEN "clean" ELSE view[e]]
       ELSE UNCHANGED <<disk, unwritten, saved, view>>

-----------------------------------------------------------------------------
(* The handlers of Control.gd.                                             *)

EditorGoes(e, from, to) == pc[e] = from /\ pc' = [pc EXCEPT ![e] = to]

Shows(e, p, t) ==
  /\ current_path' = [current_path EXCEPT ![e] = p]
  /\ title' = [title EXCEPT ![e] = p]
  /\ text' = [text EXCEPT ![e] = t]
  /\ misnamed' = [misnamed EXCEPT ![e] = FALSE]

Lists(e, paths) ==
  /\ listed' = [listed EXCEPT ![e] = paths]
  /\ stale' = [stale EXCEPT ![e] = FALSE]

(* lsblk names the mount point, if there is one.                           *)
_ready(e) ==
  /\ EditorGoes(e, "closed", "idle")
  /\ Lists(e, FilesAt(mounted))
  /\ UNCHANGED <<stickVars, current_path, text, title, handle, misnamed, view>>

(* Mutant: the title stays.                                                *)
_open_file_untitled(e, p) ==
  /\ pc[e] = "idle"
  /\ p \in listed[e] \intersect FilesAt(mounted)
  /\ current_path' = [current_path EXCEPT ![e] = p]
  /\ text' = [text EXCEPT ![e] = disk[p[2]]]
  /\ view' = [view EXCEPT ![e] = "clean"]
  /\ misnamed' = [misnamed EXCEPT ![e] = FALSE]
  /\ UNCHANGED <<stickVars, pc, title, listed, handle, stale>>

(* A button whose file is gone changes nothing.                            *)
_open_file(e, p) ==
  /\ pc[e] = "idle"
  /\ p \in listed[e] \intersect FilesAt(mounted)
  /\ Shows(e, p, disk[p[2]])
  /\ view' = [view EXCEPT ![e] = "clean"]
  /\ UNCHANGED <<stickVars, pc, listed, handle, stale>>

Type(e) ==
  /\ pc[e] = "idle"
  /\ \E t \in Empty .. MaxText : text' = [text EXCEPT ![e] = t]
  /\ view' = [view EXCEPT ![e] = IF @ = "disturbed" THEN @ ELSE "edited"]
  /\ UNCHANGED <<stickVars, pc, current_path, title, listed, handle, misnamed, stale>>

_on_new_button_pressed(e) ==
  /\ pc[e] = "idle"
  /\ Shows(e, Untitled, Empty)
  /\ view' = [view EXCEPT ![e] = "clean"]
  /\ UNCHANGED <<stickVars, pc, listed, handle, stale>>

(* When the file cannot be opened nothing changes.                         *)
_on_save_button_pressed(e) ==
  /\ current_path[e] # Untitled
  /\ EditorGoes(e, "idle", "saving")
  /\ OpenForWriting(e, current_path[e])
  /\ UNCHANGED <<mounted, current_path, text, title, listed, misnamed>>

(* The save-as button, and the save button as long as there is no path,    *)
(* pop up a dialog. While it is open the window's other buttons cannot be  *)
(* pressed and the program does nothing: the user's choice is one step.    *)
_on_save_file_dialog_file_selected(e, p) ==
  /\ EditorGoes(e, "idle", "savingAs")
  /\ current_path' = [current_path EXCEPT ![e] = p]
  /\ OpenForWriting(e, p)
  /\ UNCHANGED <<mounted, text, title, listed, misnamed>>

(* It cannot be opened: no such directory, or not writable.                *)
SaveAsFails(e, p) ==
  /\ pc[e] = "idle"
  /\ current_path' = [current_path EXCEPT ![e] = p]
  /\ misnamed' = [misnamed EXCEPT ![e] = TRUE]
  /\ UNCHANGED <<stickVars, pc, text, title, listed, handle, view, stale>>

Saved(e) ==
  /\ EditorGoes(e, "saving", "idle")
  /\ StoreText(e)
  /\ UNCHANGED <<mounted, current_path, text, title, listed, misnamed, stale>>

(* Mutant: the buttons are those of before.                                *)
SavedAsUnlisted(e) ==
  /\ EditorGoes(e, "savingAs", "idle")
  /\ StoreText(e)
  /\ Shows(e, current_path[e], text[e])
  /\ stale' = [stale EXCEPT ![e] = FALSE]
  /\ UNCHANGED <<mounted, listed>>

(* The list is that of the directory in the source.                        *)
SavedAs(e) ==
  /\ EditorGoes(e, "savingAs", "idle")
  /\ StoreText(e)
  /\ Shows(e, current_path[e], text[e])
  /\ Lists(e, FilesAt(Home))
  /\ UNCHANGED mounted

_on_reload_button_pressed(e) ==
  /\ pc[e] = "idle"
  /\ Lists(e, FilesAt(Home))
  /\ UNCHANGED <<stickVars, pc, current_path, text, title, handle, misnamed, view>>

(* The file as it is removed from the stick; one that writes it goes on    *)
(* with a file that has no name.                                           *)
Remove(e, n) ==
  /\ disk' = [disk EXCEPT ![n] = NoFile]
  /\ saved' = [saved EXCEPT ![n] = NoFile]
  /\ handle' = [f \in Editors |-> handle[f] /\ ~Writes(f, n)]
  /\ unwritten' = unwritten \union {n}
  /\ view' = [DisturbedAt(PathsOf(n)) EXCEPT ![e] = "clean"]
  /\ stale' = [Outdated(TRUE) EXCEPT ![e] = FALSE]
  /\ UNCHANGED mounted

(* Mutant: the path and the title are kept.                                *)
DeleteKeepsText(e) ==
  LET p == current_path[e] IN
  /\ pc[e] = "idle"
  /\ p \in FilesAt(mounted)
  /\ Remove(e, p[2])
  /\ listed' = [listed EXCEPT ![e] =
       {<<Home, n>> : n \in {k \in Names : mounted = Home /\ disk'[k] # NoFile}}]
  /\ UNCHANGED <<pc, current_path, text, title, misnamed>>

_on_delete_button_pressed(e) ==
  LET p == current_path[e] IN
  /\ pc[e] = "idle"
  /\ p \in FilesAt(mounted)
  /\ Remove(e, p[2])
  /\ Shows(e, Untitled, Empty)
  /\ listed' = [listed EXCEPT ![e] = FilesAt(Home) \ {p}]
  /\ UNCHANGED pc

(* The window is closed, or the program dies in the middle of a save. The  *)
(* next one starts afresh.                                                 *)
Quit(e) ==
  /\ pc[e] # "closed"
  /\ pc' = [pc EXCEPT ![e] = "closed"]
  /\ saved' = [n \in Names |-> IF Writes(e, n) THEN Torn ELSE saved[n]]
  /\ handle' = [handle EXCEPT ![e] = FALSE]
  /\ Shows(e, Untitled, Empty)
  /\ Lists(e, {})
  /\ view' = [view EXCEPT ![e] = "clean"]
  /\ UNCHANGED <<mounted, disk, unwritten>>

Editor(e) ==
  \/ _ready(e) \/ Type(e) \/ _on_new_button_pressed(e)
  \/ _on_save_button_pressed(e) \/ Saved(e) \/ SavedAs(e)
  \/ _on_reload_button_pressed(e) \/ _on_delete_button_pressed(e) \/ Quit(e)
  \/ \E p \in Paths :
       \/ _open_file(e, p)
       \/ _on_save_file_dialog_file_selected(e, p)
       \/ SaveAsFails(e, p)

Next ==
  \/ \E e \in Editors : Editor(e)
  \/ \E m \in Mounts : Mount(m)
  \/ \E n \in Names : WriteBack(n)
  \/ Pull

Spec == Init /\ [][Next]_vars

-----------------------------------------------------------------------------
(* A file holds the text of its last save, whole, or nothing before that   *)
(* is stored, unless the save was torn: the stick was pulled, or the       *)
(* program died, in the middle of it (Control.gd:83-86 and 106-109         *)
(* truncate first and write later); another editor saved the file at the   *)
(* same time; the text did not fit; or the stick was pulled before the     *)
(* kernel had written it back, which the program does not wait for.        *)
WholeFiles == \A n \in Names : saved[n] \in {disk[n], Torn}

(* A text that has been opened, or saved whole, and not typed into since,  *)
(* is what the file holds that the window's title names, whatever happened *)
(* to the window, the stick and the file before, and until somebody else   *)
(* touches that file or the stick.                                         *)
ViewIsFile ==
  \A e \in Editors : \A n \in Names :
    /\ pc[e] = "idle"
    /\ view[e] = "clean"
    /\ ~misnamed[e]
    /\ current_path[e] = <<mounted, n>>
    => text[e] = disk[n]

(* The buttons are the files of the stick after any saves and deletes of   *)
(* this editor, and again after a reload when others have been at it, if   *)
(* the stick is mounted where the source says: reload looks nowhere else   *)
(* (Control.gd:94). Only a save to a path that did not open before, or to  *)
(* a file that others may have deleted, adds one without a button.         *)
ListIsStick ==
  \A e \in Editors :
    pc[e] = "idle" /\ ~stale[e] /\ mounted = Home => listed[e] = FilesAt(Home)

(* Save and delete act on the file that the window's title shows, unless a *)
(* "save as" has failed since it got that title: it has changed            *)
(* current_path without showing it (Control.gd:105).                       *)
ActsOnShown ==
  [][\A e \in Editors :
       _on_save_button_pressed(e) \/ _on_delete_button_pressed(e)
         => misnamed[e] \/ title[e] = current_path[e]]_vars
=============================================================================
