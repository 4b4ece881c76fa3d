-------------------------- MODULE FileEditorProofs --------------------------
(***************************************************************************)
(* What the stick may lose and what the windows show, for any number of    *)
(* editors, files and mount points.                                        *)
(***************************************************************************)
EXTENDS FileEditor, TLAPS

Saving(e) == pc[e] \in {"saving", "savingAs"}

(* What one window has to do with the stick.                               *)
WindowOK(e) ==
  /\ pc[e] = "closed" => current_path[e] = Untitled
  /\ handle[e] => Saving(e)
  /\ Saving(e) => current_path[e] \in Paths
  /\ pc[e] # "savingAs" /\ ~misnamed[e] => title[e] = current_path[e]

(* As long as nobody else touches its file: one being saved is empty until *)
(* its text is stored, the window's path names a file that is there, and a *)
(* text opened or saved whole is the file's.                               *)
UndisturbedOK(e) ==
  view[e] # "disturbed" =>
    /\ Saving(e) => /\ handle[e] /\ view[e] = "edited"
                    /\ current_path[e][1] = mounted /\ disk[current_path[e][2]] = Empty
    /\ ~misnamed[e] /\ current_path[e] # Untitled =>
         current_path[e][1] = mounted /\ disk[current_path[e][2]] # NoFile
    /\ ~misnamed[e] /\ pc[e] = "idle" /\ view[e] = "clean" /\ current_path[e] # Untitled =>
         text[e] = disk[current_path[e][2]]

(* The buttons, while a save to an old path is under way too.              *)
ListOK(e) ==
  pc[e] \in {"idle", "saving"} /\ ~stale[e] /\ mounted = Home => listed[e] = FilesAt(Home)

EditorOK(e) == WindowOK(e) /\ UndisturbedOK(e) /\ ListOK(e)

(* A file that is being written is there; if its save is not torn yet, it  *)
(* is empty and has one writer.                                            *)
OneWriter ==
  \A n \in Names : \A e \in Editors : Writes(e, n) =>
    /\ disk[n] # NoFile
    /\ saved[n] # Torn =>
         disk[n] = Empty /\ \A f \in Editors : Writes(f, n) => f = e

IndInv == TypeOK /\ WholeFiles /\ OneWriter /\ \A e \in Editors : EditorOK(e)

LEMMA Initially == Init => IndInv
<1> SUFFICES ASSUME Init
             PROVE  IndInv
  OBVIOUS
<1>1. TypeOK
  BY EditorAssumption DEF Init, TypeOK, Contents, PCs, Views, Empty
<1>2. WholeFiles /\ OneWriter
  BY DEF Init, WholeFiles, OneWriter, Writes
<1>3. \A e \in Editors : EditorOK(e)
  BY DEF Init, EditorOK, WindowOK, UndisturbedOK, ListOK, Saving
<1> QED
  BY <1>1, <1>2, <1>3 DEF IndInv

-----------------------------------------------------------------------------
(* Another window: it has not changed, and has noticed what has been done  *)
(* to the file it names and to the set of files.                           *)
LEMMA OthersKeep ==
  ASSUME TypeOK, NEW f \in Editors, EditorOK(f),
         pc'[f] = pc[f], current_path'[f] = current_path[f], title'[f] = title[f],
         text'[f] = text[f], listed'[f] = listed[f], misnamed'[f] = misnamed[f],
         handle'[f] => handle[f],
         current_path[f] \in Paths =>
           \/ view'[f] = "disturbed"
           \/ /\ view'[f] = view[f] /\ handle'[f] = handle[f] /\ mounted' = mounted
              /\ disk'[current_path[f][2]] = disk[current_path[f][2]],
         \/ pc[f] = "closed"
         \/ stale'[f]
         \/ stale'[f] = stale[f] /\ mounted' = mounted /\ FilesAt(Home)' = FilesAt(Home)
  PROVE  EditorOK(f)'
<1> USE DEF EditorOK
<1>1. WindowOK(f)'
  BY DEF WindowOK, Saving
<1>2. UndisturbedOK(f)'
  <2>1. CASE current_path[f] \in Paths
    BY <2>1 DEF UndisturbedOK, Saving
  <2>2. CASE current_path[f] = Untitled
    BY <2>2, EditorAssumption DEF UndisturbedOK, WindowOK, Saving, Paths
  <2> QED
    BY <2>1, <2>2 DEF TypeOK
<1>3. ListOK(f)'
  BY DEF ListOK
<1> QED
  BY <1>1, <1>2, <1>3

(* The files, when nobody opens or stores any: writers go, saves are torn. *)
LEMMA FilesKeep ==
  ASSUME WholeFiles, OneWriter,
         \A n \in Names :
           saved'[n] = Torn \/ (saved'[n] = saved[n] /\ disk'[n] = disk[n]),
         \A n \in Names, f \in Editors :
           Writes(f, n)' => Writes(f, n) /\ disk'[n] = disk[n]
  PROVE  WholeFiles' /\ OneWriter'
<1>1. WholeFiles'
  BY DEF WholeFiles
<1>2. OneWriter'
  BY DEF OneWriter
<1> QED
  BY <1>1, <1>2

(* The stick comes, goes, or is written to by the kernel.                  *)
LEMMA StickKeeps ==
  ASSUME IndInv, \/ \E m \in Mounts : Mount(m)
                 \/ \E n \in Names : WriteBack(n)
                 \/ Pull
  PROVE  IndInv'
<1> USE DEF IndInv
<1>1. CASE \E n \in Names : WriteBack(n)
  <2>1. /\ UNCHANGED <<mounted, disk, saved, windowVars, windowHistory>>
        /\ unwritten' \subseteq unwritten
    BY <1>1 DEF WriteBack
  <2>2. TypeOK'
    BY <2>1 DEF TypeOK, windowVars, windowHistory
  <2>3. WholeFiles' /\ OneWriter'
    BY <2>1, FilesKeep DEF windowVars, Writes
  <2>4. \A f \in Editors : EditorOK(f)'
    BY <2>1, OthersKeep DEF windowVars, windowHistory, FilesAt
  <2> QED
    BY <2>2, <2>3, <2>4
<1>2. CASE (\E m \in Mounts : Mount(m)) \/ Pull
  <2>1. TypeOK'
    BY <1>2 DEF Mount, Pull, TypeOK, windowVars, DisturbedAt, Outdated, Views
  <2>2. /\ UNCHANGED <<pc, current_path, text, title, listed, misnamed>>
        /\ \A f \in Editors :
             /\ current_path[f] \in Paths => view'[f] = "disturbed"
             /\ pc[f] # "closed" => stale'[f]
             /\ handle'[f] => handle[f]
    BY <1>2 DEF Mount, Pull, TypeOK, windowVars, DisturbedAt, Outdated
  <2>3. \A f \in Editors : EditorOK(f)'
    BY <2>2, OthersKeep
  <2>4. WholeFiles' /\ OneWriter'
    <3>1. CASE \E m \in Mounts : Mount(m)
      BY <3>1, FilesKeep DEF Mount, windowVars, Writes
    <3>2. CASE Pull
      BY <3>2, FilesKeep DEF Pull, Writes
    <3> QED
      BY <1>2, <3>1, <3>2
  <2> QED
    BY <2>1, <2>3, <2>4
<1> QED
  BY <1>1, <1>2

-----------------------------------------------------------------------------
(* What an action of one window leaves of the others.                      *)
Alone(e) ==
  \A f \in Editors : f # e =>
    /\ pc'[f] = pc[f] /\ current_path'[f] = current_path[f] /\ title'[f] = title[f]
    /\ text'[f] = text[f] /\ listed'[f] = listed[f] /\ misnamed'[f] = misnamed[f]
    /\ handle'[f] => handle[f]

(* The actions that do not write to the stick.                             *)
Reads(e) ==
  \/ _ready(e) \/ Type(e) \/ _on_new_button_pressed(e) \/ _on_reload_button_pressed(e)
  \/ Quit(e)
  \/ \E p \in Paths : _open_file(e, p) \/ SaveAsFails(e, p)

LEMMA ReadsType ==
  ASSUME TypeOK, NEW e \in Editors, Reads(e)
  PROVE  TypeOK'
<1> USE DEF TypeOK
<1>1. CASE _ready(e) \/ _on_reload_button_pressed(e)
  <2>1. FilesAt(mounted) \in SUBSET Paths /\ FilesAt(Home) \in SUBSET Paths
    BY DEF FilesAt
  <2>2. listed' \in [Editors -> SUBSET Paths] /\ stale' \in [Editors -> BOOLEAN]
    BY <1>1, <2>1 DEF _ready, _on_reload_button_pressed, Lists
  <2>3. pc' \in [Editors -> PCs]
    BY <1>1 DEF _ready, _on_reload_button_pressed, EditorGoes, PCs
  <2> QED
    BY <1>1, <2>2, <2>3 DEF _ready, _on_reload_button_pressed, stickVars
<1>2. CASE Type(e) \/ _on_new_button_pressed(e)
  <2>1. \A t \in Empty .. MaxText : t \in Contents
    BY EditorAssumption DEF Empty, Contents
  <2>2. text' \in [Editors -> Contents]
    BY <1>2, <2>1, EditorAssumption DEF Type, _on_new_button_pressed, Shows, Empty
  <2>3. view' \in [Editors -> Views]
    BY <1>2 DEF Type, _on_new_button_pressed, Views
  <2> QED
    BY <1>2, <2>2, <2>3 DEF Type, _on_new_button_pressed, Shows, stickVars
<1>3. CASE Quit(e)
  BY <1>3 DEF Quit, Shows, Lists, PCs, Views, Contents
<1>4. ASSUME NEW p \in Paths, _open_file(e, p)
      PROVE  TypeOK'
  <2>1. p[2] \in Names /\ disk[p[2]] # NoFile
    BY <1>4 DEF _open_file, FilesAt, Paths
  <2>2. disk[p[2]] \in Contents
    BY <2>1
  <2> QED
    BY <1>4, <2>2 DEF _open_file, Shows, Views, stickVars
<1>5. ASSUME NEW p \in Paths, SaveAsFails(e, p)
      PROVE  TypeOK'
  BY <1>5 DEF SaveAsFails, stickVars
<1> QED
  BY <1>1, <1>2, <1>3, <1>4, <1>5 DEF Reads

LEMMA ReadsKeep ==
  ASSUME IndInv, NEW e \in Editors, Reads(e)
  PROVE  IndInv'
<1> USE DEF IndInv
<1>1. TypeOK'
  BY ReadsType
<1>2. /\ UNCHANGED <<mounted, disk>>
      /\ \A n \in Names : saved'[n] = Torn \/ saved'[n] = saved[n]
      /\ Alone(e)
      /\ \A f \in Editors : f # e =>
           view'[f] = view[f] /\ handle'[f] = handle[f] /\ stale'[f] = stale[f]
  BY DEF Reads, _ready, Type, _on_new_button_pressed, _on_reload_button_pressed, Quit,
     _open_file, SaveAsFails, EditorGoes, Shows, Lists, Alone, TypeOK, stickVars
<1>3. ~handle'[e] /\ pc'[e] \in {"idle", "closed"}
  BY DEF Reads, _ready, Type, _on_new_button_pressed, _on_reload_button_pressed, Quit,
     _open_file, SaveAsFails, EditorGoes, TypeOK, EditorOK, WindowOK, Saving
<1>4. WholeFiles' /\ OneWriter'
  BY <1>2, <1>3, FilesKeep DEF Alone, Writes
<1>5. \A m : FilesAt(m)' = FilesAt(m)
  BY <1>2 DEF FilesAt
<1>6. \A f \in Editors : f # e => EditorOK(f)'
  BY <1>2, <1>5, OthersKeep DEF Alone
<1>7. EditorOK(e)'
  <2> USE DEF EditorOK, UndisturbedOK, WindowOK, ListOK, Saving, TypeOK
  <2>1. CASE _ready(e)
    <3>1. mounted = Home => listed'[e] = FilesAt(Home)
      BY <2>1 DEF _ready, Lists
    <3> QED
      BY <1>2, <1>3, <1>5, <2>1, <3>1 DEF _ready, EditorGoes
  <2>2. CASE Type(e)
    BY <1>2, <1>3, <1>5, <2>2 DEF Type
  <2>3. CASE _on_new_button_pressed(e)
    BY <1>2, <1>3, <1>5, <2>3 DEF _on_new_button_pressed, Shows
  <2>4. CASE _on_reload_button_pressed(e)
    BY <1>2, <1>3, <1>5, <2>4 DEF _on_reload_button_pressed, Lists
  <2>5. CASE Quit(e)
    BY <1>2, <1>3, <2>5 DEF Quit, Shows
  <2>6. ASSUME NEW p \in Paths, _open_file(e, p)
        PROVE  EditorOK(e)'
    <3>1. p[1] = mounted /\ disk[p[2]] # NoFile
      BY <2>6 DEF _open_file, FilesAt
    <3> QED
      BY <1>2, <1>3, <1>5, <2>6, <3>1 DEF _open_file, Shows
  <2>7. ASSUME NEW p \in Paths, SaveAsFails(e, p)
        PROVE  EditorOK(e)'
    BY <1>2, <1>3, <1>5, <2>7 DEF SaveAsFails
  <2> QED
    BY <2>1, <2>2, <2>3, <2>4, <2>5, <2>6, <2>7 DEF Reads
<1> QED
  BY <1>1, <1>4, <1>6, <1>7

(* The other windows notice what one does to a file: when it comes or goes *)
(* all that are open have old buttons.                                     *)
LEMMA TouchedKeep ==
  ASSUME IndInv, NEW e \in Editors, NEW n \in Names, Alone(e), mounted' = mounted,
         \A k \in Names : k # n => disk'[k] = disk[k],
         \A f \in Editors : f # e =>
           /\ view'[f] = DisturbedAt(PathsOf(n))[f]
           /\ handle'[f] # handle[f] => Writes(f, n)
           /\ \/ stale'[f] = Outdated(TRUE)[f]
              \/ stale'[f] = stale[f] /\ (disk'[n] = NoFile <=> disk[n] = NoFile)
  PROVE  \A f \in Editors : f # e => EditorOK(f)'
<1> SUFFICES ASSUME NEW f \in Editors, f # e
             PROVE  EditorOK(f)'
  OBVIOUS
<1> USE DEF IndInv
<1>1. current_path[f] \in Paths =>
        \/ view'[f] = "disturbed"
        \/ /\ view'[f] = view[f] /\ handle'[f] = handle[f] /\ mounted' = mounted
           /\ disk'[current_path[f][2]] = disk[current_path[f][2]]
  <2>1. CASE current_path[f] \in PathsOf(n)
    BY <2>1 DEF DisturbedAt
  <2>2. CASE current_path[f] \in Paths \ PathsOf(n)
    <3>1. current_path[f][2] \in Names \ {n}
      BY <2>2 DEF Paths, PathsOf
    <3>2. ~Writes(f, n)
      BY <3>1 DEF Writes
    <3> QED
      BY <2>2, <3>1, <3>2 DEF DisturbedAt
  <2> QED
    BY <2>1, <2>2
<1>2. \/ pc[f] = "closed"
      \/ stale'[f]
      \/ stale'[f] = stale[f] /\ mounted' = mounted /\ FilesAt(Home)' = FilesAt(Home)
  <2>1. CASE stale'[f] = Outdated(TRUE)[f]
    BY <2>1 DEF Outdated
  <2>2. CASE stale'[f] = stale[f] /\ (disk'[n] = NoFile <=> disk[n] = NoFile)
    <3>1. \A k \in Names : disk'[k] # NoFile <=> disk[k] # NoFile
      BY <2>2
    <3> QED
      BY <2>2, <3>1 DEF FilesAt, Paths
  <2> QED
    BY <2>1, <2>2
<1> QED
  BY <1>1, <1>2, OthersKeep DEF Alone

(* A file is opened for a save.                                            *)
Opens(e, p, to) ==
  /\ EditorGoes(e, "idle", to)
  /\ current_path' = [current_path EXCEPT ![e] = p]
  /\ OpenForWriting(e, p)
  /\ UNCHANGED <<mounted, text, title, listed, misnamed>>

LEMMA OpensKeep ==
  ASSUME IndInv, NEW e \in Editors, NEW p \in Paths, NEW to \in {"saving", "savingAs"},
         Opens(e, p, to), to = "saving" => p = current_path[e]
  PROVE  IndInv'
<1> DEFINE n == p[2]
<1> USE DEF IndInv, Opens, OpenForWriting, OpenAs
<1>1. n \in Names /\ p[1] = mounted
  BY DEF Paths
<1>2. /\ pc[e] = "idle" /\ pc'[e] = to /\ ~handle[e] /\ handle'[e]
      /\ current_path'[e] = p
      /\ disk' = [disk EXCEPT ![n] = Empty] /\ disk'[n] = Empty
      /\ Alone(e)
      /\ \A f \in Editors : f # e => handle'[f] = handle[f]
  BY <1>1 DEF EditorGoes, Alone, TypeOK, EditorOK, WindowOK, Saving
<1>3. TypeOK'
  <2>1. /\ disk' \in [Names -> Contents \union {NoFile}] /\ unwritten' \subseteq Names
        /\ saved' \in [Names -> Contents \union {NoFile, Torn}]
    BY <1>1, <1>2 DEF TypeOK, Contents
  <2>2. view' \in [Editors -> Views] /\ handle' \in [Editors -> BOOLEAN]
    BY DEF DisturbedAt, TypeOK, Views
  <2>3. pc' \in [Editors -> PCs] /\ stale' \in [Editors -> BOOLEAN]
    BY DEF EditorGoes, Outdated, TypeOK, PCs
  <2> QED
    BY <2>1, <2>2, <2>3 DEF TypeOK
<1>4. \A f \in Editors : \A k \in Names :
        Writes(f, k)' <=> IF f = e THEN k = n ELSE Writes(f, k)
  BY <1>2 DEF Writes, Alone
<1>5. /\ saved'[n] \in {Empty, Torn}
      /\ (\E f \in Editors : f # e /\ Writes(f, n)) => saved'[n] = Torn
      /\ \A k \in Names : k # n => saved'[k] = saved[k] /\ disk'[k] = disk[k]
  BY <1>1, <1>2 DEF TypeOK
<1>6. WholeFiles'
  BY <1>2, <1>5 DEF WholeFiles
<1>7. OneWriter'
  <2> SUFFICES ASSUME NEW k \in Names, NEW f \in Editors, Writes(f, k)'
               PROVE  /\ disk'[k] # NoFile
                      /\ saved'[k] # Torn =>
                           disk'[k] = Empty /\ \A g \in Editors : Writes(g, k)' => g = f
    BY DEF OneWriter
  <2>1. CASE k = n
    BY <1>2, <1>4, <1>5, <2>1 DEF Empty, NoFile
  <2>2. CASE k # n
    BY <1>4, <1>5, <2>2 DEF OneWriter
  <2> QED
    BY <2>1, <2>2
<1>8. \A f \in Editors : f # e => EditorOK(f)'
  <2>1. \A f \in Editors : f # e =>
          /\ view'[f] = DisturbedAt(PathsOf(n))[f]
          /\ stale'[f] = Outdated(disk[n] = NoFile)[f]
    BY DEF DisturbedAt, Outdated, TypeOK
  <2>2. \A f \in Editors : f # e =>
          \/ stale'[f] = Outdated(TRUE)[f]
          \/ stale'[f] = stale[f] /\ (disk'[n] = NoFile <=> disk[n] = NoFile)
    <3>1. CASE disk[n] = NoFile
      BY <2>1, <3>1 DEF Outdated
    <3>2. CASE disk[n] # NoFile
      <4>1. disk'[n] # NoFile
        BY <1>2 DEF Empty, NoFile
      <4>2. \A f \in Editors : Outdated(FALSE)[f] = stale[f]
        BY DEF Outdated, TypeOK
      <4>3. (disk[n] = NoFile) = FALSE
        BY <3>2
      <4> QED
        BY <2>1, <3>2, <4>1, <4>2, <4>3
    <3> QED
      BY <3>1, <3>2
  <2>3. /\ mounted' = mounted /\ Alone(e)
        /\ \A k \in Names : k # n => disk'[k] = disk[k]
    BY <1>2, <1>5
  <2>4. \A f \in Editors : f # e =>
          /\ view'[f] = DisturbedAt(PathsOf(n))[f]
          /\ handle'[f] # handle[f] => Writes(f, n)
          /\ \/ stale'[f] = Outdated(TRUE)[f]
             \/ stale'[f] = stale[f] /\ (disk'[n] = NoFile <=> disk[n] = NoFile)
    BY <1>2, <2>1, <2>2
  <2> HIDE DEF n, IndInv, Opens
  <2> QED
    BY <1>1, <2>3, <2>4, TouchedKeep
<1>9. WindowOK(e)'
  BY <1>2 DEF EditorOK, WindowOK, Saving
<1>10. UndisturbedOK(e)'
  <2>1. view'[e] = "edited" /\ mounted' = mounted
    BY DEF DisturbedAt
  <2>2. Empty # NoFile /\ to # "idle"
    BY DEF Empty, NoFile
  <2> HIDE DEF IndInv, Opens
  <2> QED
    BY <1>1, <1>2, <2>1, <2>2 DEF UndisturbedOK, Saving
<1>11. ListOK(e)'
  <2> SUFFICES ASSUME to = "saving", ~stale'[e], mounted = Home
               PROVE  listed'[e] = FilesAt(Home)'
    BY <1>2 DEF ListOK
  <2>1. ~stale[e] /\ ~misnamed[e] /\ view[e] # "disturbed"
    BY DEF Outdated, TypeOK
  <2>2. p # Untitled
    BY EditorAssumption DEF Paths
  <2>3. disk[n] # NoFile
    BY <2>1, <2>2 DEF EditorOK, UndisturbedOK
  <2>4. FilesAt(Home)' = FilesAt(Home)
    BY <1>2, <1>5, <2>3 DEF FilesAt, Paths, Empty, NoFile
  <2> QED
    BY <1>2, <2>1, <2>4 DEF EditorOK, ListOK
<1> QED
  BY <1>3, <1>6, <1>7, <1>8, <1>9, <1>10, <1>11 DEF EditorOK

(* A text is stored, or the file for it has gone.                          *)
LEMMA StoresKeep ==
  ASSUME IndInv, NEW e \in Editors, Saved(e) \/ SavedAs(e)
  PROVE  IndInv'
<1> DEFINE n == current_path[e][2]
<1> USE DEF IndInv
<1>1. /\ Saving(e) /\ current_path[e] \in Paths /\ n \in Names
      /\ pc' = [pc EXCEPT ![e] = "idle"] /\ pc'[e] = "idle"
      /\ UNCHANGED <<mounted, text, current_path>>
      /\ misnamed' = misnamed \/ misnamed' = [misnamed EXCEPT ![e] = FALSE]
      /\ title' = title \/ title' = [title EXCEPT ![e] = current_path[e]]
      /\ listed' = listed \/ listed' = [listed EXCEPT ![e] = FilesAt(Home)]
      /\ stale' = stale \/ stale' = [stale EXCEPT ![e] = FALSE]
      /\ handle' = [handle EXCEPT ![e] = FALSE] /\ ~handle'[e]
      /\ StoreText(e)
  <2>1. Saving(e)
    BY DEF Saved, SavedAs, EditorGoes, Saving
  <2>2. current_path[e] \in Paths /\ n \in Names
    BY <2>1 DEF EditorOK, WindowOK, Paths
  <2>3. UNCHANGED <<text, current_path>>
    BY DEF Saved, SavedAs, Shows, TypeOK
  <2> QED
    BY <2>1, <2>2, <2>3 DEF Saved, SavedAs, EditorGoes, StoreText, Shows, Lists, TypeOK
<1>2. /\ Alone(e)
      /\ \A f \in Editors : f # e => handle'[f] = handle[f] /\ stale'[f] = stale[f]
  BY <1>1 DEF Alone, TypeOK
<1>3. /\ \A f \in Editors : \A k \in Names : Writes(f, k)' <=> f # e /\ Writes(f, k)
      /\ handle[e] => Writes(e, n)
  BY <1>1, <1>2 DEF Writes
<1>4. WindowOK(e)'
  <2>1. CASE Saved(e)
    BY <1>1, <2>1 DEF Saved, EditorGoes, EditorOK, WindowOK, Saving
  <2>2. CASE SavedAs(e)
    BY <1>1, <2>2 DEF SavedAs, Shows, WindowOK, Saving, TypeOK
  <2> QED
    BY <2>1, <2>2
<1>5. /\ title' \in [Editors -> Paths \union {Untitled}]
      /\ listed' \in [Editors -> SUBSET Paths]
      /\ stale' \in [Editors -> BOOLEAN] /\ misnamed' \in [Editors -> BOOLEAN]
      /\ pc' \in [Editors -> PCs] /\ handle' \in [Editors -> BOOLEAN]
  <2>1. FilesAt(Home) \in SUBSET Paths
    BY DEF FilesAt
  <2>2. listed' \in [Editors -> SUBSET Paths]
    BY <1>1, <2>1 DEF TypeOK
  <2> QED
    BY <1>1, <2>2 DEF TypeOK, PCs
<1>6. ListOK(e)' \/ FilesAt(Home)' # FilesAt(Home)
  <2>1. CASE Saved(e)
    BY <1>1, <2>1 DEF Saved, EditorGoes, EditorOK, ListOK
  <2>2. CASE SavedAs(e)
    BY <1>1, <2>2 DEF SavedAs, Lists, ListOK, TypeOK
  <2> QED
    BY <2>1, <2>2
<1>7. CASE ~handle[e]
  <2>1. UNCHANGED <<disk, unwritten, saved, view>>
    BY <1>7, <1>1 DEF Saved, SavedAs, StoreText
  <2>2. TypeOK'
    BY <1>1, <1>5, <2>1 DEF TypeOK
  <2>3. WholeFiles' /\ OneWriter'
    BY <1>1, <1>3, <2>1, FilesKeep
  <2>4. FilesAt(Home)' = FilesAt(Home)
    BY <1>1, <2>1 DEF FilesAt
  <2>5. UndisturbedOK(e)'
    BY <1>1, <1>7, <2>1 DEF EditorOK, UndisturbedOK
  <2>6. \A f \in Editors : f # e => EditorOK(f)'
    BY <1>1, <1>2, <2>1, <2>4, OthersKeep DEF Alone
  <2> QED
    BY <1>4, <1>6, <2>2, <2>3, <2>4, <2>5, <2>6 DEF EditorOK
<1>8. CASE handle[e]
  <2>1. PICK t \in Parts(text[e]) :
          /\ disk' = [disk EXCEPT ![n] = WrittenOver(@, t)]
          /\ unwritten' = unwritten \union {n}
          /\ saved' = [saved EXCEPT ![n] =
               IF t = text[e] /\ saved[n] # Torn THEN t ELSE Torn]
          /\ view' = [DisturbedAt(PathsOf(n)) EXCEPT ![e] =
               IF t = text[e] /\ view[e] # "disturbed" THEN "clean" ELSE view[e]]
    BY <1>8, <1>1 DEF StoreText
  <2>2. t \in Contents
    BY <2>1, EditorAssumption DEF Parts, Contents, Empty, Mixed, TypeOK
  <2>3. Writes(e, n) /\ disk[n] # NoFile
    BY <1>1, <1>3, <1>8 DEF OneWriter
  <2>4. /\ disk'[n] \in Contents /\ disk'[n] # NoFile
        /\ disk[n] = Empty => disk'[n] = t
        /\ \A k \in Names : k # n => disk'[k] = disk[k] /\ saved'[k] = saved[k]
    <3>1. disk'[n] = WrittenOver(disk[n], t) /\ disk[n] \in Contents
      BY <1>1, <2>1, <2>3 DEF TypeOK
    <3>2. WrittenOver(disk[n], t) \in Contents /\ (disk[n] = Empty => WrittenOver(disk[n], t) = t)
      BY <2>2, <3>1 DEF WrittenOver, Contents
    <3>3. NoFile \notin Contents
      BY DEF Contents, Empty, Mixed, NoFile
    <3> QED
      BY <1>1, <2>1, <3>1, <3>2, <3>3 DEF TypeOK
  <2>5. TypeOK'
    <3>1. /\ disk' \in [Names -> Contents \union {NoFile}]
          /\ saved' \in [Names -> Contents \union {NoFile, Torn}]
          /\ unwritten' \subseteq Names
      BY <1>1, <2>1, <2>2, <2>4 DEF TypeOK
    <3>2. view' \in [Editors -> Views]
      BY <2>1 DEF DisturbedAt, TypeOK, Views
    <3> QED
      BY <1>1, <1>5, <3>1, <3>2 DEF TypeOK
  <2>6. saved[n] # Torn => disk[n] = Empty /\ \A f \in Editors : Writes(f, n) => f = e
    BY <1>1, <2>3 DEF OneWriter
  <2>7. saved'[n] # Torn => saved[n] # Torn /\ saved'[n] = t
    BY <1>1, <2>1 DEF TypeOK
  <2>8. WholeFiles'
    <3> SUFFICES ASSUME NEW k \in Names, saved'[k] # Torn
                 PROVE  saved'[k] = disk'[k]
      BY DEF WholeFiles
    <3>1. CASE k = n
      BY <2>4, <2>6, <2>7, <3>1
    <3>2. CASE k # n
      BY <2>4, <3>2 DEF WholeFiles
    <3> QED
      BY <3>1, <3>2
  <2>9. OneWriter'
    <3> SUFFICES ASSUME NEW k \in Names, NEW f \in Editors, Writes(f, k)'
                 PROVE  /\ disk'[k] # NoFile
                        /\ saved'[k] # Torn =>
                             disk'[k] = Empty /\ \A g \in Editors : Writes(g, k)' => g = f
      BY DEF OneWriter
    <3>1. Writes(f, k) /\ f # e
      BY <1>3
    <3>2. CASE k = n
      BY <2>4, <2>6, <2>7, <3>1, <3>2
    <3>3. CASE k # n
      BY <1>3, <2>4, <3>1, <3>3 DEF OneWriter
    <3> QED
      BY <3>2, <3>3
  <2>10. \A f \in Editors : f # e => EditorOK(f)'
    <3>1. \A f \in Editors : f # e =>
            /\ view'[f] = DisturbedAt(PathsOf(n))[f]
            /\ handle'[f] # handle[f] => Writes(f, n)
            /\ \/ stale'[f] = Outdated(TRUE)[f]
               \/ stale'[f] = stale[f] /\ (disk'[n] = NoFile <=> disk[n] = NoFile)
      <4>1. \A f \in Editors : f # e => view'[f] = DisturbedAt(PathsOf(n))[f]
        BY <2>1 DEF DisturbedAt
      <4> QED
        BY <1>2, <2>3, <2>4, <4>1
    <3>2. \A k \in Names : k # n => disk'[k] = disk[k]
      BY <2>4
    <3>3. mounted' = mounted
      BY <1>1
    <3> HIDE DEF n, IndInv
    <3> QED
      BY <1>1, <1>2, <3>1, <3>2, <3>3, TouchedKeep
  <2>11. UndisturbedOK(e)'
    <3>1. view'[e] = IF t = text[e] /\ view[e] # "disturbed" THEN "clean" ELSE view[e]
      BY <2>1 DEF DisturbedAt
    <3> SUFFICES ASSUME view[e] # "disturbed"
                 PROVE  UndisturbedOK(e)'
      BY <3>1 DEF UndisturbedOK
    <3>2. disk[n] = Empty /\ view[e] = "edited" /\ current_path[e][1] = mounted
      BY <1>1 DEF EditorOK, UndisturbedOK
    <3>3. view'[e] = "clean" => disk'[n] = text[e]
      BY <2>4, <3>1, <3>2
    <3> QED
      BY <1>1, <2>4, <3>1, <3>2, <3>3 DEF UndisturbedOK, Saving
  <2>12. FilesAt(Home)' = FilesAt(Home)
    <3>1. \A k \in Names : disk'[k] # NoFile <=> disk[k] # NoFile
      BY <2>3, <2>4
    <3> QED
      BY <1>1, <3>1 DEF FilesAt, Paths
  <2> QED
    BY <1>4, <1>6, <2>5, <2>8, <2>9, <2>10, <2>11, <2>12 DEF EditorOK
<1> QED
  BY <1>7, <1>8

(* The file the window names is deleted.                                   *)
LEMMA DeleteKeeps ==
  ASSUME IndInv, NEW e \in Editors, _on_delete_button_pressed(e)
  PROVE  IndInv'
<1> DEFINE p == current_path[e]
           n == p[2]
<1> USE DEF IndInv
<1>1. /\ p \in FilesAt(mounted) /\ p \in Paths /\ n \in Names /\ p[1] = mounted
      /\ pc[e] = "idle" /\ ~handle[e] /\ UNCHANGED <<pc, mounted>>
      /\ Remove(e, n)
      /\ listed' = [listed EXCEPT ![e] = FilesAt(Home) \ {p}]
      /\ Shows(e, Untitled, Empty)
  BY DEF _on_delete_button_pressed, FilesAt, Paths, EditorOK, WindowOK, Saving, Remove
<1>2. /\ disk'[n] = NoFile /\ saved'[n] = NoFile
      /\ \A k \in Names : k # n => disk'[k] = disk[k] /\ saved'[k] = saved[k]
      /\ \A f \in Editors : handle'[f] <=> handle[f] /\ ~Writes(f, n)
  BY <1>1 DEF Remove, TypeOK
<1>3. Alone(e)
  BY <1>1, <1>2 DEF Alone, Shows, TypeOK
<1>4. TypeOK'
  <2>1. FilesAt(Home) \in SUBSET Paths
    BY DEF FilesAt
  <2>2. /\ disk' \in [Names -> Contents \union {NoFile}] /\ unwritten' \subseteq Names
        /\ saved' \in [Names -> Contents \union {NoFile, Torn}]
    BY <1>1 DEF Remove, TypeOK
  <2>3. /\ view' \in [Editors -> Views] /\ handle' \in [Editors -> BOOLEAN]
        /\ stale' \in [Editors -> BOOLEAN]
    BY <1>1 DEF Remove, DisturbedAt, Outdated, TypeOK, Views
  <2> QED
    BY <1>1, <2>1, <2>2, <2>3 DEF Shows, TypeOK, Contents
<1>5. \A f \in Editors : \A k \in Names : Writes(f, k)' <=> k # n /\ Writes(f, k)
  <2>1. \A f \in Editors : f # e => current_path'[f] = current_path[f]
    BY <1>3 DEF Alone
  <2>2. \A f \in Editors : Writes(f, n) => f # e
    BY <1>1 DEF Writes
  <2> QED
    BY <1>1, <1>2, <2>1, <2>2 DEF Writes
<1>6. WholeFiles' /\ OneWriter'
  BY <1>1, <1>2, <1>5 DEF WholeFiles, OneWriter
<1>7. \A f \in Editors : f # e => EditorOK(f)'
  <2>1. \A f \in Editors : f # e =>
          /\ view'[f] = DisturbedAt(PathsOf(n))[f]
          /\ handle'[f] # handle[f] => Writes(f, n)
          /\ stale'[f] = Outdated(TRUE)[f]
    <3>1. \A f \in Editors : f # e =>
            view'[f] = DisturbedAt(PathsOf(n))[f] /\ stale'[f] = Outdated(TRUE)[f]
      BY <1>1 DEF Remove, DisturbedAt, Outdated
    <3>2. \A f \in Editors : ~Writes(f, n) => handle'[f] = handle[f]
      BY <1>1 DEF Remove, TypeOK
    <3> QED
      BY <3>1, <3>2
  <2>2. /\ mounted' = mounted
        /\ \A k \in Names : k # n => disk'[k] = disk[k]
    BY <1>1, <1>2
  <2> HIDE DEF n, IndInv
  <2> QED
    BY <1>1, <1>3, <2>1, <2>2, TouchedKeep
<1>8. /\ current_path'[e] = Untitled /\ title'[e] = Untitled /\ ~handle'[e]
      /\ listed'[e] = FilesAt(Home) \ {p} /\ pc'[e] = "idle"
  BY <1>1, <1>2 DEF Shows, TypeOK
<1>9. mounted = Home => FilesAt(Home)' = FilesAt(Home) \ {p}
  <2> SUFFICES ASSUME mounted = Home
               PROVE  \A q \in Paths : q \in FilesAt(Home)' <=> q \in FilesAt(Home) \ {p}
    BY DEF FilesAt
  <2> SUFFICES ASSUME NEW q \in Paths
               PROVE  q \in FilesAt(Home)' <=> q \in FilesAt(Home) \ {p}
    OBVIOUS
  <2>1. q[1] = Home /\ q[2] = n <=> q = p /\ p[1] = Home
    BY <1>1 DEF Paths
  <2> QED
    BY <1>1, <1>2, <2>1 DEF FilesAt, Paths
<1>10. EditorOK(e)'
  BY <1>1, <1>8, <1>9 DEF EditorOK, WindowOK, UndisturbedOK, ListOK, Saving
<1> QED
  BY <1>4, <1>6, <1>7, <1>10

-----------------------------------------------------------------------------
LEMMA NextKeeps == IndInv /\ [Next]_vars => IndInv'
<1>1. ASSUME IndInv, NEW e \in Editors, Editor(e)
      PROVE  IndInv'
  <2>1. CASE Reads(e)
    BY <1>1, <2>1, ReadsKeep
  <2>2. CASE _on_save_button_pressed(e)
    <3>1. current_path[e] \in Paths
      BY <1>1, <2>2 DEF _on_save_button_pressed, IndInv, TypeOK
    <3>2. Opens(e, current_path[e], "saving")
      BY <1>1, <2>2 DEF _on_save_button_pressed, Opens, IndInv, TypeOK
    <3> QED
      BY <1>1, <3>1, <3>2, OpensKeep
  <2>3. ASSUME NEW p \in Paths, _on_save_file_dialog_file_selected(e, p)
        PROVE  IndInv'
    <3>1. Opens(e, p, "savingAs")
      BY <2>3 DEF _on_save_file_dialog_file_selected, Opens
    <3> QED
      BY <1>1, <3>1, OpensKeep
  <2>4. CASE Saved(e) \/ SavedAs(e)
    BY <1>1, <2>4, StoresKeep
  <2>5. CASE _on_delete_button_pressed(e)
    BY <1>1, <2>5, DeleteKeeps
  <2> QED
    BY <1>1, <2>1, <2>2, <2>3, <2>4, <2>5 DEF Editor, Reads
<1>2. ASSUME IndInv, UNCHANGED vars
      PROVE  IndInv'
  <2>1. /\ UNCHANGED <<mounted, disk, unwritten, saved, misnamed, view, stale>>
        /\ UNCHANGED <<pc, current_path, text, title, listed, handle>>
    BY <1>2 DEF vars, stickVars, windowVars, windowHistory
  <2>2. TypeOK'
    BY <1>2, <2>1 DEF IndInv, TypeOK
  <2>3. WholeFiles' /\ OneWriter'
    BY <1>2, <2>1, FilesKeep DEF IndInv, Writes
  <2>4. \A f \in Editors : EditorOK(f)'
    BY <1>2, <2>1, OthersKeep DEF IndInv, FilesAt
  <2> QED
    BY <2>2, <2>3, <2>4 DEF IndInv
<1> QED
  BY <1>1, <1>2, StickKeeps DEF Next

(* The inductive invariant holds for any editors, names and texts.         *)
THEOREM Invariance == Spec => []IndInv
BY Initially, NextKeeps, PTL DEF Spec

(* Every variable keeps its type.                                          *)
THEOREM TypeCorrect == Spec => []TypeOK
<1>1. IndInv => TypeOK
  BY DEF IndInv
<1> QED
  BY <1>1, Invariance, PTL

(* A file holds the text of its last save, or nothing before that is       *)
(* stored, unless that save was torn: by another editor, by the end of the *)
(* program, by a full stick, or by a stick pulled before it was written.   *)
THEOREM FilesAreWhole == Spec => []WholeFiles
<1>1. IndInv => WholeFiles
  BY DEF IndInv
<1> QED
  BY <1>1, Invariance, PTL

(* A text opened, or saved whole, and not typed into since is that of the  *)
(* file the title names, until somebody else touches that file or the      *)
(* stick is put in or pulled.                                              *)
THEOREM ViewsAreFiles == Spec => []ViewIsFile
<1>1. IndInv => ViewIsFile
  <2> SUFFICES ASSUME IndInv, NEW e \in Editors, NEW n \in Names,
                      pc[e] = "idle", view[e] = "clean", ~misnamed[e],
                      current_path[e] = <<mounted, n>>
               PROVE  text[e] = disk[n]
    BY DEF ViewIsFile
  <2>1. mounted \in Mounts \union {NoMount}
    BY DEF IndInv, TypeOK
  <2>2. current_path[e] # Untitled /\ current_path[e][2] = n
    BY <2>1, EditorAssumption
  <2>3. UndisturbedOK(e)
    BY DEF IndInv, EditorOK
  <2> QED
    BY <2>2, <2>3 DEF UndisturbedOK
<1> QED
  BY <1>1, Invariance, PTL

(* The buttons are the files of the stick, at the place the source knows,  *)
(* from each reload or "save as" until others change the set of files.     *)
THEOREM ListsAreSticks == Spec => []ListIsStick
<1>1. IndInv => ListIsStick
  BY DEF IndInv, EditorOK, ListIsStick, ListOK
<1> QED
  BY <1>1, Invariance, PTL

(* Save and delete act on the file that the title shows.                   *)
THEOREM ActionsAreShown == Spec => ActsOnShown
<1>1. IndInv /\ [Next]_vars =>
        [\A e \in Editors :
           _on_save_button_pressed(e) \/ _on_delete_button_pressed(e)
             => misnamed[e] \/ title[e] = current_path[e]]_vars
  BY DEF IndInv, EditorOK, WindowOK, _on_save_button_pressed, _on_delete_button_pressed,
     EditorGoes
<1> QED
  BY <1>1, Invariance, PTL DEF Spec, ActsOnShown
=============================================================================
