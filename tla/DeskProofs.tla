----------------------------- MODULE DeskProofs -----------------------------
(***************************************************************************)
(* Proofs about the window of the applying program. The files it shares    *)
(* lose nothing: the library's index, which the "Add to LinWallpaper"      *)
(* command writes too, and Thunar's custom actions, which Thunar writes    *)
(* too. The window tells the truth: each card previews what its Apply      *)
(* would send, the record of a privileged surface is what was installed    *)
(* there, and the switch of the menu shows whether the entry is there. A   *)
(* surface's fit changes by a choice only. Undo gives back the desktop     *)
(* before the apply. And the state has its types.                          *)
(***************************************************************************)
EXTENDS Desk, TLAPS, FiniteSetTheorems, WellFoundedInduction

-----------------------------------------------------------------------------
\* Induction, and the extremes of a set of numbers.

\* Induction on the natural numbers, for a set of them: the library's theorems
\* take the induction hypothesis as an operator.

LEMMA LessIsWellFounded ==
    IsWellFoundedOn({x \in Nat \X Nat : x[1] < x[2]}, Nat)
<1>. SUFFICES ASSUME NEW f \in [Nat -> Nat],
                     \A n \in Nat : <<f[n + 1], f[n]>> \in {x \in Nat \X Nat : x[1] < x[2]}
              PROVE FALSE
  BY DEF IsWellFoundedOn
<1>. QED
  BY NatLessThanWellFounded DEF OpToRel, IsWellFoundedOn

\* A set of natural numbers has a least one.
LEMMA LeastNumber ==
    ASSUME NEW T \in SUBSET Nat, T # {}
    PROVE  \E x \in T : \A y \in T : x <= y
<1>. DEFINE R == {x \in Nat \X Nat : x[1] < x[2]}
<1>1. \E x \in T : \A y \in T : <<y, x>> \notin R
  <2>. HIDE DEF R
  <2>1. IsWellFoundedOn(R, Nat)
    BY LessIsWellFounded DEF R
  <2>. QED
    BY <2>1, WFMin
<1>2. PICK x \in T : \A y \in T : <<y, x>> \notin R
  BY <1>1
<1>3. \A y \in T : x <= y
  <2>. TAKE y \in T
  <2>1. x \in Nat /\ y \in Nat
    OBVIOUS
  <2>2. <<y, x>> \notin R
    BY <1>2
  <2>3. ~(y < x)
    BY <2>1, <2>2
  <2>. QED
    BY <2>1, <2>3
<1>. QED
  BY <1>3

\* Induction: a set with 0 and the successor of each of its numbers has all.
LEMMA SetInduction ==
    ASSUME NEW T, 0 \in T, \A n \in Nat : n \in T => n + 1 \in T
    PROVE  Nat \subseteq T
<1>. SUFFICES ASSUME Nat \ T # {} PROVE FALSE
  OBVIOUS
<1>1. PICK x \in Nat \ T : \A y \in Nat \ T : x <= y
  BY LeastNumber
<1>2. x # 0
  OBVIOUS
<1>3. x - 1 \in Nat /\ x - 1 \in T
  BY <1>1, <1>2
<1>. QED
  BY <1>3

\* Max and Min of the numbers below a bound.
LEMMA MaxIsIn ==
    ASSUME NEW b \in Nat, NEW T \in SUBSET (0 .. b), T # {}
    PROVE  Max(T) \in T /\ \A x \in T : x <= Max(T)
<1>. DEFINE above == {n \in Nat : \A x \in T : x <= n}
<1>1. b \in above
  OBVIOUS
<1>2. PICK m \in above : \A n \in above : m <= n
  BY <1>1, LeastNumber
<1>3. m \in T
  <2>. SUFFICES ASSUME m \notin T PROVE FALSE
    OBVIOUS
  <2>1. \A x \in T : x \in Nat /\ x <= m /\ x # m
    BY <1>2
  <2>2. m \in Nat /\ m # 0
    <3>1. PICK x \in T : TRUE
      OBVIOUS
    <3>. QED
      BY <2>1, <3>1
  <2>3. m - 1 \in Nat /\ \A x \in T : x <= m - 1
    BY <2>1, <2>2
  <2>4. m - 1 \in above
    BY <2>3
  <2>. QED
    BY <1>2, <2>2, <2>4
<1>4. \E x \in T : \A y \in T : x >= y
  BY <1>2, <1>3
<1>. QED
  BY <1>4 DEF Max

LEMMA MinIsIn ==
    ASSUME NEW T \in SUBSET Nat, T # {}
    PROVE  Min(T) \in T
BY LeastNumber DEF Min

-----------------------------------------------------------------------------
\* What the steps of the window are to the library and to the menus.

LibraryStep ==
  \/ \E ps : AddInWindow(ps) \/ CommandLoads(ps)
  \/ \E i \in Picture : RemoveInWindow(i)
  \/ CommandAdds
  \/ \E p \in Process : WriteSave(p) \/ RenameSave(p) \/ SaveFails(p)
  \/ IndexChanged
  \/ MainLoopFree /\ (RefreshPage \/ OpenPicker)
  \/ RestartLibrary
  \/ UNCHANGED libraryVars

MenuStep ==
  \/ Toggle \/ MergeDone \/ MergeFails \/ UcaSpoilt \/ MenusStart(machine)
  \/ \E x \in Own : ThunarWrites(x)
  \/ UNCHANGED menuVars

LEMMA Steps ==
  ASSUME [Next]_vars
  PROVE  LibraryStep /\ MenuStep
<1>1. CASE UNCHANGED vars
  BY <1>1 DEF vars, besideVars, LibraryStep, MenuStep
<1>2. CASE \E i \in Picture : SetGlobalImage(i) \/ UseInScreens(i) \/ ApplyTile(i)
  BY <1>2 DEF SetGlobalImage, UseInScreens, ApplyTile, Notify, Ready, LoopFree, besideVars,
              LibraryStep, MenuStep
<1>3. CASE \E p \in Picture \cup {Unusable} : LoadImage(p)
  BY <1>3 DEF LoadImage, SetGlobalImage, Notify, Ready, LoopFree, LibraryStep, MenuStep
<1>4. CASE \E key \in Surface, i \in Picture : SetSurfaceImage(key, i)
  BY <1>4 DEF SetSurfaceImage, besideVars, LibraryStep, MenuStep
<1>5. CASE \E key \in Surface, f \in Fits : FitCard(key, f)
  BY <1>5 DEF FitCard, besideVars, LibraryStep, MenuStep
<1>6. CASE \E f \in Fits : FitAll(f) \/ DefaultFit(f)
  BY <1>6 DEF FitAll, DefaultFit, Notify, Ready, LoopFree, besideVars, LibraryStep, MenuStep
<1>7. CASE Pick \/ ShowScreens \/ ShowWallpaper
  BY <1>7 DEF Pick, ShowScreens, ShowWallpaper, Ready, LoopFree, besideVars, LibraryStep, MenuStep
<1>8. CASE \E key \in Surface : ApplyCard(key) \/ ApplyPrivileged(key)
  BY <1>8 DEF ApplyCard, ApplyPrivileged, besideVars, LibraryStep, MenuStep
<1>9. CASE ApplyAll \/ Undo \/ ToastExpires \/ ChosenElsewhere \/ CancelDialog \/ SubmitDialog
  BY <1>9 DEF ApplyAll, Undo, ToastExpires, ChosenElsewhere, CancelDialog, SubmitDialog,
              besideVars, LibraryStep, MenuStep
<1>10. CASE \E h \in helpers :
              HelperInstalls(h) \/ HelperRefused(h) \/ HelperBreaks(h) \/ HelperTimesOut(h) \/ HelperExits(h)
  BY <1>10 DEF HelperInstalls, HelperRefused, HelperBreaks, HelperTimesOut, HelperExits, besideVars,
               LibraryStep, MenuStep
<1>11. CASE RecordApplied \/ Restart
  BY <1>11 DEF RecordApplied, Restart, besideVars, LibraryStep, MenuStep
<1>12. CASE AddFiles \/ RemoveTile \/ CommandStarts \/ CommandSaves \/ Saves \/ SaveIsRefused
            \/ IndexReported
  BY <1>12 DEF AddFiles, RemoveTile, CommandStarts, CommandSaves, Saves, SaveIsRefused,
               IndexReported, LibraryStep, MenuStep
<1>13. CASE MoveSwitch \/ MenuChanged \/ MenuRefused \/ ThunarChanges
  BY <1>13 DEF MoveSwitch, MenuChanged, MenuRefused, ThunarChanges, otherVars,
               LibraryStep, MenuStep
<1>14. QED
  BY <1>1, <1>2, <1>3, <1>4, <1>5, <1>6, <1>7, <1>8, <1>9, <1>10, <1>11, <1>12, <1>13 DEF Next

-----------------------------------------------------------------------------
\* Thunar's actions.

\* Unless Thunar crossed the program, its readable file has the user's actions, and
\* a change under way has read what is there.
MenuInv ==
  /\ own \subseteq Own
  /\ ~crossed =>
       /\ ~ucaBad => uca \ {Entry} = own
       /\ merging # None /\ provider = "thunar" => ~ucaBad /\ merging.read = uca

LEMMA MenuInit == Init => MenuInv
BY DeskAssumption DEF Init, MenusInit, MenuInv

LEMMA MenuKept ==
  ASSUME MenuInv, MenuStep
  PROVE  MenuInv'
<1>1. CASE Toggle
  BY <1>1 DEF Toggle, Begin, Root, MenuInv
<1>2. CASE MergeDone
  BY <1>2 DEF MergeDone, Merged, Writes, MenuInv
<1>3. CASE MergeFails
  <2>1. UNCHANGED <<own, uca, ucaBad, provider>> /\ (crossed => crossed')
        /\ (merging' # None /\ provider = "thunar" /\ ucaBad => crossed')
    BY <1>3 DEF MergeFails
  <2>2. merging' # None /\ provider = "thunar" => merging'.read = Root(uca, ucaBad)
    BY <1>3 DEF MergeFails, Begin
  <2>3. QED
    BY <2>1, <2>2 DEF Root, MenuInv
<1>4. CASE UcaSpoilt
  BY <1>4 DEF UcaSpoilt, MenuInv
<1>5. CASE MenusStart(machine)
  BY <1>5 DEF MenusStart, MenuInv
<1>6. CASE \E x \in Own : ThunarWrites(x)
  <2>1. PICK x \in Own : ThunarWrites(x)
    BY <1>6
  <2>2. own' \subseteq Own /\ ~ucaBad' /\ (merging # None => crossed') /\ merging' = merging
    BY <2>1 DEF ThunarWrites, MenuInv
  <2>3. uca' \ {Entry} = own'
    BY <2>1, <2>2, DeskAssumption DEF ThunarWrites
  <2>4. QED
    BY <2>1, <2>2, <2>3 DEF MenuInv
<1>7. CASE UNCHANGED menuVars
  BY <1>7 DEF menuVars, MenuInv
<1>8. QED
  BY <1>1, <1>2, <1>3, <1>4, <1>5, <1>6, <1>7 DEF MenuStep

-----------------------------------------------------------------------------
\* The library.

Save == [stage : {"open", "written"}, file : File, data : SUBSET Picture,
         added : SUBSET Picture, removed : SUBSET Picture]

\* The index is never the temporary file; a save under way has its file, and the
\* command adds to the list it has read.
LibraryTypes ==
  /\ names \in [{"index", "tmp"} -> File \cup {None}]
  /\ names["index"] = names["tmp"] => names["index"] = None
  /\ files \in [File -> (SUBSET Picture) \cup {None}]
  /\ cache \subseteq Picture
  /\ save = [p \in Process |-> save[p]]
  /\ \A p \in Process : Saving(save[p]) => save[p] \in Save
  /\ Saving(save["window"]) \/ MainLoopFree
  /\ save["command"].stage = "adding" =>
       save["command"].list \subseteq Picture /\ save["command"].base = save["command"].list

\* A save that is alone works on the temporary file, and its list is the index with
\* what is added or removed.
SaveInv(p) ==
  Saving(save[p]) =>
    /\ names["tmp"] = save[p].file
    /\ save[p].data = (wanted \cup save[p].added) \ save[p].removed
    /\ files[save[p].file] = IF save[p].stage = "open" THEN None ELSE save[p].data

LibraryInv ==
  /\ LibraryTypes
  /\ ~raced =>
       /\ Load(names, files) = wanted
       /\ ~(Saving(save["window"]) /\ Saving(save["command"]))
       /\ \A p \in Process : SaveInv(p)
       /\ Saving(save["window"]) => cache = save["window"].data
       /\ watching /\ ~told /\ MainLoopFree => cache = wanted /\ grid = Items(wanted)

LEMMA LibraryStarts == Init => LibraryInv
<1>1. SUFFICES ASSUME LibraryInit
               PROVE  LibraryInv
  BY DEF Init
<1>2. /\ names = [index |-> None, tmp |-> None] /\ files = [f \in File |-> None]
      /\ cache = {} /\ grid = Items({}) /\ wanted = {} /\ save = [p \in Process |-> NoSave]
  BY <1>1 DEF LibraryInit
<1>3. \A p \in Process : save[p] = NoSave /\ ~Saving(save[p])
  BY <1>2 DEF NoSave, Saving
<1>4. names \in [{"index", "tmp"} -> File \cup {None}] /\ names["index"] = None
      /\ names.index = None
  BY <1>2
<1>5. files \in [File -> (SUBSET Picture) \cup {None}]
  BY <1>2
<1>6. MainLoopFree /\ save["command"].stage = "idle"
  BY <1>3 DEF MainLoopFree, Process, NoSave
<1>7. LibraryTypes
  BY <1>2, <1>3, <1>4, <1>5, <1>6 DEF LibraryTypes
<1>8. Load(names, files) = wanted
  BY <1>2, <1>4 DEF Load
<1>9. \A p \in Process : SaveInv(p)
  BY <1>3 DEF SaveInv
<1>10. QED
  BY <1>2, <1>3, <1>7, <1>8, <1>9 DEF LibraryInv, Process

\* What is read of an index is a list of pictures.
LEMMA LoadType ==
  ASSUME LibraryTypes
  PROVE  Load(names, files) \in SUBSET Picture
<1>1. names.index = names["index"] /\ names.index \in File \cup {None}
  BY DEF LibraryTypes
<1>2. CASE names.index = None \/ files[names.index] = None
  BY <1>2 DEF Load
<1>3. CASE names.index # None /\ files[names.index] # None
  <2>1. Load(names, files) = files[names.index]
    BY <1>3 DEF Load
  <2>2. files[names.index] \in SUBSET Picture
    BY <1>1, <1>3 DEF LibraryTypes
  <2>3. QED
    BY <2>1, <2>2
<1>4. QED
  BY <1>2, <1>3

LEMMA Others == Other("window") = "command" /\ Other("command") = "window"
<1>1. \A p \in Process : \E q \in Process : q # p
  BY DEF Process
<1>2. \A p \in Process : Other(p) \in Process /\ Other(p) # p
  BY <1>1 DEF Other
<1>3. QED
  BY <1>2 DEF Process

\* A save begins: on a list that is the index, or it is a race.
LEMMA Begins ==
  ASSUME LibraryInv, NEW p \in Process, ~Saving(save[p]),
         NEW base, NEW data \in SUBSET Picture, NEW added \in SUBSET Picture,
         NEW removed \in SUBSET Picture,
         BeginSave(p, base, data, added, removed),
         UNCHANGED <<grid, told, watching, wanted>>,
         data = (base \cup added) \ removed,
         p = "window" => cache' = data, p = "command" => UNCHANGED cache
  PROVE  LibraryInv'
<1> DEFINE f == IF names.tmp # None THEN names.tmp ELSE CHOOSE g \in File : g # names.index
           s == [stage |-> "open", file |-> f, data |-> data, added |-> added, removed |-> removed]
<1>1. names.index = names["index"] /\ names.tmp = names["tmp"]
  BY DEF LibraryTypes, LibraryInv
<1>2. f \in File /\ f # names["index"]
  <2>1. \E g \in File : g # names["index"]
    BY DEF File
  <2>2. QED
    BY <1>1, <2>1 DEF LibraryInv, LibraryTypes
<1>3. /\ names' = [names EXCEPT !["tmp"] = f] /\ files' = [files EXCEPT ![f] = None]
      /\ save' = [save EXCEPT ![p] = s]
      /\ raced' = (raced \/ Saving(save[Other(p)]) \/ base # Load(names, files))
  BY DEF BeginSave
<1>4. s \in Save /\ Saving(s) /\ s.stage = "open"
  BY <1>2 DEF Save, Saving
<1>5. save'[p] = s /\ \A q \in Process \ {p} : save'[q] = save[q]
  BY <1>3 DEF LibraryInv, LibraryTypes
<1>6. names'["index"] = names["index"] /\ names'["tmp"] = f /\ files'[f] = None
      /\ \A g \in File \ {f} : files'[g] = files[g]
  BY <1>2, <1>3 DEF LibraryInv, LibraryTypes
<1>7. LibraryTypes'
  <2>1. /\ names' \in [{"index", "tmp"} -> File \cup {None}]
        /\ files' \in [File -> (SUBSET Picture) \cup {None}]
    <3>1. /\ names \in [{"index", "tmp"} -> File \cup {None}]
          /\ files \in [File -> (SUBSET Picture) \cup {None}]
      BY DEF LibraryInv, LibraryTypes
    <3>2. names' \in [{"index", "tmp"} -> File \cup {None}]
      BY <1>2, <1>3, <3>1
    <3>3. files' \in [File -> (SUBSET Picture) \cup {None}]
      BY <1>2, <1>3, <3>1
    <3>4. QED
      BY <3>2, <3>3
  <2>2. names'["index"] = names'["tmp"] => names'["index"] = None
    BY <1>2, <1>6
  <2>3. cache' \subseteq Picture
    BY DEF LibraryInv, LibraryTypes, Process
  <2>4. save' = [q \in Process |-> save'[q]]
    BY <1>3 DEF LibraryInv, LibraryTypes
  <2>5. \A q \in Process : Saving(save'[q]) => save'[q] \in Save
    BY <1>4, <1>5 DEF LibraryInv, LibraryTypes
  <2>6. (Saving(save["window"]) \/ MainLoopFree)'
    BY <1>4, <1>5 DEF LibraryInv, LibraryTypes, MainLoopFree, Process
  <2>7. save'["command"].stage = "adding" =>
          save'["command"].list \subseteq Picture /\ save'["command"].base = save'["command"].list
    BY <1>4, <1>5 DEF LibraryInv, LibraryTypes, Process
  <2>8. QED
    BY <2>1, <2>2, <2>3, <2>4, <2>5, <2>6, <2>7 DEF LibraryTypes
<1>8. ASSUME ~raced'
      PROVE  /\ Load(names, files)' = wanted'
             /\ ~(Saving(save["window"]) /\ Saving(save["command"]))'
             /\ \A q \in Process : SaveInv(q)'
             /\ Saving(save["window"])' => cache' = save'["window"].data
             /\ (watching /\ ~told /\ MainLoopFree)' => cache' = wanted' /\ grid' = Items(wanted)'
  <2>1. ~raced /\ ~Saving(save[Other(p)]) /\ base = wanted /\ Load(names, files) = wanted
    BY <1>3, <1>8 DEF LibraryInv
  <2>2. Load(names, files)' = wanted'
    <3>1. names'.index = names.index
      BY <1>1, <1>3 DEF LibraryInv, LibraryTypes
    <3>2. names.index # None => files'[names.index] = files[names.index]
      BY <1>1, <1>2, <1>6 DEF LibraryInv, LibraryTypes
    <3>3. QED
      BY <2>1, <3>1, <3>2 DEF Load
  <2>3. \A q \in Process \ {p} : ~Saving(save'[q])
    BY <1>5, <2>1, Others DEF Process
  <2>4. SaveInv(p)'
    BY <1>4, <1>5, <1>6, <2>1 DEF SaveInv
  <2>5. \A q \in Process : SaveInv(q)'
    BY <2>3, <2>4 DEF SaveInv
  <2>6. Saving(save["window"])' => cache' = save'["window"].data
    BY <1>5, <2>3 DEF Process
  <2>7. (watching /\ ~told /\ MainLoopFree)' => cache' = wanted' /\ grid' = Items(wanted)'
    <3>1. CASE p = "window"
      BY <1>4, <1>5, <3>1 DEF MainLoopFree
    <3>2. CASE p = "command"
      BY <1>5, <2>1, <3>2 DEF LibraryInv, MainLoopFree, Process, Items
    <3>3. QED
      BY <3>1, <3>2 DEF Process
  <2>8. QED
    BY <2>2, <2>3, <2>5, <2>6, <2>7 DEF Process
<1>9. QED
  BY <1>7, <1>8 DEF LibraryInv

\* A step that writes no file and moves no save.
LEMMA Quiet ==
  ASSUME LibraryInv, UNCHANGED <<names, files, save, watching, wanted, raced>>,
         cache' \subseteq Picture, Saving(save["window"]) => UNCHANGED cache,
         ~raced /\ watching /\ ~told' /\ MainLoopFree => cache' = wanted /\ grid' = Items(wanted)
  PROVE  LibraryInv'
<1>1. LibraryTypes'
  BY DEF LibraryInv, LibraryTypes, MainLoopFree
<1>2. /\ Load(names, files)' = Load(names, files)
      /\ \A p \in Process : SaveInv(p)' <=> SaveInv(p)
      /\ MainLoopFree' <=> MainLoopFree
      /\ Items(wanted)' = Items(wanted)
  BY DEF Load, SaveInv, MainLoopFree, Items
<1>3. QED
  BY <1>1, <1>2 DEF LibraryInv

\* The command moves without saving.
LEMMA CommandMoves ==
  ASSUME LibraryInv, NEW r, ~Saving(r), save' = [save EXCEPT !["command"] = r],
         r.stage = "adding" => r.list \subseteq Picture /\ r.base = r.list,
         UNCHANGED <<names, files, cache, grid, told, watching, wanted, raced>>
  PROVE  LibraryInv'
<1>1. save'["window"] = save["window"] /\ save'["command"] = r
  BY DEF LibraryInv, LibraryTypes, Process
<1>2. save' = [p \in Process |-> save'[p]]
  BY DEF LibraryInv, LibraryTypes
<1>3. LibraryTypes'
  BY <1>1, <1>2 DEF LibraryInv, LibraryTypes, MainLoopFree, Process
<1>4. /\ Load(names, files)' = Load(names, files) /\ Items(wanted)' = Items(wanted)
      /\ MainLoopFree' <=> MainLoopFree
  BY <1>1 DEF Load, MainLoopFree, Items
<1>5. ~raced => \A p \in Process : SaveInv(p)'
  BY <1>1 DEF LibraryInv, SaveInv, Process
<1>6. QED
  BY <1>1, <1>3, <1>4, <1>5 DEF LibraryInv

\* What an operation adds are pictures.
LEMMA FreshType == \A paths, list : Fresh(paths, list) \subseteq Picture
BY DeskAssumption DEF Fresh, Valid

LEMMA AddKeeps ==
  ASSUME LibraryInv, NEW paths, AddInWindow(paths)
  PROVE  LibraryInv'
<1> DEFINE new == Fresh(paths, cache)
<1>1. /\ MainLoopFree /\ cache' = cache \cup new /\ UNCHANGED <<told, watching, wanted>>
      /\ cache \subseteq Picture /\ new \subseteq Picture
  BY FreshType DEF AddInWindow, LibraryInv, LibraryTypes
<1>2. ~Saving(save["window"])
  BY <1>1 DEF MainLoopFree, Saving
<1>3. CASE new # {}
  <2>1. BeginSave("window", cache, cache \cup new, new, {}) /\ UNCHANGED grid
    BY <1>3 DEF AddInWindow
  <2>2. "window" \in Process /\ cache \cup new = (cache \cup new) \ {}
    BY DEF Process
  <2>3. cache \cup new \in SUBSET Picture /\ new \in SUBSET Picture /\ {} \in SUBSET Picture
    BY <1>1
  <2>4. QED
    BY <1>1, <1>2, <2>1, <2>2, <2>3, Begins
<1>4. CASE new = {}
  <2>1. cache' = cache /\ grid' = Items(cache) /\ UNCHANGED <<names, files, save, raced>>
    BY <1>1, <1>4 DEF AddInWindow, Populate, Items
  <2>2. ~raced /\ watching /\ ~told' /\ MainLoopFree => cache' = wanted /\ grid' = Items(wanted)
    BY <1>1, <2>1 DEF LibraryInv, Items
  <2>3. QED
    BY <1>1, <2>1, <2>2, Quiet
<1>5. QED
  BY <1>3, <1>4

LEMMA RemoveKeeps ==
  ASSUME LibraryInv, NEW i \in Picture, RemoveInWindow(i)
  PROVE  LibraryInv'
<1>1. /\ MainLoopFree /\ cache' = cache \ {i} /\ UNCHANGED <<grid, told, watching, wanted>>
      /\ cache \subseteq Picture
  BY DEF RemoveInWindow, LibraryInv, LibraryTypes
<1>2. ~Saving(save["window"])
  BY <1>1 DEF MainLoopFree, Saving
<1>3. CASE i \in cache
  <2>1. BeginSave("window", cache, cache \ {i}, {}, {i})
    BY <1>3 DEF RemoveInWindow
  <2>2. "window" \in Process /\ cache \ {i} = (cache \cup {}) \ {i}
    BY DEF Process
  <2>3. cache \ {i} \in SUBSET Picture /\ {i} \in SUBSET Picture /\ {} \in SUBSET Picture
    BY <1>1
  <2>4. QED
    BY <1>1, <1>2, <2>1, <2>2, <2>3, Begins
<1>4. CASE i \notin cache
  <2>1. cache' = cache /\ UNCHANGED <<names, files, save, raced>>
    BY <1>1, <1>4 DEF RemoveInWindow
  <2>2. ~raced /\ watching /\ ~told' /\ MainLoopFree => cache' = wanted /\ grid' = Items(wanted)
    BY <1>1, <2>1 DEF LibraryInv
  <2>3. QED
    BY <1>1, <2>1, <2>2, Quiet
<1>5. QED
  BY <1>3, <1>4

LEMMA CommandKeeps ==
  ASSUME LibraryInv, (\E paths : CommandLoads(paths)) \/ CommandAdds
  PROVE  LibraryInv'
<1>1. CASE \E paths : CommandLoads(paths)
  <2>1. PICK paths : CommandLoads(paths)
    BY <1>1
  <2> DEFINE r == [stage |-> "adding", list |-> Load(names, files), base |-> Load(names, files),
                   paths |-> paths]
  <2>2. save' = [save EXCEPT !["command"] = r]
        /\ UNCHANGED <<names, files, cache, grid, told, watching, wanted, raced>>
    BY <2>1 DEF CommandLoads
  <2>3. r.list \subseteq Picture /\ r.base = r.list /\ ~Saving(r)
    BY LoadType DEF LibraryInv, Saving
  <2>4. QED
    BY <2>2, <2>3, CommandMoves
<1>2. CASE CommandAdds
  <2> DEFINE s == save["command"]
             new == Fresh(s.paths, s.list)
  <2>1. /\ s.stage = "adding" /\ ~Saving(s) /\ s.list \subseteq Picture /\ s.base = s.list
        /\ new \subseteq Picture /\ UNCHANGED <<cache, grid, told, watching, wanted>>
    BY <1>2, FreshType DEF CommandAdds, Saving, LibraryInv, LibraryTypes
  <2>2. CASE new # {}
    <3>1. BeginSave("command", s.base, s.list \cup new, new, {})
      BY <1>2, <2>2 DEF CommandAdds
    <3>2. "command" \in Process /\ s.list \cup new = (s.base \cup new) \ {}
      BY <2>1 DEF Process
    <3>3. s.list \cup new \in SUBSET Picture /\ new \in SUBSET Picture /\ {} \in SUBSET Picture
      BY <2>1
    <3>4. QED
      BY <2>1, <3>1, <3>2, <3>3, Begins
  <2>3. CASE new = {}
    <3>1. save' = [save EXCEPT !["command"] = NoSave] /\ UNCHANGED <<names, files, raced>>
      BY <1>2, <2>3 DEF CommandAdds
    <3>2. ~Saving(NoSave) /\ NoSave.stage # "adding"
      BY DEF NoSave, Saving
    <3>3. QED
      BY <2>1, <3>1, <3>2, CommandMoves
  <2>4. QED
    BY <2>2, <2>3
<1>3. QED
  BY <1>1, <1>2

\* A save that is alone writes its list into a file nobody reads.
LEMMA WriteKeeps ==
  ASSUME LibraryInv, NEW p \in Process, WriteSave(p)
  PROVE  LibraryInv'
<1> DEFINE s == save[p]
           t == [s EXCEPT !.stage = "written"]
<1>1. s.stage = "open" /\ Saving(s) /\ s \in Save
  BY DEF WriteSave, Saving, LibraryInv, LibraryTypes
<1>2. t \in Save /\ Saving(t) /\ t.stage = "written" /\ t.file = s.file /\ t.data = s.data
      /\ t.added = s.added /\ t.removed = s.removed
  BY <1>1 DEF Save, Saving
<1>3. save'[p] = t /\ (\A q \in Process \ {p} : save'[q] = save[q])
      /\ save' = [q \in Process |-> save'[q]]
  BY DEF WriteSave, LibraryInv, LibraryTypes
<1>4. UNCHANGED <<names, cache, grid, watching, wanted, raced>>
      /\ told' = (told \/ (watching /\ names.index = s.file))
  BY DEF WriteSave
<1>5. s.file \in File /\ s.data \in SUBSET Picture /\ s.file # None
  BY <1>1, DeskAssumption DEF Save, File
<1>6. PICK c \in (SUBSET Picture) \cup {None} :
         /\ files' = [files EXCEPT ![s.file] = c]
         /\ files[s.file] = None => c = s.data
  BY <1>5 DEF WriteSave
<1>7. files' \in [File -> (SUBSET Picture) \cup {None}] /\ files'[s.file] = c
      /\ \A g \in File \ {s.file} : files'[g] = files[g]
  <2>1. files \in [File -> (SUBSET Picture) \cup {None}]
    BY DEF LibraryInv, LibraryTypes
  <2>2. files' = [files EXCEPT ![s.file] = c] /\ c \in (SUBSET Picture) \cup {None}
    BY <1>6
  <2>3. files' \in [File -> (SUBSET Picture) \cup {None}]
    BY <2>1, <2>2
  <2>4. files'[s.file] = c
    BY <1>5, <2>1, <2>2
  <2>5. \A g \in File \ {s.file} : files'[g] = files[g]
    BY <2>1, <2>2
  <2>6. QED
    BY <2>3, <2>4, <2>5
<1>8. Saving(save'["window"]) <=> Saving(save["window"])
  BY <1>1, <1>2, <1>3 DEF Process
<1>9. Saving(save'["command"]) <=> Saving(save["command"])
  BY <1>1, <1>2, <1>3 DEF Process
<1>10. (MainLoopFree <=> MainLoopFree') /\ (save'["command"].stage = "adding" => UNCHANGED save["command"])
  BY <1>1, <1>2, <1>3 DEF MainLoopFree, Process
<1>11. LibraryTypes'
  <2>1. \A q \in Process : Saving(save'[q]) => save'[q] \in Save
    BY <1>2, <1>3 DEF LibraryInv, LibraryTypes
  <2>2. QED
    BY <1>3, <1>4, <1>7, <1>8, <1>10, <2>1 DEF LibraryInv, LibraryTypes
<1>12. ASSUME ~raced'
       PROVE  /\ Load(names, files)' = wanted'
              /\ ~(Saving(save["window"]) /\ Saving(save["command"]))'
              /\ \A q \in Process : SaveInv(q)'
              /\ Saving(save["window"])' => cache' = save'["window"].data
              /\ (watching /\ ~told /\ MainLoopFree)' => cache' = wanted' /\ grid' = Items(wanted)'
  <2>1. ~raced /\ SaveInv(p) /\ names["tmp"] = s.file /\ files[s.file] = None
    BY <1>1, <1>4, <1>12 DEF LibraryInv, SaveInv
  <2>2. Load(names, files)' = wanted'
    <3>1. names.index = names["index"] /\ names["index"] # s.file /\ names["index"] \in File \cup {None}
      BY <1>5, <2>1 DEF LibraryInv, LibraryTypes
    <3>2. names.index # None => files'[names.index] = files[names.index]
      BY <1>7, <3>1
    <3>3. QED
      BY <1>4, <2>1, <3>2 DEF Load, LibraryInv
  <2>3. \A q \in Process \ {p} : ~Saving(save'[q])
    BY <1>1, <1>3, <2>1 DEF LibraryInv, Process
  <2>4. SaveInv(p)'
    <3>1. names'["tmp"] = t.file /\ files'[t.file] = t.data
      <4>1. t.file = s.file /\ t.data = s.data
        BY <1>2
      <4>2. files'[s.file] = s.data
        BY <1>6, <1>7, <2>1
      <4>3. names'["tmp"] = s.file
        BY <1>4, <2>1
      <4>4. QED
        BY <4>1, <4>2, <4>3
    <3>2. t.data = (wanted' \cup t.added) \ t.removed
      BY <1>1, <1>2, <1>4, <2>1 DEF SaveInv
    <3>3. QED
      BY <1>2, <1>3, <3>1, <3>2 DEF SaveInv
  <2>5. \A q \in Process : SaveInv(q)'
    BY <2>3, <2>4 DEF SaveInv
  <2>6. Saving(save["window"])' => cache' = save'["window"].data
    BY <1>2, <1>3, <1>4, <1>8, <2>1 DEF LibraryInv, Process
  <2>7. (watching /\ ~told /\ MainLoopFree)' => cache' = wanted' /\ grid' = Items(wanted)'
    BY <1>4, <1>10, <2>1 DEF LibraryInv, Items
  <2>8. QED
    BY <1>8, <1>9, <2>1, <2>2, <2>5, <2>6, <2>7 DEF LibraryInv
<1>13. QED
  BY <1>11, <1>12 DEF LibraryInv

\* A save ends: the process is idle again.
LEMMA SaveEnds ==
  ASSUME LibraryTypes, NEW p \in Process, save' = [save EXCEPT ![p] = NoSave],
         names' \in [{"index", "tmp"} -> File \cup {None}],
         names'["index"] = names'["tmp"] => names'["index"] = None,
         UNCHANGED files, cache' \subseteq Picture
  PROVE  /\ LibraryTypes'
         /\ save'[p] = NoSave /\ ~Saving(save'[p])
         /\ \A q \in Process \ {p} : save'[q] = save[q]
<1>1. save'[p] = NoSave /\ (\A q \in Process \ {p} : save'[q] = save[q])
      /\ save' = [q \in Process |-> save'[q]]
  BY DEF LibraryTypes
<1>2. ~Saving(NoSave) /\ NoSave.stage = "idle"
  BY DEF NoSave, Saving
<1>3. \A q \in Process : Saving(save'[q]) => save'[q] \in Save
  BY <1>1, <1>2 DEF LibraryTypes
<1>4. (Saving(save["window"]) \/ MainLoopFree)'
  BY <1>1, <1>2 DEF LibraryTypes, MainLoopFree, Process
<1>5. save'["command"].stage = "adding" =>
        save'["command"].list \subseteq Picture /\ save'["command"].base = save'["command"].list
  BY <1>1, <1>2 DEF LibraryTypes, Process
<1>6. QED
  BY <1>1, <1>2, <1>3, <1>4, <1>5 DEF LibraryTypes

\* The rename of a save that is alone makes its list the index.
LEMMA RenameKeeps ==
  ASSUME LibraryInv, NEW p \in Process, RenameSave(p)
  PROVE  LibraryInv'
<1> DEFINE s == save[p]
<1>1. s.stage = "written" /\ Saving(s) /\ s \in Save
  BY DEF RenameSave, Saving, LibraryInv, LibraryTypes
<1>2. /\ save' = [save EXCEPT ![p] = NoSave] /\ UNCHANGED <<files, cache, watching, raced>>
      /\ wanted' = (wanted \cup s.added) \ s.removed
      /\ IF p = "window" THEN grid' = Items(cache') ELSE UNCHANGED grid
  BY DEF RenameSave, AfterSave, Populate
<1>3. /\ names["tmp"] = None => UNCHANGED <<names, told>>
      /\ names["tmp"] # None => names' = [index |-> names["tmp"], tmp |-> None] /\ told' = watching
  BY DEF RenameSave, LibraryInv, LibraryTypes
<1>4. /\ names' \in [{"index", "tmp"} -> File \cup {None}]
      /\ names'["index"] = names'["tmp"] => names'["index"] = None
  <2>1. names["tmp"] \in File \cup {None}
    BY DEF LibraryInv, LibraryTypes
  <2>2. QED
    BY <1>3, <2>1 DEF LibraryInv, LibraryTypes
<1>5. /\ LibraryTypes' /\ ~Saving(save'[p])
      /\ \A q \in Process \ {p} : save'[q] = save[q]
  BY <1>2, <1>4, SaveEnds DEF LibraryInv, LibraryTypes
<1>6. ASSUME ~raced'
      PROVE  /\ Load(names, files)' = wanted'
             /\ ~(Saving(save["window"]) /\ Saving(save["command"]))'
             /\ \A q \in Process : SaveInv(q)'
             /\ Saving(save["window"])' => cache' = save'["window"].data
             /\ (watching /\ ~told /\ MainLoopFree)' => cache' = wanted' /\ grid' = Items(wanted)'
  <2>1. /\ ~raced /\ names["tmp"] = s.file /\ files[s.file] = s.data
        /\ s.data = (wanted \cup s.added) \ s.removed
    BY <1>1, <1>2, <1>6 DEF LibraryInv, SaveInv
  <2>2. s.file \in File /\ s.file # None /\ s.data # None
    BY <1>1, DeskAssumption DEF Save, File
  <2>3. names' = [index |-> s.file, tmp |-> None] /\ told' = watching
    BY <1>3, <2>1, <2>2
  <2>4. Load(names, files)' = wanted'
    BY <1>2, <2>1, <2>2, <2>3 DEF Load
  <2>5. \A q \in Process : ~Saving(save'[q])
    BY <1>1, <1>5, <2>1 DEF LibraryInv, Process
  <2>6. \A q \in Process : SaveInv(q)'
    BY <2>5 DEF SaveInv
  <2>7. ~Saving(save["window"])'
    BY <2>5 DEF Process
  <2>8. QED
    BY <1>2, <2>3, <2>4, <2>6, <2>7
<1>7. QED
  BY <1>5, <1>6 DEF LibraryInv

LEMMA FailKeeps ==
  ASSUME LibraryInv, NEW p \in Process, SaveFails(p)
  PROVE  LibraryInv'
<1>1. raced' /\ save' = [save EXCEPT ![p] = NoSave] /\ UNCHANGED <<names, files, cache>>
  BY DEF SaveFails
<1>2. LibraryTypes'
  BY <1>1, SaveEnds DEF LibraryInv, LibraryTypes
<1>3. QED
  BY <1>1, <1>2 DEF LibraryInv

\* The window reads the index again.
LEMMA ReadKeeps ==
  ASSUME LibraryInv, MainLoopFree, IndexChanged \/ RefreshPage \/ OpenPicker
  PROVE  LibraryInv'
<1>1. UNCHANGED <<names, files, save, watching, wanted, raced>> /\ cache' = Load(names, files)
      /\ (grid' = Items(cache') \/ (UNCHANGED grid /\ UNCHANGED told))
  BY DEF IndexChanged, RefreshPage, OpenPicker, Reload, Populate
<1>2. cache' \subseteq Picture /\ ~Saving(save["window"])
  BY <1>1, LoadType DEF LibraryInv, MainLoopFree, Saving
<1>3. ~raced /\ watching /\ ~told' /\ MainLoopFree => cache' = wanted /\ grid' = Items(wanted)
  BY <1>1 DEF LibraryInv, Items
<1>4. QED
  BY <1>1, <1>2, <1>3, Quiet

LEMMA RestartKeeps ==
  ASSUME LibraryInv, RestartLibrary
  PROVE  LibraryInv'
<1>1. /\ cache' = Load(names, files) /\ grid' = Items(cache')
      /\ save' = [save EXCEPT !["window"] = NoSave]
      /\ UNCHANGED <<names, files, watching, wanted, raced>> /\ "window" \in Process
  BY DEF RestartLibrary, Process
<1>2. cache' \subseteq Picture
  BY <1>1, LoadType DEF LibraryInv
<1>3. /\ LibraryTypes' /\ ~Saving(save'["window"])
      /\ \A q \in Process \ {"window"} : save'[q] = save[q]
  BY <1>1, <1>2, SaveEnds DEF LibraryInv, LibraryTypes
<1>4. ~raced => \A q \in Process : SaveInv(q)'
  BY <1>1, <1>3 DEF LibraryInv, SaveInv
<1>5. Load(names, files)' = Load(names, files)
  BY <1>1 DEF Load
<1>6. ~raced => cache' = wanted' /\ grid' = Items(wanted)'
  BY <1>1 DEF LibraryInv, Items
<1>7. QED
  BY <1>1, <1>3, <1>4, <1>5, <1>6 DEF LibraryInv

LEMMA LibraryKept ==
  ASSUME LibraryInv, LibraryStep
  PROVE  LibraryInv'
<1>1. CASE UNCHANGED libraryVars
  <2>1. UNCHANGED <<names, files, cache, grid, save, told, watching, wanted, raced>>
    BY <1>1 DEF libraryVars
  <2>2. ~raced /\ watching /\ ~told' /\ MainLoopFree => cache' = wanted /\ grid' = Items(wanted)
    BY <2>1 DEF LibraryInv
  <2>3. cache' \subseteq Picture
    BY <2>1 DEF LibraryInv, LibraryTypes
  <2>4. QED
    BY <2>1, <2>2, <2>3, Quiet
<1>2. CASE IndexChanged
  BY <1>2, ReadKeeps DEF IndexChanged
<1>3. CASE ~UNCHANGED libraryVars /\ ~IndexChanged
  BY <1>3, AddKeeps, RemoveKeeps, CommandKeeps, WriteKeeps, RenameKeeps, FailKeeps, ReadKeeps,
     RestartKeeps DEF LibraryStep
<1>4. QED
  BY <1>1, <1>2, <1>3

-----------------------------------------------------------------------------
\* The theorem.

\* Whatever the user, the command, Thunar and the file manager do, for any pictures
\* and actions and any number of steps: the index is what was added and not removed
\* and the window shows it (collection.py), and Thunar's file has the user's actions
\* (contextmenu), except after the races that the properties name.
THEOREM SharedFilesKept == Spec => []FilesKept
<1>1. Init => LibraryInv /\ MenuInv
  BY LibraryStarts, MenuInit
<1>2. LibraryInv /\ MenuInv /\ [Next]_vars => (LibraryInv /\ MenuInv)'
  BY Steps, LibraryKept, MenuKept
<1>3. LibraryInv /\ MenuInv => FilesKept
  <2>1. LibraryInv => LibraryKeeps
    BY DEF LibraryInv, LibraryKeeps, LoopFree
  <2>2. MenuInv => MenuKeepsOthers
    BY DEF MenuInv, MenuKeepsOthers
  <2>3. QED
    BY <2>1, <2>2 DEF FilesKept
<1>4. QED
  BY <1>1, <1>2, <1>3, PTL DEF Spec

-----------------------------------------------------------------------------
\* The switch.

\* A change under way is to what the switch shows, and has read whether the entry is
\* there; without one the switch shows that.
SwitchInv ==
  /\ uca \subseteq Own \cup {Entry}
  /\ switch \in BOOLEAN
  /\ merging # None =>
       /\ provider # None
       /\ merging.wanted = switch
       /\ provider = "thunar" /\ ~undone => (Entry \in merging.read <=> IsInstalled("thunar"))
       /\ merging.read \subseteq Own \cup {Entry}
  /\ provider # None /\ merging = None /\ ~undone => switch = IsInstalled(provider)

LEMMA InstalledType == \A p : IsInstalled(p) \in BOOLEAN
<1>1. TAKE p
<1>2. CASE p = "thunar"
  <2>1. IsInstalled(p) = (Entry \in Root(uca, ucaBad))
    BY <1>2 DEF IsInstalled
  <2>2. QED
    BY <2>1
<1>3. CASE p # "thunar"
  <2>1. IsInstalled(p) = (p \in entryFile)
    BY <1>3 DEF IsInstalled
  <2>2. QED
    BY <2>1
<1>4. QED
  BY <1>2, <1>3

LEMMA SwitchStarts == Init => SwitchInv
<1>1. SUFFICES ASSUME MenusInit(machine)
               PROVE  SwitchInv
  BY DEF Init
<1>2. uca = Own /\ merging = None /\ switch = (provider # None /\ IsInstalled(provider))
  BY <1>1 DEF MenusInit
<1>3. switch \in BOOLEAN
  BY <1>2
<1>4. provider # None => switch = IsInstalled(provider)
  BY <1>2, InstalledType
<1>5. QED
  BY <1>2, <1>3, <1>4 DEF SwitchInv

\* A change begins: to the entry wanted, on what is there.
LEMMA BeginsToMerge ==
  ASSUME uca \subseteq Own \cup {Entry}, NEW b \in BOOLEAN, Begin(b)
  PROVE  /\ merging' # None /\ merging'.wanted = b
         /\ merging'.read \subseteq Own \cup {Entry}
         /\ provider = "thunar" => (Entry \in merging'.read <=> IsInstalled("thunar"))
<1>1. merging' = [wanted |-> b, read |-> IF provider = "thunar" THEN Root(uca, ucaBad) ELSE {}]
  BY DEF Begin
<1>2. (IF provider = "thunar" THEN Root(uca, ucaBad) ELSE {}) \in SUBSET (Own \cup {Entry})
  BY DEF Root
<1>3. merging' \in [wanted : BOOLEAN, read : SUBSET (Own \cup {Entry})]
  BY <1>1, <1>2
<1>4. provider = "thunar" => (Entry \in merging'.read <=> IsInstalled("thunar"))
  BY <1>1 DEF IsInstalled
<1>5. QED
  BY <1>1, <1>3, <1>4, DeskAssumption

LEMMA MergeTells ==
  ASSUME MenuInv, SwitchInv, MergeDone
  PROVE  SwitchInv'
<1>1. /\ merging # None /\ merging' = None /\ UNCHANGED <<provider, switch>> /\ provider # None
      /\ merging.wanted = switch /\ switch \in BOOLEAN
      /\ undone' = (undone /\ ~Writes)
      /\ uca \subseteq Own \cup {Entry} /\ merging.read \subseteq Own \cup {Entry}
  BY DEF MergeDone, SwitchInv
<1>2. uca' \subseteq Own \cup {Entry}
  BY <1>1 DEF MergeDone, Merged
<1>3. ASSUME ~undone'
      PROVE  switch = IsInstalled(provider)'
  <2>1. CASE provider = "thunar" /\ Writes
    <3>1. uca' = Merged(merging.read, switch) /\ ~ucaBad'
      BY <1>1, <2>1 DEF MergeDone
    <3>2. IsInstalled(provider)' <=> Entry \in Merged(merging.read, switch)
      BY <1>1, <2>1, <3>1 DEF IsInstalled, Root
    <3>3. Entry \in Merged(merging.read, switch) <=> switch
      BY DEF Merged
    <3>4. QED
      BY <1>1, <2>1, <3>2, <3>3 DEF IsInstalled
  <2>2. CASE provider = "thunar" /\ ~Writes
    <3>1. ~switch /\ Entry \notin merging.read /\ UNCHANGED <<uca, ucaBad>> /\ ~undone
      BY <1>1, <1>3, <2>2 DEF MergeDone, Writes
    <3>2. ~IsInstalled("thunar")
      BY <1>1, <2>2, <3>1 DEF SwitchInv
    <3>3. QED
      BY <1>1, <2>2, <3>1, <3>2 DEF IsInstalled
  <2>3. CASE provider # "thunar"
    <3>1. entryFile' = OwnFile(switch)
      BY <1>1, <2>3 DEF MergeDone
    <3>2. IsInstalled(provider)' <=> switch
      BY <1>1, <2>3, <3>1 DEF IsInstalled, OwnFile
    <3>3. QED
      BY <1>1, <2>3, <3>2 DEF IsInstalled
  <2>4. QED
    BY <2>1, <2>2, <2>3
<1>4. QED
  BY <1>1, <1>2, <1>3 DEF SwitchInv

LEMMA SwitchKept ==
  ASSUME MenuInv, SwitchInv, MenuStep
  PROVE  SwitchInv'
<1>1. CASE Toggle
  <2>1. /\ switch' \in BOOLEAN /\ Begin(switch') /\ provider # None
        /\ UNCHANGED <<provider, entryFile, uca, ucaBad, undone>> /\ uca \subseteq Own \cup {Entry}
    BY <1>1 DEF Toggle, SwitchInv
  <2>2. /\ merging' # None /\ merging'.wanted = switch'
        /\ merging'.read \subseteq Own \cup {Entry}
        /\ provider = "thunar" => (Entry \in merging'.read <=> IsInstalled("thunar"))
    BY <2>1, BeginsToMerge
  <2>3. IsInstalled("thunar")' <=> IsInstalled("thunar")
    BY <2>1 DEF IsInstalled
  <2>4. QED
    BY <2>1, <2>2, <2>3 DEF SwitchInv
<1>2. CASE MergeDone
  BY <1>2, MergeTells
<1>3. CASE MergeFails
  <2>1. /\ switch' = IsInstalled(provider) /\ switch' \in BOOLEAN /\ provider # None
        /\ UNCHANGED <<provider, entryFile, uca, ucaBad, undone>> /\ uca \subseteq Own \cup {Entry}
    BY <1>3, InstalledType DEF MergeFails, SwitchInv
  <2>2. (IsInstalled("thunar")' <=> IsInstalled("thunar")) /\ (switch' = IsInstalled(provider)')
    BY <2>1 DEF IsInstalled
  <2>3. CASE merging' = None
    BY <2>1, <2>2, <2>3 DEF SwitchInv
  <2>4. CASE Begin(switch')
    <3>1. /\ merging' # None /\ merging'.wanted = switch'
          /\ merging'.read \subseteq Own \cup {Entry}
          /\ provider = "thunar" => (Entry \in merging'.read <=> IsInstalled("thunar"))
      BY <2>1, <2>4, BeginsToMerge
    <3>2. QED
      BY <2>1, <2>2, <3>1 DEF SwitchInv
  <2>5. QED
    BY <1>3, <2>3, <2>4 DEF MergeFails
<1>4. CASE UcaSpoilt
  BY <1>4 DEF UcaSpoilt, SwitchInv
<1>5. CASE MenusStart(machine)
  <2>1. /\ switch' = (provider' # None /\ IsInstalled(provider')) /\ merging' = None
        /\ UNCHANGED <<entryFile, uca, ucaBad>>
    BY <1>5 DEF MenusStart
  <2>2. IsInstalled(provider') = IsInstalled(provider)'
    BY <2>1 DEF IsInstalled
  <2>3. switch' \in BOOLEAN
    BY <2>1
  <2>4. provider' # None => switch' = IsInstalled(provider)'
    BY <2>1, <2>2, InstalledType
  <2>5. QED
    BY <2>1, <2>3, <2>4 DEF SwitchInv
<1>6. CASE \E x \in Own : ThunarWrites(x)
  <2>1. PICK x \in Own : ThunarWrites(x)
    BY <1>6
  <2>2. /\ UNCHANGED <<provider, entryFile, switch, merging>> /\ ~ucaBad'
        /\ own' \subseteq Own
    BY <2>1 DEF ThunarWrites, MenuInv
  <2>3. PICK knows \in BOOLEAN : /\ uca' = own' \cup (IF knows THEN {Entry} ELSE {})
                                 /\ undone' = (undone \/ (knows # IsInstalled("thunar")))
    BY <2>1 DEF ThunarWrites
  <2>4. IsInstalled("thunar")' <=> knows
    BY <2>2, <2>3, DeskAssumption DEF IsInstalled, Root
  <2>5. ~undone' => ~undone /\ (IsInstalled("thunar")' <=> IsInstalled("thunar"))
    BY <2>3, <2>4 DEF IsInstalled
  <2>6. provider # "thunar" => (IsInstalled(provider)' <=> IsInstalled(provider))
    BY <2>2 DEF IsInstalled
  <2>7. provider = "thunar" => /\ IsInstalled(provider)' <=> IsInstalled("thunar")'
                               /\ IsInstalled(provider) <=> IsInstalled("thunar")
    BY <2>2 DEF IsInstalled
  <2>8. uca' \subseteq Own \cup {Entry}
    BY <2>2, <2>3
  <2>9. QED
    BY <2>2, <2>5, <2>6, <2>7, <2>8 DEF SwitchInv, IsInstalled
<1>7. CASE UNCHANGED menuVars
  BY <1>7 DEF menuVars, SwitchInv, IsInstalled
<1>8. QED
  BY <1>1, <1>2, <1>3, <1>4, <1>5, <1>6, <1>7 DEF MenuStep

-----------------------------------------------------------------------------
\* The record of the privileged surfaces.

\* What the steps of the window are to the record.
RecordStep ==
  \/ SubmitDialog
  \/ \E h \in helpers : HelperInstalls(h) \/ HelperRefused(h) \/ HelperBreaks(h) \/ HelperTimesOut(h) \/ HelperExits(h)
  \/ RecordApplied \/ Restart
  \/ UNCHANGED <<helpers, idle, record, recordFile, installed, unknown>>

LEMMA RecordSteps ==
  ASSUME [Next]_vars
  PROVE  RecordStep
<1>1. CASE UNCHANGED vars
  BY <1>1 DEF vars, deskVars, RecordStep
<1>2. CASE \E i \in Picture : SetGlobalImage(i) \/ UseInScreens(i) \/ ApplyTile(i)
  BY <1>2 DEF SetGlobalImage, UseInScreens, ApplyTile, RecordStep
<1>3. CASE \E p \in Picture \cup {Unusable} : LoadImage(p)
  BY <1>3 DEF LoadImage, SetGlobalImage, RecordStep
<1>4. CASE \E key \in Surface, i \in Picture : SetSurfaceImage(key, i)
  BY <1>4 DEF SetSurfaceImage, RecordStep
<1>5. CASE \E key \in Surface, f \in Fits : FitCard(key, f)
  BY <1>5 DEF FitCard, RecordStep
<1>6. CASE \E f \in Fits : FitAll(f) \/ DefaultFit(f)
  BY <1>6 DEF FitAll, DefaultFit, RecordStep
<1>7. CASE Pick \/ ShowScreens \/ ShowWallpaper
  BY <1>7 DEF Pick, ShowScreens, ShowWallpaper, deskVars, RecordStep
<1>8. CASE \E key \in Surface : ApplyCard(key) \/ ApplyPrivileged(key)
  BY <1>8 DEF ApplyCard, ApplyPrivileged, RecordStep
<1>9. CASE ApplyAll \/ Undo \/ ToastExpires \/ ChosenElsewhere \/ CancelDialog \/ SubmitDialog
  BY <1>9 DEF ApplyAll, Undo, ToastExpires, ChosenElsewhere, CancelDialog, RecordStep
<1>10. CASE \E h \in helpers :
              HelperInstalls(h) \/ HelperRefused(h) \/ HelperBreaks(h) \/ HelperTimesOut(h) \/ HelperExits(h)
  BY <1>10 DEF RecordStep
<1>11. CASE RecordApplied \/ Restart
  BY <1>11 DEF RecordStep
<1>12. CASE AddFiles \/ RemoveTile \/ CommandStarts \/ CommandSaves \/ Saves \/ SaveIsRefused
            \/ IndexReported
  BY <1>12 DEF AddFiles, RemoveTile, CommandStarts, CommandSaves, Saves, SaveIsRefused,
               IndexReported, deskVars, RecordStep
<1>13. CASE MoveSwitch \/ MenuChanged \/ MenuRefused \/ ThunarChanges
  BY <1>13 DEF MoveSwitch, MenuChanged, MenuRefused, ThunarChanges, otherVars, deskVars, RecordStep
<1>14. QED
  BY <1>1, <1>2, <1>3, <1>4, <1>5, <1>6, <1>7, <1>8, <1>9, <1>10, <1>11, <1>12, <1>13 DEF Next

\* A helper that has installed on a surface, and is not heard yet.
Pending(h, key) == h.stage = "installed" /\ h.what.surface = key

Given(w) == [image |-> w.image, fit |-> w.fit]

Agrees(key, rec) ==
  IF key \in DOMAIN installed THEN key \in DOMAIN rec /\ rec[key] = installed[key]
  ELSE key \notin DOMAIN rec

\* On a surface that is not in doubt one installation at most is on its way to the
\* record, and it is the last; with none on its way, record and file tell the last.
KeyInv(key) ==
  /\ \A g, h \in helpers : Pending(g, key) /\ Pending(h, key) => g = h
  /\ \A m, n \in DOMAIN idle : idle[m].surface = key /\ idle[n].surface = key => m = n
  /\ \A h \in helpers, n \in DOMAIN idle : ~(Pending(h, key) /\ idle[n].surface = key)
  /\ \A h \in helpers : Pending(h, key) => key \in DOMAIN installed /\ installed[key] = Given(h.what)
  /\ \A n \in DOMAIN idle :
       idle[n].surface = key => key \in DOMAIN installed /\ installed[key] = Given(idle[n])
  /\ ~Unrecorded(key) => Agrees(key, record) /\ Agrees(key, recordFile)

RecordTypes ==
  /\ \A h \in helpers :
       {"what", "stage"} \subseteq DOMAIN h
  /\ \E W : idle \in Seq(W)

RecordInv == RecordTypes /\ \A key \in Privileged \ unknown : KeyInv(key)

LEMMA RecordStarts == Init => RecordInv
<1>1. SUFFICES ASSUME helpers = {}, idle = <<>>, record = <<>>, recordFile = <<>>, installed = <<>>
               PROVE  RecordInv
  BY DEF Init
<1>2. idle \in Seq({}) /\ DOMAIN idle = {} /\ DOMAIN record = {} /\ DOMAIN recordFile = {}
      /\ DOMAIN installed = {}
  BY <1>1
<1>3. RecordTypes
  BY <1>1, <1>2 DEF RecordTypes
<1>4. ASSUME NEW key
      PROVE  KeyInv(key)
  BY <1>1, <1>2 DEF KeyInv, Agrees
<1>5. QED
  BY <1>3, <1>4 DEF RecordInv

LEMMA InstallKeeps ==
  ASSUME RecordInv, NEW h \in helpers, HelperInstalls(h)
  PROVE  RecordInv'
<1> DEFINE k == h.what.surface
           g == [h EXCEPT !.stage = "installed"]
<1>1. /\ h.stage = "runs" /\ helpers' = (helpers \ {h}) \cup {g} /\ UNCHANGED <<idle, record, recordFile>>
      /\ installed' = Put(installed, k, Given(h.what))
      /\ unknown' = IF Unrecorded(k) THEN unknown \cup {k} ELSE unknown \ {k}
  BY DEF HelperInstalls, Given
<1>2. /\ g.stage = "installed" /\ g.what = h.what
      /\ {"what", "stage"} \subseteq DOMAIN g
  BY DEF RecordInv, RecordTypes
<1>3. /\ DOMAIN installed' = {k} \cup DOMAIN installed /\ installed'[k] = Given(h.what)
      /\ \A key \in DOMAIN installed : key # k => installed'[key] = installed[key]
  BY <1>1 DEF Put
<1>4. RecordTypes'
  BY <1>1, <1>2 DEF RecordInv, RecordTypes
<1>5. ASSUME NEW key \in Privileged \ unknown'
      PROVE  KeyInv(key)'
  <2>1. CASE key = k
    <3>1. ~Unrecorded(key)
      BY <1>1, <1>5, <2>1
    <3>2. \A f \in helpers' : Pending(f, key) => f = g
      BY <1>1, <3>1 DEF Unrecorded, Pending
    <3>3. \A n \in DOMAIN idle : idle[n].surface # key
      BY <3>1 DEF Unrecorded
    <3>4. Unrecorded(key)'
      BY <1>1, <1>2, <2>1 DEF Unrecorded
    <3>5. QED
      BY <1>1, <1>2, <1>3, <2>1, <3>2, <3>3, <3>4 DEF KeyInv, Pending
  <2>2. CASE key # k
    <3>1. KeyInv(key)
      BY <1>1, <1>5, <2>2 DEF RecordInv
    <3>2. \A f \in helpers' : Pending(f, key) => f \in helpers
      BY <1>1, <1>2, <2>2 DEF Pending
    <3>3. Unrecorded(key)' <=> Unrecorded(key)
      BY <1>1, <1>2, <2>2 DEF Unrecorded
    <3>4. (Agrees(key, record) => Agrees(key, record)') /\ (Agrees(key, recordFile) => Agrees(key, recordFile)')
      BY <1>1, <1>3, <2>2 DEF Agrees
    <3>5. key \in DOMAIN installed => key \in DOMAIN installed' /\ installed'[key] = installed[key]
      BY <1>3, <2>2
    <3>6. QED
      BY <1>1, <3>1, <3>2, <3>3, <3>4, <3>5 DEF KeyInv, Pending
  <2>3. QED
    BY <2>1, <2>2
<1>6. QED
  BY <1>4, <1>5 DEF RecordInv

\* A helper begins, or ends without having been in doubt: nothing is pending more.
LEMMA HelpersMove ==
  ASSUME RecordInv, UNCHANGED <<idle, record, recordFile, installed, unknown>>,
         \A h \in helpers' :
           {"what", "stage"} \subseteq DOMAIN h,
         \A key \in Privileged \ unknown : \A f \in helpers' : Pending(f, key) =>
           \E g \in helpers : Pending(g, key) /\ g.what = f.what,
         \A key \in Privileged \ unknown : \A f \in helpers : Pending(f, key) =>
           \E g \in helpers' : Pending(g, key),
         \A key \in Privileged \ unknown : \A f, g \in helpers' :
           Pending(f, key) /\ Pending(g, key) => f = g
  PROVE  RecordInv'
<1>1. RecordTypes'
  BY DEF RecordInv, RecordTypes
<1>2. ASSUME NEW key \in Privileged \ unknown
      PROVE  KeyInv(key)'
  <2>1. KeyInv(key)
    BY DEF RecordInv
  <2>2. Unrecorded(key)' <=> Unrecorded(key)
    BY DEF Unrecorded, Pending
  <2>3. (Agrees(key, record)' <=> Agrees(key, record)) /\ (Agrees(key, recordFile)' <=> Agrees(key, recordFile))
    BY DEF Agrees
  <2>4. \A f, g \in helpers' : Pending(f, key) /\ Pending(g, key) => f = g
    OBVIOUS
  <2>5. \A f \in helpers', n \in DOMAIN idle' : ~(Pending(f, key) /\ idle'[n].surface = key)
    BY <2>1 DEF KeyInv
  <2>6. \A f \in helpers' : Pending(f, key) => key \in DOMAIN installed' /\ installed'[key] = Given(f.what)
    BY <2>1 DEF KeyInv
  <2>7. QED
    BY <2>1, <2>2, <2>3, <2>4, <2>5, <2>6 DEF KeyInv, Pending
<1>3. QED
  BY <1>1, <1>2 DEF RecordInv

LEMMA HelperKeeps ==
  ASSUME RecordInv, SubmitDialog \/ \E h \in helpers : HelperRefused(h) \/ HelperTimesOut(h)
  PROVE  RecordInv'
<1>1. CASE SubmitDialog
  <2> DEFINE g == [what |-> dialog, number |-> budget.root, stage |-> "runs", heard |-> TRUE]
  <2>1. helpers' = helpers \cup {g} /\ UNCHANGED <<idle, record, recordFile, installed, unknown>>
    BY <1>1 DEF SubmitDialog
  <2>2. \A f \in helpers', key \in Privileged : Pending(f, key) => f \in helpers
    BY <2>1 DEF Pending
  <2>3. \A h \in helpers' :
          {"what", "stage"} \subseteq DOMAIN h
    BY <2>1 DEF RecordInv, RecordTypes
  <2>4. helpers \subseteq helpers'
    BY <2>1
  <2>5. \A key \in Privileged \ unknown : \A f, h \in helpers' :
          Pending(f, key) /\ Pending(h, key) => f = h
    BY <2>2 DEF RecordInv, KeyInv
  <2>6. QED
    BY <2>1, <2>2, <2>3, <2>4, <2>5, HelpersMove
<1>2. CASE \E h \in helpers : HelperRefused(h)
  <2>1. PICK h \in helpers : HelperRefused(h)
    BY <1>2
  <2>2. helpers' = helpers \ {h} /\ UNCHANGED <<idle, record, recordFile, installed, unknown>>
    BY <2>1 DEF HelperRefused
  <2>3. \A key \in Privileged : ~Pending(h, key)
    BY <2>1 DEF HelperRefused, Pending
  <2>4. \A f \in helpers, key \in Privileged : Pending(f, key) => f \in helpers'
    BY <2>2, <2>3
  <2>5. \A f \in helpers' :
          {"what", "stage"} \subseteq DOMAIN f
    BY <2>2 DEF RecordInv, RecordTypes
  <2>6. \A key \in Privileged \ unknown : \A f, g \in helpers' :
          Pending(f, key) /\ Pending(g, key) => f = g
    BY <2>2 DEF RecordInv, KeyInv
  <2>7. helpers' \subseteq helpers
    BY <2>2
  <2>8. QED
    BY <2>2, <2>4, <2>5, <2>6, <2>7, HelpersMove
<1>3. CASE \E h \in helpers : HelperTimesOut(h)
  <2>1. PICK h \in helpers : HelperTimesOut(h)
    BY <1>3
  <2> DEFINE g == [h EXCEPT !.heard = FALSE]
  <2>2. helpers' = (helpers \ {h}) \cup {g} /\ UNCHANGED <<idle, record, recordFile, installed, unknown>>
    BY <2>1 DEF HelperTimesOut
  <2>3. {"what", "stage"} \subseteq DOMAIN h
    BY DEF RecordInv, RecordTypes
  <2>4. /\ g.what = h.what /\ g.stage = h.stage
        /\ {"what", "stage"} \subseteq DOMAIN g
    BY <2>3
  <2>5. \A key \in Privileged : Pending(g, key) <=> Pending(h, key)
    BY <2>4 DEF Pending
  <2>6. \A f \in helpers' :
          {"what", "stage"} \subseteq DOMAIN f
    BY <2>2, <2>4 DEF RecordInv, RecordTypes
  <2>7. \A key \in Privileged \ unknown : \A e, f \in helpers' :
          Pending(e, key) /\ Pending(f, key) => e = f
    <3>1. ASSUME NEW key \in Privileged \ unknown, NEW e \in helpers', NEW f \in helpers',
                 Pending(e, key), Pending(f, key), e # f
          PROVE  FALSE
      <4>1. KeyInv(key)
        BY DEF RecordInv
      <4>2. e = g \/ (e \in helpers /\ e # h)
        BY <2>2
      <4>3. f = g \/ (f \in helpers /\ f # h)
        BY <2>2
      <4>4. h \in helpers /\ (Pending(g, key) <=> Pending(h, key))
        BY <2>5
      <4>5. QED
        BY <3>1, <4>1, <4>2, <4>3, <4>4 DEF KeyInv
    <3>2. QED
      BY <3>1
  <2>8. \A key \in Privileged \ unknown : \A f \in helpers' : Pending(f, key) =>
          \E e \in helpers : Pending(e, key) /\ e.what = f.what
    BY <2>2, <2>4, <2>5
  <2>9. \A key \in Privileged \ unknown : \A f \in helpers : Pending(f, key) =>
          \E e \in helpers' : Pending(e, key)
    BY <2>2, <2>5
  <2>10. QED
    BY <2>2, <2>6, <2>7, <2>8, <2>9, HelpersMove
<1>4. QED
  BY <1>1, <1>2, <1>3

\* A helper that breaks puts its surface in doubt and leaves the others alone.
LEMMA BreakKeeps ==
  ASSUME RecordInv, NEW h \in helpers, HelperBreaks(h)
  PROVE  RecordInv'
<1> DEFINE k == h.what.surface
<1>1. /\ h.stage = "runs" /\ helpers' = helpers \ {h} /\ UNCHANGED <<idle, record, recordFile>>
      /\ installed' = Put(installed, k, Given(h.what)) /\ unknown' = unknown \cup {k}
  BY DEF HelperBreaks, Given
<1>2. /\ DOMAIN installed' = {k} \cup DOMAIN installed
      /\ \A key \in DOMAIN installed : key # k => installed'[key] = installed[key]
  BY <1>1 DEF Put
<1>3. RecordTypes'
  BY <1>1 DEF RecordInv, RecordTypes
<1>4. ASSUME NEW key \in Privileged \ unknown'
      PROVE  KeyInv(key)'
  <2>1. key # k /\ KeyInv(key)
    BY <1>1, <1>4 DEF RecordInv
  <2>2. Unrecorded(key)' <=> Unrecorded(key)
    BY <1>1 DEF Unrecorded
  <2>3. (Agrees(key, record) => Agrees(key, record)') /\ (Agrees(key, recordFile) => Agrees(key, recordFile)')
    BY <1>1, <1>2, <2>1 DEF Agrees
  <2>4. key \in DOMAIN installed => key \in DOMAIN installed' /\ installed'[key] = installed[key]
    BY <1>2, <2>1
  <2>5. QED
    BY <1>1, <2>1, <2>2, <2>3, <2>4 DEF KeyInv, Pending
<1>5. QED
  BY <1>3, <1>4 DEF RecordInv

LEMMA ExitKeeps ==
  ASSUME RecordInv, NEW h \in helpers, HelperExits(h)
  PROVE  RecordInv'
<1> DEFINE k == h.what.surface
<1>1. /\ h.stage = "installed" /\ helpers' = helpers \ {h} /\ UNCHANGED <<record, recordFile, installed>>
      /\ idle' = IF h.heard THEN Append(idle, h.what) ELSE idle
      /\ unknown' = IF h.heard THEN unknown ELSE unknown \cup {k}
  BY DEF HelperExits
<1>2. PICK W : idle \in Seq(W)
  BY DEF RecordInv, RecordTypes
<1>3. idle \in Seq(W \cup {h.what})
  BY <1>2
<1>4. idle' \in Seq(W \cup {h.what})
  BY <1>1, <1>3
<1>5. RecordTypes'
  BY <1>1, <1>4 DEF RecordInv, RecordTypes
<1>6. \A n \in DOMAIN idle' :
        \/ n \in DOMAIN idle /\ idle'[n] = idle[n]
        \/ h.heard /\ n = Len(idle) + 1 /\ idle'[n] = h.what
  BY <1>1, <1>3
<1>7. \A n \in DOMAIN idle : n \in DOMAIN idle' /\ idle'[n] = idle[n]
  BY <1>1, <1>3
<1>8. h.heard => Len(idle) + 1 \in DOMAIN idle' /\ idle'[Len(idle) + 1] = h.what
  BY <1>1, <1>3
<1>9. ASSUME NEW key \in Privileged \ unknown'
      PROVE  KeyInv(key)'
  <2>1. KeyInv(key)
    BY <1>1 DEF RecordInv
  <2>2. CASE key = k
    <3>1. h.heard
      BY <1>1, <1>9, <2>2
    <3>2. Pending(h, key)
      BY <1>1, <2>2 DEF Pending
    <3>3. \A f \in helpers' : ~Pending(f, key)
      BY <1>1, <2>1, <3>2 DEF KeyInv
    <3>4. \A n \in DOMAIN idle : idle[n].surface # key
      BY <2>1, <3>2 DEF KeyInv
    <3>5. \A n \in DOMAIN idle' : idle'[n].surface = key => n = Len(idle) + 1 /\ idle'[n] = h.what
      BY <1>6, <3>4
    <3>6. Unrecorded(key)'
      BY <1>8, <2>2, <3>1 DEF Unrecorded
    <3>7. key \in DOMAIN installed /\ installed[key] = Given(h.what)
      BY <2>1, <3>2 DEF KeyInv
    <3>8. \A f \in helpers' : ~Pending(f, key)'
      BY <3>3 DEF Pending
    <3>9. QED
      BY <1>1, <3>5, <3>6, <3>7, <3>8 DEF KeyInv
  <2>3. CASE key # k
    <3>1. \A n \in DOMAIN idle' : idle'[n].surface = key => n \in DOMAIN idle /\ idle'[n] = idle[n]
      BY <1>6, <2>3
    <3>2. Unrecorded(key) => Unrecorded(key)'
      BY <1>1, <1>7, <2>3 DEF Unrecorded
    <3>3. helpers' \subseteq helpers
      BY <1>1
    <3>4. (Agrees(key, record) => Agrees(key, record)') /\ (Agrees(key, recordFile) => Agrees(key, recordFile)')
      BY <1>1 DEF Agrees
    <3>5. QED
      BY <1>1, <2>1, <3>1, <3>2, <3>3, <3>4 DEF KeyInv, Pending
  <2>4. QED
    BY <2>2, <2>3
<1>10. QED
  BY <1>5, <1>9 DEF RecordInv

LEMMA RecordKeeps ==
  ASSUME RecordInv, RecordApplied
  PROVE  RecordInv'
<1> DEFINE w == Head(idle)
           k == w.surface
<1>1. /\ idle # <<>> /\ idle' = Tail(idle) /\ UNCHANGED <<helpers, installed>>
      /\ record' = Put(record, k, Given(w))
      /\ \/ recordFile' = record' /\ unknown' = unknown
         \/ recordFile' = recordFile /\ unknown' = unknown \cup {k}
  <2>1. PICK saved \in BOOLEAN :
          /\ recordFile' = IF saved THEN record' ELSE recordFile
          /\ unknown' = IF saved THEN unknown ELSE unknown \cup {k}
    BY DEF RecordApplied
  <2>2. /\ idle # <<>> /\ idle' = Tail(idle) /\ UNCHANGED <<helpers, installed>>
        /\ record' = Put(record, k, Given(w))
    BY DEF RecordApplied, Given
  <2>3. QED
    BY <2>1, <2>2
<1>2. PICK W : idle \in Seq(W)
  BY DEF RecordInv, RecordTypes
<1>3. RecordTypes'
  <2>1. idle' \in Seq(W)
    BY <1>1, <1>2
  <2>2. QED
    BY <1>1, <2>1 DEF RecordInv, RecordTypes
<1>4. \A n \in DOMAIN idle' : n + 1 \in DOMAIN idle /\ idle'[n] = idle[n + 1] /\ n \in Nat \ {0}
  BY <1>1, <1>2
<1>5. \A n \in DOMAIN idle : n = 1 \/ (n - 1 \in DOMAIN idle' /\ idle'[n - 1] = idle[n])
  BY <1>1, <1>2
<1>6. 1 \in DOMAIN idle /\ idle[1] = w
  BY <1>1, <1>2
<1>7. /\ DOMAIN record' = {k} \cup DOMAIN record /\ record'[k] = Given(w)
      /\ \A key \in DOMAIN record : key # k => record'[key] = record[key]
  BY <1>1 DEF Put
<1>8. ASSUME NEW key \in Privileged \ unknown'
      PROVE  KeyInv(key)'
  <2>1. KeyInv(key)
    BY <1>1 DEF RecordInv
  <2>2. CASE key = k
    <3>1. recordFile' = record'
      BY <1>1, <1>8, <2>2
    <3>2. \A n \in DOMAIN idle' : idle'[n].surface # key
      BY <1>4, <1>6, <2>1, <2>2 DEF KeyInv
    <3>3. \A f \in helpers' : ~Pending(f, key)'
      BY <1>1, <1>6, <2>1, <2>2 DEF KeyInv, Pending
    <3>4. key \in DOMAIN installed /\ installed[key] = Given(w)
      BY <1>6, <2>1, <2>2 DEF KeyInv
    <3>5. Agrees(key, record)' /\ Agrees(key, recordFile)'
      BY <1>1, <1>7, <2>2, <3>1, <3>4 DEF Agrees
    <3>6. QED
      BY <3>2, <3>3, <3>5 DEF KeyInv
  <2>3. CASE key # k
    <3>1. \A m, n \in DOMAIN idle' : idle'[m].surface = key /\ idle'[n].surface = key => m = n
      <4>1. \A m, n \in DOMAIN idle' :
              idle'[m].surface = key /\ idle'[n].surface = key => m + 1 = n + 1
        BY <1>4, <2>1 DEF KeyInv
      <4>2. QED
        BY <1>4, <4>1
    <3>2. Unrecorded(key) => Unrecorded(key)'
      BY <1>1, <1>5, <1>6, <2>3 DEF Unrecorded
    <3>3. (Agrees(key, record) => Agrees(key, record)')
          /\ (Agrees(key, record) /\ Agrees(key, recordFile) => Agrees(key, recordFile)')
      BY <1>1, <1>7, <2>3 DEF Agrees
    <3>4. \A n \in DOMAIN idle' : idle'[n].surface = key =>
            /\ \A h \in helpers : ~Pending(h, key)
            /\ key \in DOMAIN installed /\ installed[key] = Given(idle'[n])
      BY <1>4, <2>1 DEF KeyInv
    <3>5. ~Unrecorded(key)' => Agrees(key, record)' /\ Agrees(key, recordFile)'
      BY <2>1, <3>2, <3>3 DEF KeyInv
    <3>6. QED
      BY <1>1, <2>1, <3>1, <3>4, <3>5 DEF KeyInv, Pending
  <2>4. QED
    BY <2>2, <2>3
<1>9. QED
  BY <1>3, <1>8 DEF RecordInv

LEMMA RestartRecord ==
  ASSUME RecordInv, Restart
  PROVE  RecordInv'
<1> DEFINE Deaf(h) == [h EXCEPT !.heard = FALSE]
<1>1. /\ helpers' = {Deaf(h) : h \in helpers}
      /\ unknown' = unknown \cup {idle[n].surface : n \in DOMAIN idle}
      /\ idle' = <<>> /\ record' = recordFile /\ UNCHANGED <<recordFile, installed>>
  BY DEF Restart, Launched
<1>2. \A h \in helpers : {"what", "stage"} \subseteq DOMAIN h
  BY DEF RecordInv, RecordTypes
<1>3. \A h \in helpers :
        Deaf(h).what = h.what /\ Deaf(h).stage = h.stage /\ {"what", "stage"} \subseteq DOMAIN Deaf(h)
  BY <1>2
<1>4. \A f \in helpers' : \E h \in helpers :
        f = Deaf(h) /\ f.what = h.what /\ f.stage = h.stage /\ {"what", "stage"} \subseteq DOMAIN f
  BY <1>1, <1>3
<1>5. RecordTypes'
  <2>1. idle' \in Seq({})
    BY <1>1
  <2>2. QED
    BY <1>4, <2>1 DEF RecordTypes
<1>6. ASSUME NEW key \in Privileged \ unknown'
      PROVE  KeyInv(key)'
  <2>1. KeyInv(key) /\ \A n \in DOMAIN idle : idle[n].surface # key
    BY <1>1, <1>6 DEF RecordInv
  <2>2. DOMAIN idle' = {}
    BY <1>1
  <2>3. ASSUME NEW f \in helpers', NEW g \in helpers', Pending(f, key), Pending(g, key)
        PROVE  f = g
    <3>1. PICK e \in helpers : f = Deaf(e) /\ f.what = e.what /\ f.stage = e.stage
      BY <1>4
    <3>2. PICK h \in helpers : g = Deaf(h) /\ g.what = h.what /\ g.stage = h.stage
      BY <1>4
    <3>3. Pending(e, key) /\ Pending(h, key)
      BY <2>3, <3>1, <3>2 DEF Pending
    <3>4. e = h
      BY <2>1, <3>3 DEF KeyInv
    <3>5. QED
      BY <3>1, <3>2, <3>4
  <2>4. \A f \in helpers' : Pending(f, key) => key \in DOMAIN installed /\ installed[key] = Given(f.what)
    BY <1>4, <2>1 DEF KeyInv, Pending
  <2>5. Unrecorded(key) => Unrecorded(key)'
    BY <1>1, <1>3, <2>1 DEF Unrecorded
  <2>6. ~Unrecorded(key)' => Agrees(key, record)' /\ Agrees(key, recordFile)'
    BY <1>1, <2>1, <2>5 DEF KeyInv, Agrees
  <2>7. QED
    BY <1>1, <2>2, <2>3, <2>4, <2>6 DEF KeyInv, Pending
<1>7. QED
  BY <1>5, <1>6 DEF RecordInv

LEMMA RecordKept ==
  ASSUME RecordInv, RecordStep
  PROVE  RecordInv'
<1>1. CASE SubmitDialog \/ \E h \in helpers : HelperRefused(h) \/ HelperTimesOut(h)
  BY <1>1, HelperKeeps
<1>2. CASE \E h \in helpers : HelperInstalls(h) \/ HelperBreaks(h) \/ HelperExits(h)
  BY <1>2, InstallKeeps, BreakKeeps, ExitKeeps
<1>3. CASE RecordApplied \/ Restart
  BY <1>3, RecordKeeps, RestartRecord
<1>4. CASE UNCHANGED <<helpers, idle, record, recordFile, installed, unknown>>
  BY <1>4 DEF RecordInv, RecordTypes, KeyInv, Agrees, Unrecorded, Pending
<1>5. QED
  BY <1>1, <1>2, <1>3, <1>4 DEF RecordStep

-----------------------------------------------------------------------------
\* The cards.

\* The card shows what the Apply of its surface would send.
Honest(card, key) ==
  /\ card.can = CanApply(key, override, image)
  /\ card.can => card.image = Resolved(key, override, image) /\ card.fit = FitOf(key, fits)

PreviewInv ==
  /\ DOMAIN cards = Surface
  /\ \A key \in Surface :
       {"image", "fit", "can"} \subseteq DOMAIN cards[key] /\ Honest(cards[key], key)

\* What the steps of the window are to the cards.
PreviewStep ==
  /\ UNCHANGED backend
  /\ \/ \E fs : Rebuild(fs)
     \/ UNCHANGED <<image, override, fits>> /\ \E key : RefreshCard(key)
     \/ \E key \in Surface, i \in Picture : SetSurfaceImage(key, i)
     \/ \E key \in Surface, f \in Fits : FitCard(key, f)
     \/ UNCHANGED <<image, override, fits, cards>>

LEMMA PreviewSteps ==
  ASSUME [Next]_vars
  PROVE  PreviewStep
<1>1. CASE UNCHANGED vars
  BY <1>1 DEF vars, deskVars, PreviewStep
<1>2. CASE \E i \in Picture : SetGlobalImage(i) \/ UseInScreens(i) \/ ApplyTile(i)
  BY <1>2 DEF SetGlobalImage, UseInScreens, ApplyTile, Notify, Refresh, PreviewStep
<1>3. CASE \E p \in Picture \cup {Unusable} : LoadImage(p)
  BY <1>3 DEF LoadImage, SetGlobalImage, Notify, Refresh, PreviewStep
<1>4. CASE \E key \in Surface, i \in Picture : SetSurfaceImage(key, i)
  <2>1. UNCHANGED backend
    BY <1>4 DEF SetSurfaceImage
  <2>2. QED
    BY <1>4, <2>1 DEF PreviewStep
<1>5. CASE \E key \in Surface, f \in Fits : FitCard(key, f)
  <2>1. UNCHANGED backend
    BY <1>5 DEF FitCard
  <2>2. QED
    BY <1>5, <2>1 DEF PreviewStep
<1>6. CASE \E f \in Fits : FitAll(f) \/ DefaultFit(f)
  BY <1>6 DEF FitAll, DefaultFit, Notify, Refresh, PreviewStep
<1>7. CASE Pick \/ ShowScreens \/ ShowWallpaper
  BY <1>7 DEF Pick, ShowScreens, ShowWallpaper, Refresh, deskVars, PreviewStep
<1>8. CASE \E key \in Surface : ApplyCard(key) \/ ApplyPrivileged(key)
  BY <1>8 DEF ApplyCard, ApplyPrivileged, desktopVars, PreviewStep
<1>9. CASE ApplyAll \/ Undo \/ ToastExpires \/ ChosenElsewhere \/ CancelDialog \/ SubmitDialog
  BY <1>9 DEF ApplyAll, Undo, ToastExpires, ChosenElsewhere, CancelDialog, SubmitDialog,
              desktopVars, PreviewStep
<1>10. CASE \E h \in helpers :
              HelperInstalls(h) \/ HelperRefused(h) \/ HelperBreaks(h) \/ HelperTimesOut(h) \/ HelperExits(h)
  BY <1>10 DEF HelperInstalls, HelperRefused, HelperBreaks, HelperTimesOut, HelperExits, desktopVars, PreviewStep
<1>11. CASE RecordApplied
  BY <1>11 DEF RecordApplied, desktopVars, PreviewStep
<1>12. CASE Restart
  BY <1>12 DEF Restart, PreviewStep
<1>13. CASE AddFiles \/ RemoveTile \/ CommandStarts \/ CommandSaves \/ Saves \/ SaveIsRefused
            \/ IndexReported
  BY <1>13 DEF AddFiles, RemoveTile, CommandStarts, CommandSaves, Saves, SaveIsRefused,
               IndexReported, deskVars, PreviewStep
<1>14. CASE MoveSwitch \/ MenuChanged \/ MenuRefused \/ ThunarChanges
  BY <1>14 DEF MoveSwitch, MenuChanged, MenuRefused, ThunarChanges, otherVars, deskVars, PreviewStep
<1>15. QED
  BY <1>1, <1>2, <1>3, <1>4, <1>5, <1>6, <1>7, <1>8, <1>9, <1>10, <1>11, <1>12, <1>13, <1>14 DEF Next

LEMMA CanApplyType == \A key, o, i : CanApply(key, o, i) \in BOOLEAN
BY DEF CanApply

\* What is previewed of a surface that has an image to apply is that image.
LEMMA PreviewOfChosen ==
  ASSUME NEW key, NEW o, NEW i, NEW back, NEW rec, CanApply(key, o, i)
  PROVE  Previewed(key, o, i, back, rec) = Resolved(key, o, i)
BY DEF Previewed, CanApply

LEMMA CardShows ==
  ASSUME NEW key, NEW o, NEW i, NEW fs, NEW back, NEW rec, NEW done
  PROVE  LET card == Card(key, o, i, fs, back, rec, done)
         IN /\ {"image", "fit", "can"} \subseteq DOMAIN card
            /\ card.can = CanApply(key, o, i)
            /\ card.can => card.image = Resolved(key, o, i) /\ card.fit = FitOf(key, fs)
<1> DEFINE card == Card(key, o, i, fs, back, rec, done)
<1>1. {"image", "fit", "can"} \subseteq DOMAIN card
  BY DEF Card
<1>2. card.can = CanApply(key, o, i)
  BY DEF Card
<1>3. CanApply(key, o, i) => card.image = Resolved(key, o, i)
  BY PreviewOfChosen DEF Card
<1>4. card.fit = FitOf(key, fs)
  BY DEF Card
<1>5. QED
  BY <1>1, <1>2, <1>3, <1>4

\* One card drawn anew, and the others left.
LEMMA CardDrawn ==
  ASSUME NEW old, NEW key, NEW i, NEW f, NEW b \in BOOLEAN, DOMAIN old = Surface,
         \A k \in Surface : {"image", "fit", "can"} \subseteq DOMAIN old[k]
  PROVE  LET new == [old EXCEPT ![key].image = i, ![key].fit = f, ![key].can = b]
         IN /\ DOMAIN new = Surface
            /\ \A k \in Surface : {"image", "fit", "can"} \subseteq DOMAIN new[k]
            /\ key \in Surface => new[key].image = i /\ new[key].fit = f /\ new[key].can = b
            /\ \A k \in Surface \ {key} : new[k] = old[k]
OBVIOUS

LEMMA RebuildShows ==
  ASSUME NEW fs, Rebuild(fs), UNCHANGED backend
  PROVE  PreviewInv'
<1>1. cards' = [key \in Surface |-> Card(key, override', image', fits', backdrop', record', applied')]
  BY DEF Rebuild
<1>2. ASSUME NEW key \in Surface
      PROVE  {"image", "fit", "can"} \subseteq DOMAIN cards'[key] /\ Honest(cards[key], key)'
  <2>1. cards'[key] = Card(key, override', image', fits', backdrop', record', applied')
    BY <1>1
  <2>2. CanApply(key, override, image)' = CanApply(key, override', image')
    BY DEF CanApply, Resolved
  <2>3. QED
    BY <2>1, <2>2, CardShows DEF Honest
<1>3. QED
  BY <1>1, <1>2 DEF PreviewInv

LEMMA OneRefreshed ==
  ASSUME PreviewInv, NEW key, RefreshCard(key), UNCHANGED <<backend, image, fits>>,
         \A other \in Surface \ {key} : Resolved(other, override', image) = Resolved(other, override, image)
  PROVE  PreviewInv'
<1>1. PICK b \in BOOLEAN : b = CanApply(key, override', image')
  BY CanApplyType
<1> DEFINE i == Previewed(key, override', image', backdrop, record')
           f == FitOf(key, fits)
<1>2. cards' = [cards EXCEPT ![key].image = i, ![key].fit = f, ![key].can = b]
  BY <1>1, Zenon DEF RefreshCard
<1>3. /\ DOMAIN cards' = Surface
      /\ \A k \in Surface : {"image", "fit", "can"} \subseteq DOMAIN cards'[k]
      /\ key \in Surface => cards'[key].image = i /\ cards'[key].fit = f /\ cards'[key].can = b
      /\ \A k \in Surface \ {key} : cards'[k] = cards[k]
  BY <1>2, CardDrawn DEF PreviewInv
<1>4. ASSUME NEW k \in Surface
      PROVE  Honest(cards[k], k)'
  <2>1. CASE k = key
    <3>1. b => i = Resolved(key, override', image')
      BY <1>1, PreviewOfChosen
    <3>2. CanApply(key, override, image)' = CanApply(key, override', image')
      BY DEF CanApply
    <3>3. QED
      BY <1>1, <1>3, <2>1, <3>1, <3>2 DEF Honest
  <2>2. CASE k # key
    <3>1. Honest(cards[k], k) /\ cards'[k] = cards[k]
      BY <1>3, <2>2 DEF PreviewInv
    <3>2. Resolved(k, override, image)' = Resolved(k, override, image)
      BY <2>2 DEF Resolved
    <3>3. CanApply(k, override, image)' = CanApply(k, override, image)
      BY <3>2 DEF CanApply
    <3>4. FitOf(k, fits)' = FitOf(k, fits)
      BY DEF FitOf
    <3>5. QED
      BY <3>1, <3>2, <3>3, <3>4 DEF Honest
  <2>3. QED
    BY <2>1, <2>2
<1>5. QED
  BY <1>3, <1>4 DEF PreviewInv

LEMMA FitShows ==
  ASSUME PreviewInv, NEW key \in Surface, NEW f \in Fits, FitCard(key, f)
  PROVE  PreviewInv'
<1> DEFINE i == Previewed(key, override, image, backdrop, record)
<1>1. /\ fits' = Put(fits, key, f) /\ UNCHANGED <<backend, image, override>>
      /\ cards' = [cards EXCEPT ![key].fit = f, ![key].image = i]
  BY DEF FitCard
<1>2. /\ DOMAIN cards = Surface
      /\ \A k \in Surface : {"image", "fit", "can"} \subseteq DOMAIN cards[k] /\ Honest(cards[k], k)
  BY DEF PreviewInv
<1>3. /\ DOMAIN cards' = Surface
      /\ \A k \in Surface : {"image", "fit", "can"} \subseteq DOMAIN cards'[k]
      /\ cards'[key].image = i /\ cards'[key].fit = f /\ cards'[key].can = cards[key].can
      /\ \A k \in Surface \ {key} : cards'[k] = cards[k]
  BY <1>1, <1>2
<1>4. \A k \in Surface : FitOf(k, fits)' = IF k = key THEN f ELSE FitOf(k, fits)
  BY <1>1 DEF FitOf, Put
<1>5. \A k : CanApply(k, override, image)' = CanApply(k, override, image)
             /\ Resolved(k, override, image)' = Resolved(k, override, image)
  BY <1>1 DEF CanApply, Resolved
<1>6. ASSUME NEW k \in Surface
      PROVE  Honest(cards[k], k)'
  <2>1. CASE k = key
    <3>1. cards[key].can => i = Resolved(key, override, image)
      BY <1>2, PreviewOfChosen DEF Honest
    <3>2. QED
      BY <1>2, <1>3, <1>4, <1>5, <2>1, <3>1 DEF Honest
  <2>2. CASE k # key
    BY <1>2, <1>3, <1>4, <1>5, <2>2 DEF Honest
  <2>3. QED
    BY <2>1, <2>2
<1>7. QED
  BY <1>3, <1>6 DEF PreviewInv

LEMMA PreviewKept ==
  ASSUME PreviewInv, PreviewStep
  PROVE  PreviewInv'
<1>1. CASE \E fs : Rebuild(fs)
  BY <1>1, RebuildShows DEF PreviewStep
<1>2. CASE UNCHANGED <<image, override, fits>> /\ \E key : RefreshCard(key)
  <2>1. PICK key : RefreshCard(key)
    BY <1>2
  <2>2. \A other : Resolved(other, override', image) = Resolved(other, override, image)
    BY <1>2 DEF Resolved
  <2>3. QED
    BY <1>2, <2>1, <2>2, OneRefreshed DEF PreviewStep
<1>3. CASE \E key \in Surface, i \in Picture : SetSurfaceImage(key, i)
  <2>1. PICK key \in Surface, i \in Picture : SetSurfaceImage(key, i)
    BY <1>3
  <2>2. override' = Put(override, key, i) /\ UNCHANGED <<backend, image, fits>> /\ RefreshCard(key)
    BY <2>1 DEF SetSurfaceImage
  <2>3. \A other \in Surface \ {key} :
          Resolved(other, override', image) = Resolved(other, override, image)
    BY <2>2 DEF Resolved, Put
  <2>4. QED
    BY <2>2, <2>3, OneRefreshed
<1>4. CASE \E key \in Surface, f \in Fits : FitCard(key, f)
  BY <1>4, FitShows
<1>5. CASE UNCHANGED <<image, override, fits, cards>>
  <2>1. \A k : /\ CanApply(k, override, image)' = CanApply(k, override, image)
               /\ Resolved(k, override, image)' = Resolved(k, override, image)
               /\ FitOf(k, fits)' = FitOf(k, fits)
    BY <1>5 DEF PreviewStep, CanApply, Resolved, FitOf
  <2>2. QED
    BY <1>5, <2>1 DEF PreviewInv, Honest
<1>6. QED
  BY <1>1, <1>2, <1>3, <1>4, <1>5 DEF PreviewStep

LEMMA PreviewStarts == Init => PreviewInv
<1>1. SUFFICES ASSUME cards = [key \in Surface |->
                                 Card(key, override, image, fits, backdrop, record, applied)]
               PROVE  PreviewInv
  BY DEF Init
<1>2. \A key \in Surface :
        cards[key] = Card(key, override, image, fits, backdrop, record, applied)
  BY <1>1
<1>3. QED
  BY <1>1, <1>2, CardShows DEF PreviewInv, Honest

-----------------------------------------------------------------------------
\* The theorem.

\* Whatever the user, the helpers, Thunar and the file manager do, for any pictures
\* and any number of steps: a card shows what its Apply would send (screens.py), the
\* record of a privileged surface is what was installed there, also after a restart
\* (window.py, state.py), and the switch shows whether the entry is in the menu,
\* except after the races that the properties name.
THEOREM WindowTrue == Spec => []WindowTells
<1> DEFINE Inv == MenuInv /\ SwitchInv /\ RecordInv /\ PreviewInv
<1>1. Init => Inv
  BY MenuInit, SwitchStarts, RecordStarts, PreviewStarts
<1>2. Inv /\ [Next]_vars => Inv'
  BY Steps, MenuKept, SwitchKept, RecordSteps, RecordKept, PreviewSteps, PreviewKept
<1>3. Inv => WindowTells
  <2>1. PreviewInv => PreviewIsApplied
    BY DEF PreviewInv, PreviewIsApplied, Honest
  <2>2. RecordInv => RecordTells
    BY DEF RecordInv, RecordTells, KeyInv, Agrees
  <2>3. SwitchInv => SwitchTells
    BY DEF SwitchInv, SwitchTells
  <2>4. QED
    BY <2>1, <2>2, <2>3 DEF WindowTells
<1>4. QED
  BY <1>1, <1>2, <1>3, PTL DEF Spec

-----------------------------------------------------------------------------
\* The steps a session has left.

BudgetInv == budget \in [StepKind -> Nat]

LEMMA Spending ==
  ASSUME BudgetInv, NEW kind \in StepKind, Spend(kind)
  PROVE  /\ BudgetInv' /\ budget'[kind] # budget[kind]
         /\ \A k \in StepKind \ {kind} : budget'[k] = budget[k]
BY DEF BudgetInv, Spend

LEMMA SpendingWith ==
  ASSUME BudgetInv, NEW kind \in StepKind \ {"fault"}, NEW fault \in BOOLEAN, SpendWith(kind, fault)
  PROVE  /\ BudgetInv' /\ budget'[kind] # budget[kind]
         /\ budget'["fault"] # budget["fault"] <=> fault
         /\ \A k \in StepKind \ {kind, "fault"} : budget'[k] = budget[k]
<1>1. /\ budget \in [StepKind -> Nat] /\ kind \in StepKind /\ kind # "fault" /\ "fault" \in StepKind
      /\ budget[kind] > 0 /\ (fault => budget["fault"] > 0)
      /\ budget' = [k \in DOMAIN budget |->
                      budget[k] - (IF k = kind \/ (k = "fault" /\ fault) THEN 1 ELSE 0)]
  BY DEF BudgetInv, SpendWith, StepKind
<1>2. budget' \in [StepKind -> Nat]
  BY <1>1
<1>3. budget'[kind] = budget[kind] - 1
  BY <1>1
<1>4. budget'["fault"] = IF fault THEN budget["fault"] - 1 ELSE budget["fault"]
  BY <1>1
<1>5. \A k \in StepKind \ {kind, "fault"} : budget'[k] = budget[k]
  BY <1>1
<1>6. budget[kind] \in Nat /\ budget["fault"] \in Nat
  BY <1>1
<1>7. QED
  BY <1>2, <1>3, <1>4, <1>5, <1>6 DEF BudgetInv

\* What the steps of the window are to these numbers.
Free == StepKind \ {"fit", "apply", "undo", "restart"}

BudgetStep ==
  \/ UNCHANGED budget
  \/ \E kind \in Free : Spend(kind)
  \/ \E key \in Surface, f \in Fits : FitCard(key, f)
  \/ \E f \in Fits : FitAll(f) \/ DefaultFit(f)
  \/ \E fault : SpendWith("apply", fault)
  \/ Undo
  \/ Restart

LEMMA BudgetSteps ==
  ASSUME [Next]_vars
  PROVE  BudgetStep
<1>1. CASE UNCHANGED vars
  BY <1>1 DEF vars, BudgetStep
<1>2. CASE \E i \in Picture : SetGlobalImage(i) \/ UseInScreens(i) \/ ApplyTile(i)
  BY <1>2 DEF SetGlobalImage, UseInScreens, ApplyTile, Applying, BudgetStep, Free, StepKind
<1>3. CASE \E p \in Picture \cup {Unusable} : LoadImage(p)
  BY <1>3 DEF LoadImage, SetGlobalImage, BudgetStep, Free, StepKind
<1>4. CASE \E key \in Surface, i \in Picture : SetSurfaceImage(key, i)
  BY <1>4 DEF SetSurfaceImage, BudgetStep, Free, StepKind
<1>5. CASE (\E key \in Surface, f \in Fits : FitCard(key, f)) \/ \E f \in Fits : FitAll(f) \/ DefaultFit(f)
  BY <1>5 DEF BudgetStep
<1>6. CASE Pick \/ ShowScreens \/ ShowWallpaper
  BY <1>6 DEF Pick, ShowScreens, ShowWallpaper, BudgetStep, Free, StepKind
<1>7. CASE \E key \in Surface : ApplyCard(key) \/ ApplyPrivileged(key)
  BY <1>7 DEF ApplyCard, Applying, ApplyPrivileged, BudgetStep, Free, StepKind
<1>8. CASE ApplyAll
  BY <1>8 DEF ApplyAll, BudgetStep
<1>9. CASE ToastExpires \/ ChosenElsewhere \/ CancelDialog \/ SubmitDialog
  BY <1>9 DEF ToastExpires, ChosenElsewhere, CancelDialog, SubmitDialog, BudgetStep, Free, StepKind
<1>10. CASE \E h \in helpers :
              HelperInstalls(h) \/ HelperRefused(h) \/ HelperBreaks(h) \/ HelperTimesOut(h) \/ HelperExits(h)
  BY <1>10 DEF HelperInstalls, HelperRefused, HelperBreaks, HelperTimesOut, HelperExits, BudgetStep, Free, StepKind
<1>11. CASE RecordApplied
  BY <1>11 DEF RecordApplied, BudgetStep, Free, StepKind
<1>12. CASE Undo \/ Restart
  BY <1>12 DEF BudgetStep
<1>13. CASE AddFiles \/ RemoveTile \/ CommandStarts \/ CommandSaves \/ Saves \/ SaveIsRefused
            \/ IndexReported
  BY <1>13 DEF AddFiles, RemoveTile, CommandStarts, CommandSaves, Saves, SaveIsRefused,
               IndexReported, BudgetStep, Free, StepKind
<1>14. CASE MoveSwitch \/ MenuChanged \/ MenuRefused \/ ThunarChanges
  BY <1>14 DEF MoveSwitch, MenuChanged, MenuRefused, ThunarChanges, BudgetStep, Free, StepKind
<1>15. QED
  BY <1>1, <1>2, <1>3, <1>4, <1>5, <1>6, <1>7, <1>8, <1>9, <1>10, <1>11, <1>12, <1>13, <1>14 DEF Next

LEMMA BudgetKept ==
  ASSUME BudgetInv, BudgetStep
  PROVE  BudgetInv' /\ (Undo \/ budget'["undo"] = budget["undo"])
<1>1. CASE UNCHANGED budget
  BY <1>1 DEF BudgetInv
<1>2. CASE \E kind \in Free : Spend(kind)
  BY <1>2, Spending DEF Free, StepKind
<1>3. CASE \E key \in Surface, f \in Fits : FitCard(key, f)
  BY <1>3, Spending DEF FitCard, StepKind
<1>4. CASE \E f \in Fits : FitAll(f) \/ DefaultFit(f)
  BY <1>4, Spending DEF FitAll, DefaultFit, StepKind
<1>5. CASE \E fault : SpendWith("apply", fault)
  <2>1. PICK fault : SpendWith("apply", fault)
    BY <1>5
  <2>2. SpendWith("apply", fault = TRUE)
    BY <2>1, Zenon DEF SpendWith
  <2>3. QED
    BY <2>2, SpendingWith DEF StepKind
<1>6. CASE Undo
  <2>1. PICK script, done : SpendWith("undo", done # DOMAIN RestoreWrites(backend, Head(toasts).previous, script))
    BY <1>6 DEF Undo
  <2>2. QED
    BY <1>6, <2>1, SpendingWith DEF StepKind
<1>7. CASE Restart
  BY <1>7, Spending DEF Restart, StepKind
<1>8. QED
  BY <1>1, <1>2, <1>3, <1>4, <1>5, <1>6, <1>7 DEF BudgetStep

LEMMA BudgetStarts == Init => BudgetInv
BY SessionsAssumption DEF Init, BudgetInv

-----------------------------------------------------------------------------
\* The images and the fits.

Request == [surface : Privileged, image : Picture, fit : Fit]
Recorded == [image : Picture, fit : Fit]
Helper == [what : Request, number : Nat, stage : {"runs", "installed"}, heard : BOOLEAN]

\* A record of the privileged surfaces.
IsRecord(rec) == DOMAIN rec \subseteq Privileged /\ \A key \in DOMAIN rec : rec[key] \in Recorded

\* The fits picked for the surfaces.
IsFits(fs) == DOMAIN fs \subseteq Surface /\ \A key \in DOMAIN fs : fs[key] \in Fit

ChoiceTypes ==
  /\ image \in Picture \cup {None} /\ {fit, fitButton, combo} \subseteq Fit
  /\ DOMAIN override \subseteq Surface /\ \A key \in DOMAIN override : override[key] \in Picture
  /\ IsFits(fits)

\* What was sent is on its way, and what came back is recorded.
RequestTypes ==
  /\ dialog # None => dialog \in Request
  /\ helpers \subseteq Helper /\ idle \in Seq(Request)
  /\ IsRecord(record) /\ IsRecord(recordFile) /\ DOMAIN recordFile \subseteq DOMAIN record

\* A privileged surface without a fit of its own was last sent, by this window,
\* at the fit that its card shows.
SentAtFill(key) ==
  /\ key \in DOMAIN record => record[key].fit = "fill"
  /\ dialog # None /\ dialog.surface = key => dialog.fit = "fill"
  /\ \A h \in helpers : h.heard /\ h.what.surface = key => h.what.fit = "fill"
  /\ \A n \in DOMAIN idle : idle[n].surface = key => idle[n].fit = "fill"

SeedInv == \A key \in Privileged \ DOMAIN fits : SentAtFill(key)

FitsInv == ChoiceTypes /\ RequestTypes /\ SeedInv

LEMMA FitsStart == Init => FitsInv
<1> SUFFICES ASSUME Init
             PROVE  FitsInv
  OBVIOUS
<1>1. /\ image = None /\ fit = "fill" /\ fitButton = "fill" /\ combo = "fill"
      /\ override = <<>> /\ fits = <<>> /\ dialog = None /\ helpers = {} /\ idle = <<>>
      /\ record = <<>> /\ recordFile = <<>>
  BY DEF Init
<1>2. DOMAIN override = {} /\ DOMAIN fits = {} /\ DOMAIN idle = {} /\ DOMAIN record = {}
      /\ DOMAIN recordFile = {} /\ idle \in Seq(Request)
  BY <1>1
<1>3. "fill" \in Fit
  BY DEF Fit
<1>4. ChoiceTypes
  BY <1>1, <1>2, <1>3 DEF ChoiceTypes, IsFits
<1>5. RequestTypes
  BY <1>1, <1>2 DEF RequestTypes, IsRecord
<1>6. SeedInv
  BY <1>1, <1>2 DEF SeedInv, SentAtFill
<1>7. QED
  BY <1>4, <1>5, <1>6 DEF FitsInv

LEMMA FitOfType == \A key, fs : IsFits(fs) => FitOf(key, fs) \in Fit
BY DEF FitOf, IsFits, Fit

LEMMA Surfaces == Privileged \subseteq Surface
BY DEF Surface

\* The fits after a rebuild.
LEMMA SeededFits ==
  ASSUME NEW fs, NEW rec, IsFits(fs), IsRecord(rec)
  PROVE  /\ IsFits(Seeded(fs, rec))
         /\ DOMAIN Seeded(fs, rec) = DOMAIN fs \cup DOMAIN rec
         /\ \A key : key \in DOMAIN fs => FitOf(key, Seeded(fs, rec)) = FitOf(key, fs)
         /\ \A key : key \in DOMAIN rec \ DOMAIN fs => FitOf(key, Seeded(fs, rec)) = rec[key].fit
         /\ \A key : key \notin DOMAIN rec \cup DOMAIN fs => FitOf(key, Seeded(fs, rec)) = FitOf(key, fs)
<1>1. DOMAIN rec \cap Privileged = DOMAIN rec
  BY DEF IsRecord
<1>2. Seeded(fs, rec) = [key \in DOMAIN fs \cup DOMAIN rec |->
                           IF key \in DOMAIN fs THEN fs[key] ELSE rec[key].fit]
  BY <1>1 DEF Seeded
<1>3. \A key \in DOMAIN rec : rec[key].fit \in Fit /\ key \in Surface
  BY Surfaces DEF IsRecord, Recorded
<1>4. DOMAIN Seeded(fs, rec) = DOMAIN fs \cup DOMAIN rec
  BY <1>2
<1>5. IsFits(Seeded(fs, rec))
  BY <1>2, <1>3 DEF IsFits
<1>6. QED
  BY <1>2, <1>4, <1>5 DEF FitOf

LEMMA SameFit ==
  ASSUME SeedInv, IsFits(fits), IsRecord(record), NEW key \in Surface
  PROVE  FitOf(key, Seeded(fits, record)) = FitOf(key, fits)
<1>1. CASE key \in DOMAIN record \ DOMAIN fits
  <2>1. record[key].fit = "fill"
    BY <1>1 DEF SeedInv, SentAtFill, IsRecord
  <2>2. FitOf(key, fits) = "fill"
    BY <1>1 DEF FitOf
  <2>3. QED
    BY <1>1, <2>1, <2>2, SeededFits
<1>2. CASE ~(key \in DOMAIN record \ DOMAIN fits)
  BY <1>2, SeededFits
<1>3. QED
  BY <1>1, <1>2

LEMMA EveryFit ==
  ASSUME NEW f \in Fit, IsRecord(record)
  PROVE  /\ IsFits(AllFits(f))
         /\ \A key \in Surface : FitOf(key, Seeded(AllFits(f), record)) = f
<1>1. AllFits(f) = [key \in Surface |-> f]
  BY DEF AllFits
<1>2. IsFits(AllFits(f)) /\ DOMAIN AllFits(f) = Surface /\ \A key \in Surface : FitOf(key, AllFits(f)) = f
  BY <1>1 DEF IsFits, FitOf
<1>3. ASSUME NEW key \in Surface
      PROVE  FitOf(key, Seeded(AllFits(f), record)) = f
  <2> DEFINE fs == AllFits(f)
  <2>1. IsFits(fs) /\ key \in DOMAIN fs
    BY <1>2
  <2> HIDE DEF fs
  <2>2. \A k : k \in DOMAIN fs => FitOf(k, Seeded(fs, record)) = FitOf(k, fs)
    BY <2>1, SeededFits
  <2>3. FitOf(key, Seeded(fs, record)) = FitOf(key, fs)
    BY <2>1, <2>2
  <2>4. QED
    BY <1>2, <2>3 DEF fs
<1>4. QED
  BY <1>2, <1>3

\* Nothing is sent or recorded: what the fits lose no surface needs.
LEMMA SeedRemains ==
  ASSUME SeedInv, UNCHANGED <<record, dialog, helpers, idle>>, DOMAIN fits \subseteq DOMAIN fits'
  PROVE  SeedInv'
BY DEF SeedInv, SentAtFill

LEMMA RebuildKeeps ==
  ASSUME FitsInv, NEW fs, IsFits(fs), DOMAIN fits \subseteq DOMAIN fs, Rebuild(fs),
         UNCHANGED <<record, recordFile, dialog, helpers, idle>>,
         image' \in Picture \cup {None}, {fit, fitButton, combo}' \subseteq Fit,
         DOMAIN override' \subseteq Surface, \A key \in DOMAIN override' : override'[key] \in Picture
  PROVE  FitsInv'
<1>1. fits' = Seeded(fs, record)
  BY DEF Rebuild
<1>2. IsFits(fits') /\ DOMAIN fs \subseteq DOMAIN fits'
  BY <1>1, SeededFits DEF FitsInv, RequestTypes
<1>3. SeedInv'
  BY <1>2, SeedRemains DEF FitsInv
<1>4. RequestTypes'
  BY DEF FitsInv, RequestTypes
<1>5. ChoiceTypes'
  BY <1>2 DEF ChoiceTypes
<1>6. QED
  BY <1>3, <1>4, <1>5 DEF FitsInv

LEMMA RefreshKeeps ==
  ASSUME FitsInv, Refresh, UNCHANGED <<record, recordFile, dialog, helpers, idle>>,
         image' \in Picture \cup {None}, {fit, combo}' \subseteq Fit,
         DOMAIN override' \subseteq Surface, \A key \in DOMAIN override' : override'[key] \in Picture
  PROVE  /\ FitsInv'
         /\ \A key \in Surface :
              FitOf(key, fits') = IF fit' = fitButton THEN FitOf(key, fits) ELSE fit'
<1>1. /\ IsFits(fits) /\ IsRecord(record) /\ SeedInv /\ fit' \in Fit /\ fitButton' = fit'
      /\ DOMAIN fits \subseteq Surface
  BY DEF FitsInv, ChoiceTypes, RequestTypes, Refresh, IsFits
<1>2. CASE fit' = fitButton
  <2>1. Rebuild(fits)
    BY <1>2 DEF Refresh
  <2>2. fits' = Seeded(fits, record)
    BY <2>1 DEF Rebuild
  <2>3. \A key \in Surface : FitOf(key, fits') = FitOf(key, fits)
    BY <1>1, <2>2, SameFit
  <2>4. FitsInv'
    BY <1>1, <2>1, RebuildKeeps
  <2>5. QED
    BY <1>2, <2>3, <2>4
<1>3. CASE fit' # fitButton
  <2>1. Rebuild(AllFits(fit'))
    BY <1>3 DEF Refresh
  <2>2. fits' = Seeded(AllFits(fit'), record)
    BY <2>1 DEF Rebuild
  <2>3. \A key \in Surface : FitOf(key, fits') = fit'
    BY <1>1, <2>2, EveryFit
  <2>4. IsFits(AllFits(fit')) /\ DOMAIN fits \subseteq DOMAIN AllFits(fit')
    BY <1>1, EveryFit DEF AllFits
  <2>5. FitsInv'
    BY <1>1, <2>1, <2>4, RebuildKeeps
  <2>6. QED
    BY <1>3, <2>3, <2>5
<1>4. QED
  BY <1>2, <1>3

\* What a step may do to the fits.
FitsMove ==
  \A key \in Surface : FitOf(key, fits') # FitOf(key, fits) =>
    \/ budget'.restart # budget.restart
    \/ fit # fitButton
    \/ /\ budget'.fit # budget.fit
       /\ \/ fit' = FitOf(key, fits')
          \/ \A other \in Surface \ {key} : FitOf(other, fits') = FitOf(other, fits)

\* An image is chosen, or a page shown.
LEMMA ImageMoves ==
  ASSUME FitsInv, (\E i \in Picture : SetGlobalImage(i)) \/ ShowScreens
  PROVE  FitsInv' /\ FitsMove
<1>1. Refresh /\ UNCHANGED <<record, recordFile, dialog, helpers, idle, fit, combo>>
  BY DEF SetGlobalImage, ShowScreens, Notify
<1>2. /\ image' \in Picture \cup {None}
      /\ DOMAIN override' \subseteq Surface /\ \A key \in DOMAIN override' : override'[key] \in Picture
  <2>1. CASE \E i \in Picture : SetGlobalImage(i)
    <3>1. override' = <<>> /\ image' \in Picture
      BY <2>1 DEF SetGlobalImage
    <3>2. DOMAIN override' = {}
      BY <3>1
    <3>3. QED
      BY <3>1, <3>2
  <2>2. CASE ShowScreens
    BY <2>2 DEF ShowScreens, FitsInv, ChoiceTypes
  <2>3. QED
    BY <2>1, <2>2
<1>3. {fit, combo}' \subseteq Fit
  BY <1>1 DEF FitsInv, ChoiceTypes
<1>4. FitsInv' /\ \A key \in Surface : FitOf(key, fits') = IF fit' = fitButton THEN FitOf(key, fits) ELSE fit'
  BY <1>1, <1>2, <1>3, RefreshKeeps
<1>5. QED
  BY <1>1, <1>4 DEF FitsMove

\* A fit is chosen for every surface.
LEMMA AllFitsMove ==
  ASSUME BudgetInv, FitsInv, NEW f \in Fits, FitAll(f) \/ DefaultFit(f)
  PROVE  FitsInv' /\ FitsMove
<1>1. budget'["fit"] # budget["fit"] /\ f \in Fit /\ fit' = f
  BY Spending, DeskAssumption DEF FitAll, DefaultFit, StepKind
<1>2. /\ UNCHANGED <<record, recordFile, dialog, helpers, idle, image, override>>
      /\ image' \in Picture \cup {None} /\ combo' \in Fit
      /\ DOMAIN override' \subseteq Surface /\ \A key \in DOMAIN override' : override'[key] \in Picture
  BY <1>1 DEF FitAll, DefaultFit, FitsInv, ChoiceTypes
<1>3. CASE FitAll(f)
  <2>1. Rebuild(AllFits(f)) /\ fitButton' = f
    BY <1>3 DEF FitAll
  <2>2. fits' = Seeded(AllFits(f), record)
    BY <1>2, <2>1 DEF Rebuild
  <2>3. \A key \in Surface : FitOf(key, fits') = f
    BY <1>1, <2>2, EveryFit DEF FitsInv, RequestTypes
  <2>4. IsFits(AllFits(f)) /\ DOMAIN fits \subseteq DOMAIN AllFits(f)
    BY <1>1, EveryFit DEF AllFits, FitsInv, RequestTypes, ChoiceTypes, IsFits
  <2>5. FitsInv'
    BY <1>1, <1>2, <2>1, <2>4, RebuildKeeps
  <2>6. QED
    BY <1>1, <2>3, <2>5 DEF FitsMove
<1>4. CASE DefaultFit(f)
  <2>1. Refresh
    BY <1>4 DEF DefaultFit, Notify
  <2>2. FitsInv' /\ \A key \in Surface :
          FitOf(key, fits') = IF fit' = fitButton THEN FitOf(key, fits) ELSE fit'
    BY <1>1, <1>2, <2>1, RefreshKeeps
  <2>3. QED
    BY <1>1, <2>2 DEF FitsMove
<1>5. QED
  BY <1>3, <1>4

\* A fit, or an image, is chosen for one surface.
LEMMA OneMoves ==
  ASSUME BudgetInv, FitsInv, NEW key \in Surface,
         (\E f \in Fits : FitCard(key, f)) \/ \E i \in Picture : SetSurfaceImage(key, i)
  PROVE  FitsInv' /\ FitsMove
<1>1. UNCHANGED <<record, recordFile, dialog, helpers, idle, image, fit, fitButton, combo>>
  BY DEF FitCard, SetSurfaceImage
<1>2. RequestTypes'
  BY <1>1 DEF FitsInv, RequestTypes
<1>3. ASSUME NEW f \in Fits, FitCard(key, f)
      PROVE  FitsInv' /\ FitsMove
  <2>1. fits' = Put(fits, key, f) /\ UNCHANGED override /\ budget'["fit"] # budget["fit"] /\ f \in Fit
    BY <1>3, Spending, DeskAssumption DEF FitCard, StepKind
  <2>2. /\ DOMAIN fits' = DOMAIN fits \cup {key} /\ IsFits(fits')
        /\ \A other \in Surface \ {key} : FitOf(other, fits') = FitOf(other, fits)
    BY <2>1 DEF Put, FitOf, FitsInv, ChoiceTypes, IsFits
  <2>3. SeedInv'
    BY <1>1, <2>2, SeedRemains DEF FitsInv
  <2>4. ChoiceTypes'
    BY <1>1, <2>1, <2>2 DEF FitsInv, ChoiceTypes
  <2>5. QED
    BY <1>2, <2>1, <2>2, <2>3, <2>4 DEF FitsInv, FitsMove
<1>4. ASSUME NEW i \in Picture, SetSurfaceImage(key, i)
      PROVE  FitsInv' /\ FitsMove
  <2>1. override' = Put(override, key, i) /\ UNCHANGED fits
    BY <1>4 DEF SetSurfaceImage
  <2>2. DOMAIN override' \subseteq Surface /\ \A k \in DOMAIN override' : override'[k] \in Picture
    BY <2>1 DEF Put, FitsInv, ChoiceTypes
  <2>3. SeedInv'
    BY <1>1, <2>1, SeedRemains DEF FitsInv
  <2>4. ChoiceTypes'
    BY <1>1, <2>1, <2>2 DEF FitsInv, ChoiceTypes
  <2>5. FitsMove
    BY <2>1 DEF FitsMove
  <2>6. QED
    BY <1>2, <2>3, <2>4, <2>5 DEF FitsInv
<1>5. QED
  BY <1>3, <1>4

\* An apply to the desktop.
LEMMA ApplyMoves ==
  ASSUME FitsInv, (\E key \in Surface : ApplyCard(key)) \/ ApplyAll
  PROVE  FitsInv' /\ FitsMove
<1>1. /\ Rebuild(fits) /\ UNCHANGED <<record, recordFile, dialog, helpers, idle, image, fitButton, combo>>
      /\ (\E key : fit' = FitOf(key, fits)) \/ UNCHANGED fit
      /\ override' = override \/ override' = <<>>
  BY DEF ApplyCard, ApplyAll
<1>2. /\ IsFits(fits) /\ IsRecord(record) /\ SeedInv /\ image' \in Picture \cup {None}
      /\ {fit, fitButton, combo}' \subseteq Fit
  BY <1>1, FitOfType DEF FitsInv, ChoiceTypes, RequestTypes
<1>3. DOMAIN override' \subseteq Surface /\ \A key \in DOMAIN override' : override'[key] \in Picture
  BY <1>1 DEF FitsInv, ChoiceTypes
<1>4. FitsInv'
  BY <1>1, <1>2, <1>3, RebuildKeeps
<1>5. fits' = Seeded(fits, record)
  BY <1>1 DEF Rebuild
<1>6. QED
  BY <1>2, <1>4, <1>5, SameFit DEF FitsMove

\* A request is sent from a card, at the fit that the card shows.
LEMMA SendMoves ==
  ASSUME FitsInv, PreviewInv, BudgetInv, NEW key \in Surface, ApplyPrivileged(key)
  PROVE  FitsInv' /\ FitsMove
<1> DEFINE f == FitOf(key, fits)
           i == Resolved(key, override, image)
<1>1. /\ key \in Privileged /\ cards[key].can /\ dialog' = [surface |-> key, image |-> i, fit |-> f]
      /\ UNCHANGED <<record, recordFile, helpers, idle, image, override, fit, fitButton, combo, fits>>
  BY DEF ApplyPrivileged, desktopVars
<1>2. i \in Picture
  <2>1. i # None
    BY <1>1 DEF PreviewInv, Honest, CanApply
  <2>2. QED
    BY <2>1 DEF Resolved, FitsInv, ChoiceTypes
<1>3. f \in Fit
  BY FitOfType DEF FitsInv, ChoiceTypes
<1>4. dialog' \in Request /\ dialog'.surface = key /\ dialog'.fit = f
  BY <1>1, <1>2, <1>3 DEF Request
<1>5. ChoiceTypes'
  BY <1>1 DEF FitsInv, ChoiceTypes
<1>6. RequestTypes'
  BY <1>1, <1>4 DEF FitsInv, RequestTypes
<1>7. SeedInv'
  <2>1. ASSUME NEW k \in Privileged \ DOMAIN fits'
        PROVE  SentAtFill(k)'
    <3>1. SentAtFill(k) /\ k \notin DOMAIN fits
      BY <1>1, <2>1 DEF FitsInv, SeedInv
    <3>2. key = k => f = "fill"
      BY <3>1 DEF FitOf
    <3>3. QED
      BY <1>1, <1>4, <3>1, <3>2 DEF SentAtFill
  <2>2. QED
    BY <2>1 DEF SeedInv
<1>8. QED
  BY <1>1, <1>5, <1>6, <1>7 DEF FitsInv, FitsMove

LEMMA DialogMoves ==
  ASSUME FitsInv, BudgetInv, CancelDialog \/ SubmitDialog
  PROVE  FitsInv' /\ FitsMove
<1>1. UNCHANGED <<record, recordFile, idle, image, override, fit, fitButton, combo, fits>>
  BY DEF CancelDialog, SubmitDialog, desktopVars
<1>2. ChoiceTypes'
  BY <1>1 DEF FitsInv, ChoiceTypes
<1>3. CASE CancelDialog
  <2>1. UNCHANGED helpers /\ dialog' = None
    BY <1>3 DEF CancelDialog
  <2>2. RequestTypes' /\ SeedInv'
    BY <1>1, <2>1 DEF FitsInv, RequestTypes, SeedInv, SentAtFill
  <2>3. QED
    BY <1>1, <1>2, <2>2 DEF FitsInv, FitsMove
<1>4. CASE SubmitDialog
  <2> DEFINE g == [what |-> dialog, number |-> budget.root, stage |-> "runs", heard |-> TRUE]
  <2>1. helpers' = helpers \cup {g} /\ dialog' = None /\ dialog # None /\ dialog \in Request
    BY <1>4 DEF SubmitDialog, FitsInv, RequestTypes
  <2>2. g \in Helper /\ g.what = dialog
    BY <2>1 DEF Helper, BudgetInv, StepKind
  <2> HIDE DEF g
  <2>3. RequestTypes'
    BY <1>1, <2>1, <2>2 DEF FitsInv, RequestTypes
  <2>4. SeedInv'
    BY <1>1, <2>1, <2>2 DEF FitsInv, SeedInv, SentAtFill
  <2>5. QED
    BY <1>1, <1>2, <2>3, <2>4 DEF FitsInv, FitsMove
<1>5. QED
  BY <1>3, <1>4

LEMMA HelperMoves ==
  ASSUME FitsInv, NEW h \in helpers,
         HelperInstalls(h) \/ HelperRefused(h) \/ HelperBreaks(h) \/ HelperTimesOut(h)
  PROVE  FitsInv' /\ FitsMove
<1>1. UNCHANGED <<record, recordFile, dialog, idle, image, override, fit, fitButton, combo, fits>>
  BY DEF HelperInstalls, HelperRefused, HelperBreaks, HelperTimesOut, desktopVars
<1>2. ChoiceTypes'
  BY <1>1 DEF FitsInv, ChoiceTypes
<1>3. h \in Helper
  BY DEF FitsInv, RequestTypes
<1>4. \A g \in helpers' :
        g \in helpers \/ (g \in Helper /\ g.what = h.what /\ (g.heard => h.heard))
  <2>1. [h EXCEPT !.stage = "installed"] \in Helper /\ [h EXCEPT !.heard = FALSE] \in Helper
    BY <1>3 DEF Helper
  <2>2. /\ [h EXCEPT !.stage = "installed"].what = h.what /\ [h EXCEPT !.heard = FALSE].what = h.what
        /\ [h EXCEPT !.stage = "installed"].heard = h.heard /\ ~[h EXCEPT !.heard = FALSE].heard
    BY <1>3 DEF Helper
  <2>3. /\ helpers' \subseteq helpers \cup {[h EXCEPT !.stage = "installed"], [h EXCEPT !.heard = FALSE]}
    BY DEF HelperInstalls, HelperRefused, HelperBreaks, HelperTimesOut
  <2>4. QED
    BY <2>1, <2>2, <2>3
<1>5. RequestTypes'
  BY <1>1, <1>4 DEF FitsInv, RequestTypes
<1>6. SeedInv'
  BY <1>1, <1>4 DEF FitsInv, SeedInv, SentAtFill
<1>7. QED
  BY <1>1, <1>2, <1>5, <1>6 DEF FitsInv, FitsMove

LEMMA ExitMoves ==
  ASSUME FitsInv, NEW h \in helpers, HelperExits(h)
  PROVE  FitsInv' /\ FitsMove
<1>1. /\ UNCHANGED <<record, recordFile, dialog, image, override, fit, fitButton, combo, fits>>
      /\ helpers' = helpers \ {h} /\ idle' = IF h.heard THEN Append(idle, h.what) ELSE idle
  BY DEF HelperExits, desktopVars
<1>2. h.what \in Request /\ idle \in Seq(Request)
  BY DEF FitsInv, RequestTypes, Helper
<1>3. idle' \in Seq(Request)
  BY <1>1, <1>2
<1>4. \A n \in DOMAIN idle' :
        (n \in DOMAIN idle /\ idle'[n] = idle[n]) \/ (h.heard /\ idle'[n] = h.what)
  BY <1>1, <1>2
<1>5. ChoiceTypes'
  BY <1>1 DEF FitsInv, ChoiceTypes
<1>6. RequestTypes'
  BY <1>1, <1>3 DEF FitsInv, RequestTypes
<1>7. SeedInv'
  BY <1>1, <1>4 DEF FitsInv, SeedInv, SentAtFill
<1>8. QED
  BY <1>1, <1>5, <1>6, <1>7 DEF FitsInv, FitsMove

LEMMA RecordMoves ==
  ASSUME FitsInv, RecordApplied
  PROVE  FitsInv' /\ FitsMove
<1> DEFINE w == Head(idle)
<1>1. /\ idle # <<>> /\ idle' = Tail(idle) /\ record' = Put(record, w.surface, [image |-> w.image, fit |-> w.fit])
      /\ recordFile' = record' \/ recordFile' = recordFile
      /\ UNCHANGED <<dialog, helpers, image, override, fit, fitButton, combo, fits>>
  BY DEF RecordApplied, desktopVars
<1>2. idle \in Seq(Request) /\ IsRecord(record) /\ IsRecord(recordFile)
      /\ DOMAIN recordFile \subseteq DOMAIN record
  BY DEF FitsInv, RequestTypes
<1>3. 1 \in DOMAIN idle /\ w = idle[1] /\ w \in Request
  BY <1>1, <1>2
<1>4. /\ idle' \in Seq(Request)
      /\ \A n \in DOMAIN idle' : n + 1 \in DOMAIN idle /\ idle'[n] = idle[n + 1]
  BY <1>1, <1>2
<1>5. [image |-> w.image, fit |-> w.fit] \in Recorded /\ w.surface \in Privileged
  BY <1>3 DEF Request, Recorded
<1>6. /\ DOMAIN record' = DOMAIN record \cup {w.surface} /\ record'[w.surface] = [image |-> w.image, fit |-> w.fit]
      /\ \A k \in DOMAIN record : k # w.surface => record'[k] = record[k]
  BY <1>1 DEF Put
<1>7. IsRecord(record')
  BY <1>2, <1>5, <1>6 DEF IsRecord
<1>8. RequestTypes'
  BY <1>1, <1>2, <1>4, <1>6, <1>7 DEF FitsInv, RequestTypes
<1>9. SeedInv'
  <2>1. ASSUME NEW k \in Privileged \ DOMAIN fits'
        PROVE  SentAtFill(k)'
    <3>1. SentAtFill(k)
      BY <1>1, <2>1 DEF FitsInv, SeedInv
    <3>2. k \in DOMAIN record' => record'[k].fit = "fill"
      <4>1. CASE k = w.surface
        BY <1>3, <1>6, <3>1, <4>1 DEF SentAtFill
      <4>2. CASE k # w.surface
        BY <1>6, <3>1, <4>2 DEF SentAtFill
      <4>3. QED
        BY <4>1, <4>2
    <3>3. \A n \in DOMAIN idle' : idle'[n].surface = k => idle'[n].fit = "fill"
      BY <1>4, <3>1 DEF SentAtFill
    <3>4. QED
      BY <1>1, <3>1, <3>2, <3>3 DEF SentAtFill
  <2>2. QED
    BY <2>1 DEF SeedInv
<1>10. ChoiceTypes'
  BY <1>1 DEF FitsInv, ChoiceTypes
<1>11. QED
  BY <1>1, <1>8, <1>9, <1>10 DEF FitsInv, FitsMove

LEMMA RestartMoves ==
  ASSUME FitsInv, BudgetInv, Restart
  PROVE  FitsInv' /\ FitsMove
<1>1. /\ image' = None /\ fit' = "fill" /\ fitButton' = "fill" /\ combo' = "fill"
      /\ override' = <<>> /\ dialog' = None /\ idle' = <<>>
      /\ record' = recordFile /\ recordFile' = recordFile
      /\ helpers' = {[h EXCEPT !.heard = FALSE] : h \in helpers}
      /\ fits' = Seeded(<<>>, record')
  BY DEF Restart, Launched, Rebuild
<1>2. budget'["restart"] # budget["restart"]
  BY Spending DEF Restart, StepKind
<1>3. DOMAIN idle' = {} /\ DOMAIN override' = {} /\ idle' \in Seq(Request) /\ IsFits(<<>>)
  BY <1>1 DEF IsFits
<1>4. \A h \in helpers : h \in Helper
  BY DEF FitsInv, RequestTypes
<1>5. \A h \in helpers' : h \in Helper /\ ~h.heard
  BY <1>1, <1>4 DEF Helper
<1>6. RequestTypes'
  BY <1>1, <1>3, <1>5 DEF FitsInv, RequestTypes
<1>7. IsFits(fits') /\ DOMAIN record' \subseteq DOMAIN fits'
  BY <1>1, <1>3, <1>6, SeededFits DEF RequestTypes
<1>8. ChoiceTypes'
  BY <1>1, <1>3, <1>7 DEF ChoiceTypes, Fit
<1>9. SeedInv'
  BY <1>1, <1>3, <1>5, <1>7 DEF SeedInv, SentAtFill
<1>10. QED
  BY <1>2, <1>6, <1>8, <1>9 DEF FitsInv, FitsMove

\* What the other steps leave alone.
choiceVars == <<image, fit, override, fits, fitButton, combo, dialog, helpers, idle, record, recordFile>>

LEMMA FitsKeep ==
  ASSUME FitsInv, PreviewInv, BudgetInv, [Next]_vars
  PROVE  FitsInv' /\ FitsMove
<1>1. CASE UNCHANGED choiceVars
  BY <1>1 DEF choiceVars, FitsInv, ChoiceTypes, RequestTypes, SeedInv, SentAtFill, FitsMove
<1>2. CASE UNCHANGED vars
  BY <1>1, <1>2 DEF vars, deskVars, choiceVars
<1>3. CASE \E i \in Picture : SetGlobalImage(i) \/ UseInScreens(i) \/ ApplyTile(i)
  BY <1>1, <1>3, ImageMoves DEF UseInScreens, ApplyTile, choiceVars
<1>4. CASE \E p \in Picture \cup {Unusable} : LoadImage(p)
  <2>1. \E p \in Picture : SetGlobalImage(p)
    BY <1>4, DeskAssumption DEF LoadImage, Valid
  <2>2. QED
    BY <2>1, ImageMoves
<1>5. CASE \E key \in Surface : \/ \E i \in Picture : SetSurfaceImage(key, i)
                                \/ \E f \in Fits : FitCard(key, f)
  BY <1>5, OneMoves
<1>6. CASE \E f \in Fits : FitAll(f) \/ DefaultFit(f)
  BY <1>6, AllFitsMove
<1>7. CASE Pick \/ ShowScreens \/ ShowWallpaper
  BY <1>1, <1>7, ImageMoves DEF Pick, ShowWallpaper, deskVars, choiceVars
<1>8. CASE \E key \in Surface : ApplyCard(key) \/ ApplyPrivileged(key)
  BY <1>8, ApplyMoves, SendMoves
<1>9. CASE ApplyAll \/ Undo \/ ToastExpires \/ ChosenElsewhere
  BY <1>1, <1>9, ApplyMoves DEF Undo, ToastExpires, ChosenElsewhere, choiceVars
<1>10. CASE CancelDialog \/ SubmitDialog
  BY <1>10, DialogMoves
<1>11. CASE \E h \in helpers :
              HelperInstalls(h) \/ HelperRefused(h) \/ HelperBreaks(h) \/ HelperTimesOut(h) \/ HelperExits(h)
  BY <1>11, HelperMoves, ExitMoves
<1>12. CASE RecordApplied \/ Restart
  BY <1>12, RecordMoves, RestartMoves
<1>13. CASE AddFiles \/ RemoveTile \/ CommandStarts \/ CommandSaves \/ Saves \/ SaveIsRefused
            \/ IndexReported
  BY <1>1, <1>13 DEF AddFiles, RemoveTile, CommandStarts, CommandSaves, Saves, SaveIsRefused,
               IndexReported, deskVars, choiceVars
<1>14. CASE MoveSwitch \/ MenuChanged \/ MenuRefused \/ ThunarChanges
  BY <1>1, <1>14 DEF MoveSwitch, MenuChanged, MenuRefused, ThunarChanges, otherVars, deskVars, choiceVars
<1>15. QED
  BY <1>2, <1>3, <1>4, <1>5, <1>6, <1>7, <1>8, <1>9, <1>10, <1>11, <1>12, <1>13, <1>14 DEF Next

\* Whatever is clicked, sent, recorded or restarted: a surface's fit changes by a
\* choice of a fit or by the refresh that follows an Apply only, and in particular
\* no card is rebuilt with another fit than it showed (ScreensPage of screens.py).
THEOREM SurfacesKeepFits == Spec => FitsKept
<1> DEFINE Inv == FitsInv /\ PreviewInv /\ BudgetInv
<1>1. Init => Inv
  BY FitsStart, PreviewStarts, BudgetStarts
<1>2. Inv /\ [Next]_vars => Inv'
  BY FitsKeep, PreviewSteps, PreviewKept, BudgetSteps, BudgetKept
<1>3. Inv /\ [Next]_vars => [FitsMove]_vars
  BY FitsKeep
<1>4. QED
  BY <1>1, <1>2, <1>3, PTL DEF Spec, FitsKept, FitsMove

-----------------------------------------------------------------------------
\* The desktop and what Undo gives back.

BackendInv == backend \in {Registry[n] : n \in DOMAIN Registry} \cup {None}

LEMMA Backends ==
  ASSUME BackendInv
  PROVE  /\ backend \in GSettings \cup {"Xfce", "feh", None}
         /\ None \notin GSettings \cup {"Xfce", "feh"}
<1>1. {Registry[n] : n \in DOMAIN Registry} = GSettings \cup {"Xfce", "feh"}
  <2>1. /\ Registry[1] = "Cinnamon" /\ Registry[2] = "MATE" /\ Registry[3] = "GNOME"
        /\ Registry[4] = "Xfce" /\ Registry[5] = "feh" /\ DOMAIN Registry = 1 .. 5
    BY DEF Registry
  <2>2. QED
    BY <2>1 DEF GSettings
<1>2. QED
  BY <1>1, NoBackendAssumption DEF BackendInv

\* The settings that name an image.
Names == {"uri", "dark"} \cap Keys(backend)

LEMMA KeysOf ==
  ASSUME BackendInv
  PROVE  /\ backend \in GSettings => /\ Keys(backend) = {"uri", "options"} \cup (IF HasDark(backend) THEN {"dark"} ELSE {})
                                     /\ "uri" \in Names
                                     /\ "dark" \in Names <=> HasDark(backend)
         /\ backend = "Xfce" => Keys(backend) = {"image", "style"} \X Monitor
         /\ backend = "feh" => Keys(backend) = {"root", "fehbg"}
<1>1. backend \in GSettings =>
        Keys(backend) = {"uri", "options"} \cup (IF HasDark(backend) THEN {"dark"} ELSE {})
  BY Backends DEF Keys, GSettings
<1>2. backend = "Xfce" => Keys(backend) = {"image", "style"} \X Monitor
  BY Backends DEF Keys, GSettings
<1>3. backend = "feh" => Keys(backend) = {"root", "fehbg"}
  BY Backends DEF Keys, GSettings
<1>4. QED
  BY <1>1, <1>2, <1>3 DEF Names

\* A setting that names a composite names the one it was last given, and that is
\* in the cache.
Marked(s, marks, made) ==
  /\ DOMAIN s = Keys(backend) /\ DOMAIN marks = Keys(backend)
  /\ \A k \in Names : s[k] \in Composite => marks[k] = s[k] /\ s[k] \in DOMAIN made

\* The desktop as the program knows it.
Standing(s, marks, made) ==
  /\ DOMAIN s = Keys(backend) /\ DOMAIN marks = Keys(backend)
  /\ backend \in GSettings => Marked(s, marks, made)
  /\ backend = "Xfce" => \A m \in Monitor : s[<<"image", m>>] # None

\* What a toast captured still gives what was shown, unless a composite it names
\* was made again.
GivesBack(t, made) ==
  /\ backend \in GSettings =>
       /\ Marked(t.previous, t.was, made)
       /\ {t.was[k] : k \in DOMAIN t.was} \cap t.later = {} => Look(t.previous, made) = t.before
  /\ backend = "Xfce" =>
       /\ DOMAIN t.previous = {"image"} \X Monitor /\ DOMAIN t.was = Keys(backend)
       /\ t.whole => \A m \in Monitor : /\ t.previous[<<"image", m>>] = t.before[m][2]
                                        /\ t.previous[<<"image", m>>] # None
  /\ backend = "feh" =>
       /\ DOMAIN t.was = Keys(backend)
       /\ t.whole => /\ DOMAIN t.previous = {"fehbg"}
                     /\ t.before = [m \in Monitor |-> t.previous["fehbg"]]

ToastFields == {"target", "previous", "before", "was", "later", "whole"}

Offered(toasted, made) ==
  /\ \E W : toasted \in Seq(W)
  /\ \A n \in DOMAIN toasted : ToastFields \subseteq DOMAIN toasted[n] /\ GivesBack(toasted[n], made)

Sound(d) ==
  /\ Standing(d.desktop, d.shown, d.composites)
  /\ DOMAIN d.composites \subseteq Composite
  /\ Offered(d.toasts, d.composites)
  /\ backend = None => d.toasts = <<>>

DesktopInv == BackendInv /\ Sound(DeskNow)

\* What is shown depends on the settings and on the composites that they name.
LEMMA LookSame ==
  ASSUME BackendInv, backend \in GSettings, NEW s, NEW t, NEW made, NEW later,
         \A k \in Keys(backend) : s[k] = t[k],
         \A k \in Names : s[k] \in Composite => made[s[k]] = later[s[k]]
  PROVE  Look(s, made) = Look(t, later)
<1>1. ASSUME NEW m \in Monitor
      PROVE  Shows(backend, s, made, m) = Shows(backend, t, later, m)
  <2> DEFINE Of(u, cs, file) == IF u.options = "spanned" THEN Spanned(file, cs, m)
                                ELSE IF file \in Composite THEN Drawn(cs[file], u.options)
                                ELSE Drawn(file, u.options)
  <2>1. \A u, cs : Shows(backend, u, cs, m) =
          [light |-> Of(u, cs, u.uri), dark |-> Of(u, cs, IF HasDark(backend) THEN u.dark ELSE u.uri)]
    BY Backends DEF Shows, GSettings
  <2>2. s.options = t.options /\ s.uri = t.uri /\ (HasDark(backend) => s.dark = t.dark)
    BY KeysOf
  <2>3. \A file : (file \in Composite => made[file] = later[file]) => Of(s, made, file) = Of(t, later, file)
    BY <2>2 DEF Spanned
  <2>4. s.uri \in Composite => made[s.uri] = later[s.uri]
    BY KeysOf
  <2>5. HasDark(backend) /\ s.dark \in Composite => made[s.dark] = later[s.dark]
    BY KeysOf
  <2> HIDE DEF Of
  <2>6. QED
    BY <2>1, <2>2, <2>3, <2>4, <2>5
<1>2. QED
  BY <1>1 DEF Look

\* What the subprocesses leave of a setting.
LEMMA AfterIs ==
  ASSUME NEW s, NEW writes, NEW done
  PROVE  /\ DOMAIN After(s, writes, done) = DOMAIN s
         /\ \A k \in DOMAIN s :
              \/ (\A n \in done : k \notin DOMAIN writes[n]) /\ After(s, writes, done)[k] = s[k]
              \/ \E n \in done : k \in DOMAIN writes[n] /\ After(s, writes, done)[k] = writes[n][k]
<1>1. ASSUME NEW k \in DOMAIN s
      PROVE  \/ (\A n \in done : k \notin DOMAIN writes[n]) /\ After(s, writes, done)[k] = s[k]
             \/ \E n \in done : k \in DOMAIN writes[n] /\ After(s, writes, done)[k] = writes[n][k]
  <2>1. CASE \E n \in done : k \in DOMAIN writes[n]
    <3> DEFINE i == CHOOSE n \in done : k \in DOMAIN writes[n]
    <3>1. i \in done /\ k \in DOMAIN writes[i]
      BY <2>1
    <3>2. After(s, writes, done)[k] = writes[i][k]
      BY <2>1 DEF After
    <3>3. QED
      BY <3>1, <3>2
  <2>2. CASE \A n \in done : k \notin DOMAIN writes[n]
    BY <2>2 DEF After
  <2>3. QED
    BY <2>1, <2>2
<1>2. QED
  BY <1>1 DEF After

\* What the settings are set to.
LEMMA GSettingsApply ==
  ASSUME BackendInv, backend \in GSettings, NEW i, NEW f, NEW target,
         NEW n \in DOMAIN ApplyWrites(backend, i, f, target),
         NEW k \in DOMAIN ApplyWrites(backend, i, f, target)[n], k \in Names
  PROVE  ApplyWrites(backend, i, f, target)[n][k] =
           IF Plain(backend, target) THEN i ELSE CompositeName(i, f, target)
<1> DEFINE store == IF Plain(backend, target) THEN i ELSE CompositeName(i, f, target)
           option == IF Plain(backend, target) THEN OptionOf(f) ELSE "spanned"
           writes == ApplyWrites(backend, i, f, target)
<1>1. writes = IF HasDark(backend) THEN <<[uri |-> store], [dark |-> store], [options |-> option]>>
               ELSE <<[uri |-> store], [options |-> option]>>
  BY Backends DEF ApplyWrites, GSettingsWrites, GSettings
<1>2. k \in {"uri", "dark"}
  BY DEF Names
<1> HIDE DEF store, option
<1>3. writes[n][k] = store
  <2>1. CASE HasDark(backend)
    <3>1. n \in 1 .. 3 /\ k \in DOMAIN writes[n]
      BY <1>1, <2>1
    <3>2. n # 3
      BY <1>1, <1>2, <2>1, <3>1
    <3>3. QED
      BY <1>1, <2>1, <3>1, <3>2
  <2>2. CASE ~HasDark(backend)
    <3>1. n \in 1 .. 2 /\ k \in DOMAIN writes[n]
      BY <1>1, <2>2
    <3>2. n # 2
      BY <1>1, <1>2, <2>2, <3>1
    <3>3. QED
      BY <1>1, <2>2, <3>1, <3>2
  <2>3. QED
    BY <2>1, <2>2
<1>4. QED
  BY <1>3 DEF store

LEMMA XfceApply ==
  ASSUME BackendInv, backend = "Xfce", NEW i, NEW f, NEW target,
         NEW n \in DOMAIN ApplyWrites(backend, i, f, target),
         NEW m, <<"image", m>> \in DOMAIN ApplyWrites(backend, i, f, target)[n]
  PROVE  ApplyWrites(backend, i, f, target)[n][<<"image", m>>] = i
<1> DEFINE o == Chosen(target)[(n + 1) \div 2]
<1>1. ApplyWrites(backend, i, f, target) = XfceWrites(i, f, target)
  BY Backends DEF ApplyWrites, GSettings
<1>2. n \in DOMAIN XfceWrites(i, f, target)
  BY <1>1
<1>3. XfceWrites(i, f, target)[n] = IF n % 2 = 1 THEN [k \in {<<"image", o>>} |-> i]
                                    ELSE [k \in {<<"style", o>>} |-> OptionOf(f)]
  BY <1>2 DEF XfceWrites
<1>4. <<"image", m>> # <<"style", o>>
  OBVIOUS
<1>5. QED
  BY <1>1, <1>3, <1>4

LEMMA FehApply ==
  ASSUME BackendInv, backend = "feh", NEW i, NEW f, NEW target
  PROVE  ApplyWrites(backend, i, f, target) =
           <<[root |-> Drawn(i, OptionOf(f)), fehbg |-> Drawn(i, OptionOf(f))]>>
BY Backends DEF ApplyWrites, GSettings

\* A sequence of writes that has run in part.
LEMMA RunInPart ==
  ASSUME NEW b, NEW writes, NEW done \in Ends(b, writes, FALSE), NEW W, writes \in Seq(W)
  PROVE  done \subseteq DOMAIN writes
BY DEF Ends

LEMMA WritesAreSequences ==
  ASSUME BackendInv, backend # None, NEW i, NEW f, NEW target
  PROVE  \E W : ApplyWrites(backend, i, f, target) \in Seq(W)
<1> DEFINE writes == ApplyWrites(backend, i, f, target)
<1>1. CASE backend \in GSettings
  <2> DEFINE store == IF Plain(backend, target) THEN i ELSE CompositeName(i, f, target)
             option == IF Plain(backend, target) THEN OptionOf(f) ELSE "spanned"
             r1 == [uri |-> store]
             r2 == [dark |-> store]
             r3 == [options |-> option]
  <2>1. writes = <<r1, r2, r3>> \/ writes = <<r1, r3>>
    BY <1>1, Backends DEF ApplyWrites, GSettingsWrites, GSettings
  <2> HIDE DEF r1, r2, r3
  <2>2. ASSUME NEW W, r1 \in W, r2 \in W, r3 \in W
        PROVE  <<r1, r2, r3>> \in Seq(W) /\ <<r1, r3>> \in Seq(W)
    BY <2>2
  <2>3. <<r1, r2, r3>> \in Seq({r1, r2, r3}) /\ <<r1, r3>> \in Seq({r1, r2, r3})
    BY <2>2
  <2>4. QED
    BY <2>1, <2>3
<1>2. CASE backend = "Xfce"
  <2>1. writes = XfceWrites(i, f, target)
    BY <1>2, Backends DEF ApplyWrites, GSettings
  <2>2. Len(Chosen(target)) \in Nat
    BY MonitorsAssumption DEF Chosen
  <2>3. DOMAIN writes = 1 .. 2 * Len(Chosen(target)) /\ writes = [n \in DOMAIN writes |-> writes[n]]
    BY <2>1 DEF XfceWrites
  <2>4. writes \in Seq({writes[n] : n \in DOMAIN writes})
    BY <2>2, <2>3
  <2>5. QED
    BY <2>4
<1>3. CASE backend = "feh"
  <2> DEFINE drawn == [root |-> Drawn(i, OptionOf(f)), fehbg |-> Drawn(i, OptionOf(f))]
  <2>1. writes = <<drawn>>
    BY <1>3, FehApply
  <2>2. writes \in Seq({drawn})
    BY <2>1
  <2>3. QED
    BY <2>2
<1>4. QED
  BY <1>1, <1>2, <1>3, Backends

\* More composites are in the cache, of which those in news were made anew.
LEMMA MoreMade ==
  ASSUME NEW s, NEW marks, NEW made, NEW later, Marked(s, marks, made), DOMAIN made \subseteq DOMAIN later
  PROVE  Marked(s, marks, later)
BY DEF Marked

LEMMA LookStays ==
  ASSUME BackendInv, backend \in GSettings, NEW s, NEW marks, NEW made, NEW later, NEW news,
         Marked(s, marks, made), \A c \in DOMAIN made \ news : later[c] = made[c],
         {marks[k] : k \in DOMAIN marks} \cap news = {}
  PROVE  Look(s, later) = Look(s, made)
<1>1. \A k \in Names : s[k] \in Composite => made[s[k]] = later[s[k]]
  BY DEF Marked, Names
<1>2. QED
  BY <1>1, LookSame

LEMMA ToastStays ==
  ASSUME BackendInv, NEW t, NEW u, NEW made, NEW later, NEW news, ToastFields \subseteq DOMAIN t,
         GivesBack(t, made), u = [t EXCEPT !.later = @ \cup news],
         DOMAIN made \subseteq DOMAIN later, \A c \in DOMAIN made \ news : later[c] = made[c]
  PROVE  ToastFields \subseteq DOMAIN u /\ GivesBack(u, later)
<1>1. /\ ToastFields \subseteq DOMAIN u /\ u.later = t.later \cup news /\ u.previous = t.previous
      /\ u.was = t.was /\ u.before = t.before /\ u.whole = t.whole
  BY DEF ToastFields
<1>2. ASSUME backend \in GSettings
      PROVE  /\ Marked(u.previous, u.was, later)
             /\ {u.was[k] : k \in DOMAIN u.was} \cap u.later = {} => Look(u.previous, later) = u.before
  <2>1. /\ Marked(t.previous, t.was, made)
        /\ {t.was[k] : k \in DOMAIN t.was} \cap t.later = {} => Look(t.previous, made) = t.before
    BY <1>2 DEF GivesBack
  <2>2. Marked(t.previous, t.was, later)
    BY <2>1, MoreMade
  <2>3. ASSUME {t.was[k] : k \in DOMAIN t.was} \cap (t.later \cup news) = {}
        PROVE  Look(t.previous, later) = t.before
    <3>1. {t.was[k] : k \in DOMAIN t.was} \cap news = {} /\ {t.was[k] : k \in DOMAIN t.was} \cap t.later = {}
      BY <2>3
    <3>2. Look(t.previous, later) = Look(t.previous, made)
      BY <1>2, <2>1, <3>1, LookStays
    <3>3. QED
      BY <2>1, <3>1, <3>2
  <2>4. QED
    BY <1>1, <2>2, <2>3
<1>3. QED
  BY <1>1, <1>2 DEF GivesBack

\* The composite of a call, if it makes one, is in the cache then.
LEMMA MadeOnDesk ==
  ASSUME BackendInv, backend # None, NEW d, Sound(d), NEW i \in Picture, NEW f \in Fit, NEW target,
         NEW c, c = Named(f, i, target),
         NEW later, later = Rendered(backend, d.desktop, d.composites, i, f, target)
  PROVE  /\ DOMAIN d.composites \subseteq DOMAIN later /\ DOMAIN later \subseteq Composite
         /\ \A x \in DOMAIN d.composites \ ({c} \ {None}) : later[x] = d.composites[x]
         /\ backend \in GSettings /\ ~Plain(backend, target) =>
              c = CompositeName(i, f, target) /\ c \in DOMAIN later
<1>0. DOMAIN d.composites \subseteq Composite
  BY DEF Sound
<1>1. CASE backend \in GSettings /\ ~Plain(backend, target)
  <2> DEFINE name == CompositeName(i, f, target)
             canvas == Canvas(d.desktop, d.composites, i, f, target)
  <2>1. c = name /\ later = Put(d.composites, name, canvas)
    BY <1>1 DEF Named, Rendered, CompositeName
  <2>2. name \in Composite /\ name # None
    BY <1>1, DeskAssumption DEF Plain, CompositeName, Composite
  <2> HIDE DEF name, canvas
  <2>3. /\ DOMAIN later = DOMAIN d.composites \cup {name}
        /\ \A x \in DOMAIN d.composites \ {name} : later[x] = d.composites[x]
    BY <2>1 DEF Put
  <2>4. /\ DOMAIN d.composites \subseteq DOMAIN later /\ DOMAIN later \subseteq Composite
        /\ \A x \in DOMAIN d.composites \ ({c} \ {None}) : later[x] = d.composites[x]
        /\ c = name /\ c \in DOMAIN later
    BY <1>0, <2>1, <2>2, <2>3
  <2>5. QED
    BY <1>1, <2>4 DEF name
<1>2. CASE ~(backend \in GSettings /\ ~Plain(backend, target))
  <2>1. later = d.composites
    BY <1>2 DEF Rendered
  <2>2. QED
    BY <1>0, <1>2, <2>1
<1>3. QED
  BY <1>1, <1>2

LEMMA DesktopApplied ==
  ASSUME BackendInv, backend # None, NEW d, Sound(d), NEW i \in Picture, NEW f \in Fit, NEW target,
         NEW done, done \subseteq DOMAIN ApplyWrites(backend, i, f, target), NEW unread
  PROVE  LET w == WindowApply(d, i, f, target, done, unread)
         IN Standing(w.desktop, w.shown, w.composites)
<1> DEFINE writes == ApplyWrites(backend, i, f, target)
           c == Named(f, i, target)
           later == Rendered(backend, d.desktop, d.composites, i, f, target)
           s == After(d.desktop, writes, done)
           marks == [k \in DOMAIN d.shown |-> IF \E n \in done : k \in DOMAIN writes[n] THEN c ELSE d.shown[k]]
           w == WindowApply(d, i, f, target, done, unread)
<1>1. w.desktop = s /\ w.shown = marks /\ w.composites = later
  BY DEF WindowApply
<1>2. /\ DOMAIN s = DOMAIN d.desktop
      /\ \A k \in DOMAIN d.desktop :
              \/ (\A n \in done : k \notin DOMAIN writes[n]) /\ s[k] = d.desktop[k]
              \/ \E n \in done : k \in DOMAIN writes[n] /\ s[k] = writes[n][k]
  BY AfterIs
<1>3. DOMAIN marks = DOMAIN d.shown
  OBVIOUS
<1>4. Standing(d.desktop, d.shown, d.composites)
  BY DEF Sound
<1>5. DOMAIN s = Keys(backend) /\ DOMAIN marks = Keys(backend)
  BY <1>2, <1>3, <1>4 DEF Standing
<1>6. ASSUME backend \in GSettings
      PROVE  Marked(s, marks, later)
  <2>1. Marked(d.desktop, d.shown, d.composites)
    BY <1>4, <1>6 DEF Standing
  <2>2. /\ DOMAIN d.composites \subseteq DOMAIN later
        /\ ~Plain(backend, target) => c = CompositeName(i, f, target) /\ c \in DOMAIN later
    BY <1>6, MadeOnDesk
  <2>3. ASSUME NEW k \in Names, s[k] \in Composite
        PROVE  marks[k] = s[k] /\ s[k] \in DOMAIN later
    <3>1. k \in DOMAIN d.desktop /\ k \in DOMAIN d.shown
      BY <2>1 DEF Names, Marked
    <3>2. CASE \A n \in done : k \notin DOMAIN writes[n]
      <4>1. s[k] = d.desktop[k] /\ marks[k] = d.shown[k]
        BY <1>2, <3>1, <3>2
      <4>2. QED
        BY <2>1, <2>2, <2>3, <4>1 DEF Marked
    <3>3. CASE \E n \in done : k \in DOMAIN writes[n]
      <4>1. PICK n \in done : k \in DOMAIN writes[n] /\ s[k] = writes[n][k]
        BY <1>2, <3>1, <3>3
      <4>2. s[k] = IF Plain(backend, target) THEN i ELSE CompositeName(i, f, target)
        BY <1>6, <4>1, GSettingsApply
      <4>3. ~Plain(backend, target)
        BY <2>3, <4>2, DeskAssumption
      <4>4. marks[k] = c
        BY <3>1, <3>3
      <4>5. QED
        BY <2>2, <4>2, <4>3, <4>4
    <3>4. QED
      BY <3>2, <3>3
  <2>4. QED
    BY <1>5, <2>3 DEF Marked
<1>7. ASSUME backend = "Xfce", NEW m \in Monitor
      PROVE  s[<<"image", m>>] # None
  <2>1. <<"image", m>> \in DOMAIN d.desktop /\ d.desktop[<<"image", m>>] # None
    BY <1>4, <1>7, KeysOf DEF Standing
  <2>2. \A n \in done : <<"image", m>> \in DOMAIN writes[n] => writes[n][<<"image", m>>] = i
    BY <1>7, XfceApply
  <2>3. i # None
    BY DeskAssumption
  <2> HIDE DEF s, writes
  <2>4. QED
    BY <1>2, <2>1, <2>2, <2>3
<1>9. Standing(s, marks, later)
  BY <1>5, <1>6, <1>7 DEF Standing
<1>10. QED
  BY <1>1, <1>9

LEMMA DrawnOf == \A i, option : Drawn(i, option)[2] = i
BY DEF Drawn

\* The toast of a new apply gives back the desktop as it was.
LEMMA NewToast ==
  ASSUME BackendInv, backend # None, NEW d, Sound(d), NEW i \in Picture, NEW f \in Fit, NEW target,
         NEW unread, NEW t,
         t = [target |-> target, previous |-> Current(backend, d.desktop, unread),
              before |-> Look(d.desktop, d.composites), was |-> d.shown,
              later |-> {Named(f, i, target)} \ {None}, whole |-> Whole(backend, d.desktop, unread)]
  PROVE  /\ ToastFields \subseteq DOMAIN t
         /\ GivesBack(t, Rendered(backend, d.desktop, d.composites, i, f, target))
<1> DEFINE made == d.composites
           later == Rendered(backend, d.desktop, made, i, f, target)
           news == {Named(f, i, target)} \ {None}
<1>1. /\ ToastFields \subseteq DOMAIN t /\ t.previous = Current(backend, d.desktop, unread)
      /\ t.before = Look(d.desktop, made) /\ t.was = d.shown /\ t.later = news
      /\ t.whole = Whole(backend, d.desktop, unread)
  BY DEF ToastFields
<1>2. /\ Standing(d.desktop, d.shown, made)
      /\ DOMAIN made \subseteq DOMAIN later /\ \A c \in DOMAIN made \ news : later[c] = made[c]
  BY MadeOnDesk DEF Sound
<1>3. ASSUME backend \in GSettings
      PROVE  /\ Marked(t.previous, t.was, later)
             /\ {t.was[k] : k \in DOMAIN t.was} \cap t.later = {} => Look(t.previous, later) = t.before
  <2>1. t.previous = d.desktop
    BY <1>1, <1>3, Backends DEF Current, GSettings
  <2>2. Marked(d.desktop, d.shown, made)
    BY <1>2, <1>3 DEF Standing
  <2>3. Marked(d.desktop, d.shown, later)
    BY <1>2, <2>2, MoreMade
  <2>4. {d.shown[k] : k \in DOMAIN d.shown} \cap news = {} => Look(d.desktop, later) = Look(d.desktop, made)
    BY <1>2, <1>3, <2>2, LookStays
  <2>5. QED
    BY <1>1, <2>1, <2>3, <2>4
<1>4. ASSUME backend = "Xfce"
      PROVE  /\ DOMAIN t.previous = {"image"} \X Monitor /\ DOMAIN t.was = Keys(backend)
             /\ t.whole => \A m \in Monitor : /\ t.previous[<<"image", m>>] = t.before[m][2]
                                              /\ t.previous[<<"image", m>>] # None
  <2>1. t.previous = [k \in {"image"} \X Monitor |-> IF k[2] \in unread THEN None ELSE d.desktop[k]]
    BY <1>1, <1>4, Backends DEF Current, GSettings
  <2>2. DOMAIN d.shown = Keys(backend) /\ \A m \in Monitor : d.desktop[<<"image", m>>] # None
    BY <1>2, <1>4 DEF Standing
  <2>3. \A m \in Monitor : t.before[m] = Drawn(d.desktop[<<"image", m>>], d.desktop[<<"style", m>>])
    BY <1>1, <1>4, Backends DEF Look, Shows, GSettings
  <2>4. \A m \in Monitor : t.before[m][2] = d.desktop[<<"image", m>>]
    <3> SUFFICES ASSUME NEW m \in Monitor
                 PROVE  t.before[m][2] = d.desktop[<<"image", m>>]
      OBVIOUS
    <3>1. t.before[m] = Drawn(d.desktop[<<"image", m>>], d.desktop[<<"style", m>>])
      BY <2>3
    <3> HIDE <2>3
    <3>2. QED
      BY <3>1, DrawnOf
  <2>5. t.whole => \A m \in Monitor : t.previous[<<"image", m>>] = d.desktop[<<"image", m>>]
    <3>1. Whole(backend, d.desktop, unread) = (unread = {})
      BY <1>4 DEF Whole
    <3>2. t.whole => unread = {}
      BY <1>1, <3>1
    <3>3. QED
      BY <2>1, <3>2
  <2>6. DOMAIN t.previous = {"image"} \X Monitor
    BY <2>1
  <2>7. QED
    BY <1>1, <2>2, <2>4, <2>5, <2>6
<1>5. ASSUME backend = "feh"
      PROVE  /\ DOMAIN t.was = Keys(backend)
             /\ t.whole => /\ DOMAIN t.previous = {"fehbg"}
                           /\ t.before = [m \in Monitor |-> t.previous["fehbg"]]
  <2>1. t.previous = IF d.desktop["fehbg"] = None THEN <<>> ELSE [fehbg |-> d.desktop["fehbg"]]
    BY <1>1, <1>5, Backends DEF Current, GSettings
  <2>2. DOMAIN d.shown = Keys(backend)
    BY <1>2 DEF Standing
  <2>5. t.whole => d.desktop["fehbg"] # None /\ d.desktop["root"] = d.desktop["fehbg"]
    BY <1>1, <1>5 DEF Whole
  <2>3. t.before = [m \in Monitor |-> d.desktop["root"]]
    BY <1>1, <1>5, Backends DEF Look, Shows, GSettings
  <2>4. QED
    BY <1>1, <2>1, <2>2, <2>3, <2>5
<1>6. QED
  BY <1>1, <1>3, <1>4, <1>5 DEF GivesBack

\* An apply, whole or not, leaves a desktop that its toasts give back.
LEMMA ApplySound ==
  ASSUME BackendInv, backend # None, NEW d, Sound(d), NEW i \in Picture, NEW f \in Fit, NEW target,
         NEW done, done \subseteq DOMAIN ApplyWrites(backend, i, f, target), NEW unread
  PROVE  Sound(WindowApply(d, i, f, target, done, unread))
<1> DEFINE writes == ApplyWrites(backend, i, f, target)
           news == {Named(f, i, target)} \ {None}
           later == Rendered(backend, d.desktop, d.composites, i, f, target)
           Later(t) == [t EXCEPT !.later = @ \cup news]
           older == [n \in DOMAIN d.toasts |-> Later(d.toasts[n])]
           toast == [target |-> target, previous |-> Current(backend, d.desktop, unread),
                     before |-> Look(d.desktop, d.composites), was |-> d.shown,
                     later |-> news, whole |-> Whole(backend, d.desktop, unread)]
           w == WindowApply(d, i, f, target, done, unread)
<1>1. w.composites = later /\ w.toasts = IF done = DOMAIN writes THEN Append(older, toast) ELSE older
  BY DEF WindowApply
<1>2. Standing(w.desktop, w.shown, w.composites)
  BY DesktopApplied
<1>3. /\ DOMAIN d.composites \subseteq DOMAIN later /\ DOMAIN later \subseteq Composite
      /\ \A c \in DOMAIN d.composites \ news : later[c] = d.composites[c]
  BY MadeOnDesk
<1>4. PICK W : d.toasts \in Seq(W)
  BY DEF Sound, Offered
<1>5. \A n \in DOMAIN d.toasts : ToastFields \subseteq DOMAIN d.toasts[n] /\ GivesBack(d.toasts[n], d.composites)
  BY DEF Sound, Offered
<1>6. \A n \in DOMAIN d.toasts : ToastFields \subseteq DOMAIN older[n] /\ GivesBack(older[n], later)
  <2> SUFFICES ASSUME NEW n \in DOMAIN d.toasts
               PROVE  ToastFields \subseteq DOMAIN older[n] /\ GivesBack(older[n], later)
    OBVIOUS
  <2>1. older[n] = [d.toasts[n] EXCEPT !.later = @ \cup news]
    OBVIOUS
  <2>2. ToastFields \subseteq DOMAIN d.toasts[n] /\ GivesBack(d.toasts[n], d.composites)
    BY <1>5
  <2> HIDE DEF older, later, news
  <2>3. QED
    BY <1>3, <2>1, <2>2, ToastStays
<1>7. ToastFields \subseteq DOMAIN toast /\ GivesBack(toast, later)
  BY NewToast
<1> HIDE DEF toast
<1>8. DOMAIN older = DOMAIN d.toasts /\ older \in Seq({older[n] : n \in DOMAIN d.toasts})
  <2>1. DOMAIN older = 1 .. Len(d.toasts) /\ DOMAIN older = DOMAIN d.toasts /\ Len(d.toasts) \in Nat
    BY <1>4
  <2>2. older = [n \in DOMAIN d.toasts |-> older[n]]
    OBVIOUS
  <2> HIDE DEF older
  <2>3. QED
    BY <2>1, <2>2
<1> HIDE DEF older
<1>9. PICK V : older \in Seq(V) /\ toast \in V
  <2>1. older \in Seq({older[n] : n \in DOMAIN d.toasts} \cup {toast})
    BY <1>8
  <2>2. QED
    BY <2>1
<1>10. Append(older, toast) \in Seq(V)
       /\ \A n \in DOMAIN Append(older, toast) :
            (n \in DOMAIN older /\ Append(older, toast)[n] = older[n]) \/ Append(older, toast)[n] = toast
  BY <1>9
<1>11. Offered(older, later) /\ Offered(Append(older, toast), later)
  BY <1>6, <1>7, <1>8, <1>9, <1>10 DEF Offered
<1>12. Offered(w.toasts, w.composites)
  BY <1>1, <1>11
<1>13. QED
  BY <1>1, <1>2, <1>3, <1>12 DEF Sound

\* Apply to all calls WindowApply on the desk that the call before has left.
LEMMA AllUnfolds ==
  ASSUME NEW bad, NEW done
  PROVE  /\ Len(Calls) \in Nat
         /\ \E g : /\ g[0] = DeskNow /\ AllApplied(bad, done) = g[Len(Calls)]
                   /\ \A n \in 1 .. Len(Calls) :
                        g[n] = WindowApply(g[n - 1], image, fit, Calls[n],
                                 IF n = bad THEN done ELSE DOMAIN ApplyWrites(backend, image, fit, Calls[n]), {})
<1> DEFINE N == Len(Calls)
           Of(n) == DOMAIN ApplyWrites(backend, image, fit, Calls[n])
           Step(d, n) == WindowApply(d, image, fit, Calls[n], IF n = bad THEN done ELSE Of(n), {})
           desk[n \in 0 .. N] == IF n = 0 THEN DeskNow ELSE Step(desk[n - 1], n)
           T == {m \in Nat : \E g : g = [n \in 0 .. m |-> IF n = 0 THEN DeskNow ELSE Step(g[n - 1], n)]}
<1>1. N \in Nat
  BY MonitorsAssumption DEF Calls
<1>2. AllApplied(bad, done) = desk[N]
  BY DEF AllApplied
<1>3. \E g : g = [n \in 0 .. N |-> IF n = 0 THEN DeskNow ELSE Step(g[n - 1], n)]
  <2> HIDE DEF N, Step
  <2>1. 0 \in T
    <3> DEFINE g == [n \in 0 .. 0 |-> DeskNow]
    <3>1. g = [n \in 0 .. 0 |-> IF n = 0 THEN DeskNow ELSE Step(g[n - 1], n)]
      OBVIOUS
    <3> HIDE DEF g
    <3>2. QED
      BY <3>1
  <2>2. ASSUME NEW m \in Nat, m \in T
        PROVE  m + 1 \in T
    <3>1. PICK h : h = [n \in 0 .. m |-> IF n = 0 THEN DeskNow ELSE Step(h[n - 1], n)]
      BY <2>2
    <3> DEFINE g == [n \in 0 .. m + 1 |-> IF n <= m THEN h[n] ELSE Step(h[m], m + 1)]
    <3>2. \A n \in 0 .. m + 1 : g[n] = IF n = 0 THEN DeskNow ELSE Step(g[n - 1], n)
      <4> SUFFICES ASSUME NEW n \in 0 .. m + 1
                   PROVE  g[n] = IF n = 0 THEN DeskNow ELSE Step(g[n - 1], n)
        OBVIOUS
      <4>1. n # 0 => n - 1 \in 0 .. m /\ g[n - 1] = h[n - 1]
        OBVIOUS
      <4>2. CASE n <= m
        <5>1. n \in 0 .. m /\ g[n] = h[n]
          BY <4>2
        <5>2. h[n] = IF n = 0 THEN DeskNow ELSE Step(h[n - 1], n)
          BY <3>1, <5>1
        <5> HIDE DEF g
        <5>3. QED
          BY <4>1, <5>1, <5>2
      <4>3. CASE n = m + 1
        <5>1. g[n] = Step(h[m], m + 1) /\ n # 0 /\ n - 1 = m
          BY <4>3
        <5> HIDE DEF g
        <5>2. QED
          BY <4>1, <4>3, <5>1
      <4>4. QED
        BY <4>2, <4>3
    <3>3. g = [n \in 0 .. m + 1 |-> IF n = 0 THEN DeskNow ELSE Step(g[n - 1], n)]
      BY <3>2
    <3> HIDE DEF g
    <3>4. QED
      BY <3>3
  <2> HIDE DEF T
  <2>3. N \in T
    BY <1>1, <2>1, <2>2, SetInduction
  <2>4. QED
    BY <2>3 DEF T
<1>4. desk = [n \in 0 .. N |-> IF n = 0 THEN DeskNow ELSE Step(desk[n - 1], n)]
  <2> HIDE DEF N, Step, T
  <2>1. QED
    BY <1>3
<1> HIDE DEF desk, T
<1>5. desk[0] = DeskNow /\ \A n \in 1 .. N : desk[n] = Step(desk[n - 1], n)
  <2> HIDE DEF N, Step
  <2>1. ASSUME NEW n \in 0 .. N
        PROVE  desk[n] = IF n = 0 THEN DeskNow ELSE Step(desk[n - 1], n)
    BY <1>4
  <2>2. QED
    BY <1>1, <2>1
<1>6. QED
  BY <1>1, <1>2, <1>5

LEMMA AllSound ==
  ASSUME BackendInv, backend # None, Sound(DeskNow), image \in Picture, fit \in Fit, NEW bad, NEW done,
         bad \in 1 .. Len(Calls) => done \subseteq DOMAIN ApplyWrites(backend, image, fit, Calls[bad])
  PROVE  Sound(AllApplied(bad, done))
<1> DEFINE N == Len(Calls)
           Of(n) == DOMAIN ApplyWrites(backend, image, fit, Calls[n])
           Step(d, n) == WindowApply(d, image, fit, Calls[n], IF n = bad THEN done ELSE Of(n), {})
<1>1. PICK g : /\ g[0] = DeskNow /\ AllApplied(bad, done) = g[N]
               /\ \A n \in 1 .. N : g[n] = Step(g[n - 1], n)
  BY AllUnfolds
<1>2. N \in Nat
  BY AllUnfolds
<1>3. ASSUME NEW d, Sound(d), NEW n \in 1 .. N
      PROVE  Sound(Step(d, n))
  BY <1>3, ApplySound
<1> DEFINE T == {m \in Nat : m <= N => Sound(g[m])}
<1> HIDE DEF N, Step
<1>4. 0 \in T
  BY <1>1
<1>5. ASSUME NEW m \in Nat, m \in T
      PROVE  m + 1 \in T
  <2> SUFFICES ASSUME m + 1 <= N PROVE Sound(g[m + 1])
    OBVIOUS
  <2>1. m + 1 \in 1 .. N /\ Sound(g[m])
    BY <1>2, <1>5
  <2>2. g[m + 1] = Step(g[m], m + 1)
    <3>1. m + 1 - 1 = m
      OBVIOUS
    <3>2. QED
      BY <1>1, <2>1, <3>1
  <2>3. QED
    BY <1>3, <2>1, <2>2
<1> HIDE DEF T
<1>6. N \in T
  BY <1>2, <1>4, <1>5, SetInduction
<1>7. QED
  BY <1>1, <1>2, <1>6 DEF T

\* What Undo sets: the values that were captured, all of them but those Xfce
\* could not read.
LEMMA GSettingsRestore ==
  ASSUME BackendInv, backend \in GSettings, NEW p, DOMAIN p = Keys(backend),
         NEW script, NEW writes, writes = RestoreWrites(backend, p, script)
  PROVE  /\ \E W : writes \in Seq(W)
         /\ \A n \in DOMAIN writes : \A k \in DOMAIN writes[n] : writes[n][k] = p[k]
         /\ \A k \in Keys(backend) : \E n \in DOMAIN writes : k \in DOMAIN writes[n]
<1> DEFINE keys == IF "dark" \in DOMAIN p THEN <<"uri", "options", "dark">> ELSE <<"uri", "options">>
<1>1. writes = [n \in DOMAIN keys |-> [k \in {keys[n]} |-> p[k]]]
  BY Backends DEF RestoreWrites, GSettings
<1>2. /\ \E N \in Nat : DOMAIN keys = 1 .. N
      /\ \A k \in Keys(backend) : \E n \in DOMAIN keys : keys[n] = k
  <2>1. CASE HasDark(backend)
    <3>1. keys = <<"uri", "options", "dark">> /\ Keys(backend) = {"uri", "options", "dark"}
      BY <2>1, KeysOf
    <3>2. DOMAIN keys = 1 .. 3 /\ keys[1] = "uri" /\ keys[2] = "options" /\ keys[3] = "dark"
      BY <3>1
    <3> HIDE DEF keys
    <3>3. QED
      BY <3>1, <3>2
  <2>2. CASE ~HasDark(backend)
    <3>1. keys = <<"uri", "options">> /\ Keys(backend) = {"uri", "options"}
      BY <2>2, KeysOf
    <3>2. DOMAIN keys = 1 .. 2 /\ keys[1] = "uri" /\ keys[2] = "options"
      BY <3>1
    <3> HIDE DEF keys
    <3>3. QED
      BY <3>1, <3>2
  <2>3. QED
    BY <2>1, <2>2
<1> HIDE DEF keys
<1>3. DOMAIN writes = DOMAIN keys /\ \A n \in DOMAIN keys : writes[n] = [k \in {keys[n]} |-> p[k]]
  BY <1>1
<1>4. \A n \in DOMAIN keys : DOMAIN writes[n] = {keys[n]} /\ writes[n][keys[n]] = p[keys[n]]
  <2> SUFFICES ASSUME NEW n \in DOMAIN keys
               PROVE  DOMAIN writes[n] = {keys[n]} /\ writes[n][keys[n]] = p[keys[n]]
    OBVIOUS
  <2>1. writes[n] = [k \in {keys[n]} |-> p[k]]
    BY <1>3
  <2>2. QED
    BY <2>1
<1>5. writes \in Seq({writes[n] : n \in DOMAIN writes})
  <2>1. PICK N \in Nat : DOMAIN writes = 1 .. N
    BY <1>2, <1>3
  <2>2. writes = [n \in DOMAIN writes |-> writes[n]]
    BY <1>1
  <2>3. QED
    BY <2>1, <2>2
<1>6. QED
  BY <1>2, <1>3, <1>4, <1>5

LEMMA FehRestore ==
  ASSUME BackendInv, backend = "feh", NEW p, NEW script \in ScriptSets, NEW writes,
         writes = RestoreWrites(backend, p, script)
  PROVE  /\ p # <<>> => /\ DOMAIN writes = {1} /\ "root" \in DOMAIN writes[1]
                        /\ writes[1]["root"] = p["fehbg"]
         /\ \E W : writes \in Seq(W)
<1>1. writes = IF p = <<>> THEN <<>> ELSE <<[k \in script |-> p["fehbg"]]>>
  BY Backends DEF RestoreWrites, GSettings
<1>2. CASE p = <<>>
  <2>1. writes = <<>>
    BY <1>1, <1>2
  <2>2. writes \in Seq({1})
    <3>1. \A W : <<>> \in Seq(W)
      OBVIOUS
    <3>2. QED
      BY <2>1, <3>1, Zenon
  <2>3. QED
    BY <1>2, <2>2
<1>3. CASE p # <<>>
  <2> DEFINE r == [k \in script |-> p["fehbg"]]
  <2>1. writes = <<r>>
    BY <1>1, <1>3
  <2> HIDE DEF r
  <2>2. writes \in Seq({r}) /\ DOMAIN writes = 1 .. 1 /\ writes[1] = r
    <3>1. <<r>> \in Seq({r}) /\ DOMAIN <<r>> = 1 .. 1 /\ <<r>>[1] = r
      OBVIOUS
    <3>2. QED
      BY <2>1, <3>1, Zenon
  <2>3. "root" \in DOMAIN r /\ r["root"] = p["fehbg"]
    BY DEF r, ScriptSets
  <2>4. QED
    BY <1>3, <2>2, <2>3
<1>4. QED
  BY <1>2, <1>3

\* An Undo, whole or not, leaves a desktop that stands; a whole one gives each
\* monitor back what it showed.
GivenBack(t, s, made) ==
  /\ backend \in GSettings /\ {t.was[k] : k \in DOMAIN t.was} \cap t.later = {} => Look(s, made) = t.before
  /\ backend = "Xfce" /\ t.whole => \A m \in Monitor : Look(s, made)[m][2] = t.before[m][2]
  /\ backend = "feh" /\ t.whole => Look(s, made) = t.before

MarkedBack(marks, was, writes, done) ==
  [k \in DOMAIN marks |-> IF \E n \in done : k \in DOMAIN writes[n] THEN was[k] ELSE marks[k]]

LEMMA Restored ==
  ASSUME BackendInv, backend # None, NEW t, NEW made, GivesBack(t, made),
         NEW s, NEW marks, Standing(s, marks, made),
         NEW script, backend = "feh" => script \in ScriptSets,
         NEW writes, writes = RestoreWrites(backend, t.previous, script), NEW done \in Ends(backend, writes, TRUE),
         NEW u, u = After(s, writes, done),
         NEW then, then = MarkedBack(marks, t.was, writes, done)
  PROVE  Standing(u, then, made) /\ (done = DOMAIN writes => GivenBack(t, u, made))
<1>1. /\ DOMAIN u = DOMAIN s
      /\ \A k \in DOMAIN s :
           \/ (\A n \in done : k \notin DOMAIN writes[n]) /\ u[k] = s[k]
           \/ \E n \in done : k \in DOMAIN writes[n] /\ u[k] = writes[n][k]
  BY AfterIs
<1>2. DOMAIN s = Keys(backend) /\ DOMAIN marks = Keys(backend)
  BY DEF Standing
<1>3. DOMAIN u = Keys(backend) /\ DOMAIN then = Keys(backend)
  BY <1>1, <1>2 DEF MarkedBack
<1>4. \A k \in Keys(backend) :
        \/ (\A n \in done : k \notin DOMAIN writes[n]) /\ u[k] = s[k] /\ then[k] = marks[k]
        \/ \E n \in done : k \in DOMAIN writes[n] /\ u[k] = writes[n][k] /\ then[k] = t.was[k]
  BY <1>1, <1>2 DEF MarkedBack
<1>5. ASSUME NEW W, writes \in Seq(W), backend # "Xfce"
      PROVE  done \subseteq DOMAIN writes
  BY <1>5 DEF Ends
<1>6. CASE backend \in GSettings
  <2>1. Marked(s, marks, made) /\ Marked(t.previous, t.was, made)
    BY <1>6 DEF Standing, GivesBack
  <2>2. DOMAIN t.previous = Keys(backend)
    BY <2>1 DEF Marked
  <2>3. /\ \E W : writes \in Seq(W)
        /\ \A n \in DOMAIN writes : \A k \in DOMAIN writes[n] : writes[n][k] = t.previous[k]
        /\ \A k \in Keys(backend) : \E n \in DOMAIN writes : k \in DOMAIN writes[n]
    BY <1>6, <2>2, GSettingsRestore
  <2>4. done \subseteq DOMAIN writes
    BY <1>5, <1>6, <2>3, Backends DEF GSettings
  <2>5. \A k \in Keys(backend) : \/ u[k] = s[k] /\ then[k] = marks[k]
                                 \/ u[k] = t.previous[k] /\ then[k] = t.was[k]
    BY <1>4, <2>3, <2>4
  <2>6. Marked(u, then, made)
    BY <1>3, <2>1, <2>5 DEF Marked, Names
  <2>7. Standing(u, then, made)
    BY <1>3, <1>6, <2>6, Backends DEF Standing, GSettings
  <2>8. ASSUME done = DOMAIN writes, {t.was[k] : k \in DOMAIN t.was} \cap t.later = {}
        PROVE  Look(u, made) = t.before
    <3>1. \A k \in Keys(backend) : u[k] = t.previous[k]
      BY <1>4, <2>3, <2>8
    <3>2. Look(t.previous, made) = t.before
      BY <1>6, <2>8 DEF GivesBack
    <3>3. Look(u, made) = Look(t.previous, made)
      BY <1>6, <3>1, LookSame
    <3>4. QED
      BY <3>2, <3>3
  <2>9. QED
    BY <1>6, <2>7, <2>8, Backends DEF GivenBack, GSettings
<1>7. CASE backend = "Xfce"
  <2> DEFINE p == t.previous
  <2>1. /\ DOMAIN p = {"image"} \X Monitor
        /\ t.whole => \A m \in Monitor : p[<<"image", m>>] = t.before[m][2] /\ p[<<"image", m>>] # None
    BY <1>7 DEF GivesBack
  <2>2. /\ DOMAIN writes = {k \in DOMAIN p : p[k] # None}
        /\ \A n \in DOMAIN writes : DOMAIN writes[n] = {n} /\ writes[n][n] = p[n]
    <3>1. writes = [key \in {k \in DOMAIN p : p[k] # None} |-> [k \in {key} |-> p[k]]]
      BY <1>7, Backends DEF RestoreWrites, GSettings
    <3> HIDE DEF p
    <3>2. \A n \in DOMAIN writes : writes[n] = [k \in {n} |-> p[k]]
      BY <3>1
    <3>3. QED
      BY <3>1, <3>2
  <2>3. done \subseteq DOMAIN writes
    BY <1>7 DEF Ends
  <2>4. \A k \in Keys(backend) : \/ u[k] = s[k] /\ k \notin done
                                 \/ k \in DOMAIN writes /\ u[k] = p[k]
    <3> SUFFICES ASSUME NEW k \in Keys(backend)
                 PROVE  \/ u[k] = s[k] /\ k \notin done
                        \/ k \in DOMAIN writes /\ u[k] = p[k]
      OBVIOUS
    <3> HIDE DEF p
    <3>1. CASE (\A n \in done : k \notin DOMAIN writes[n]) /\ u[k] = s[k]
      BY <2>2, <2>3, <3>1
    <3>2. CASE \E n \in done : k \in DOMAIN writes[n] /\ u[k] = writes[n][k]
      <4>1. PICK n \in done : k \in DOMAIN writes[n] /\ u[k] = writes[n][k]
        BY <3>2
      <4>2. n \in DOMAIN writes /\ k = n
        BY <2>2, <2>3, <4>1
      <4>3. QED
        BY <2>2, <4>1, <4>2
    <3>3. QED
      BY <1>4, <3>1, <3>2
  <2>5. \A m \in Monitor : <<"image", m>> \in Keys(backend) /\ s[<<"image", m>>] # None
    BY <1>7, KeysOf DEF Standing
  <2>6. \A m \in Monitor : u[<<"image", m>>] # None
    BY <2>2, <2>4, <2>5
  <2>7. Standing(u, then, made)
    BY <1>3, <1>7, <2>6, Backends DEF Standing, GSettings
  <2>8. ASSUME done = DOMAIN writes, t.whole, NEW m \in Monitor
        PROVE  Look(u, made)[m][2] = t.before[m][2]
    <3>1. <<"image", m>> \in DOMAIN writes
      BY <2>1, <2>2, <2>8
    <3>2. u[<<"image", m>>] = p[<<"image", m>>]
      BY <2>4, <2>5, <2>8, <3>1
    <3>3. Look(u, made)[m] = Drawn(u[<<"image", m>>], u[<<"style", m>>])
      BY <1>7, Backends DEF Look, Shows, GSettings
    <3>4. Look(u, made)[m][2] = u[<<"image", m>>]
      BY <3>3, DrawnOf
    <3>5. QED
      BY <2>1, <2>8, <3>2, <3>4
  <2>9. QED
    BY <1>7, <2>7, <2>8, Backends DEF GivenBack, GSettings
<1>8. CASE backend = "feh"
  <2> DEFINE p == t.previous
  <2>1. /\ p # <<>> => /\ DOMAIN writes = {1} /\ "root" \in DOMAIN writes[1]
                       /\ writes[1]["root"] = p["fehbg"]
        /\ \E W : writes \in Seq(W)
    BY <1>8, FehRestore
  <2>2. Standing(u, then, made)
    BY <1>3, <1>8, Backends DEF Standing, GSettings
  <2>3. ASSUME done = DOMAIN writes, t.whole
        PROVE  Look(u, made) = t.before
    <3>1. DOMAIN p = {"fehbg"} /\ t.before = [m \in Monitor |-> p["fehbg"]]
      BY <1>8, <2>3 DEF GivesBack
    <3>2. p # <<>>
      BY <3>1
    <3>3. "root" \in Keys(backend)
      BY <1>8, KeysOf
    <3>4. u["root"] = p["fehbg"]
      BY <1>4, <2>1, <2>3, <3>2, <3>3
    <3>5. Look(u, made) = [m \in Monitor |-> u["root"]]
      BY <1>8, Backends DEF Look, Shows, GSettings
    <3>6. QED
      BY <3>1, <3>4, <3>5
  <2>4. QED
    BY <1>8, <2>2, <2>3, Backends DEF GivenBack, GSettings
<1>9. QED
  BY <1>6, <1>7, <1>8, Backends

\* A desk that is sound is so after the step that leads to it.
LEMMA SoundNext ==
  ASSUME backend' = backend, NEW d, Sound(d), desktop' = d.desktop, composites' = d.composites,
         toasts' = d.toasts, shown' = d.shown
  PROVE  Sound(DeskNow)'
<1>1. Names' = Names
  BY DEF Names
<1>5. Standing(desktop, shown, composites)'
  BY <1>1 DEF Sound, Standing, Marked
<1>6. Offered(toasts, composites)'
  <2>1. /\ \E W : d.toasts \in Seq(W)
        /\ \A n \in DOMAIN d.toasts : ToastFields \subseteq DOMAIN d.toasts[n] /\ GivesBack(d.toasts[n], d.composites)
    BY DEF Sound, Offered
  <2>2. ASSUME NEW n \in DOMAIN toasts'
        PROVE  GivesBack(toasts[n], composites)'
    <3>1. GivesBack(d.toasts[n], d.composites)
      BY <2>1, <2>2
    <3>2. QED
      BY <1>1, <3>1 DEF GivesBack, Marked, Look
  <2>3. QED
    BY <2>1, <2>2 DEF Offered, ToastFields
<1>7. QED
  BY <1>5, <1>6 DEF Sound, DeskNow

LEMMA DeskIsSound ==
  /\ Sound(DeskNow) <=> /\ Standing(desktop, shown, composites) /\ DOMAIN composites \subseteq Composite
                        /\ Offered(toasts, composites) /\ (backend = None => toasts = <<>>)
  /\ DeskNow.desktop = desktop /\ DeskNow.composites = composites /\ DeskNow.toasts = toasts
  /\ DeskNow.shown = shown
BY DEF Sound, DeskNow

\* The toasts that are left when the first one goes.
LEMMA OneLess ==
  ASSUME NEW toasted, NEW made, Offered(toasted, made), toasted # <<>>
  PROVE  /\ Offered(Tail(toasted), made)
         /\ ToastFields \subseteq DOMAIN Head(toasted) /\ GivesBack(Head(toasted), made)
<1>1. PICK W : toasted \in Seq(W)
  BY DEF Offered
<1>2. \A n \in DOMAIN toasted : ToastFields \subseteq DOMAIN toasted[n] /\ GivesBack(toasted[n], made)
  BY DEF Offered
<1>3. /\ Tail(toasted) \in Seq(W) /\ Head(toasted) = toasted[1] /\ 1 \in DOMAIN toasted
      /\ \A n \in DOMAIN Tail(toasted) : n + 1 \in DOMAIN toasted /\ Tail(toasted)[n] = toasted[n + 1]
  BY <1>1
<1>4. QED
  BY <1>2, <1>3 DEF Offered

\* What the Undo property says of a step.
UndoMove ==
  /\ budget'.undo # budget.undo /\ budget'.fault = budget.fault
      => LET toast == Head(toasts)
             now == Look(desktop', composites')
         IN CASE backend \in GSettings ->
                   {toast.was[k] : k \in DOMAIN toast.was} \cap toast.later = {} => now = toast.before
              [] backend = "Xfce" ->
                   toast.whole => \A m \in Monitor : now[m][2] = toast.before[m][2]
              [] backend = "feh" ->
                   toast.whole => now = toast.before

LEMMA UndoKeeps ==
  ASSUME DesktopInv, BudgetInv, Undo
  PROVE  DesktopInv' /\ UndoMove
<1> DEFINE t == Head(toasts)
<1>1. /\ Standing(desktop, shown, composites) /\ DOMAIN composites \subseteq Composite
      /\ Offered(toasts, composites) /\ toasts # <<>> /\ backend # None /\ BackendInv
  BY DeskIsSound DEF DesktopInv, Undo
<1>2. /\ Offered(Tail(toasts), composites)
      /\ GivesBack(t, composites)
  BY <1>1, OneLess
<1>0. PICK script \in IF backend = "feh" THEN ScriptSets ELSE {{"root"}} :
        \E done \in Ends(backend, RestoreWrites(backend, t.previous, script), TRUE) :
        /\ SpendWith("undo", done # DOMAIN RestoreWrites(backend, t.previous, script))
        /\ desktop' = After(desktop, RestoreWrites(backend, t.previous, script), done)
        /\ shown' = [k \in DOMAIN shown |->
                       IF \E n \in done : k \in DOMAIN RestoreWrites(backend, t.previous, script)[n]
                       THEN t.was[k] ELSE shown[k]]
  BY DEF Undo
<1> DEFINE writes == RestoreWrites(backend, t.previous, script)
<1>3. PICK done \in Ends(backend, writes, TRUE) :
        /\ SpendWith("undo", done # DOMAIN writes)
        /\ desktop' = After(desktop, writes, done)
        /\ shown' = [k \in DOMAIN shown |->
                       IF \E n \in done : k \in DOMAIN writes[n] THEN t.was[k] ELSE shown[k]]
  BY <1>0
<1>4. toasts' = Tail(toasts) /\ composites' = composites /\ backend' = backend
  BY DEF Undo
<1> HIDE DEF writes, t
<1>5. writes = RestoreWrites(backend, t.previous, script)
  BY DEF writes
<1>6. \A u, then : u = desktop' /\ then = shown' =>
        Standing(u, then, composites) /\ (done = DOMAIN writes => GivenBack(t, u, composites))
  <2> SUFFICES ASSUME NEW u, NEW then, u = desktop', then = shown'
               PROVE  Standing(u, then, composites) /\ (done = DOMAIN writes => GivenBack(t, u, composites))
    OBVIOUS
  <2>1. /\ u = After(desktop, writes, done)
        /\ then = MarkedBack(shown, t.was, writes, done)
    BY <1>3 DEF MarkedBack
  <2>2. BackendInv /\ backend # None /\ GivesBack(t, composites) /\ Standing(desktop, shown, composites)
    BY <1>1, <1>2
  <2>3. QED
    BY <1>5, <2>1, <2>2, Restored
<1>7. PICK u, then : u = desktop' /\ then = shown'
  OBVIOUS
<1>8. DesktopInv'
  <2> DEFINE d == [desktop |-> u, composites |-> composites, applied |-> applied,
                   toasts |-> Tail(toasts), shown |-> then]
  <2>1. Sound(d)
    BY <1>1, <1>2, <1>6, <1>7 DEF Sound
  <2>2. /\ desktop' = d.desktop /\ composites' = d.composites /\ toasts' = d.toasts /\ shown' = d.shown
    BY <1>4, <1>7
  <2> HIDE DEF d
  <2>3. Sound(DeskNow)'
    BY <1>4, <2>1, <2>2, SoundNext
  <2>4. QED
    BY <1>1, <1>4, <2>3 DEF DesktopInv, BackendInv
<1>9. ASSUME budget'.fault = budget.fault
      PROVE  GivenBack(t, desktop', composites')
  <2>1. done = DOMAIN writes
    BY <1>3, <1>9, SpendingWith DEF StepKind
  <2>2. QED
    BY <1>4, <1>6, <2>1
<1>10. UndoMove
  BY <1>1, <1>9, Backends DEF UndoMove, GivenBack, GSettings, t
<1>11. QED
  BY <1>8, <1>10

\* What a desktop may be found with stands, and nothing of it was made by the
\* program.
LEMMA FoundStands ==
  ASSUME BackendInv, NEW option, NEW s, s = Found(backend, option), NEW marks, NEW made,
         DOMAIN marks = Keys(backend)
  PROVE  Standing(s, marks, made)
<1>1. CASE backend \in GSettings
  <2>1. s = [k \in Keys(backend) |-> IF k = "options" THEN option ELSE Stock]
    BY <1>1, Backends DEF Found, GSettings
  <2>2. DOMAIN s = Keys(backend) /\ \A k \in Names : s[k] = Stock
    BY <2>1 DEF Names
  <2>3. Marked(s, marks, made)
    BY <2>2, DeskAssumption DEF Marked
  <2>4. QED
    BY <1>1, <2>2, <2>3, Backends DEF Standing, GSettings
<1>2. CASE backend = "Xfce"
  <2>1. s = [k \in Keys(backend) |-> IF k[1] = "image" THEN Stock ELSE "zoom"]
    BY <1>2, Backends DEF Found, GSettings
  <2>2. DOMAIN s = Keys(backend) /\ \A m \in Monitor : s[<<"image", m>>] = Stock
    BY <1>2, <2>1, KeysOf
  <2>3. QED
    BY <1>2, <2>2, DeskAssumption, Backends DEF Standing, GSettings
<1>3. CASE backend = "feh"
  <2> DEFINE drawn == Drawn(Stock, "zoom")
  <2>1. s = [root |-> drawn, fehbg |-> IF option = "spanned" THEN None ELSE drawn]
    BY <1>3, Backends DEF Found, GSettings
  <2>2. DOMAIN s = Keys(backend)
    BY <1>3, <2>1, KeysOf
  <2>3. QED
    BY <1>3, <2>2, Backends DEF Standing, GSettings
<1>4. CASE backend = None
  <2>1. s = <<>> /\ Keys(backend) = {}
    BY <1>4, Backends DEF Found, Keys, GSettings
  <2>2. DOMAIN s = {}
    BY <2>1
  <2>3. QED
    BY <1>4, <2>1, <2>2, Backends DEF Standing, GSettings
<1>5. QED
  BY <1>1, <1>2, <1>3, <1>4, Backends

LEMMA NoToasts == \A made : Offered(<<>>, made)
<1>1. <<>> \in Seq({}) /\ DOMAIN <<>> = {}
  OBVIOUS
<1>2. QED
  BY <1>1 DEF Offered

\* An apply of one call.
LEMMA ApplyingKeeps ==
  ASSUME DesktopInv, NEW i \in Picture, NEW f \in Fit, NEW target, NEW kind, backend # None,
         Applying(kind, i, f, target), backend' = backend
  PROVE  DesktopInv'
<1> DEFINE writes == ApplyWrites(backend, i, f, target)
<1>1. PICK done \in Ends(backend, writes, FALSE), unread \in Unreadable :
        DeskBecomes(WindowApply(DeskNow, i, f, target, done, unread))
  BY DEF Applying
<1>2. PICK d : d = WindowApply(DeskNow, i, f, target, done, unread)
  OBVIOUS
<1>3. BackendInv /\ Sound(DeskNow)
  BY DEF DesktopInv
<1>4. done \subseteq DOMAIN writes
  <2>1. \E W : writes \in Seq(W)
    BY <1>3, WritesAreSequences
  <2> HIDE DEF writes
  <2>2. QED
    BY <2>1, RunInPart
<1>5. Sound(d)
  <2>1. \A now : now = DeskNow => Sound(WindowApply(now, i, f, target, done, unread))
    BY <1>3, <1>4, ApplySound
  <2>2. QED
    BY <1>2, <2>1
<1>6. Sound(DeskNow)'
  BY <1>1, <1>2, <1>5, SoundNext DEF DeskBecomes
<1>7. QED
  BY <1>3, <1>6 DEF DesktopInv, BackendInv

LEMMA ApplyAllKeeps ==
  ASSUME DesktopInv, FitsInv, ApplyAll
  PROVE  DesktopInv'
<1>1. BackendInv /\ Sound(DeskNow) /\ backend # None /\ image \in Picture /\ fit \in Fit /\ backend' = backend
  BY DEF DesktopInv, FitsInv, ChoiceTypes, ApplyAll, CanApplyAll
<1>2. PICK bad, done :
        /\ bad \in 0 .. Len(Calls)
        /\ bad # 0 => done \in Ends(backend, ApplyWrites(backend, image, fit, Calls[bad]), FALSE)
        /\ DeskBecomes(AllApplied(bad, done))
  BY DEF ApplyAll
<1>3. bad \in 1 .. Len(Calls) => done \subseteq DOMAIN ApplyWrites(backend, image, fit, Calls[bad])
  <2> SUFFICES ASSUME bad \in 1 .. Len(Calls)
               PROVE  done \subseteq DOMAIN ApplyWrites(backend, image, fit, Calls[bad])
    OBVIOUS
  <2> DEFINE writes == ApplyWrites(backend, image, fit, Calls[bad])
  <2>1. bad # 0
    BY AllUnfolds
  <2>2. \E W : writes \in Seq(W)
    BY <1>1, WritesAreSequences
  <2>3. done \in Ends(backend, writes, FALSE)
    BY <1>2, <2>1
  <2> HIDE DEF writes
  <2>4. done \subseteq DOMAIN writes
    BY <2>2, <2>3, RunInPart
  <2>5. QED
    BY <2>4 DEF writes
<1>4. Sound(AllApplied(bad, done))
  BY <1>1, <1>3, AllSound
<1>5. PICK d : d = AllApplied(bad, done)
  OBVIOUS
<1>6. Sound(DeskNow)'
  BY <1>1, <1>2, <1>4, <1>5, SoundNext DEF DeskBecomes
<1>7. QED
  BY <1>1, <1>6 DEF DesktopInv, BackendInv

\* What the steps of the window are to the desktop.
LEMMA DesktopKept ==
  ASSUME DesktopInv, FitsInv, PreviewInv, BudgetInv, [Next]_vars
  PROVE  DesktopInv'
<1>1. CASE UNCHANGED <<backend, desktop, composites, toasts, shown>>
  <2>1. PICK d : d = DeskNow
    OBVIOUS
  <2>2. Sound(d) /\ BackendInv
    BY <2>1 DEF DesktopInv
  <2>3. desktop' = d.desktop /\ composites' = d.composites /\ toasts' = d.toasts /\ shown' = d.shown
    BY <1>1, <2>1, DeskIsSound
  <2>4. QED
    BY <1>1, <2>2, <2>3, SoundNext DEF DesktopInv, BackendInv
<1>2. ASSUME NEW s, NEW marks, NEW toasted, BackendInv,
             Standing(s, marks, composites), Offered(toasted, composites),
             DOMAIN composites \subseteq Composite, backend = None => toasted = <<>>,
             desktop' = s, shown' = marks, toasts' = toasted, UNCHANGED <<backend, composites>>
      PROVE  DesktopInv'
  <2> DEFINE d == [desktop |-> s, composites |-> composites, applied |-> applied, toasts |-> toasted, shown |-> marks]
  <2>1. PICK e : e = d
    OBVIOUS
  <2>2. Sound(e) /\ desktop' = e.desktop /\ composites' = e.composites /\ toasts' = e.toasts /\ shown' = e.shown
    BY <1>2, <2>1 DEF Sound
  <2>3. Sound(DeskNow)'
    BY <1>2, <2>2, SoundNext
  <2>4. QED
    BY <1>2, <2>3 DEF DesktopInv, BackendInv
<1>3. /\ BackendInv /\ Standing(desktop, shown, composites) /\ Offered(toasts, composites)
      /\ DOMAIN composites \subseteq Composite /\ (backend = None => toasts = <<>>)
  BY DeskIsSound DEF DesktopInv
<1>4. CASE UNCHANGED vars
  BY <1>1, <1>4 DEF vars, deskVars
<1>5. CASE \E i \in Picture : SetGlobalImage(i) \/ UseInScreens(i)
  BY <1>1, <1>5 DEF UseInScreens, SetGlobalImage
<1>6. CASE \E i \in Picture : ApplyTile(i)
  BY <1>6, ApplyingKeeps DEF ApplyTile, FitsInv, ChoiceTypes
<1>7. CASE \E p \in Picture \cup {Unusable} : LoadImage(p)
  BY <1>1, <1>7 DEF LoadImage, SetGlobalImage
<1>8. CASE \E key \in Surface : \/ \E i \in Picture : SetSurfaceImage(key, i)
                                \/ \E f \in Fits : FitCard(key, f)
  BY <1>1, <1>8 DEF SetSurfaceImage, FitCard
<1>9. CASE \E f \in Fits : FitAll(f) \/ DefaultFit(f)
  BY <1>1, <1>9 DEF FitAll, DefaultFit
<1>10. CASE Pick \/ ShowScreens \/ ShowWallpaper
  BY <1>1, <1>10 DEF Pick, ShowScreens, ShowWallpaper, deskVars
<1>11. ASSUME NEW key \in Surface, ApplyCard(key)
       PROVE  DesktopInv'
  <2>1. /\ key \notin Privileged /\ cards[key].can /\ Resolved(key, override, image) # None
        /\ Applying("apply", Resolved(key, override, image), FitOf(key, fits), TargetOf(key))
        /\ backend' = backend
    BY <1>11 DEF ApplyCard
  <2>2. CanApply(key, override, image)
    BY <2>1 DEF PreviewInv, Honest
  <2>3. backend # None
    BY <2>1, <2>2 DEF CanApply
  <2>4. Resolved(key, override, image) \in Picture
    BY <2>1 DEF Resolved, FitsInv, ChoiceTypes
  <2>5. FitOf(key, fits) \in Fit
    BY FitOfType DEF FitsInv, ChoiceTypes
  <2>6. QED
    BY <2>1, <2>3, <2>4, <2>5, ApplyingKeeps
<1>12. CASE \E key \in Surface : ApplyPrivileged(key)
  BY <1>1, <1>12 DEF ApplyPrivileged, desktopVars
<1>13. CASE ApplyAll
  BY <1>13, ApplyAllKeeps
<1>14. CASE Undo
  BY <1>14, UndoKeeps
<1>15. CASE ToastExpires
  <2>1. toasts # <<>> /\ toasts' = Tail(toasts) /\ UNCHANGED <<backend, desktop, composites, shown>>
    BY <1>15 DEF ToastExpires
  <2>2. Offered(Tail(toasts), composites) /\ backend # None
    BY <1>3, <2>1, OneLess
  <2>3. PICK s, marks, toasted : s = desktop /\ marks = shown /\ toasted = Tail(toasts)
    OBVIOUS
  <2>4. QED
    BY <1>2, <1>3, <2>1, <2>2, <2>3
<1>16. CASE ChosenElsewhere
  <2>1. /\ desktop' = Found(backend, "zoom") /\ shown' = [k \in DOMAIN shown |-> None]
        /\ UNCHANGED <<backend, composites, toasts>>
    BY <1>16 DEF ChosenElsewhere
  <2>2. PICK s, marks, toasted : s = desktop' /\ marks = shown' /\ toasted = toasts
    OBVIOUS
  <2>3. DOMAIN marks = Keys(backend)
    BY <1>3, <2>1, <2>2 DEF Standing
  <2>4. Standing(s, marks, composites)
    BY <1>3, <2>1, <2>2, <2>3, FoundStands
  <2>5. QED
    BY <1>2, <1>3, <2>1, <2>2, <2>4
<1>17. CASE CancelDialog \/ SubmitDialog
  BY <1>1, <1>17 DEF CancelDialog, SubmitDialog, desktopVars
<1>18. CASE \E h \in helpers :
              HelperInstalls(h) \/ HelperRefused(h) \/ HelperBreaks(h) \/ HelperTimesOut(h) \/ HelperExits(h)
  BY <1>1, <1>18 DEF HelperInstalls, HelperRefused, HelperBreaks, HelperTimesOut, HelperExits, desktopVars
<1>19. CASE RecordApplied
  BY <1>1, <1>19 DEF RecordApplied, desktopVars
<1>20. CASE Restart
  <2>1. toasts' = <<>> /\ UNCHANGED <<backend, desktop, composites, shown>>
    BY <1>20 DEF Restart, Launched
  <2>2. PICK s, marks : s = desktop /\ marks = shown
    OBVIOUS
  <2>3. Offered(<<>>, composites)
    BY NoToasts
  <2>4. QED
    BY <1>2, <1>3, <2>1, <2>2, <2>3
<1>21. CASE AddFiles \/ RemoveTile \/ CommandStarts \/ CommandSaves \/ Saves \/ SaveIsRefused
            \/ IndexReported
  BY <1>1, <1>21 DEF AddFiles, RemoveTile, CommandStarts, CommandSaves, Saves, SaveIsRefused,
               IndexReported, deskVars
<1>22. CASE MoveSwitch \/ MenuChanged \/ MenuRefused \/ ThunarChanges
  BY <1>1, <1>22 DEF MoveSwitch, MenuChanged, MenuRefused, ThunarChanges, otherVars, deskVars
<1>23. QED
  BY <1>4, <1>5, <1>6, <1>7, <1>8, <1>9, <1>10, <1>11, <1>12, <1>13, <1>14, <1>15, <1>16, <1>17, <1>18,
     <1>19, <1>20, <1>21, <1>22 DEF Next

\* The backend is one of those registered.
LEMMA BackendIsKnown ==
  ASSUME NEW e
  PROVE  DetectBackend(e) \in {Registry[n] : n \in DOMAIN Registry} \cup {None}
<1> DEFINE scores == {Score(Registry[n], e) : n \in DOMAIN Registry}
           first == {n \in DOMAIN Registry : Score(Registry[n], e) = Max(scores)}
<1>1. /\ Registry[1] = "Cinnamon" /\ Registry[2] = "MATE" /\ Registry[3] = "GNOME"
      /\ Registry[4] = "Xfce" /\ Registry[5] = "feh" /\ DOMAIN Registry = 1 .. 5
  BY DEF Registry
<1>2. \A holds : /\ Points(holds, 60) \in 0 .. 60 /\ Points(holds, 50) \in 0 .. 50
                   /\ Points(holds, 35) \in 0 .. 35 /\ Points(holds, 25) \in 0 .. 25
                   /\ Points(holds, 20) \in 0 .. 20 /\ Points(holds, 15) \in 0 .. 15
                   /\ Points(holds, 10) \in 0 .. 10
  BY DEF Points
<1>3. \A n \in DOMAIN Registry : Score(Registry[n], e) \in 0 .. 100
  <2>1. CinnamonScore(e) \in 0 .. 100
    BY <1>2 DEF CinnamonScore
  <2>2. MateScore(e) \in 0 .. 100
    BY <1>2 DEF MateScore
  <2>3. GnomeScore(e) \in 0 .. 100
    BY <1>2 DEF GnomeScore
  <2>4. XfceScore(e) \in 0 .. 100
    BY <1>2 DEF XfceScore
  <2>5. FehScore(e) \in 0 .. 100
    BY <1>2 DEF FehScore
  <2>6. QED
    BY <1>1, <2>1, <2>2, <2>3, <2>4, <2>5 DEF Score
<1>4. scores \in SUBSET (0 .. 100) /\ scores # {}
  BY <1>1, <1>3
<1>5. Max(scores) \in scores
  <2> HIDE DEF scores
  <2>1. QED
    BY <1>4, MaxIsIn
<1>6. first \in SUBSET Nat /\ first # {} /\ first \subseteq DOMAIN Registry
  BY <1>1, <1>5
<1>7. Min(first) \in first
  <2> HIDE DEF first
  <2>1. QED
    BY <1>6, MinIsIn
<1>8. DetectBackend(e) = IF Max(scores) = 0 THEN None ELSE Registry[Min(first)]
  BY DEF DetectBackend
<1>9. QED
  BY <1>6, <1>7, <1>8

LEMMA DesktopStarts == Init => DesktopInv
<1> SUFFICES ASSUME Init
             PROVE  DesktopInv
  OBVIOUS
<1>1. PICK s \in Sessions : backend = DetectBackend(s.on) /\ desktop = Found(backend, s.option)
  BY DEF Init
<1>2. composites = <<>> /\ toasts = <<>> /\ shown = [k \in DOMAIN desktop |-> None]
  BY DEF Init
<1>3. BackendInv
  BY <1>1, BackendIsKnown DEF BackendInv
<1>4. DOMAIN desktop = Keys(backend)
  BY <1>1, <1>3, Backends DEF Found, Keys, GSettings
<1>5. DOMAIN shown = Keys(backend) /\ DOMAIN composites \subseteq Composite
  BY <1>2, <1>4
<1>6. Standing(desktop, shown, composites)
  BY <1>1, <1>3, <1>5, FoundStands
<1>7. Offered(toasts, composites)
  BY <1>2, NoToasts
<1>8. QED
  BY <1>2, <1>3, <1>5, <1>6, <1>7, DeskIsSound DEF DesktopInv

\* Whatever was applied, chosen and undone before, on any desktop and for any
\* monitors and pictures: an Undo whose subprocesses all ran gives each monitor the
\* picture it showed before the apply that the toast is for, but for a composite
\* made again since, an image Xfce could not read, and a root that feh's own script
\* had not drawn (window.py: apply, _undo; the backends' current and restore).
THEOREM UndoRestores == Spec => UndoGivesBack
<1> DEFINE Inv == DesktopInv /\ FitsInv /\ PreviewInv /\ BudgetInv
<1>1. Init => Inv
  BY DesktopStarts, FitsStart, PreviewStarts, BudgetStarts
<1>2. Inv /\ [Next]_vars => Inv'
  BY DesktopKept, FitsKeep, PreviewSteps, PreviewKept, BudgetSteps, BudgetKept
<1>3. Inv /\ [Next]_vars => [UndoMove]_vars
  <2> SUFFICES ASSUME Inv, [Next]_vars, budget'.undo # budget.undo
               PROVE  UndoMove
    BY DEF UndoMove
  <2>1. Undo
    BY BudgetSteps, BudgetKept
  <2>2. QED
    BY <2>1, UndoKeeps
<1>4. QED
  BY <1>1, <1>2, <1>3, PTL DEF Spec, UndoGivesBack, UndoMove

-----------------------------------------------------------------------------
\* The types.

\* The user's pictures: the wallpaper shipped with the package is not among them.
Mine == Picture \ {Builtin}

OfMine(s) ==
  /\ s.stage \in {"idle", "adding", "open", "written"}
  /\ Saving(s) => s.data \cup s.added \subseteq Mine
  /\ s.stage = "adding" => s.list \subseteq Mine

MineInv ==
  /\ \A f \in File : files[f] = None \/ files[f] \subseteq Mine
  /\ cache \subseteq Mine /\ grid \subseteq Picture /\ wanted \subseteq Mine
  /\ \A p \in Process : OfMine(save[p])
  /\ told \in BOOLEAN /\ watching \in BOOLEAN /\ raced \in BOOLEAN

LEMMA MineStarts == Init => MineInv
<1> SUFFICES ASSUME Init
             PROVE  MineInv
  OBVIOUS
<1>1. /\ files = [f \in File |-> None] /\ cache = {} /\ grid = Items({})
      /\ save = [p \in Process |-> NoSave] /\ told = FALSE /\ wanted = {} /\ raced = FALSE
      /\ watching \in BOOLEAN
  BY SessionsAssumption DEF Init, LibraryInit
<1>2. OfMine(NoSave)
  BY DEF OfMine, NoSave, Saving
<1>3. \A p \in Process : save[p] = NoSave
  BY <1>1
<1>4. QED
  BY <1>1, <1>2, <1>3, DeskAssumption DEF MineInv, Items

LEMMA MineLoads ==
  ASSUME LibraryTypes, MineInv
  PROVE  Load(names, files) \subseteq Mine
BY DEF LibraryTypes, MineInv, Load

LEMMA FreshMine == \A paths, list : Fresh(paths, list) \subseteq Mine
BY DeskAssumption DEF Fresh, Valid, Mine

LEMMA ItemsMine == \A list : list \subseteq Mine => Items(list) \subseteq Picture
BY DeskAssumption DEF Items, Mine

\* One process's save moves on.
LEMMA MineMoves ==
  ASSUME LibraryTypes, MineInv, NEW p \in Process, NEW r, OfMine(r), save' = [save EXCEPT ![p] = r],
         \A f \in File : files'[f] = None \/ files'[f] = files[f] \/ files'[f] \subseteq Mine,
         cache' \subseteq Mine, grid' \subseteq Picture, wanted' \subseteq Mine,
         told' \in BOOLEAN, raced' \in BOOLEAN, UNCHANGED watching
  PROVE  MineInv'
<1>1. save'[p] = r /\ \A q \in Process \ {p} : save'[q] = save[q]
  BY DEF LibraryTypes
<1>2. \A q \in Process : OfMine(save'[q])
  BY <1>1 DEF MineInv
<1>3. \A q \in Process : OfMine(save[q])'
  BY <1>2 DEF OfMine, Saving
<1>4. QED
  BY <1>3 DEF MineInv

LEMMA MineBegins ==
  ASSUME LibraryTypes, MineInv, NEW p \in Process, NEW base, NEW data \in SUBSET Mine,
         NEW added \in SUBSET Mine, NEW removed, BeginSave(p, base, data, added, removed),
         cache' \subseteq Mine, UNCHANGED <<grid, told, watching, wanted>>
  PROVE  MineInv'
<1>1. PICK f : /\ files' = [files EXCEPT ![f] = None]
               /\ save' = [save EXCEPT ![p] = [stage |-> "open", file |-> f, data |-> data,
                                               added |-> added, removed |-> removed]]
  BY DEF BeginSave
<1>2. raced' \in BOOLEAN
  BY DEF BeginSave
<1>3. PICK r : r = [stage |-> "open", file |-> f, data |-> data, added |-> added, removed |-> removed]
  OBVIOUS
<1>4. OfMine(r)
  BY <1>3 DEF OfMine
<1>5. \A g \in File : files'[g] = None \/ files'[g] = files[g]
  BY <1>1 DEF LibraryTypes
<1>6. grid' \subseteq Picture /\ wanted' \subseteq Mine /\ told' \in BOOLEAN /\ save' = [save EXCEPT ![p] = r]
  BY <1>1, <1>3 DEF MineInv
<1>7. QED
  BY <1>2, <1>4, <1>5, <1>6, MineMoves

LEMMA MineKept ==
  ASSUME LibraryTypes, MineInv, LibraryStep
  PROVE  MineInv'
<1>1. "window" \in Process /\ "command" \in Process
  BY DEF Process
<1>2. OfMine(NoSave)
  BY DEF OfMine, NoSave, Saving
<1>3. ASSUME NEW paths, AddInWindow(paths)
      PROVE  MineInv'
  <2> DEFINE new == Fresh(paths, cache)
  <2>1. new \in SUBSET Mine /\ cache \cup new \in SUBSET Mine /\ cache' = cache \cup new
        /\ UNCHANGED <<told, watching, wanted>>
    BY <1>3, FreshMine DEF AddInWindow, MineInv
  <2>2. CASE new # {}
    <3>1. BeginSave("window", cache, cache \cup new, new, {}) /\ UNCHANGED grid
      BY <1>3, <2>2 DEF AddInWindow
    <3> HIDE DEF new
    <3>2. QED
      BY <1>1, <2>1, <3>1, MineBegins
  <2>3. CASE new = {}
    <3>1. grid' = Items(cache') /\ UNCHANGED <<names, files, save, raced>>
      BY <1>3, <2>3 DEF AddInWindow, Populate
    <3>2. QED
      BY <2>1, <3>1, ItemsMine DEF MineInv, OfMine, Saving
  <2>4. QED
    BY <2>2, <2>3
<1>4. ASSUME NEW i \in Picture, RemoveInWindow(i)
      PROVE  MineInv'
  <2>1. cache' = cache \ {i} /\ cache \ {i} \in SUBSET Mine /\ {} \in SUBSET Mine
        /\ UNCHANGED <<grid, told, watching, wanted>>
    BY <1>4 DEF RemoveInWindow, MineInv
  <2>2. CASE i \in cache
    <3>1. BeginSave("window", cache, cache \ {i}, {}, {i})
      BY <1>4, <2>2 DEF RemoveInWindow
    <3>2. QED
      BY <1>1, <2>1, <3>1, MineBegins
  <2>3. CASE i \notin cache
    <3>1. UNCHANGED <<names, files, save, raced>>
      BY <1>4, <2>3 DEF RemoveInWindow
    <3>2. QED
      BY <2>1, <3>1 DEF MineInv, OfMine, Saving
  <2>4. QED
    BY <2>2, <2>3
<1>5. ASSUME NEW paths, CommandLoads(paths)
      PROVE  MineInv'
  <2>1. PICK r : r = [stage |-> "adding", list |-> Load(names, files), base |-> Load(names, files),
                      paths |-> paths]
    OBVIOUS
  <2>2. save' = [save EXCEPT !["command"] = r]
        /\ UNCHANGED <<names, files, cache, grid, told, watching, wanted, raced>>
    BY <1>5, <2>1 DEF CommandLoads
  <2>3. OfMine(r)
    BY <2>1, MineLoads DEF OfMine, Saving
  <2>4. QED
    BY <1>1, <2>2, <2>3, MineMoves DEF MineInv
<1>6. CASE CommandAdds
  <2> DEFINE s == save["command"]
             new == Fresh(s.paths, s.list)
  <2>1. new \in SUBSET Mine /\ s.list \cup new \in SUBSET Mine
        /\ UNCHANGED <<cache, grid, told, watching, wanted>>
    BY <1>1, <1>6, FreshMine DEF CommandAdds, MineInv, OfMine
  <2>2. CASE new # {}
    <3>1. BeginSave("command", s.base, s.list \cup new, new, {})
      BY <1>6, <2>2 DEF CommandAdds
    <3>2. cache' \subseteq Mine
      BY <2>1 DEF MineInv
    <3> HIDE DEF s, new
    <3>3. QED
      BY <1>1, <2>1, <3>1, <3>2, MineBegins
  <2>3. CASE new = {}
    <3>1. save' = [save EXCEPT !["command"] = NoSave] /\ UNCHANGED <<names, files, raced>>
      BY <1>6, <2>3 DEF CommandAdds
    <3>2. QED
      BY <1>1, <1>2, <2>1, <3>1, MineMoves DEF MineInv
  <2>4. QED
    BY <2>2, <2>3
<1>7. ASSUME NEW p \in Process, WriteSave(p)
      PROVE  MineInv'
  <2> DEFINE r == [save[p] EXCEPT !.stage = "written"]
  <2>1. save[p].stage = "open" /\ save[p] \in Save /\ OfMine(save[p])
    BY <1>7 DEF WriteSave, LibraryTypes, MineInv, Saving
  <2>2. save' = [save EXCEPT ![p] = r]
    BY <1>7 DEF WriteSave
  <2>3. r.stage = "written" /\ r.data = save[p].data /\ r.added = save[p].added
    BY <2>1 DEF Save
  <2>4. save[p].data \cup save[p].added \subseteq Mine
    BY <2>1 DEF OfMine, Saving
  <2> HIDE DEF r
  <2>5. OfMine(r)
    BY <2>3, <2>4 DEF OfMine
  <2>6. PICK c : files' = [files EXCEPT ![save[p].file] = c] /\ (c = None \/ c = save[p].data)
    BY <1>7 DEF WriteSave
  <2>7. \A f \in File : files'[f] = None \/ files'[f] = files[f] \/ files'[f] \subseteq Mine
    BY <2>4, <2>6 DEF LibraryTypes
  <2>8. UNCHANGED <<cache, grid, watching, wanted, raced>> /\ told' \in BOOLEAN
    BY <1>7 DEF WriteSave, MineInv
  <2>9. QED
    BY <2>2, <2>5, <2>7, <2>8, MineMoves DEF MineInv
<1>8. ASSUME NEW p \in Process, RenameSave(p) \/ SaveFails(p)
      PROVE  MineInv'
  <2>1. save[p].stage \in {"open", "written"} /\ save' = [save EXCEPT ![p] = NoSave]
        /\ UNCHANGED <<files, cache, watching>>
    BY <1>8 DEF RenameSave, SaveFails
  <2>2. wanted' = wanted \/ wanted' = (wanted \cup save[p].added) \ save[p].removed
    BY <1>8 DEF RenameSave, SaveFails
  <2>3. save[p].added \subseteq Mine
    BY <2>1 DEF MineInv, OfMine, Saving
  <2>4. grid' = grid \/ grid' = Items(cache)
    BY <1>8, <2>1 DEF RenameSave, SaveFails, AfterSave, Populate
  <2>5. told' \in BOOLEAN /\ raced' \in BOOLEAN
    BY <1>8 DEF RenameSave, SaveFails, MineInv
  <2>6. QED
    BY <1>2, <2>1, <2>2, <2>3, <2>4, <2>5, ItemsMine, MineMoves DEF MineInv
<1>9. CASE IndexChanged \/ RefreshPage \/ OpenPicker
  <2>1. /\ UNCHANGED <<names, files, save, watching, wanted, raced>> /\ cache' = Load(names, files)
        /\ grid' = grid \/ grid' = Items(cache')
        /\ told' = told \/ told' = FALSE
    BY <1>9 DEF IndexChanged, RefreshPage, OpenPicker, Reload, Populate
  <2>2. QED
    BY <2>1, MineLoads, ItemsMine DEF MineInv, OfMine, Saving
<1>10. CASE RestartLibrary
  <2>1. /\ UNCHANGED <<names, files, watching, wanted, raced>> /\ cache' = Load(names, files)
        /\ grid' = Items(cache') /\ told' = FALSE /\ save' = [save EXCEPT !["window"] = NoSave]
    BY <1>10 DEF RestartLibrary
  <2>2. QED
    BY <1>1, <1>2, <2>1, MineLoads, ItemsMine, MineMoves DEF MineInv
<1>11. CASE UNCHANGED libraryVars
  BY <1>11 DEF libraryVars, MineInv, OfMine, Saving
<1>12. QED
  BY <1>3, <1>4, <1>5, <1>6, <1>7, <1>8, <1>9, <1>10, <1>11 DEF LibraryStep

\* The provider is one of those there are.
LEMMA ProviderIsKnown ==
  ASSUME NEW e
  PROVE  DetectProvider(e) \in {Providers[n] : n \in DOMAIN Providers} \cup {None}
<1> DEFINE scores == {Confidence(Providers[n], e) : n \in DOMAIN Providers}
           first == {n \in DOMAIN Providers : Confidence(Providers[n], e) = Max(scores)}
<1>1. DOMAIN Providers = 1 .. 4
  BY DEF Providers
<1>2. \A n \in DOMAIN Providers : Confidence(Providers[n], e) \in 0 .. 100
  <2> SUFFICES ASSUME NEW n \in DOMAIN Providers
               PROVE  Confidence(Providers[n], e) \in 0 .. 100
    OBVIOUS
  <2> DEFINE p == Providers[n]
  <2>1. Detected(p, e) \in 0 .. 90
    BY DEF Detected
  <2>2. {Detected(p, e), 50} \in SUBSET (0 .. 90) /\ {Detected(p, e), 50} # {}
    BY <2>1
  <2>3. Max({Detected(p, e), 50}) \in 0 .. 90
    BY <2>2, MaxIsIn
  <2>4. QED
    BY <2>1, <2>3 DEF Confidence
<1>3. scores \in SUBSET (0 .. 100) /\ scores # {}
  BY <1>1, <1>2
<1>4. Max(scores) \in scores
  <2> HIDE DEF scores
  <2>1. QED
    BY <1>3, MaxIsIn
<1>5. first \in SUBSET Nat /\ first # {} /\ first \subseteq DOMAIN Providers
  BY <1>1, <1>4
<1>6. Min(first) \in first
  <2> HIDE DEF first
  <2>1. QED
    BY <1>5, MinIsIn
<1>7. DetectProvider(e) = IF Max(scores) = 0 THEN None ELSE Providers[Min(first)]
  BY DEF DetectProvider
<1>8. QED
  BY <1>5, <1>6, <1>7

MenuTypes ==
  /\ provider \in {Providers[n] : n \in DOMAIN Providers} \cup {None}
  /\ setting \in BOOLEAN \cup {None}

LEMMA MenuTypesStart == Init => MenuTypes
BY ProviderIsKnown DEF Init, MenusInit, MenuTypes

LEMMA MenuTypesKept ==
  ASSUME MenuTypes, SwitchInv, MenuStep
  PROVE  MenuTypes'
<1>1. CASE MergeDone
  BY <1>1 DEF MergeDone, SwitchInv, MenuTypes
<1>2. CASE MenusStart(machine)
  BY <1>2, ProviderIsKnown DEF MenusStart, MenuTypes
<1>3. CASE UNCHANGED <<provider, setting>>
  BY <1>3 DEF MenuTypes
<1>4. QED
  BY <1>1, <1>2, <1>3 DEF MenuStep, Toggle, MergeFails, UcaSpoilt, ThunarWrites, menuVars

\* Whatever happens: the desktop has the keys of its backend, a card whose button
\* is live has a picture to apply, and the list, the index, the record and the fits
\* hold what they are for.
THEOREM WindowTypes == Spec => []TypeOK
<1> DEFINE Inv == /\ DesktopInv /\ FitsInv /\ PreviewInv /\ BudgetInv
                  /\ LibraryInv /\ MineInv /\ MenuInv /\ SwitchInv /\ MenuTypes
<1>1. Init => Inv
  BY DesktopStarts, FitsStart, PreviewStarts, BudgetStarts, LibraryStarts, MineStarts, MenuInit,
     SwitchStarts, MenuTypesStart
<1>2. Inv /\ [Next]_vars => Inv'
  <2> SUFFICES ASSUME Inv, [Next]_vars
               PROVE  Inv'
    OBVIOUS
  <2>1. DesktopInv' /\ FitsInv' /\ PreviewInv' /\ BudgetInv'
    BY DesktopKept, FitsKeep, PreviewSteps, PreviewKept, BudgetSteps, BudgetKept
  <2>2. LibraryInv' /\ MineInv'
    BY Steps, LibraryKept, MineKept DEF LibraryInv
  <2>3. MenuInv' /\ SwitchInv' /\ MenuTypes'
    BY Steps, MenuKept, SwitchKept, MenuTypesKept
  <2>4. QED
    BY <2>1, <2>2, <2>3
<1>3. Inv => TypeOK
  <2> SUFFICES ASSUME Inv
               PROVE  TypeOK
    OBVIOUS
  <2>1. /\ backend \in {Registry[n] : n \in DOMAIN Registry} \cup {None}
        /\ DOMAIN desktop = Keys(backend) /\ DOMAIN composites \subseteq Composite
    BY DeskIsSound DEF DesktopInv, BackendInv, Standing
  <2>2. /\ image \in Picture \cup {None} /\ {fit, fitButton, combo} \subseteq Fit
        /\ DOMAIN fits \subseteq Surface /\ \A k \in DOMAIN fits : fits[k] \in Fit
        /\ DOMAIN record \subseteq Privileged /\ DOMAIN recordFile \subseteq DOMAIN record
    BY DEF FitsInv, ChoiceTypes, RequestTypes, IsFits, IsRecord
  <2>3. ASSUME NEW k \in Surface, cards[k].can
        PROVE  cards[k].image \in Picture
    <3>1. CanApply(k, override, image) /\ cards[k].image = Resolved(k, override, image)
      BY <2>3 DEF PreviewInv, Honest
    <3>2. QED
      BY <3>1 DEF CanApply, Resolved, FitsInv, ChoiceTypes
  <2>4. LibraryTypeOK
    <3>1. Mine \cup {Builtin} = Picture
      BY DeskAssumption DEF Mine
    <3>2. /\ names \in [{"index", "tmp"} -> File \cup {None}] /\ DOMAIN files = File
      BY DEF LibraryInv, LibraryTypes
    <3>3. \A p \in Process : save[p].stage \in {"idle", "adding", "open", "written"}
      BY DEF MineInv, OfMine
    <3>4. QED
      BY <3>1, <3>2, <3>3 DEF LibraryTypeOK, MineInv, Mine
  <2>5. MenusTypeOK
    BY DEF MenusTypeOK, MenuTypes, MenuInv, SwitchInv
  <2>6. QED
    BY <2>1, <2>2, <2>3, <2>4, <2>5 DEF TypeOK, PreviewInv
<1>4. QED
  BY <1>1, <1>2, <1>3, PTL DEF Spec
=============================================================================
