------------------------------ MODULE Library -------------------------------
\* The wallpaper library (linwallpaper/collection.py): one JSON index, the list
\* of it that the window keeps in memory, and the "Add to LinWallpaper" command,
\* which adds to the same index from a process of its own.
\*
\* A list of entries is a set of images (their order only places the tiles). A
\* save writes a temporary file, emptied when it is opened, and renames it over
\* the index; both processes use the same temporary name. The two names lead to
\* the files f1 and f2, so that a process can write a file the other renamed.
EXTENDS Naturals, FiniteSets

CONSTANTS
    Image,      \* the pictures the user has
    Unusable,   \* a file that validate refuses
    Builtin,    \* the default wallpaper shipped with the package
    None

VARIABLES
    names,     \* [index, tmp] -> a file, or None where the name does not exist
    files,     \* each file's content: a set of images, or None when it is no JSON
    cache,     \* Collection._paths of the window
    grid,      \* the tiles of the Wallpaper page
    save,      \* each process's save: stage, file and data
    told,      \* the monitor has a "changed" of the index for the main loop
    watching,  \* the monitor of the data directory could be installed
    wanted,    \* history: the images added and not removed
    raced      \* history: two saves met, or an operation began on a stale list

Process == {"window", "command"}
File == {"f1", "f2"}
NoSave == [stage |-> "idle"]
Saving(s) == s.stage \in {"open", "written"}

LibraryTypeOK ==
  /\ names \in [{"index", "tmp"} -> File \cup {None}]
  /\ DOMAIN files = File
  /\ \A f \in File : files[f] = None \/ files[f] \subseteq Image
  /\ cache \subseteq Image /\ grid \subseteq Image \cup {Builtin}
  /\ \A p \in Process : save[p].stage \in {"idle", "adding", "open", "written"}
  /\ told \in BOOLEAN /\ watching \in BOOLEAN /\ raced \in BOOLEAN
  /\ wanted \subseteq Image

\* The built-in default first, then what was added.
Items(paths) == {Builtin} \cup paths

\* A missing or unreadable index is an empty list.
Load(ns, fs) ==
  IF ns.index = None \/ fs[ns.index] = None THEN {} ELSE fs[ns.index]

\* Reload and Populate, on what is on the disk now.
Reload == cache' = Load(names, files)
Populate == grid' = Items(cache')

LibraryInit ==
  /\ names = [index |-> None, tmp |-> None]
  /\ files = [f \in File |-> None]
  /\ cache = {} /\ grid = Items({})
  /\ save = [p \in Process |-> NoSave]
  /\ told = FALSE /\ wanted = {} /\ raced = FALSE

\* The main loop runs nothing else while the window saves.
MainLoopFree == save["window"].stage = "idle"
Other(p) == CHOOSE q \in Process : q # p

\* _save begins: the temporary file is opened and emptied, the data to come. The
\* file that the index has is never the temporary one. It is a race when the
\* other process is saving, or has changed the index since base was read.
BeginSave(p, base, data, added, removed) ==
  LET f == IF names.tmp # None THEN names.tmp ELSE CHOOSE g \in File : g # names.index
  IN /\ names' = [names EXCEPT !.tmp = f]
     /\ files' = [files EXCEPT ![f] = None]
     /\ save' = [save EXCEPT ![p] = [stage |-> "open", file |-> f, data |-> data,
                                      added |-> added, removed |-> removed]]
     /\ raced' = (raced \/ Saving(save[Other(p)]) \/ base # Load(names, files))

\* imaging.validate: an image that Pillow can decode.
Valid(p) == p \in Image \cup {Builtin}

\* What add_paths adds to a list: the images it does not have and validate
\* accepts, of the files named and of the folders named.
Fresh(paths, list) == {p \in paths : Valid(p) /\ p # Builtin} \ list

\* The window adds files or a folder: the list in memory grows and is saved
\* when something was added; the page is filled once the save is done.
AddInWindow(paths) ==
  /\ MainLoopFree
  /\ LET new == Fresh(paths, cache)
     IN /\ cache' = cache \cup new
        /\ IF new # {}
           THEN BeginSave("window", cache, cache \cup new, new, {}) /\ UNCHANGED grid
           ELSE Populate /\ UNCHANGED <<names, files, save, raced>>
  /\ UNCHANGED <<told, watching, wanted>>

\* A tile's Remove: the built-in one has none; a path the list no longer has
\* changes nothing, not even the tiles.
RemoveInWindow(i) ==
  /\ MainLoopFree
  /\ i \in grid \ {Builtin}
  /\ cache' = cache \ {i}
  /\ IF i \in cache THEN BeginSave("window", cache, cache \ {i}, {}, {i})
     ELSE UNCHANGED <<names, files, save, raced>>
  /\ UNCHANGED <<grid, told, watching, wanted>>

\* Mutant: the command starts from an empty list.
CommandLoadsNothing(paths) ==
  /\ save["command"].stage = "idle"
  /\ save' = [save EXCEPT !["command"] = [stage |-> "adding", list |-> {},
                                            base |-> Load(names, files), paths |-> paths]]
  /\ UNCHANGED <<names, files, cache, grid, told, watching, wanted, raced>>

\* The command starts: it loads the index, to add the paths it was given.
CommandLoads(paths) ==
  /\ save["command"].stage = "idle"
  /\ save' = [save EXCEPT !["command"] = [stage |-> "adding", list |-> Load(names, files),
                                            base |-> Load(names, files), paths |-> paths]]
  /\ UNCHANGED <<names, files, cache, grid, told, watching, wanted, raced>>

\* It has looked at every path, and saves when something was added.
CommandAdds ==
  LET s == save["command"]
      new == Fresh(s.paths, s.list)
  IN /\ s.stage = "adding"
     /\ IF new # {} THEN BeginSave("command", s.base, s.list \cup new, new, {})
        ELSE save' = [save EXCEPT !["command"] = NoSave] /\ UNCHANGED <<names, files, raced>>
     /\ UNCHANGED <<cache, grid, told, watching, wanted>>

\* write_text: over a longer text that the other process has written meanwhile,
\* the end of that text stays.
WriteSave(p) ==
  LET s == save[p]
  IN /\ s.stage = "open"
     /\ files' = [files EXCEPT ![s.file] =
          IF files[s.file] = None \/ files[s.file] = s.data
             \/ Cardinality(files[s.file]) < Cardinality(s.data)
          THEN s.data ELSE None]
     /\ save' = [save EXCEPT ![p].stage = "written"]
     /\ told' = (told \/ (watching /\ names.index = s.file))
     /\ UNCHANGED <<names, cache, grid, watching, wanted, raced>>

\* The window's page follows its own operation once it is saved.
AfterSave(p) == IF p = "window" THEN Populate ELSE UNCHANGED grid

\* The temporary file takes the index's name. When the other process renamed it
\* first there is nothing to rename, and the error is swallowed.
RenameSave(p) ==
  LET s == save[p]
  IN /\ s.stage = "written"
     /\ IF names.tmp = None THEN UNCHANGED <<names, told>>
        ELSE /\ names' = [index |-> names.tmp, tmp |-> None]
             /\ told' = watching
     /\ wanted' = (wanted \cup s.added) \ s.removed
     /\ save' = [save EXCEPT ![p] = NoSave]
     /\ UNCHANGED cache /\ AfterSave(p)
     /\ UNCHANGED <<files, watching, raced>>

\* The disk is full, or the directory read-only: the error is swallowed and the
\* window keeps the list it could not save.
SaveFails(p) ==
  /\ save[p].stage = "open"
  /\ raced' = TRUE
  /\ save' = [save EXCEPT ![p] = NoSave]
  /\ UNCHANGED cache /\ AfterSave(p)
  /\ UNCHANGED <<names, files, told, watching, wanted>>

\* Mutant: the page is filled again without reading the index.
IndexChangedUnread ==
  /\ MainLoopFree /\ told
  /\ told' = FALSE
  /\ UNCHANGED cache /\ Populate
  /\ UNCHANGED <<names, files, save, watching, wanted, raced>>

\* The monitor of the data directory reports the index.
IndexChanged ==
  /\ MainLoopFree /\ told
  /\ told' = FALSE
  /\ Reload /\ Populate
  /\ UNCHANGED <<names, files, save, watching, wanted, raced>>

\* The page is shown, or the state notifies its pages.
RefreshPage ==
  /\ Reload /\ Populate
  /\ UNCHANGED <<names, files, save, told, watching, wanted, raced>>

\* The picker re-reads the index for its own tiles; the page keeps its tiles.
OpenPicker ==
  /\ Reload
  /\ UNCHANGED <<names, files, grid, save, told, watching, wanted, raced>>

\* The window is killed, in the middle of a save or not, and started again.
RestartLibrary ==
  /\ cache' = Load(names, files)
  /\ grid' = Items(cache')
  /\ save' = [save EXCEPT !["window"] = NoSave]
  /\ told' = FALSE
  /\ UNCHANGED <<names, files, watching, wanted, raced>>
=============================================================================
