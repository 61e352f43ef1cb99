-------------------------------- MODULE Desk --------------------------------
\* The window of linwallpaper: the Screens page and its cards, the desktop apply
\* with its Undo toast, the password dialog and its helper, the settings, and
\* the library beside them. The main loop runs one handler at a time; the helper
\* runs in a thread and the "Add to LinWallpaper" command in another process.
EXTENDS DesktopBackends

CONSTANTS
    Own,       \* the custom actions the user makes in Thunar
    Entry,     \* the program's own action in the file manager's menu
    Builtin,   \* the default wallpaper shipped with the package
    Unusable,  \* a file that validate refuses
    Stock,     \* the background before the program's first apply
    Fits,      \* the fits that a behaviour may choose
    Offers,    \* the files and folders that may be added to the library at once
    Sessions   \* the desktops and the numbers of steps of each kind to look at

\* No picture of the user's is a composite in the program's cache, nor is the
\* background before the first apply.
ASSUME DeskAssumption ==
  /\ Builtin \in Picture /\ {Stock, Unusable, None} \cap Picture = {} /\ Stock # None
  /\ Composite \cap (Picture \cup {Stock, None}) = {}
  /\ None \notin {"f1", "f2"} /\ \A list \in SUBSET Picture : list # None
  /\ Entry \notin Own /\ \A c \in [wanted : BOOLEAN, read : SUBSET (Own \cup {Entry})] : c # None
  /\ Fits \subseteq Fit

StepKind == {"pick", "fit", "show", "apply", "undo", "root", "library", "command", "restart", "outside",
             "fault", "menu", "thunar"}

ASSUME SessionsAssumption ==
  \A s \in Sessions : s.steps \in [StepKind -> Nat] /\ s.watching \in BOOLEAN

Privileged == {"login", "splash", "grub"}
Surface == Monitor \cup {"lock"} \cup Privileged

VARIABLES
    machine,   \* the desktop's name, the tools and the schemas installed
    backend,   \* the backend chosen at the start, or None
    desktop,   \* the desktop's settings
    composites,\* the composite files of the cache directory
    image,     \* AppState.image_path
    fit,       \* AppState.fit
    override,  \* AppState.surface_image
    applied,   \* AppState.applied: target -> image
    fits,      \* ScreensPage._fits
    fitButton, \* the toggled button of the global FIT control
    combo,     \* the Default fit row of the Settings page
    backdrop,  \* the desktop's image when the cards were last built
    cards,     \* what each card shows
    toasts,    \* the Undo toasts, the first one on the screen
    dialog,    \* the password dialog: what it was opened for, or None
    helpers,   \* the helpers started, in order
    idle,      \* the callbacks queued for the main loop, in order
    record,    \* AppState._applied_persisted
    recordFile,\* applied.json
    installed, \* external: what each privileged surface was last given
    shown,     \* history: the composite that each key of the desktop was last given
    unknown,   \* history: surfaces whose record may not tell
    budget     \* the steps of each kind left

deskVars == <<machine, backend, desktop, composites, image, fit, override, applied, fits, fitButton, combo,
              backdrop, cards, toasts, dialog, helpers, idle, record, recordFile, installed, shown,
              unknown>>
VARIABLES names, files, cache, grid, save, told, watching, wanted, raced  \* of Library
libraryVars == <<names, files, cache, grid, save, told, watching, wanted, raced>>
INSTANCE Library WITH Image <- Picture \ {Builtin}
VARIABLES provider, entryFile, uca, ucaBad, switch, setting, merging, own, crossed, undone  \* of ContextMenus
menuVars == <<provider, entryFile, uca, ucaBad, switch, setting, merging, own, crossed, undone>>
INSTANCE ContextMenus

besideVars == <<libraryVars, menuVars>>
vars == <<deskVars, besideVars, budget>>

\* --------------------------------------------------------------- the Screens
\* Its own image if one was set, else the global one.
Resolved(key, o, i) == IF key \in DOMAIN o THEN o[key] ELSE i

FitOf(key, fs) == IF key \in DOMAIN fs THEN fs[key] ELSE "fill"

LastInstalled(key, rec) == IF key \in DOMAIN rec THEN rec[key].image ELSE None

\* What the card previews: for want of a chosen image, what the desktop shows
\* or what the privileged surface was last given.
Previewed(key, o, i, back, rec) ==
  IF Resolved(key, o, i) # None THEN Resolved(key, o, i)
  ELSE IF key \in Privileged THEN LastInstalled(key, rec) ELSE back

\* Mutant: the button does not wait for an image.
CanApplyAnything(key, o, i) == key \in Privileged \/ backend # None

\* A desktop surface needs a backend.
CanApply(key, o, i) == Resolved(key, o, i) # None /\ (key \in Privileged \/ backend # None)

\* The APPLIED badge of a monitor compares with the global image only.
Badge(key, i, done) ==
  /\ key \in Monitor /\ i # None
  /\ \/ key \in DOMAIN done /\ done[key] = i
     \/ "all" \in DOMAIN done /\ done["all"] = i

Card(key, o, i, fs, back, rec, done) ==
  [image |-> Previewed(key, o, i, back, rec), fit |-> FitOf(key, fs),
   can |-> CanApply(key, o, i), badge |-> Badge(key, i, done)]

\* A privileged card is seeded with the fit last applied, unless one was picked.
Seeded(fs, rec) ==
  [key \in DOMAIN fs \cup (DOMAIN rec \cap Privileged) |->
     IF key \in DOMAIN fs THEN fs[key] ELSE rec[key].fit]

\* Every card anew, from the state as the handler leaves it; fs are the fits as
\* the handler has set them.
Rebuild(fs) ==
  /\ backdrop' = CurrentImage(backend, desktop')
  /\ fits' = Seeded(fs, record')
  /\ cards' = [key \in Surface |->
                 Card(key, override', image', fits', backdrop', record', applied')]

\* One card: its preview, its chip and its button.
RefreshCard(key) ==
  cards' = [cards EXCEPT ![key].image = Previewed(key, override', image', backdrop, record'),
                         ![key].fit = FitOf(key, fits),
                         ![key].can = CanApply(key, override', image')]

\* Every surface follows the fit of the global control.
AllFits(f) == [key \in Surface |-> f]

\* The page is shown or notified. Where the state's fit is not the global
\* button's, the button is toggled, and its handler gives the fit to every
\* surface.
Refresh ==
  /\ Rebuild(IF fit' = fitButton THEN fits ELSE AllFits(fit'))
  /\ fitButton' = fit'

\* notify: the pages in turn; the Wallpaper page reads the library again.
Notify == Refresh /\ RefreshPage /\ UNCHANGED menuVars

\* ------------------------------------------------------------------ budgets
Spend(kind) == budget[kind] > 0 /\ budget' = [budget EXCEPT ![kind] = @ - 1]
SpendWith(kind, fault) ==
  /\ budget[kind] > 0 /\ (fault => budget.fault > 0)
  /\ budget' = [k \in DOMAIN budget |->
       budget[k] - (IF k = kind \/ (k = "fault" /\ fault) THEN 1 ELSE 0)]

\* The main loop runs no handler; a click takes no dialog over the window.
LoopFree == MainLoopFree /\ merging = None
Ready == LoopFree /\ dialog = None

\* ------------------------------------------------------------- choosing
\* The library picker over the page: it reads the index for its tiles.
Pick ==
  /\ Ready /\ Spend("show") /\ OpenPicker
  /\ UNCHANGED <<deskVars, menuVars>>

\* Mutant: the surfaces keep their own images, and their cards are not built
\* again.
SetGlobalImageAlone(i) ==
  /\ Ready /\ Spend("pick")
  /\ image' = i
  /\ UNCHANGED <<machine, backend, desktop, composites, fit, override, applied, combo, toasts, dialog, helpers, idle,
                 record, recordFile, installed, shown, unknown, backdrop, fits, cards, fitButton, menuVars>>
  /\ RefreshPage

\* The global image, for every surface: here a tile of the picker.
SetGlobalImage(i) ==
  /\ Ready /\ Spend("pick")
  /\ override' = <<>>
  /\ image' = i
  /\ UNCHANGED <<machine, backend, desktop, composites, fit, applied, combo, toasts, dialog, helpers, idle,
                 record, recordFile, installed, shown, unknown>>
  /\ Notify

\* A tile's "Use in Screens", which goes to that page, and a file of the dialog.
UseInScreens(i) == i \in grid /\ SetGlobalImage(i)
LoadImage(p) == Valid(p) /\ SetGlobalImage(p)

\* One surface gets its own image; only its card is drawn again.
SetSurfaceImage(key, i) ==
  /\ Ready /\ Spend("pick")
  /\ override' = Put(override, key, i)
  /\ UNCHANGED <<machine, backend, desktop, composites, image, fit, applied, fits, fitButton, combo, backdrop,
                 toasts, dialog, helpers, idle, record, recordFile, installed, shown, unknown>>
  /\ RefreshCard(key)
  /\ UNCHANGED besideVars

\* The fit of one card: the preview is drawn with it.
FitCard(key, f) ==
  /\ Ready /\ Spend("fit") /\ f # cards[key].fit
  /\ fits' = Put(fits, key, f)
  /\ cards' = [cards EXCEPT ![key].fit = f,
                            ![key].image = Previewed(key, override, image, backdrop, record)]
  /\ UNCHANGED <<machine, backend, desktop, composites, image, fit, override, applied, fitButton, combo,
                 backdrop, toasts, dialog, helpers, idle, record, recordFile, installed, shown, unknown>>
  /\ UNCHANGED besideVars

\* The global FIT control.
FitAll(f) ==
  /\ Ready /\ Spend("fit") /\ f # fitButton
  /\ fitButton' = f /\ fit' = f
  /\ UNCHANGED <<machine, backend, desktop, composites, image, override, applied, combo, toasts, dialog,
                 helpers, idle, record, recordFile, installed, shown, unknown>>
  /\ Rebuild(AllFits(f))
  /\ UNCHANGED besideVars

\* The default fit of the Settings page; the row does not follow the state.
DefaultFit(f) ==
  /\ Ready /\ Spend("fit") /\ f # combo
  /\ combo' = f /\ fit' = f
  /\ UNCHANGED <<machine, backend, desktop, composites, image, override, applied, toasts, dialog, helpers,
                 idle, record, recordFile, installed, shown, unknown>>
  /\ Notify

\* A page is navigated to: Screens and Wallpaper refresh themselves.
ShowScreens ==
  /\ Ready /\ Spend("show")
  /\ UNCHANGED <<machine, backend, desktop, composites, image, fit, override, applied, combo, toasts, dialog,
                 helpers, idle, record, recordFile, installed, shown, unknown>>
  /\ Refresh
  /\ UNCHANGED besideVars

ShowWallpaper ==
  /\ Ready /\ Spend("show") /\ RefreshPage
  /\ UNCHANGED <<deskVars, menuVars>>

\* ------------------------------------------------------------- the desktop
\* The picture of each monitor, as the desktop stands.
Look(s, cs) == [m \in Monitor |-> Shows(backend, s, cs, m)]

\* The composite that a call names, or None.
Named(f, i, target) ==
  IF backend \in GSettings /\ ~Plain(backend, target) THEN <<i, f, target>> ELSE None

\* Mutant: the state to go back to is read once the image is applied.
WindowApplyReadsLate(d, i, f, target, done, unread) ==
  LET writes == ApplyWrites(backend, i, f, target)
      made == Named(f, i, target)
      settled == After(d.desktop, writes, done)
      toast == [target |-> target, previous |-> Current(backend, settled, unread),
                before |-> Look(d.desktop, d.composites), was |-> d.shown, later |-> {made} \ {None},
                whole |-> Whole(backend, d.desktop, unread)]
  IN [desktop |-> settled,
      composites |-> Rendered(backend, d.desktop, d.composites, i, f, target),
      applied |-> Put(d.applied, target, i), toasts |-> Append(d.toasts, toast),
      shown |-> [k \in DOMAIN d.shown |-> made]]

\* AppWindow.apply on the desk d (settings, composites, applied, toasts and the
\* history): the state before is captured, the subprocesses of done run, and
\* when none failed the target is recorded and an Undo toast is queued.
WindowApply(d, i, f, target, done, unread) ==
  LET writes == ApplyWrites(backend, i, f, target)
      made == Named(f, i, target)
      Later(t) == [t EXCEPT !.later = @ \cup ({made} \ {None})]
      older == [n \in DOMAIN d.toasts |-> Later(d.toasts[n])]
      toast == [target |-> target, previous |-> Current(backend, d.desktop, unread),
                before |-> Look(d.desktop, d.composites), was |-> d.shown, later |-> {made} \ {None},
                whole |-> Whole(backend, d.desktop, unread)]
      all == done = DOMAIN writes
  IN [desktop |-> After(d.desktop, writes, done),
      composites |-> Rendered(backend, d.desktop, d.composites, i, f, target),
      applied |-> IF all THEN Put(d.applied, target, i) ELSE d.applied,
      toasts |-> IF all THEN Append(older, toast) ELSE older,
      shown |-> [k \in DOMAIN d.shown |->
                   IF \E n \in done : k \in DOMAIN writes[n] THEN made ELSE d.shown[k]]]

DeskNow == [desktop |-> desktop, composites |-> composites, applied |-> applied,
            toasts |-> toasts, shown |-> shown]

DeskBecomes(d) ==
  /\ desktop' = d.desktop /\ composites' = d.composites /\ applied' = d.applied
  /\ toasts' = d.toasts /\ shown' = d.shown

\* The monitors whose image Xfce may fail to read.
Unreadable == IF backend = "Xfce" THEN SUBSET Monitor ELSE {{}}

\* An apply of one call: all of it, or with a fault.
Applying(kind, i, f, target) ==
  LET writes == ApplyWrites(backend, i, f, target)
  IN \E done \in Ends(backend, writes, FALSE), unread \in Unreadable :
       /\ SpendWith(kind, done # DOMAIN writes \/ unread # {})
       /\ DeskBecomes(WindowApply(DeskNow, i, f, target, done, unread))

\* A desktop card's Apply: its image at its fit, which becomes the state's fit.
\* The lock card stands for the whole desktop.
TargetOf(key) == IF key = "lock" THEN "all" ELSE key

\* Mutant: the page is refreshed after the apply and not only built again.
ApplyCardRefreshes(key) ==
  LET f == FitOf(key, fits)
      i == Resolved(key, override, image)
  IN /\ Ready /\ key \notin Privileged /\ cards[key].can /\ i # None
     /\ Applying("apply", i, f, TargetOf(key))
     /\ fit' = f
     /\ UNCHANGED <<machine, backend, image, override, combo, dialog, helpers, idle, record,
                    recordFile, installed, unknown>>
     /\ Refresh
     /\ UNCHANGED besideVars

ApplyCard(key) ==
  LET f == FitOf(key, fits)
      i == Resolved(key, override, image)
  IN /\ Ready /\ key \notin Privileged /\ cards[key].can /\ i # None
     /\ Applying("apply", i, f, TargetOf(key))
     /\ fit' = f
     /\ UNCHANGED <<machine, backend, image, override, fitButton, combo, dialog, helpers, idle, record,
                    recordFile, installed, unknown>>
     /\ Rebuild(fits)
     /\ UNCHANGED besideVars

\* Apply to all: the global image at the global fit, one monitor after another
\* and then the whole desktop; a call that fails does not stop the next. The
\* call numbered bad runs the subprocesses of done only.
Calls == Append(Monitors, "all")

AllApplied(bad, done) ==
  LET Of(n) == DOMAIN ApplyWrites(backend, image, fit, Calls[n])
      desk[n \in 0 .. Len(Calls)] ==
        IF n = 0 THEN DeskNow
        ELSE WindowApply(desk[n - 1], image, fit, Calls[n], IF n = bad THEN done ELSE Of(n), {})
  IN desk[Len(Calls)]

\* The button of the control bar, and the handler's own guard.
CanApplyAll == image # None /\ backend # None

\* Mutant: the cards are left as they were.
ApplyAllUnbuilt ==
  /\ Ready /\ image # None /\ backend # None
  /\ Spend("apply")
  /\ DeskBecomes(AllApplied(0, {}))
  /\ override' = <<>>
  /\ UNCHANGED <<machine, backend, image, fit, fitButton, combo, dialog, helpers, idle, record, recordFile,
                 installed, unknown, backdrop, fits, cards>>
  /\ UNCHANGED besideVars

ApplyAll ==
  /\ Ready /\ CanApplyAll
  /\ \E bad \in 0 .. Len(Calls) :
       \E done \in IF bad = 0 THEN {{}}
                   ELSE LET writes == ApplyWrites(backend, image, fit, Calls[bad])
                        IN Ends(backend, writes, FALSE) \ {DOMAIN writes} :
         /\ SpendWith("apply", bad # 0)
         /\ DeskBecomes(AllApplied(bad, done))
  /\ override' = <<>>
  /\ UNCHANGED <<machine, backend, image, fit, fitButton, combo, dialog, helpers, idle, record, recordFile,
                 installed, unknown>>
  /\ Rebuild(fits)
  /\ UNCHANGED besideVars

\* A tile's Apply on the Wallpaper page: the whole desktop, at the state's fit.
ApplyTile(i) ==
  /\ Ready /\ backend # None /\ i \in grid
  /\ Applying("apply", i, fit, "all")
  /\ UNCHANGED <<machine, backend, image, fit, override, fits, fitButton, combo, backdrop, cards, dialog,
                 helpers, idle, record, recordFile, installed, unknown>>
  /\ UNCHANGED besideVars

\* The Undo of the toast on the screen: what it captured is set again. The state
\* and the cards are not told.
Undo ==
  /\ Ready /\ toasts # <<>>
  /\ \E script \in IF backend = "feh" THEN ScriptSets ELSE {{"root"}} :
       LET toast == Head(toasts)
           writes == RestoreWrites(backend, toast.previous, script)
       IN \E done \in Ends(backend, writes, TRUE) :
            /\ SpendWith("undo", done # DOMAIN writes)
            /\ desktop' = After(desktop, writes, done)
            /\ shown' = [k \in DOMAIN shown |->
                           IF \E n \in done : k \in DOMAIN writes[n] THEN toast.was[k] ELSE shown[k]]
  /\ toasts' = Tail(toasts)
  /\ UNCHANGED <<machine, backend, composites, image, fit, override, applied, fits, fitButton, combo, backdrop,
                 cards, dialog, helpers, idle, record, recordFile, installed, unknown>>
  /\ UNCHANGED besideVars

\* The toast goes after its six seconds, and the next one shows.
ToastExpires ==
  /\ LoopFree /\ toasts # <<>>
  /\ toasts' = Tail(toasts)
  /\ UNCHANGED <<machine, backend, desktop, composites, image, fit, override, applied, fits, fitButton, combo,
                 backdrop, cards, dialog, helpers, idle, record, recordFile, installed, shown, unknown>>
  /\ UNCHANGED <<besideVars, budget>>

\* What the desktop may be found with.
Found(b, option) ==
  CASE b \in GSettings -> [k \in Keys(b) |-> IF k = "options" THEN option ELSE Stock]
    [] b = "Xfce" -> [k \in Keys(b) |-> IF k[1] = "image" THEN Stock ELSE "zoom"]
    [] b = "feh" -> [root |-> Drawn(Stock, "zoom"),
                     fehbg |-> IF option = "spanned" THEN None ELSE Drawn(Stock, "zoom")]
    [] b = None -> <<>>

\* The user sets the background by other means.
ChosenElsewhere ==
  /\ Spend("outside") /\ LoopFree /\ backend # None
  /\ desktop' = Found(backend, "zoom")
  /\ shown' = [k \in DOMAIN shown |-> None]
  /\ UNCHANGED <<machine, backend, composites, image, fit, override, applied, fits, fitButton, combo, backdrop,
                 cards, toasts, dialog, helpers, idle, record, recordFile, installed, unknown>>
  /\ UNCHANGED besideVars

\* -------------------------------------------------- the privileged surfaces
desktopVars == <<machine, backend, desktop, composites, image, fit, override, applied, fits, fitButton, combo,
                 backdrop, toasts, shown>>

\* A privileged card's Apply: the password dialog opens over the window, for the
\* image and the fit of that moment.
ApplyPrivileged(key) ==
  /\ Ready /\ key \in Privileged /\ cards[key].can
  /\ Spend("root")
  /\ dialog' = [surface |-> key, image |-> Resolved(key, override, image), fit |-> FitOf(key, fits)]
  /\ UNCHANGED <<desktopVars, cards, helpers, idle, record, recordFile, installed, unknown, besideVars>>

CancelDialog ==
  /\ LoopFree /\ dialog # None
  /\ dialog' = None
  /\ UNCHANGED <<desktopVars, cards, helpers, idle, record, recordFile, installed, unknown, besideVars, budget>>

\* A thread runs the helper. The number is only to tell two helpers apart.
SubmitDialog ==
  /\ LoopFree /\ dialog # None
  /\ helpers' = helpers \cup {[what |-> dialog, number |-> budget.root, stage |-> "runs", heard |-> TRUE]}
  /\ dialog' = None
  /\ UNCHANGED <<desktopVars, cards, idle, record, recordFile, installed, unknown, besideVars, budget>>

\* What was installed last is not recorded yet.
Unrecorded(key) ==
  \/ \E h \in helpers : h.what.surface = key /\ h.stage = "installed"
  \/ \E n \in DOMAIN idle : idle[n].surface = key

\* External: the helper replaces the surface's image. When an earlier one is not
\* yet recorded, the records may come in the other order.
HelperInstalls(h) ==
  LET key == h.what.surface
  IN /\ h.stage = "runs"
     /\ installed' = Put(installed, key, [image |-> h.what.image, fit |-> h.what.fit])
     /\ helpers' = (helpers \ {h}) \cup {[h EXCEPT !.stage = "installed"]}
     /\ unknown' = IF Unrecorded(key) THEN unknown \cup {key} ELSE unknown \ {key}
     /\ UNCHANGED <<desktopVars, cards, dialog, idle, record, recordFile, besideVars, budget>>

\* The password is wrong, or the helper fails and gives back what was there.
HelperRefused(h) ==
  /\ h.stage = "runs" /\ Spend("fault")
  /\ helpers' = helpers \ {h}
  /\ UNCHANGED <<desktopVars, cards, dialog, idle, record, recordFile, installed, unknown, besideVars>>

\* An error that apply() does not catch, or a rollback that fails itself, ends the
\* helper with its files in place: to the window the apply has failed.
HelperBreaks(h) ==
  /\ h.stage = "runs" /\ Spend("fault")
  /\ installed' = Put(installed, h.what.surface, [image |-> h.what.image, fit |-> h.what.fit])
  /\ helpers' = helpers \ {h}
  /\ unknown' = unknown \cup {h.what.surface}
  /\ UNCHANGED <<desktopVars, cards, dialog, idle, record, recordFile, besideVars>>

\* The ten minutes pass: the apply is reported as failed while the helper, which
\* runs as root, goes on.
HelperTimesOut(h) ==
  /\ h.heard /\ Spend("fault")
  /\ helpers' = (helpers \ {h}) \cup {[h EXCEPT !.heard = FALSE]}
  /\ UNCHANGED <<desktopVars, cards, dialog, idle, record, recordFile, installed, unknown, besideVars>>

\* The helper has exited: the thread queues the callback for the main loop.
HelperExits(h) ==
  /\ h.stage = "installed"
  /\ helpers' = helpers \ {h}
  /\ idle' = IF h.heard THEN Append(idle, h.what) ELSE idle
  /\ unknown' = IF h.heard THEN unknown ELSE unknown \cup {h.what.surface}
  /\ UNCHANGED <<desktopVars, cards, dialog, record, recordFile, installed, besideVars, budget>>

\* Mutant: the record is made of what the card shows when the helper is done.
RecordAppliedNow ==
  /\ LoopFree /\ idle # <<>>
  /\ LET w == Head(idle)
     IN /\ record' = Put(record, w.surface, [image |-> cards[w.surface].image, fit |-> cards[w.surface].fit])
        /\ recordFile' = record'
        /\ idle' = Tail(idle)
        /\ UNCHANGED <<desktopVars, dialog, helpers, installed, unknown, besideVars, budget>>
        /\ RefreshCard(w.surface)

\* _on_privileged_applied: the record, its file, and the surface's card. A file
\* that cannot be written is not missed.
RecordApplied ==
  /\ LoopFree /\ idle # <<>>
  /\ LET w == Head(idle)
     IN /\ record' = Put(record, w.surface, [image |-> w.image, fit |-> w.fit])
        /\ \E saved \in BOOLEAN :
             /\ IF saved THEN UNCHANGED budget ELSE Spend("fault")
             /\ recordFile' = IF saved THEN record' ELSE recordFile
             /\ unknown' = IF saved THEN unknown ELSE unknown \cup {w.surface}
        /\ idle' = Tail(idle)
        /\ UNCHANGED <<desktopVars, dialog, helpers, installed, besideVars>>
        /\ RefreshCard(w.surface)

\* ------------------------------------------------------------------- the rest
\* The program's first state of the window; its record is that of the file.
Launched(rec) ==
  /\ image' = None /\ fit' = "fill" /\ fitButton' = "fill" /\ combo' = "fill"
  /\ override' = <<>> /\ applied' = <<>> /\ toasts' = <<>>
  /\ dialog' = None /\ idle' = <<>>
  /\ record' = rec

\* The window is closed or killed and started again. Its threads die with it;
\* the helpers they had started go on.
Restart ==
  /\ Spend("restart")
  /\ Launched(recordFile)
  /\ helpers' = {[h EXCEPT !.heard = FALSE] : h \in helpers}
  /\ unknown' = unknown \cup {idle[n].surface : n \in DOMAIN idle}
  /\ UNCHANGED <<machine, backend, desktop, composites, shown, recordFile, installed>>
  /\ Rebuild(<<>>)
  /\ RestartLibrary /\ MenusStart(machine)

AddFiles == \E ps \in Offers :
  Ready /\ Spend("library") /\ AddInWindow(ps) /\ UNCHANGED <<deskVars, menuVars>>
RemoveTile == \E i \in Picture :
  Ready /\ Spend("library") /\ RemoveInWindow(i) /\ UNCHANGED <<deskVars, menuVars>>
CommandStarts == \E ps \in Offers :
  Spend("command") /\ CommandLoads(ps) /\ UNCHANGED <<deskVars, menuVars>>
CommandSaves == CommandAdds /\ UNCHANGED <<deskVars, menuVars, budget>>
Saves == \E p \in Process : (WriteSave(p) \/ RenameSave(p)) /\ UNCHANGED <<deskVars, menuVars, budget>>
SaveIsRefused == \E p \in Process : Spend("fault") /\ SaveFails(p) /\ UNCHANGED <<deskVars, menuVars>>
IndexReported == LoopFree /\ IndexChanged /\ UNCHANGED <<deskVars, menuVars, budget>>

\* The switch of the Settings page, and Thunar beside it.
otherVars == <<deskVars, libraryVars>>
MoveSwitch == Ready /\ Spend("menu") /\ Toggle /\ UNCHANGED otherVars
MenuChanged == MergeDone /\ UNCHANGED <<otherVars, budget>>
MenuRefused == Spend("fault") /\ MergeFails /\ UNCHANGED otherVars
ThunarChanges ==
  Spend("thunar") /\ (UcaSpoilt \/ \E x \in Own : ThunarWrites(x)) /\ UNCHANGED otherVars

Init ==
  /\ \E s \in Sessions :
       /\ machine = s.on
       /\ backend = DetectBackend(s.on)
       /\ desktop = Found(backend, s.option)
       /\ watching = s.watching
       /\ budget = s.steps
  /\ composites = <<>>
  /\ image = None /\ fit = "fill" /\ fitButton = "fill" /\ combo = "fill"
  /\ override = <<>> /\ applied = <<>> /\ toasts = <<>> /\ fits = <<>>
  /\ dialog = None /\ helpers = {} /\ idle = <<>>
  /\ record = <<>> /\ recordFile = <<>> /\ installed = <<>>
  /\ shown = [k \in DOMAIN desktop |-> None] /\ unknown = {}
  /\ backdrop = CurrentImage(backend, desktop)
  /\ cards = [key \in Surface |-> Card(key, override, image, fits, backdrop, record, applied)]
  /\ LibraryInit /\ MenusInit(machine)

Next ==
  \/ \E i \in Picture : SetGlobalImage(i) \/ UseInScreens(i) \/ ApplyTile(i)
  \/ \E p \in Picture \cup {Unusable} : LoadImage(p)
  \/ \E key \in Surface, i \in Picture : SetSurfaceImage(key, i)
  \/ \E key \in Surface, f \in Fits : FitCard(key, f)
  \/ \E f \in Fits : FitAll(f) \/ DefaultFit(f)
  \/ Pick \/ ShowScreens \/ ShowWallpaper
  \/ \E key \in Surface : ApplyCard(key) \/ ApplyPrivileged(key)
  \/ ApplyAll \/ Undo \/ ToastExpires \/ ChosenElsewhere
  \/ CancelDialog \/ SubmitDialog
  \/ \E h \in helpers :
        HelperInstalls(h) \/ HelperRefused(h) \/ HelperBreaks(h) \/ HelperTimesOut(h) \/ HelperExits(h)
  \/ RecordApplied \/ Restart
  \/ AddFiles \/ RemoveTile \/ CommandStarts \/ CommandSaves \/ Saves \/ SaveIsRefused \/ IndexReported
  \/ MoveSwitch \/ MenuChanged \/ MenuRefused \/ ThunarChanges

Spec == Init /\ [][Next]_vars

\* ---------------------------------------------------------------- properties
\* The desktop has the keys of its backend, the cards are those of the surfaces,
\* and the library is well formed.
TypeOK ==
  /\ backend \in {Registry[n] : n \in DOMAIN Registry} \cup {None}
  /\ DOMAIN desktop = Keys(backend) /\ DOMAIN composites \subseteq Composite
  /\ image \in Picture \cup {None} /\ {fit, fitButton, combo} \subseteq Fit
  /\ DOMAIN fits \subseteq Surface /\ \A k \in DOMAIN fits : fits[k] \in Fit
  /\ DOMAIN cards = Surface /\ \A k \in Surface : cards[k].can => cards[k].image \in Picture
  /\ DOMAIN record \subseteq Privileged /\ DOMAIN recordFile \subseteq DOMAIN record
  /\ LibraryTypeOK /\ MenusTypeOK

\* Each card previews what its Apply would send: the image and the fit shown are
\* those of the state, however they came to be what they are, and the button is
\* live exactly when there is something to apply.
PreviewIsApplied ==
  \A key \in Surface :
    /\ cards[key].can = CanApply(key, override, image)
    /\ cards[key].can => /\ cards[key].image = Resolved(key, override, image)
                         /\ cards[key].fit = FitOf(key, fits)

\* What the program remembers of a privileged surface is what was last installed
\* there, once the helper is heard, and also after a restart; not when a helper
\* was given up or failed with its files in place, two overlapped on one surface, or
\* the file was not written.
RecordTells ==
  \A key \in Privileged \ unknown :
    ~Unrecorded(key) => IF key \in DOMAIN installed
                        THEN key \in DOMAIN record /\ record[key] = installed[key]
                        ELSE key \notin DOMAIN record

\* The switch of the Settings page shows whether the entry is in the file
\* manager's menu, also when a write failed; until Thunar brings back or drops
\* the entry by itself.
SwitchTells ==
  provider # None /\ merging = None /\ ~undone => switch = IsInstalled(provider)

\* What a card shows is what its Apply would send, what the program says it has
\* installed is installed, and the menu's switch tells what is there.
WindowTells == PreviewIsApplied /\ RecordTells /\ SwitchTells

\* A surface's fit changes by a choice of a fit: its own, or one for all. There
\* is one other way: an Apply leaves the card's fit in the state, and the next
\* refresh takes it for the global one and gives it to every card.
FitsKept ==
  [][\A key \in Surface : FitOf(key, fits') # FitOf(key, fits) =>
       \/ budget'.restart # budget.restart
       \/ fit # fitButton
       \/ /\ budget'.fit # budget.fit
          /\ \/ fit' = FitOf(key, fits')
             \/ \A other \in Surface \ {key} : FitOf(other, fits') = FitOf(other, fits)]_vars

\* Undo, where every subprocess of it ran, gives each monitor the picture it
\* showed before that apply, whatever was applied since; unless a composite it
\* showed was made again since for the same image, fit and monitor. Xfce gives
\* back the image and not its style, where it could read it; and feh what its
\* script had drawn, so not the picture of another tool, nor one that an Undo put
\* back by a script that leaves its file at the picture undone.
UndoGivesBack ==
  [][ /\ budget'.undo # budget.undo /\ budget'.fault = budget.fault
      => LET toast == Head(toasts)
             now == Look(desktop', composites')
         IN CASE backend \in GSettings ->
                   {toast.was[k] : k \in DOMAIN toast.was} \cap toast.later = {} => now = toast.before
              [] backend = "Xfce" ->
                   toast.whole => \A m \in Monitor : now[m][2] = toast.before[m][2]
              [] backend = "feh" ->
                   toast.whole => now = toast.before]_vars

\* The index is what was added and not removed, even in the middle of a save;
\* and a window that is told of the index shows just that. What is lost when the
\* window and the command save at the same time, or one on a list the other has
\* changed, is left out (raced).
LibraryKeeps ==
  ~raced =>
    /\ Load(names, files) = wanted
    /\ watching /\ ~told /\ LoopFree /\ ~Saving(save["command"])
       => cache = wanted /\ grid = Items(wanted)

\* Thunar's file keeps the custom actions the user has, whatever the program adds
\* to it or removes; unless Thunar wrote the file while the program merged into
\* it, or the program met a file it cannot read.
MenuKeepsOthers == merging = None /\ ~crossed /\ ~ucaBad => uca \ {Entry} = own

\* The files that others write too, the index and Thunar's actions, lose nothing.
FilesKept == LibraryKeeps /\ MenuKeepsOthers
=============================================================================
