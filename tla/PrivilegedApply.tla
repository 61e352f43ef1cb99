--------------------------- MODULE PrivilegedApply ---------------------------
(***************************************************************************)
(* The helper that changes the login, splash and boot-menu surfaces as     *)
(* root (src/linwallpaper/privileged/lw_privileged.py).  Several           *)
(* invocations may run at once: the window starts one thread per confirmed *)
(* password (ui/password_dialog.py) and the helper takes no lock.  Each    *)
(* member of Helper is one invocation, an apply or an undo.                *)
(*                                                                         *)
(* A temporary file is written in one step, and a command of the system    *)
(* (update-alternatives, update-initramfs, update-grub) is one step.       *)
(* Modes, checksums and directories are left out, and so are --dry-run and *)
(* the early refusals: they end without a change.                          *)
(***************************************************************************)
EXTENDS Integers, Sequences, FiniteSets, Functions

CONSTANTS Helper,      \* the invocations of the helper
          Image,       \* the renderings an apply may be asked for
          Surfaces,    \* the surfaces that are applied, of "login", "splash", "grub"
          Frames,      \* the throbber frames the distribution's theme offers
          StartFiles,  \* what the files held before the first invocation
          StartTheme,  \* what default.plymouth pointed at: "distro" or "none"
          Faults,      \* of "io" (a call fails), "uncaught" (an exception apply()
                       \* does not catch) and "crash" (kill, power loss)
          MaxFaults,   \* bound: how many of them a behaviour has
          AtOnce       \* bound: how many invocations run at the same time

\* The files each surface writes, in the order of its plan; every plan writes
\* them all before it runs its first command.
Targets == [login  |-> <<"bg", "slick", "gtk">>,
            splash |-> <<"descr", "script">> \o Frames \o <<"wall">>,
            grub   |-> <<"img", "dropin">>]

\* Mutant: the boot image is rebuilt before our theme is selected.
RebuildFirst == [login  |-> <<>>,
                 splash |-> <<"install", "initramfs", "select">>,
                 grub   |-> <<"update-grub">>]

Commands == [login  |-> <<>>,
             splash |-> <<"install", "select", "initramfs">>,
             grub   |-> <<"update-grub">>]

Rendered == {"bg", "wall", "img"}
Ini      == {"slick", "gtk"}
OwnFiles == Rendered \cup Ini \cup {"descr", "script", "dropin"}
File     == OwnFiles \cup Range(Frames)

\* What a file holds: nothing, what the system put there, our settings, ours
\* merged into theirs, a half-written text, or a rendering.
Content == {"absent", "theirs", "ours", "both", "torn"} \cup Image

ASSUME ApplyAssumption ==
  /\ Surfaces \subseteq {"login", "splash", "grub"}
  /\ Frames \in Seq(STRING)
  /\ Range(Frames) \cap OwnFiles = {}
  /\ StartFiles \in [File -> Content]
  /\ StartTheme \in {"distro", "none"}
  /\ MaxFaults \in Nat
  /\ AtOnce \in Nat
  /\ IsFiniteSet(Helper)
  /\ Image \cap {"absent", "uncopied", "theirs", "ours", "both", "torn"} = {}

VARIABLES files,     \* the target files
          tmp,       \* <file>.lw-tmp, one name for every invocation
          theme,     \* what default.plymouth points at; is our theme registered
          boot,      \* what the last update-initramfs put into the boot image
          menu,      \* what the last update-grub read
          pc, at,    \* where an invocation is, and its index there
          job,       \* an apply's plan: surface, image, prior alternative
          of,        \* whose manifest it restores from: an apply's own
          stamp,     \* an apply's backup directory: when it started
          saved,     \* the copies in it
          manifest,  \* and its manifest.json
          outcome,   \* how it ended
          was,       \* history: files and theme when it started
          mixed,     \* history: it met another invocation on its surface
          slipped,   \* history: part of its rollback failed
          faults     \* history: the faults so far

vars == <<files, tmp, theme, boot, menu, pc, at, job, of, stamp, saved,
          manifest, outcome, was, mixed, slipped, faults>>
system  == <<files, tmp, theme, boot, menu>>
backups == <<stamp, saved, manifest>>
history == <<was, mixed, slipped, faults>>

NoJob == [surface |-> "none", image |-> "none", prior |-> "none"]

Forgotten == [files |-> <<>>, link |-> "none"]

SplashFiles == {"descr", "script", "wall"} \cup Range(Frames)

\* What the boot image and the boot menu are made from.
BootSources == [link  |-> theme.link, files |-> [f \in SplashFiles |-> files[f]]]
MenuSources == [f \in {"img", "dropin"} |-> files[f]]

Init ==
  /\ files = StartFiles
  /\ tmp = [f \in File |-> "absent"]
  /\ theme = [link |-> StartTheme, offered |-> FALSE]
  /\ boot = BootSources
  /\ menu = MenuSources
  /\ pc = [p \in Helper |-> "ready"]
  /\ at = [p \in Helper |-> 1]
  /\ job = [p \in Helper |-> NoJob]
  /\ of = [p \in Helper |-> p]
  /\ stamp = [p \in Helper |-> 0]
  /\ saved = [p \in Helper |-> [f \in File |-> "uncopied"]]
  /\ manifest = [p \in Helper |-> "none"]
  /\ outcome = [p \in Helper |-> "none"]
  /\ was = [p \in Helper |-> Forgotten]
  /\ mixed = {}
  /\ slipped = {}
  /\ faults = 0

Running(p) == pc[p] \notin {"ready", "ended"}

MayStart(p) == /\ pc[p] = "ready"
               /\ Cardinality({q \in Helper : Running(q)}) < AtOnce

Enter(p, where) == /\ pc' = [pc EXCEPT ![p] = where]
                   /\ at' = [at EXCEPT ![p] = 1]

Advance(p, where) == /\ pc' = [pc EXCEPT ![p] = where]
                     /\ at' = [at EXCEPT ![p] = @ + 1]

Fault(kind) == /\ kind \in Faults
               /\ faults < MaxFaults
               /\ faults' = faults + 1

End(p, how) == /\ Enter(p, "ended")
               /\ outcome' = [outcome EXCEPT ![p] = how]

-----------------------------------------------------------------------------
\* Starting.

\* A dangling default.plymouth does not exist() and is no prior theme.
CurrentAlternative ==
  IF theme.link = "ours" /\ files["descr"] = "absent" THEN "none" ELSE theme.link

\* The history of an invocation that starts on surface s; of one that meets
\* another there, nothing but that is remembered.
Witness(p, s) ==
  LET others == {q \in Helper \ {p} : Running(q) /\ job[of[q]].surface = s}
      met    == IF others = {} THEN {} ELSE others \cup {p}
  IN  /\ was' = [q \in Helper |->
                   CASE q \in met             -> Forgotten
                     [] q = p /\ q \notin met ->
                          [files |-> [f \in Range(Targets[s]) |-> files[f]],
                           link  |-> IF s = "splash" THEN theme.link ELSE "none"]
                     [] OTHER                 -> was[q]]
      /\ mixed' = mixed \cup met
      /\ UNCHANGED <<slipped, faults>>

\* The backup directory is named for the second: no two applies share one here,
\* and a later apply has a later name.
StartApply(p) ==
  /\ MayStart(p)
  /\ \E s \in Surfaces, i \in Image :
       /\ job' = [job EXCEPT ![p] =
                    [surface |-> s, image |-> i,
                     prior |-> IF s = "splash" THEN CurrentAlternative ELSE "none"]]
       /\ Witness(p, s)
  /\ stamp' = [stamp EXCEPT ![p] = 1 + Cardinality({q \in Helper : stamp[q] # 0})]
  /\ Enter(p, "copy")
  /\ UNCHANGED <<system, of, saved, manifest, outcome>>

Noted == {h \in Helper : manifest[h] # "none"}

\* latest_manifest: the greatest name of a directory with a manifest.
Latest(h) == h \in Noted /\ \A g \in Noted : stamp[g] <= stamp[h]

\* undo() does not look at the surface it was given.
StartUndo(p) ==
  /\ MayStart(p)
  /\ \E h \in Noted :
       /\ Latest(h)
       /\ manifest[h] = "whole"
       /\ of' = [of EXCEPT ![p] = h]
       /\ Witness(p, job[h].surface)
  /\ Enter(p, "undo")
  /\ UNCHANGED <<system, backups, job, outcome>>

\* There is no manifest, or json.loads rejects half of one.
StartUndoInVain(p) ==
  /\ MayStart(p)
  /\ \/ Noted = {} /\ End(p, "failed")
     \/ \E h \in Noted : Latest(h) /\ manifest[h] = "torn" /\ End(p, "raised")
  /\ UNCHANGED <<system, backups, job, of, history>>

-----------------------------------------------------------------------------
\* write_backups: every target is copied, then the manifest is written.

Target(p) == Targets[job[p].surface]

BackUp(p) ==
  /\ pc[p] = "copy"
  /\ at[p] <= Len(Target(p))
  /\ LET f == Target(p)[at[p]]
     IN  saved' = [saved EXCEPT ![p][f] = files[f]]
  /\ Advance(p, "copy")
  /\ UNCHANGED <<system, job, of, stamp, manifest, outcome, history>>

\* Mutant: the manifest is begun while files are still uncopied.
NoteTooSoon(p) ==
  /\ pc[p] = "copy"
  /\ manifest' = [manifest EXCEPT ![p] = "torn"]
  /\ Enter(p, "noting")
  /\ UNCHANGED <<system, job, of, stamp, saved, outcome, history>>

\* Mutant: the steps start before the manifest is on the disk.
StepsTooSoon(p) ==
  /\ pc[p] = "copy"
  /\ at[p] > Len(Target(p))
  /\ manifest' = [manifest EXCEPT ![p] = "torn"]
  /\ Enter(p, "step")
  /\ UNCHANGED <<system, job, of, stamp, saved, outcome, history>>

OpenManifest(p) ==
  /\ pc[p] = "copy"
  /\ at[p] > Len(Target(p))
  /\ manifest' = [manifest EXCEPT ![p] = "torn"]
  /\ Enter(p, "noting")
  /\ UNCHANGED <<system, job, of, stamp, saved, outcome, history>>

WriteManifest(p) ==
  /\ pc[p] = "noting"
  /\ manifest' = [manifest EXCEPT ![p] = "whole"]
  /\ Enter(p, "step")
  /\ UNCHANGED <<system, job, of, stamp, saved, outcome, history>>

\* The backup is outside the try: its errors end the helper, rolling nothing back.
BackupRaises(p) ==
  /\ pc[p] \in {"copy", "noting"}
  /\ Fault("io")
  /\ End(p, "raised")
  /\ UNCHANGED <<system, backups, job, of, was, mixed, slipped>>

-----------------------------------------------------------------------------
\* The steps of the plan: the writes, then the commands.

Writing(p) == pc[p] = "step" /\ at[p] <= Len(Target(p))
NextFile(p) == Target(p)[at[p]]

\* What the producer of a ContentStep makes of the file it finds; a torn
\* configuration file has lost what was theirs.
Produced(p, f) ==
  CASE f \in Rendered -> job[p].image
    [] f \in Ini      -> IF files[f] \in {"theirs", "both"} THEN "both" ELSE "ours"
    [] OTHER          -> "ours"

\* ContentStep.execute and CopyThrobberStep skip a file that is as it should be.
SkipWrite(p) ==
  /\ Writing(p)
  /\ files[NextFile(p)] = Produced(p, NextFile(p))
  /\ Advance(p, "step")
  /\ UNCHANGED <<system, backups, job, of, outcome, history>>

Stage(p) ==
  /\ Writing(p)
  /\ NextFile(p) \in OwnFiles
  /\ files[NextFile(p)] # Produced(p, NextFile(p))
  /\ tmp' = [tmp EXCEPT ![NextFile(p)] = Produced(p, NextFile(p))]
  /\ pc' = [pc EXCEPT ![p] = "staged"]
  /\ UNCHANGED <<files, theme, boot, menu, backups, at, job, of, outcome, history>>

Replace(p) ==
  /\ pc[p] = "staged"
  /\ tmp[NextFile(p)] # "absent"
  /\ files' = [files EXCEPT ![NextFile(p)] = tmp[NextFile(p)]]
  /\ tmp' = [tmp EXCEPT ![NextFile(p)] = "absent"]
  /\ Advance(p, "step")
  /\ UNCHANGED <<theme, boot, menu, backups, job, of, outcome, history>>

\* A throbber frame is written in place.
OpenFrame(p) ==
  /\ Writing(p)
  /\ NextFile(p) \notin OwnFiles
  /\ files[NextFile(p)] # "ours"
  /\ files' = [files EXCEPT ![NextFile(p)] = "torn"]
  /\ pc' = [pc EXCEPT ![p] = "filling"]
  /\ UNCHANGED <<tmp, theme, boot, menu, backups, at, job, of, outcome, history>>

FillFrame(p) ==
  /\ pc[p] = "filling"
  /\ files' = [files EXCEPT ![NextFile(p)] = "ours"]
  /\ Advance(p, "step")
  /\ UNCHANGED <<tmp, theme, boot, menu, backups, job, of, outcome, history>>

\* Mutant: only the step that failed and those after it are rolled back.
KeepDoneSteps(p) ==
  /\ \/ (Writing(p) \/ pc[p] \in {"staged", "filling"}) /\ Fault("io")
     \/ pc[p] = "staged" /\ tmp[NextFile(p)] = "absent" /\ UNCHANGED faults
  /\ pc' = [pc EXCEPT ![p] = "undo"]
  /\ UNCHANGED <<system, backups, at, job, of, outcome, was, mixed, slipped>>

\* An OSError, which apply() catches; the temporary file has gone when another
\* invocation was first to rename it.
WriteFails(p) ==
  /\ \/ (Writing(p) \/ pc[p] \in {"staged", "filling"}) /\ Fault("io")
     \/ pc[p] = "staged" /\ tmp[NextFile(p)] = "absent" /\ UNCHANGED faults
  /\ Enter(p, "undo")
  /\ UNCHANGED <<system, backups, job, of, outcome, was, mixed, slipped>>

\* DecompressionBombError from a rendering, configparser.Error from a
\* configuration file: neither is caught.
WriteRaises(p) ==
  /\ Writing(p)
  /\ NextFile(p) \in Rendered \cup Ini
  /\ Fault("uncaught")
  /\ End(p, "raised")
  /\ UNCHANGED <<system, backups, job, of, was, mixed, slipped>>

\* What a command of the system does.  Registering our theme selects it when
\* default.plymouth is in automatic mode or has no theme yet; removing it
\* leaves the distribution's.
Effect(c) ==
  /\ UNCHANGED <<files, tmp>>
  /\ CASE c = "install" ->
            /\ \E l \in {theme.link, "ours"} \ {"none"} :
                 theme' = [link |-> l, offered |-> TRUE]
            /\ UNCHANGED <<boot, menu>>
       [] c \in {"select", "ours"} ->
            /\ theme.offered
            /\ theme' = [theme EXCEPT !.link = "ours"]
            /\ UNCHANGED <<boot, menu>>
       [] c = "distro" ->
            /\ theme' = [theme EXCEPT !.link = "distro"]
            /\ UNCHANGED <<boot, menu>>
       [] c = "remove" ->
            /\ theme' = [link |-> IF theme.link = "ours" THEN StartTheme ELSE theme.link,
                         offered |-> FALSE]
            /\ UNCHANGED <<boot, menu>>
       [] c = "initramfs"   -> boot' = BootSources /\ UNCHANGED <<theme, menu>>
       [] c = "update-grub" -> menu' = MenuSources /\ UNCHANGED <<theme, boot>>

\* A command that fails may have rebuilt some of what it was to rebuild.
NoEffect(c) ==
  /\ UNCHANGED <<files, tmp, theme>>
  /\ boot' \in IF c = "initramfs" THEN {boot, BootSources} ELSE {boot}
  /\ menu' \in IF c = "update-grub" THEN {menu, MenuSources} ELSE {menu}

\* A theme that is not registered cannot be selected.
Fails(c) == \/ Fault("io")
            \/ c \in {"select", "ours"} /\ ~theme.offered /\ UNCHANGED faults

\* The command at an index that counts the writes before it.
NextCommand(p) == Commands[job[p].surface][at[p] - Len(Target(p))]
AtCommand(p)   == /\ pc[p] = "step"
                  /\ at[p] > Len(Target(p))
                  /\ at[p] - Len(Target(p)) <= Len(Commands[job[p].surface])

RunCommand(p) ==
  /\ AtCommand(p)
  /\ Effect(NextCommand(p))
  /\ Advance(p, "step")
  /\ UNCHANGED <<backups, job, of, outcome, history>>

CommandFails(p) ==
  /\ AtCommand(p)
  /\ Fails(NextCommand(p))
  /\ NoEffect(NextCommand(p))
  /\ Enter(p, "undo")
  /\ UNCHANGED <<backups, job, of, outcome, was, mixed, slipped>>

Applied(p) ==
  /\ pc[p] = "step"
  /\ at[p] > Len(Target(p)) + Len(Commands[job[p].surface])
  /\ End(p, "ok")
  /\ UNCHANGED <<system, backups, job, of, history>>

-----------------------------------------------------------------------------
\* rollback: the manifest's entries, then its undo commands.

Entries(p) == Target(of[p])
Entry(p)   == Entries(p)[at[p]]
Copy(p)    == saved[of[p]][Entry(p)]

Restoring(p) == pc[p] = "undo" /\ at[p] <= Len(Entries(p))

\* Mutant: a file the apply made is left behind.
LeaveBehind(p) ==
  /\ Restoring(p)
  /\ Copy(p) = "absent"
  /\ Advance(p, "undo")
  /\ UNCHANGED <<system, backups, job, of, outcome, history>>

Unlink(p) ==
  /\ Restoring(p)
  /\ Copy(p) = "absent"
  /\ files' = [files EXCEPT ![Entry(p)] = "absent"]
  /\ Advance(p, "undo")
  /\ UNCHANGED <<tmp, theme, boot, menu, backups, job, of, outcome, history>>

\* shutil.copy2 truncates the file it writes to.
OpenRestored(p) ==
  /\ Restoring(p)
  /\ Copy(p) # "absent"
  /\ files' = [files EXCEPT ![Entry(p)] = "torn"]
  /\ pc' = [pc EXCEPT ![p] = "putting"]
  /\ UNCHANGED <<tmp, theme, boot, menu, backups, at, job, of, outcome, history>>

FillRestored(p) ==
  /\ pc[p] = "putting"
  /\ files' = [files EXCEPT ![Entry(p)] = Copy(p)]
  /\ Advance(p, "undo")
  /\ UNCHANGED <<tmp, theme, boot, menu, backups, job, of, outcome, history>>

Slip(p) == /\ slipped' = slipped \cup {p}
           /\ Advance(p, "undo")

\* One entry's OSError is reported and the next entry is tried.
RestoreFails(p) ==
  /\ Restoring(p) \/ pc[p] = "putting"
  /\ Fault("io")
  /\ Slip(p)
  /\ UNCHANGED <<system, backups, job, of, outcome, was, mixed>>

\* Mutant: the boot image is not rebuilt after a rollback.
NoRebuild(j) ==
  CASE j.surface = "login"  -> <<>>
    [] j.surface = "grub"   -> <<"update-grub">>
    [] j.surface = "splash" -> IF j.prior = "none" THEN <<"remove">>
                               ELSE <<j.prior, "remove">>

\* The undo commands build_plan records; "distro" and "ours" stand for --set to
\* the prior theme.
UndoCommands(j) ==
  CASE j.surface = "login"  -> <<>>
    [] j.surface = "grub"   -> <<"update-grub">>
    [] j.surface = "splash" -> IF j.prior = "none" THEN <<"remove", "initramfs">>
                               ELSE <<j.prior, "remove", "initramfs">>

UndoCommand(p)   == UndoCommands(job[of[p]])[at[p] - Len(Entries(p))]
AtUndoCommand(p) == /\ pc[p] = "undo"
                    /\ at[p] > Len(Entries(p))
                    /\ at[p] - Len(Entries(p)) <= Len(UndoCommands(job[of[p]]))

RunUndoCommand(p) ==
  /\ AtUndoCommand(p)
  /\ Effect(UndoCommand(p))
  /\ Advance(p, "undo")
  /\ UNCHANGED <<backups, job, of, outcome, history>>

\* check=False: what a command answers is not looked at.
UndoCommandFails(p) ==
  /\ AtUndoCommand(p)
  /\ Fails(UndoCommand(p))
  /\ NoEffect(UndoCommand(p))
  /\ Slip(p)
  /\ UNCHANGED <<backups, job, of, outcome, was, mixed>>

\* An undo reports success, a failed apply its failure.
RolledBack(p) ==
  /\ pc[p] = "undo"
  /\ at[p] > Len(Entries(p)) + Len(UndoCommands(job[of[p]]))
  /\ End(p, IF of[p] = p THEN "failed" ELSE "ok")
  /\ UNCHANGED <<system, backups, job, of, history>>

Kill(p) ==
  /\ Running(p)
  /\ Fault("crash")
  /\ End(p, "killed")
  /\ UNCHANGED <<system, backups, job, of, was, mixed, slipped>>

-----------------------------------------------------------------------------
Start(p)  == StartApply(p) \/ StartUndo(p) \/ StartUndoInVain(p)
Backup(p) == BackUp(p) \/ OpenManifest(p) \/ WriteManifest(p) \/ BackupRaises(p)
Write(p)  == \/ SkipWrite(p) \/ Stage(p) \/ Replace(p) \/ OpenFrame(p) \/ FillFrame(p)
             \/ WriteFails(p) \/ WriteRaises(p)
Run(p)    == RunCommand(p) \/ CommandFails(p) \/ Applied(p)
Undo(p)   == \/ Unlink(p) \/ OpenRestored(p) \/ FillRestored(p) \/ RestoreFails(p)
             \/ RunUndoCommand(p) \/ UndoCommandFails(p) \/ RolledBack(p)

Next == \E p \in Helper :
          Start(p) \/ Backup(p) \/ Write(p) \/ Run(p) \/ Undo(p) \/ Kill(p)

Spec == Init /\ [][Next]_vars
-----------------------------------------------------------------------------
\* Properties.

Phase == {"ready", "copy", "noting", "step", "staged", "filling", "undo", "putting", "ended"}
Theme == {"none", "distro", "ours"}

\* The helper's bookkeeping: every file, copy, plan and phase has its type, and a
\* phase that acts on a file or restores from a manifest has one.
TypeOK ==
  /\ files \in [File -> Content]
  /\ tmp \in [File -> Content]
  /\ theme \in [link : Theme, offered : BOOLEAN]
  /\ boot \in [link : Theme, files : [SplashFiles -> Content]]
  /\ menu \in [{"img", "dropin"} -> Content]
  /\ pc \in [Helper -> Phase]
  /\ at \in [Helper -> Nat \ {0}]
  /\ job \in [Helper -> [surface : Surfaces \cup {"none"}, image : Image \cup {"none"},
                        prior : Theme]]
  /\ of \in [Helper -> Helper]
  /\ stamp \in [Helper -> Nat]
  /\ saved \in [Helper -> [File -> Content \cup {"uncopied"}]]
  /\ manifest \in [Helper -> {"none", "torn", "whole"}]
  /\ outcome \in [Helper -> {"none", "ok", "failed", "raised", "killed"}]
  /\ \A p \in Helper :
       was[p] = Forgotten \/ \E s \in Surfaces :
         was[p] \in [files : [Range(Targets[s]) -> Content], link : Theme]
  /\ mixed \subseteq Helper
  /\ slipped \subseteq Helper
  /\ faults \in 0..MaxFaults
  /\ \A p \in Helper :
       /\ Running(p) => job[of[p]].surface \in Surfaces
       /\ pc[p] \in {"step", "staged", "filling"} => of[p] = p
       /\ pc[p] \in {"staged", "filling"} => at[p] <= Len(Target(p))
       /\ pc[p] = "putting" => at[p] <= Len(Entries(p))

\* "Back up every file it will touch BEFORE writing anything": what a file held
\* before the first invocation is in the file, or in a backup with a whole
\* manifest, whatever was killed, failed or ran at the same time.
OriginalKept ==
  \A f \in File :
    \/ files[f] = StartFiles[f]
    \/ \E h \in Helper : manifest[h] = "whole" /\ saved[h][f] = StartFiles[f]

\* A step in which p ends as said, having met no one else on its surface and with
\* no step of its rollback failed.
EndsAlone(p, how) ==
  /\ outcome[p] = "none"
  /\ outcome'[p] = how
  /\ p \notin mixed
  /\ p \notin slipped

SurfaceFiles(h) == Range(Targets[job[h].surface])

\* Files of h's surface hold what they held when h started.
FilesAsBefore(h) == \A f \in SurfaceFiles(h) : files'[f] = was[h].files[f]

\* The theme is the one that was selected when h, a splash apply, started.
ThemeAsBefore(h) == job[h].surface = "splash" => theme'.link = was[h].link

\* An apply that fails half-way and an undo both leave the surface as it was
\* before the apply: every file, and the theme unless it was ours already (see
\* ThemeGivenBack).  The apply that is undone may have been killed at any point.
GivesBack(p) ==
  (EndsAlone(p, "failed") \/ EndsAlone(p, "ok")) /\ pc[p] = "undo" /\ of[p] \notin mixed
    => FilesAsBefore(of[p]) /\ (was[of[p]].link # "ours" => ThemeAsBefore(of[p]))

UndoGivesBack == [][\A p \in Helper : of[p] # p => GivesBack(p)]_vars

FailureGivesBack == [][\A p \in Helper : of[p] = p => GivesBack(p)]_vars

\* When no invocation runs, and none was killed, ended in an exception or lost a
\* step of its rollback, the boot image and the boot menu are made from the files
\* and the theme that are there: every other path, also of invocations that
\* overlap, ends with the generator.
GeneratedFresh ==
  (\A p \in Helper : ~Running(p) /\ outcome[p] \notin {"killed", "raised"} /\ p \notin slipped)
    => boot = BootSources /\ menu = MenuSources

\* What an apply that answers 0 has made of its surface.
Shown(j) ==
  CASE j.surface = "login"  -> /\ files'["bg"] = j.image
                               /\ files'["slick"] \in {"ours", "both"}
                               /\ files'["gtk"] \in {"ours", "both"}
    [] j.surface = "splash" -> /\ boot'.link = "ours"
                               /\ boot'.files["wall"] = j.image
                               /\ boot'.files["script"] = "ours"
                               /\ boot'.files["descr"] = "ours"
    [] j.surface = "grub"   -> menu' = [f \in {"img", "dropin"} |->
                                          IF f = "img" THEN j.image ELSE "ours"]

\* An apply that answers 0 shows its image: the window records the surface as
\* applied on nothing else.
OkIsShown == [][\A p \in Helper :
                  EndsAlone(p, "ok") /\ of[p] = p => Shown(job[p])]_vars

\* "On any error mid-apply it rolls back what it changed" (lw_privileged.py:17):
\* an apply that ends with an error leaves its files as it found them.
ErrorRollsBack ==
  [][\A p \in Helper :
       (EndsAlone(p, "failed") \/ EndsAlone(p, "raised")) /\ pc[p] # "ready" /\ of[p] = p
         => FilesAsBefore(p)]_vars

\* "--undo restores the latest manifest to the prior state" (lw_privileged.py:18),
\* and a rollback does the same: the splash theme is the one selected before.
ThemeGivenBack ==
  [][\A p \in Helper :
       (EndsAlone(p, "failed") \/ EndsAlone(p, "ok")) /\ pc[p] = "undo" /\ of[p] \notin mixed
         => ThemeAsBefore(of[p])]_vars
=============================================================================
