# LinWallpapers: specifications, model checks and proofs

TLA+ specifications of LinWallpapers, a wallpaper manager for Linux desktops,
checked with TLC on small instances and, where it matters most, proved with TLAPS
for every instance. Source paths below carry the prefix `src/` for the
root of the repository: `src/src/catalogue/ingest.py` is its `src/catalogue/ingest.py`.

## 1. Inventory

The repository holds two programs.

**A. The application `linwallpaper/`** (GTK 4) chooses an image and applies it.

| Part | State it keeps | Operations | What makes it correct |
|---|---|---|---|
| Privileged engine `privileged/lw_privileged.py` | the target files, `default.plymouth`, the generated initramfs and grub.cfg, the backups under `/var/backups/linwallpaper/<time>` | plan, back up, run the steps, roll back, undo the latest manifest | nothing is written before its backup; an apply that fails is taken back; undo restores what was there |
| Password dialog `ui/password_dialog.py` | one running helper process | launch it, wait with a timeout, report | the report is about the process it belongs to |
| Desktop apply `ui/window.py`, `backends/` | the desktop's settings, `state.applied`, one Undo toast per apply | apply (several keys), restore | undo brings back what its apply replaced |
| Collection `collection.py`, `addcli.py` | `collection.json`, and a cached list in each process | add, remove, reload, save | no entry is lost while two processes write |
| Screens page `ui/pages/screens.py` | an image and a fit of each surface, the cards shown | choose, show, apply | a card shows what its Apply sends |
| Context menus `contextmenu/` | one file of each file manager | install, uninstall | other entries of the file survive |
| Imaging, other pages, widgets | pixels, widgets | | |

**B. The scanner and catalogue `src/`** (GTK 3 shell, command line `linwp`).

| Part | State it keeps | Operations | What makes it correct |
|---|---|---|---|
| Walker `scanner/walker.py` | the directories left, the failed ones | walk a root, put candidates on a bounded queue | every file is handed over once, or its directory is failed, or the walk is not complete |
| Probe `scanner/probe.py` | none | open, hash, decode a file | always answers with a result |
| Scan service `catalogue/ingest.py` | two queues, a batch, two flags, the scan row | begin, consume, flush, sweep, stamp, finish | what the walk could meet is never called missing; "ok" means that it was recorded and the rows of all else judged, but for those a rule hides; every scan comes back and leaves no thread |
| Catalogue writer `catalogue/ingest.py` | one queue of jobs, one connection | submit, run in a transaction, close | every accepted job runs once, whole, in order; its future completes |
| Catalogue `catalogue/db.py` | SQLite file, scan lock | open, migrate, recover, lock | one scanner at a time; a live scan is not recovered |
| Exclusions `scanner/exclude.py` | rules, groups, a compiled matcher | compile, match, judge a path | the compiled matcher says what the rules say |
| Rules `catalogue/db.py`, `viewmodels/sources_vm.py`, `cli/cmd_exclude.py` | tables of rules, groups, sources; a flag on every image | add, switch, remove, reapply, preview, undo | an image is hidden if and only if a rule keeps it out |
| Proposals `scanner/roots.py` | none | read the mounts, propose folders and volumes | every picture folder is within reach; what is on the network or a volume is off until ticked |
| Displays `scanner/displays.py` | the saved displays | probe, merge, declare, save | the judgement targets are the screens |
| Ideal `catalogue/ideal.py` | `ideal_image` rows | evaluate, rebuild, pin | SQL and Python agree; pins survive |
| Thumbnails `catalogue/thumbs.py` | files by content key | store, read, evict, clear | a row's thumbnail is in the cache before the row, and is of that version of its file |
| View models `viewmodels/` | a snapshot of state, a generation count | refresh, change, cancel | the last request wins; a change is followed by its reapplication |
| Shutdown `viewmodels/services.py`, `main.py` | | cancel, close the writer, stop the pool | nothing outlives the window, nobody waits for ever |

How they interact: the user interface calls view models; a view model runs a
function on a worker thread and gets its answer back on the main loop; a function
reads with its own connection and writes by submitting a job to the one writer
thread; the scan service runs on a worker thread, starts the walker, the probe
workers and the finaliser, and submits jobs; other processes (the command line, the
privileged helper, the add command) share only files.

What is hard: threads joined by bounded queues and polled flags, cancelled at any
moment, over a writer that may fail; several processes over one file or one lock;
root-level changes that must be taken back after a crash; late and reordered
answers. The list, line by line, is under `hazards` in `PROJECT.json`.

## 2. Modules

| Subject | Modules | Instance and runs |
|---|---|---|
| The scan of one root, thread by thread | `ScanWorld` (data), `ScanContract` (the promise), `ScanPipeline`, `ScanPipelineProofs` | `MCScanPipeline`: `scan_safety`, `scan_returns`, `scan_probe_raises` |
| The helper that runs as root | `PrivilegedApply`, `PrivilegedApplyProofs` | `MCPrivilegedApply`: `apply_overlap`, `apply_in_turn`, `apply_uncaught`, `apply_twice_undo` |
| Processes on one catalogue file | `CatalogueProcesses`, `CatalogueProcessesProofs` | `MCCatalogueProcesses`: `catalogue_processes` |
| Scan after scan on a changing disk | `Thumbnails` (operators), `Rescans` (extends it), `RescansProofs` | `MCRescans`: `rescans` |
| One session of the scanner's window | `AppSession`, `AppSessionProofs` | `MCAppSession`: `app_session` |
| Rules, sources, displays and verdicts | `ExclusionMatcher` and `ScanRoots`, `DisplayDetection`, `IdealJudgement` (operators), `RuleBook` (extends the matcher), `Judgement` (composes all five), `RuleBookProofs` (the matcher, the seeding, lemmas), `JudgementProofs` | `MCJudgement`: `judgement` |
| The window of the applying program | `DesktopBackends` (operators), `Library`, `ContextMenus`, `Desk` (composes them, by INSTANCE), `DeskProofs` | `MCDesk`: `desk` |

What one module says in full, another takes as one step: the batches and the sweep of
`ScanPipeline` are the commits of `Rescans` and the whole walk of `RuleBook`; the jobs
of `AppSession` are the operations of `RuleBook` and the writes of a scan; a scan in
`CatalogueProcesses` is its first and last job; the privileged record in `Desk` is kept
beside the helper of `PrivilegedApply`.

The plan has left, in this order:

1. The snapshot of the Sources page (`sources_vm.py:433`): here its proposals are those
   of the moment.
2. The larger thumbnails, should they get a caller.

## 3. The scan of one root

### What is modelled

`ScanPipeline` is `ScanService._scan_one` together with the parts of `_run_roots` and
`scan` around it, and `walker.walk`, as four kinds of threads:

| Thread | Station | Actions |
|---|---|---|
| walker | `wpc` | `WalkStart`, `WalkRootFails`, `WalkSkip`, `WalkEntry`, `WalkDirFails`, `WalkPut*`, `WalkStops`, `WalkAll`, `WalkEnds` |
| probe worker w | `worker[w]` | `WorkerTakes`, `WorkerDiscards`, `WorkerSeesEnd`, `WorkerForwardsEnd`, `WorkerTimesOut`, `WorkerPolls`, `WorkerPuts`, `WorkerRaises` |
| finaliser | `fin` | `FinaliserJoins`, `FinaliserDies`, `FinaliserPuts` |
| consumer (the caller of `scan`) | `con` | `ConsumeItem` ... `FlushCommits`, `FlushFails`, `FlushCancels`, `Reap`, `Decide`, `SweepCommits`, `StampCommits`, `Conclude`, `FinishCommits` |

and two of the user's: `Cancel`, and `RulesChange`, the job of `apply_exclusions` that
the Sources page or Browse puts between two jobs of the scan. `candQ` and `resQ` are the two bounded queues, `End` is the
`None` both use as a sentinel. `row` is the image table reduced to one status for each
path, `flagged` the rows with a rule in `excluded_by`, `seen` the rows that carry this
scan's `seen_scan`. `_mark_missing` reads no flagged row (`ingest.py:334`), and the
scan sets no flag: a row keeps its own through an upsert and a move. `spared` is a
history variable, the rows that were flagged when the sweep committed. A writer job is one step,
because the writer runs it in one transaction; it may fail.

Abstractions. A file is a path and a kind: what the walker will make of it (nothing
there, skipped, unchanged, moved, fresh). The kinds are fixed for the pass, because
the matcher and the index of known files are built before the walk; that the disk
changes under the walk is the subject of `Rescans`. The walker meets entries in any
order. A timed put that polls the flags is one step that may land whenever there is
room or give up once a flag is up: polling in between adds no other outcome. The
timed `get` of a worker and its look at the flags are two steps, since a put may land
between them.

`ScanContract` says the same without threads: batches of files not yet seen are
recorded, directories turn out unreadable, the rules change, one sweep of the rows no
rule hides happens when everything visible has been recorded, and a result is written
that is ok only after the sweep.

### What is checked

`MCScanPipeline` has four paths in two directories and four worlds: a rescan with an
unchanged, a new and a moved file whose row was flagged; a stale catalogue (a file back
from the dead, one edited, one excluded and flagged since, one gone), where the user
may change the rules during the scan so that they hide the two files that are met, the
one that is gone, or nothing; a file moved over a catalogued one, which makes
the batch job fail on `UNIQUE(path)`; and a first scan of three files.

| Run | Question | Bounds |
|---|---|---|
| `scan_safety` | the safety invariants and the refinement of `ScanContract`, under every fault | 2 workers, both queues of 1, batches of 2 |
| `scan_returns` | every scan comes back, and no deadlock | `candQ` of 2, the writer may fail |
| `scan_probe_raises` | does a cancel end the scan when a probe raises? It does not | `candQ` of 2 |

Two workers are enough for the passing on of the sentinel (one passes, one receives);
queues of one make every put wait; batches of two give full batches, batches closed by
the timer and a last batch; three files in flight and two queues of one hold the
walker, the workers and the consumer back at the same time.

* `FilesAndRowsKept`: between the walker's hand and the batch a file is never nowhere,
  until a teardown begins (`NothingLost`), and a row leaves its path only for the path
  its file was moved to (`RowsSurvive`).
* `EachFileOnce`: nor is it in two places.
* `SweepIsExact`: no interleaving with a cancel, a failure or a change of the rules marks
  missing a file the walk could have met, or a row that a rule hid at the sweep
  (`MissingIsGone`); and after the result ok, except below a directory that failed to
  list, each file the walk could meet has a live row, the rows hidden at the sweep are
  as they were before the scan, and every other row is missing (`OkIsExact`). So ok does
  not mean that the rows equal the disk: a hidden row whose file is gone stays as it
  was.
* `NoThreadLeft`: when the outcome is decided all threads are gone (`NothingOutlives`),
  and the one put without a timeout always finds room (`ForwardNeverBlocks`).
* `ImplementsContract`: every behaviour is one of `ScanContract`.
* `ScanReturns`: under fairness the call returns.

Fairness: weak, one condition for each thread. The operating system runs every
thread; each loop of the code takes its next step when it can, and a `put` or `get`
with a timeout is retried. Nothing says that a cancel happens or that a job fails.
The walker's condition covers all its steps together, so it may take a failing branch
every time.

`CHECK_DEADLOCK FALSE` in `scan_safety` and `scan_probe_raises` only: with a raising
probe or listener the program really stops.

### A disagreement between code and documentation

`scan_probe_raises`: `probe_file` is documented never to raise, but hashes the file
(`content_key`, an `os.pread`) outside every `try`. One such exception ends its
worker, then the finaliser, before the end of the results is delivered; the consumer
polls an empty queue for ever, and a cancel, documented to bring the final state "as
usual once it unwinds", does not end the scan.

### What is proved

`ScanPipelineProofs`, for every disk, catalogue, number of workers, bounds of the
queues and set of faults allowed by `WorldAssumption` and `PipelineAssumption`:
`TypeCorrect` (`TypeOK`), `NothingDropped` (`FilesAndRowsKept`), `SweepTells`
(`SweepIsExact`) and `ThreadsEnd` (`NoThreadLeft`), each from the theorems of its
parts (`NoFileLost`, `NoRowDropped`; `NoFalseMissing`, `OkMeansExact`;
`NoThreadOutlives`, `ForwardHasRoom`).

None of the properties is inductive. `IInv` adds what each station implies:

* `WalkerInv`: a finished complete walk has met everything; an incomplete one was
  cancelled.
* `CargoInv`: only files the walk could meet travel.
* `EndInv`: the sentinel of `candQ` is the last thing in it or in one worker's hand, and
  a worker that has finished without a teardown knows that no candidate is left.
  `ForwardNeverBlocks` follows: the queue is empty while the sentinel is in a hand.
* `FinInv`: the sentinel of `resQ` follows the end of the walker and of every worker.
* `ConInv`: where the consumer can be while which threads run.
* `SweepInv`: the sweep starts only when everything visible is seen, until then no row
  of a file the walk cannot meet has been touched but by its move, and what the sweep
  leaves is exact.

The heart is `AllArrived`: at the decision, uncancelled and after a complete walk,
every place a file could be is empty, so by `NothingLost` everything visible is seen.

The same module proves `FilesTravelOnce` (`EachFileOnce`) and `KeepsContract`
(`ImplementsContract`), with two invariants more:

* `OnceInv`: no place holds a file twice, no two places share one, and what travels is
  neither still to be met nor already seen. A step takes a file from one place and puts
  it into one other.
* `StationInv`: a flush has something to write, and the result is written last.

`FlushCommits` is the contract's `Record`, `SweepCommits` its `Sweep`, `FinishCommits`
its `Finish`, a directory the walker cannot read its `LoseSight`; every other step
stutters. That a flush records only what the contract still waits for is `OnceInv`; that
a sweep finds everything visible recorded is `SweepInv`, which rests on `AllArrived`.

Only model-checked: the liveness properties, which TLAPS cannot prove.

## 4. The privileged apply engine

### What is modelled

`PrivilegedApply` is the helper that runs as root, `lw_privileged.py`. Each member of
`Helper` is one invocation, an apply of a surface or an `--undo`; they interleave,
because the window starts a thread per confirmed password and the helper takes no lock.

| Code | Model |
|---|---|
| `build_plan`, `_current_alternative` | `Targets`, `Commands`, `UndoCommands`; `job[p]` with the prior theme, read when the helper starts |
| `write_backups` | `BackUp` per file, `OpenManifest`, `WriteManifest`; `BackupRaises` (outside the `try`) |
| `ContentStep.execute` | `SkipWrite`, `Stage` (the temporary file, one name for all), `Replace` |
| `CopyThrobberStep.execute` | `SkipWrite`, `OpenFrame`, `FillFrame` (in place, so it can be torn) |
| `RunStep.execute` | `RunCommand`, `CommandFails` |
| `apply` | `Applied`; `WriteFails` (caught, to the rollback), `WriteRaises` (not caught) |
| `rollback` | `Unlink`, `OpenRestored`, `FillRestored`, `RestoreFails`, `RunUndoCommand`, `UndoCommandFails`, `RolledBack` |
| `latest_manifest`, `undo` | `StartUndo` (whatever surface was asked for), `StartUndoInVain` |
| a kill, power loss | `Kill`, at any point |

The state is the machine (`files`, `tmp`, `theme`, and the boot image and boot menu as
copies of what they were made from), the backups (`saved`, `manifest`, `stamp`), the
place of each invocation, and history variables for the properties (`was`, `mixed`,
`slipped`, `faults`). `update-alternatives`, `update-initramfs` and `update-grub` are
external: `Effect` and `NoEffect` are what this code relies on.

Left out: pixels, modes, directories, `--dry-run` and the refusals (no change). A
temporary file is written in one step. Two applies never have the same backup
directory and a later one has a later name; `_timestamp` has seconds of local time, so
that this is an assumption about the clock.

### What is checked

* `apply_overlap`: two invocations in every interleaving on any surfaces, two images,
  one fault anywhere. `OriginalKept`; `GeneratedFresh` (no boot image or menu is left
  older than its files, also by overlapping applies, unless one was killed, ended in an
  exception or failed in its rollback); `OkIsShown` for every apply that
  meets no other *on its own surface*. Two overlapping applies of one surface may
  disturb each other, through the temporary file and the copies one takes of the
  other's work: for them only the first two are claimed.
* `apply_in_turn`: three invocations one after the other, two faults. `UndoGivesBack`:
  an undo gives the surface back as it was before the apply it undoes, even if that one
  was killed or ended in an exception. `FailureGivesBack`: so does a failed apply.

Three invocations reach apply, apply again, undo, and kill, undo, undo again. One fault
with overlap and two without are enough to fail in an apply and again in its rollback;
`MaxFaults` and `AtOnce` are the bounds, and the theorems do not depend on them.
There is no liveness: a helper waits for nothing. `CHECK_DEADLOCK FALSE`, because an
invocation that has ended does not start again.

### Disagreements between code and documentation

* `apply_uncaught`: the file's docstring promises a rollback "on any error mid-apply",
  but `apply` catches three classes only; `configparser.Error` and Pillow's
  `DecompressionBombError` escape, and what was written stays. (`--undo` still gives it
  back: `apply_in_turn` has this fault.)
* `apply_twice_undo`: a second splash apply records LinWallpapers' own theme as the
  prior one, and its undo selects that theme and then removes it. The theme that was
  selected before is gone, although the plan announces it as "restored on --undo". A
  second apply that fails ends the same way. `UndoGivesBack` and `FailureGivesBack` leave
  out the theme in just this case.

### What is proved

`PrivilegedApplyProofs`, for any finite set of invocations, any images, frames, faults
and bounds allowed by `ApplyAssumption`: `ApplyTypes` (`TypeOK`) and `NoOriginalLost`
(`OriginalKept`), from `ApplyInductive`. `IInv` has two parts beside the types:

* `PhaseOK`: what the phase of an invocation implies about the manifest it works from.
  Before the first write it is whole and every file of the plan has its copy.
* for every file, `Recorded` (a whole manifest has its original content) or `Untouched`
  (it still has that content, and so has every copy of it).

The argument is `WriteCovered`: a write by one invocation, in an apply or a rollback,
is to a file that some whole manifest covers. If the file was untouched, that copy is
the original, and the file is recorded from then on; manifests are never removed.

The same module proves `NoGeneratorForgotten` (`GeneratedFresh`). It is not inductive:
while an invocation works, the products are stale. `DebtInv` says who answers for that:
a product is fresh, or some invocation `Owes` the generator of its surface, being before
the last command of its plan or of its undo list, or `Excused`: killed, ended in an
exception, or with a failed step in its rollback. The theorem is silent about those.
Nobody who has ended well owes anything. The argument has two
halves: an invocation writes only the sources of its own surface (`OwnSources`), so what
it makes stale it still owes; and the generator is the last command of every plan and of
every undo list (`PlanEnds`), so a debt ends only with it.

And it proves what an apply, a rollback and an undo leave behind:
`UndoRestoresSurface` (`UndoGivesBack`), `FailureRestoresSurface` (`FailureGivesBack`)
and `AnswerIsTrue` (`OkIsShown`), from `WorkInductive`. `WorkInv` follows one invocation
through its plan, and back:

* `Apart`: two invocations that run on one surface are both marked `mixed`, for which
  nothing is claimed. So the files, the copies and the temporary names of an unmixed one
  are its own: `Within` bounds what a step of the others may change, `SurfacesApart` says
  that no two surfaces have a file or a product in common.
* `BookInv`: the theme, and every prior theme written down, is the one of the start, our
  own or none; only applies have manifests.
* `CopyInv`: the copies an invocation has taken, and the prior theme it has read, are
  what it found.
* `StepInv`: the files of the steps done are as the plan wants them, the theme is ours
  once it has been selected, and the product is made of them after the generator.
* `RestoreInv`: the files given back so far are as the copies have them, and the theme
  is the prior one after the first command of the undo list.

Nothing of the safety properties is left to TLC alone; the two expected violations are
its counterexamples.

## 5. Several processes on one catalogue file

### What is modelled

`CatalogueProcesses` has any number of processes (the application, `linwp`, a release
still installed beside a newer one) and the file, its lock and its table of scans. One
action is one SQLite transaction, one statement outside a transaction, or one call on
the lock file; between two of them every other process may run.

| Code (`db.py`, `ingest.py`) | Model |
|---|---|
| `open_catalogue`, `connect` | `Precreate`, `Connect` |
| `run_migrations`: read `user_version`, back up, apply one by one | `ReadVersion`, `Backup`, `Migrate` |
| `seed_builtins` | `Seed` |
| `recover`: count, probe of the lock, update | `RecoverCount`, `RecoverProbe`, `RecoverUnlock`, `RecoverUpdate` |
| `scan_lock`, `_begin`, `_finish` | `TakeLock`, `Begin`, `Finish`, `ReleaseLock`; `JobFails` |
| the end of a process | `Exit`; `Dies` anywhere, which gives its lock back |

A scan between its first and last job is `ScanPipeline`'s; the text of a migration is
data. SQLite and `flock` are external: a transaction is atomic, and the lock of a dead
process is free.

### What is checked and proved

`catalogue_processes`: two processes, one of a release with two migrations and one that
knows only the first; four opens, two scans, one death. Two openers suffice for every
pair of steps to be separated; the fourth open is the one that recovers after a death
during a recovery.

| Property | Says | Theorem |
|---|---|---|
| `MigratedOnce` | each migration is applied once, in order, from a backup or an empty file | `EachMigrationOnce` |
| `LockGuards` | one scanner at a time (`OneScanner`); processes that open at once do not leave the abandoned scans to one another (`AbandonedAreMarked`) | `LockHolds` |
| `LiveMarkedOnlyLate` | a live scan is marked interrupted only if it took the lock after the probe | `LiveScansKept` |
| `ResultStands` | the result a scan records overrides a recovery and is final | `RecordedResultStands` |
| `LockComesBack` | a lock that is held is given back | model-checked |

The theorems hold for any processes, releases and bounds. `IInv` adds to the properties
that each station between the lock and its release means that the process is the holder
(`Owned`); what a process in the middle of migrating knows of the version
(`Migrating`); whose row is whose, and that rows which are over stay over (`OwnRow`,
`Closed`); and for a recovery, what it counted and what has happened since its probe
(`Duties`, `Late`). The code has the gap `Late` speaks of: `recover` probes the lock,
gives it back, and marks *every* unfinished scan in a later statement (`db.py:345`), so
that a scan begun in between is marked `interrupted` while it runs; its own last job
corrects that.

Fairness: weak, of the steps of each process once it has begun to open or to scan
(`Runs`). Nobody must open, scan or exit, hence `CHECK_DEADLOCK FALSE`.

## 6. Rescans on a changing disk

### What is modelled

`Rescans` is `ScanService.scan` over several roots, again and again, with a disk that
changes at any moment: files created, renamed, linked, edited and deleted, a drive
unplugged, mounted elsewhere or mounted over another root's folder, a rule added and
removed.

| Code | Model |
|---|---|
| `reconcile_volumes` | `Reconcile`: heals the paths of a drive mounted elsewhere; the roots that are offline |
| `_begin`, the loop over the roots | `Begin`, `SkipOffline`, `LoadKnown` (`_KnownFiles` of one root) |
| `walker.walk` | `Visit` (one directory entry: skipped, unchanged, moved, candidate), `FailDir` |
| `probe_file` | some time later, of the file that is there then: `ProbeOpens` (its key is taken from the open file), `ProbeDecodes`, then `ProbeStores` (hash, thumbnail) or `ProbeSkips` (no time left, cancelled, or the store failed) |
| `ThumbCache` | `Thumbnails`: `Read`, `Store`, `Evict`, the last at the end of a scan that is ok |
| `_flush` | `Commit`; `CommitFails` on `UNIQUE(path)` |
| the sweep of a root, `_finish` | `Sweep`, `Finish` |
| a cancel, an error, a kill | `Stop` |
| the rule jobs | `AddRule`, `RemoveRule`, `Reapply` |

A batch has one item, which admits every order larger batches commit in. A file is an
inode with a version of its data; a row has the path, the inode, the version its file had
when it was opened, the version its dimensions were read from and the key of its
thumbnail. A thumbnail's key is a hash of the content, here the inode with the version:
no two files have the same content. The device number of a drive is taken to survive a
remount, and a root on a file system without stable inodes has rows known by path alone.
Nothing under `src/` stores a `volume_id` with a root (`sources_vm.py:497` and
`cmd_scan.py:45` leave it out), so roots on drives and their healing are as the tests of
`ingest.py` make them. Two mounts of one UUID are not modelled; that roots are removed
is in `RuleBook`.

### What is checked

`rescans`: two scans, two changes, two roots in the home (one at a folder the drive may
be mounted over), one drive, three files, two names. Two changes make a rename with its
return, a rename with a replacement, a link with an edit, an unplug with a mount
elsewhere; two scans make a row wrong and meet it again. Two thumbnails fit the cache and
the third evicts.

* `VisibleIsThere`: after a scan that ended well, during which nothing changed, a
  visible row of the roots it walked is that very version of a file that is at its path
  and that no rule hides - whatever happened *before* it, in the middle of another scan.
  It says nothing of the roots on drives that are not there: a moved row keeps its
  `root_id` (`ingest.py:861`), so that a row under such a root may be anywhere.
* `FilesAppearOnce`: after such a scan each file that is in a root it walked, under a path
  no rule hides, has a row in that folder which is not missing and whose path no rule
  hides (a moved row may bear the flag of its old path), and no two visible rows of the
  folder are of one file: however often it is linked, wherever it was before, and in
  whatever order its names are met. One drive that was mounted over the root of another
  while that was walked has left its files to that root, whose rows are missing when that
  drive is unplugged; the property says so.
* `FreshData`: whatever happens between the stat, the steps of the probe and the commit, a
  row that will pass for unchanged shows the dimensions and the picture of that very
  version, unless its thumbnail is *spoilt* (below); and the thumbnail a row names is in
  the cache before the row, until it is evicted.
* `DrivesComeBack`: once an undisturbed scan of everything has given each file its row,
  no scan adds another while files are edited or deleted, rules come and go, and drives
  are unplugged at any moment and mounted elsewhere between two scans: `_heal_paths` and
  the upsert by path find the rows again. A drive mounted over a folder *while it is
  walked* is left out, since the code does add rows then: at once when the folder's file
  system has no stable inode numbers, and otherwise when the drive is back at its own
  place and its file system has none.

What the code does and these properties do not claim: a moved row keeps its old
`root_id`, so that the next pass over the new root does not know it, and a pass over
the old one marks it missing until the new one has been walked (the docstring of
`_KnownFiles`, `ingest.py:197`, hopes otherwise); a file renamed over a catalogued path
makes every later scan that meets it fail on `UNIQUE(path)`; a moved row keeps the flag
of its old path until the rules are reapplied; a remounted drive whose paths are taken
makes `reconcile_volumes` fail, and with it every scan. A file edited in place between
its decoding and its hashing (`probe.py:290`, `:298`) leaves the picture of the old
version under the key of the new one, and since an existing key is a no-op
(`thumbs.py:117`) it stays: the next scan corrects the row and not its thumbnail. An
evicted thumbnail of a file that does not change is never made again, for the walker
compares device, inode, time and size only. No liveness is claimed here;
`ScanReturns` and `CloseReturns` have it.

### What is proved

`RescansProofs`, for any roots, drives, mount points, files, names, links and hidden
paths, and any number of scans and changes, every property of the run: `TypeCorrect`
(`TypeOK`), `DataIsFresh` (`FreshData`), `VisibleRowsAreThere` (`VisibleIsThere`),
`FilesAreCountedOnce` (`FilesAppearOnce`) and `RowsComeBack` (`DrivesComeBack`).

* `TypeInv` adds to the types that a loaded row is still in the table, that a moved item
  names one, and that no two rows share a path. The last rests on the healing of a
  drive's paths, which is a recursive function over the rows: by induction (`Iterates`,
  `HealStep`) each row healed keeps the paths apart, because the code stops at the first
  that is taken.
* `FreshInv` bounds what was read between two versions: never older than the key it is
  stored under, never newer than the file (`Between`). Versions only grow, so once the
  key is that of the file, what was read is of that very version. It also follows each
  picture to the cache: what a row or an item names is held, or was evicted.
* `WalkInv` is what a scan that nothing has disturbed has established so far. Its rows
  are right (`DoneInv`): those it has met, and the visible ones of the roots it has
  finished. Rows it has not met are as they were loaded (`LoadedInv`), an item on its
  way is the file at its path, and a moved one has left an empty place (`FoundInv`).
  Any change of the disk, a drive or the rules ends the claim until the next scan begins
  (`Disturbed`), and there everything starts from the rows alone.
* `QuietOnceInv` follows the files of such a scan instead of the rows. Each file the walk
  has met is on its way or has its row, and not both (`MetInv`), so that of one file one
  row per folder bears the scan's number (`OnceInv`); a finished walk has left none out
  (`WalkedInv`) and marked no row that bears the number (`SweptInv`). An unchanged item
  still has the row it was recognised by (`SameInv`), because nothing else the scan does
  can take that row's path. `DiskInv` says which disk the file of a row is on, and that
  the items of a walk are in the folder that is walked.
* `BackInv` is the reason that drives come back. Each place with a file is *housed*: a
  row has its path, under a root of the same disk. Healing a drive takes its housed files
  along (`HealHouses`, by induction over the roots), and what a walk finds is at its own
  place (`FoundAtHome`), so that each batch meets the row of its path. A move that would
  take that path from it fails on `UNIQUE(path)` instead.

## 7. One session of the scanner's window

### What is modelled

`AppSession` is the main loop with its view models, the pool, the writer thread, the
change feed and the shutdown. A job is the list of its steps (`Script`); a step that
writes hands a function to the writer and waits for it.

| Code | Model |
|---|---|
| `threads.run_in_worker` | `Given`, `Begin`, the end of a job and its answer for the main loop |
| `CatalogueWriter.submit`, the thread, `close` | a test of `closed` and a put as two steps; `Write` (connect, a job that commits or raises, the sentinel, the drain); `Seal`, `PutSentinel`, `Join` |
| `GLib.idle_add`, `ChangeFeed` | `idle`, first in first out; events coalesced |
| `BrowseVM` | refreshes numbered, the first of which reads its specification on its own thread; answers accepted when newest |
| `ScanVM` | `start`, `cancel`, progress and end, with the state *shown* as its guard |
| `SourcesVM`, the undo toast | changes in two jobs, a change and its reapplication; Browse's in one |
| `main.py`, `services.close` | cancel, seal, sentinel, join for five seconds, shutdown of the pool |

The thumbnails, the selection, the test tab and the snapshot of the Sources page (which
has no generation check, `sources_vm.py:433`) are left out.

### What is checked

`app_session`: a pool of two (four in the code: two are enough for one to overtake the
other, and for all to be stuck), one image, two searches, and eight sessions, each a
budget of searches, edits, scans, a new source, a look at the page, a close and a fault
of the writer.

* `RulesApplied`: the flags are those of the rules, but between the two jobs of one
  operation, or after the second of them failed.
* `BannerTells`: once callbacks on their way have run, the banner runs while a scan does
  and its Cancel reaches that scan - unless a second start came before the first was
  shown, which `start` (`scan_vm.py:89`) does not notice.
* `BrowseCatchesUp`: Browse comes to show what the announced writes left, for the search
  chosen last - unless all threads wait for a dead writer, or the first load stored its
  default over a newer choice (`browse_vm.py:249`), or a failed reapplication went
  unannounced.
* `CloseReturns`: closing the window ends - unless a job was put behind the sentinel
  (`ingest.py:107`: the put is outside the lock `closed` is tested under), or the
  writer's thread died of its connect (`ingest.py:112`).

These exceptions are written in the properties as `doubled`, `raced`, `torn` and
`Stuck`: each is a set of states the code really reaches, and outside them the claim
holds. What a sweep marks missing is announced to nobody, so `Content`, what Browse
must catch up with, does not have it.

Fairness: weak, of the pool (one condition: some thread goes on), of the writer, of the
main loop and of the closing. The user owes nothing, and a fault need not happen.
`CHECK_DEADLOCK FALSE`: a session ends.

### What is proved

`AppSessionProofs` proves all safety properties for any images, searches, size of the
pool and sessions: `FlagsFollowRules` (`RulesApplied`), `SessionTypes` (`TypeOK`) and
`BannerTrue` (`BannerTells`). For the first, the inductive invariant `SessionInv` adds what each job may have left to do,
by its kind (`Remains`): an operation of the Sources page that wrote once has its
reapplication next. It adds that the writer's queue holds jobs that wait for it, each
once, so that a commit is the next step of a job that has one, and never of one that
failed; and that a pooled job, which the shutdown drops, has written nothing yet.

`TypeInv` adds the other half of that queue: whoever waits is in it, and the sentinel is
there once, put by the close. `BannerInv` says, until a second start came too early, what
the callbacks on their way will make of the banner (`Tells`): the end of a scan is the
last that is heard of it, and that scan is over; while neither a scan nor an end is on its
way, nothing else is and the banner is off; and of a scan that is not over the banner
tells, or a callback on its way will make it.

## 8. Rules, sources, displays and verdicts

### What is modelled

`ExclusionMatcher` has the compiled matcher of `exclude.py` as operators: `Compile`, the
greedy matching of a glob by its places (`GreedyPlace`, `GlobMatch`), the judgement of a
path alone (`Judge`), from its directory (`JudgeUnder`) and of a stored image
(`MatchFile`, `MatchInode`). A path is a sequence of names; a segment of a pattern is
the set of names it matches. `DisplayDetection` has the three probes, the correction of
GDK's sizes by DRM's and the declared displays; `IdealJudgement` has `evaluate` in
integer arithmetic, the SQL of `rebuild` and the segments as sets of rows; no row is
missing in this module, so that the filter on `missing` has nothing to do. A monitor of
which GTK 3 knows no model has a fixed name here, where the code makes one of its place
(`monitor-0`, `gdk_displays.py:93`). `ScanRoots`
reads the tree of mounts (`ParseFindmnt`), finds the mount of a path (`MountFor`) and has
the three sources of proposals and their union (`ProposeAll`).

`RuleBook` has the tables and every operation on them: `StoreRule`, `DeleteRule`,
`SwitchRule`, `SwitchGroup`, `AddRoot`, `SwitchRoot`, `RemoveRoot` with `Reapply` as a
job of its own, `Exclude` and `UndoExclusion` of Browse in one job each, a scan that
begins, reads the rules and later stores what it met, `Rename`, `Edit`, and `Restart` at
another release. `Judgement` adds the desktop with its mounts and folders, the saved
displays, the verdicts and pins: `AddProposed`, `ScanMeasures`, `ScanStarts`,
`ScanStores`, `ToolMeasures`, `ToolStores`, `SetPin`, `Replug`, `Reopen`.

### What is checked

`judgement`: five paths, two releases of the built-in groups, five rules the user may
ask for and two that are refused, four desks (a laptop; docked, with drives and a share
mounted over a disk; closed, with the home on the network; without a session, and
`findmnt` failing); any two changes from seven beginnings. Each property compares the code
with a definition made for the purpose:

* `FlagsFollowRules`: when no reapplication is owed, an image is hidden if and only if a
  rule keeps it out (`Excluded`, `KeepsOut`, `PatternCovers`, `Covers`: the meaning of
  the rules without a matcher).
* `WalkAgrees`: the walk meets an image if and only if its stored flag would be clear.
* `PageTells`: what the Sources page announces is so. A preview counts what the rule, once
  added, then hides (`PreviewTells`). Each picture folder is proposed, or within reach of
  the walk of a source or proposal; each volume is proposed; a path is proposed once, on
  only if it is a picture folder and not on the network, and with the volume that holds it
  (`ProposalsTell`, with the last mount over a path as the one that holds it). A picture
  folder on this machine may still be off: one inside another, as
  `/media/u/Wallpapers` in `/media` where that is the pictures folder, is proposed as the
  volume it also is.
* `SegmentsTell`: the segments and their counts, by the SQL over the stored table, are
  what `evaluate` says of the pixels and displays there are now.
* `TargetsAreTheScreens`: the targets are the screens of the desktop as it was measured
  last, with the displays declared then that no screen equals in size, and one of them is
  primary. The first half is claimed when a tool could tell (`ToolsTell`): not without a
  session, with two connectors of one name (the probes keep the first), with a mode of no
  plausible size, or, for the window, with GTK 3, with a screen that is not in its native
  mode, or with one so nearly square that the whole numbers of GDK at a fractional scale no
  longer show which side is the longer (`ShapeShows`).

What the code does and these do not claim: nothing calls `includes_under`, although
`exclude.py:926` says the walker starts a walk at each include; adding a source, or a
new release's rules, reapplies nothing, although `sources_vm.py:5` says that every write
re-evaluates; a `~/` pattern scoped to a source below it is judged in two ways
(`AskedTwoWays`); a folder inside another proposed one is dropped because "that walk
reaches them anyway" (`roots.py:294`), which the walk does not when the folder is a mount
of its own, and `mount_for` finds mounts that a later one above them hides; ids of
deleted rules are used again, so that an Undo may delete another rule; `add_rule` hands back a disabled rule unchanged; a measurement made
earlier may be stored later; removing a source leaves its images shown, and fails a
scan under way on its foreign key. No caller sets a pin or the threshold, or stores a
rule bound to a volume: `SetPin` is a step because `ideal.py` offers it, the threshold is
chosen at the start, and rules bound to a volume are left out.

A user may stop at any time, hence `CHECK_DEADLOCK FALSE`.

### What is proved

`JudgementProofs`, for any releases, rules, sources, images, folders, desks and questions,
and any number of operations: `TypeCorrect` (`TypeOK`), `FlagsAreTrue`
(`FlagsFollowRules`), `WalkIsTrue` (`WalkAgrees`), `SegmentsAreTrue` (`SegmentsTell`),
`TargetsAreTrue` (`TargetsAreTheScreens`) and `PagesAreTrue` (`PageTells`): every property
of the run. Two theorems of `RuleBookProofs` are about the operators alone: `MatcherMeans`, that the compiled matcher
says of a stored image what the rules mean, and `SeededOnce`, that after the seeding of a
release a start at the same release has nothing to seed.

* `IInv` is `BookInv` - types, references between the tables, one row per image - with
  `FitRight`: the verdicts stored are those of the displays there are. It holds because
  whatever writes a display or an image's size rebuilds the rows concerned before it
  ends. `EvaluateIs` shows that the integer arithmetic of the SQL is that of `evaluate`,
  and `QueryIs` that its joins give the segments' definitions; with them `FitRight` gives
  `SegmentsTell`.
* The walk. It stops at a folder exactly when the matcher says so of the folder asked
  alone (`FolderStops`); an include opens the way to what it covers (`WayIsOpen`). So an
  image is met if and only if no judgement on the way down keeps it out, which is what
  the file's own judgement says.
* The matcher, against the meaning. The greedy search of `exclude.py` puts each run of a
  glob at the first place that fits. `LeastCovered`, by induction over the runs, is why
  nothing is lost by that, and `GlobIs` that the places then exist exactly when the
  pattern covers the path segment by segment. `JudgedClear` is that the verdict handed
  down from the directory is the one the path gets alone, `FoldersMean` and `FilesMean`
  the same for rules on folders and on files, `SuppressedIs` for the built-in patterns an
  include lifts.
* The seeding. A group is found by its key, a rule by its kind and text: `GroupSeeded`
  and `RulesSeeded` say that each is left as the release wants it, `OtherStaysSeeded`
  that seeding the next one leaves the earlier ones so. `SeedNeeded` is then false.
* The flags. `FlagInv` adds three facts to `IInv`: a key names one group, the built-in
  groups stay seeded (`SeedPart`; the user's own operations neither remove nor change
  what is locked), and, while no reapplication is owed and no rule changed under a scan,
  each row that is not of such a scan carries the hit of the matcher (`FlagsRight`).
  The last is inductive because every change of rules owes a reapplication, computes the
  flags in the same job, or is one nothing recomputes them for (`stale`). `VerdictsMean` connects the hit with
  `Excluded`. `SeedPart` is needed for `Restart`: without it a start at the same release
  could change the rules and owe nothing.

* The screens. `ScreenInv` adds to `IInv` that a measurement, whether stored last or held
  by a scan or a tool, has found the screens of its own desktop, each name and size once
  and one of them primary (`Measured`), and that the connected rows of the table are the
  targets of the measurement stored last (`Lists`). The desktop may change and another
  measurement be stored in between, which is why it speaks of the desktop a measurement
  was made of. `DetectTells` is the argument about the probes: xrandr shows a screen as it
  stands (`XrandrShows`); GDK's rounded sizes keep which side is the longer
  (`LogicalKeepsShape`, `GdkShows`), so that DRM's mode turned to that shape is the
  screen's size (`DrmShows`, `MergeShows`); the first probe of a name wins (`FirstWins`),
  and a declared display is left out exactly when a screen has its size (`TargetsShow`).
  `SnapshotLists` follows the storing of the targets one by one.
* The previews. They ask the matcher compiled with one more rule, the candidate
  (`Gains`). A judgement that was nobody's is then nobody's or the candidate's
  (`JudgeJoins`, from the folder rules by `FolderJoins`, from the patterns by
  `PatternsJoin`, down from the directory by `DescentJoins`), so that the images the
  candidate wins (`Preview`) are those that would be hidden and now are not. This needs
  `FlagsRight`: a stored flag that were not the matcher's could not be compared with it.
* The proposals. `HolderIs`: where no later mount is over a deeper earlier one, the mount
  `mount_for` finds is the last one over the path, since of two targets over one path the
  shorter is over the longer (`BothUnder`). `Outermost`: a folder is within one that
  `_without_nested` keeps. `FirstProposes` and `ProposedOnce`: the union gives each path
  one proposal, that of the first source. With these the property follows from the
  desktop alone, whatever is stored; it needs no more of the invariant than that the
  desktop is one of `Desks`.

The assumptions are those named in the modules (`MatcherAssumption`, `BookAssumption`,
`JudgementAssumption`, `DetectionAssumption`, `DesktopAssumption`). They say what the
constants are - paths are sequences of names, `**` is not the segment of one name, a release gives
each group its own key, an inode is that of one image, a connector has a name and none is
named as a declared display, the declared displays have different names, `findmnt` prints
mounts with absolute targets -, and bound none of them.

## 9. The window of the applying program

### What is modelled

`DesktopBackends` has, for each backend, the keys it writes one subprocess after
another, what it captures before, what it gives back, and what each monitor then shows;
a composite is a file named by image, fit and target, written over. `Library` has the
index, the temporary file both processes share by name, the window's list and tiles, and
the add command; `ContextMenus` has the four providers and Thunar's shared file, which
Thunar writes too. `Desk` has the Screens page and its cards, the three ways to apply,
the toasts, the password dialog with helpers that install, refuse, break, time out or
exit (one that breaks has failed with its files in place, as `apply_uncaught` shows), the
record of what is installed, and a restart; it composes the others.

The main loop runs one handler at a time, so that a handler is one action, with every
refresh it causes. The helper's thread, the add command, the saves of both processes,
the merge of Thunar's file and the monitor of the data directory interleave with it.
Xfce takes every property that contains the connector's name (`Matching`,
`xfce.py:64`); the workspaces of one monitor are one key. feh's saved script may or may
not write its own file anew when it is run (`ScriptSets`).
All monitors have scale 1 (`layout_bounds` mixes scales, `monitors.py:87`), lists of
entries are sets, MATE stands in Cinnamon's shape. Deleting an image file, the toasts
without a button and the errors of a preview are left out.

### What is checked

`desk`: two monitors, of which one contains the other's name, two images and the built-in
one, and eight lines of sessions - each
a desktop (GNOME, Cinnamon, Xfce, i3 with feh, Sway without a backend) and a budget of
clicks of each kind. One line is about three applies and an Undo on every desktop, one
about two applies and two Undos with feh, one about applies with a fault and a choice made elsewhere, one about the cards, one about
privileged applies and a restart, two about the library beside the command, one about
the menu and Thunar.

* `WindowTells`: each card shows what its Apply would send (`PreviewIsApplied`); what is
  recorded as installed is (`RecordTells`); the switch of the menu tells what is there
  (`SwitchTells`), also after a write failed.
* `FilesKept`: the index is what was added and not removed, also in the middle of a save,
  and a window told of it shows it (`LibraryKeeps`); Thunar's file keeps the user's
  actions (`MenuKeepsOthers`).
* `FitsKept`: the fit of a surface changes by a choice of a fit, save in one case: an
  Apply leaves its card's fit in the state and tells nobody (`screens.py:559`), so that
  the next refresh gives it to every card.
* `UndoGivesBack`: an Undo whose subprocesses all ran gives every monitor the picture it
  had before *that* apply, whatever was applied since. Exceptions: a composite rewritten
  since under the same name; on Xfce the style, and an image that could not be read; on
  feh a root that its `.fehbg` had not drawn: none was there, or an Undo ran a script that
  says `--no-fehbg`, whose file stays at the picture undone, so that the next apply
  captures that one.

Exceptions in the others, all reached by the code: the library after two saves crossed,
or one was made from a list the other process had changed (`raced`,
`collection.py:133`, `172`); Thunar's file after Thunar wrote during a merge, or when it
could not be read (`crossed`); the switch after Thunar itself brought the entry back or
dropped it (`undone`); the record of a surface whose helper was given up, which may
install all the same, or failed with its files in place, or where two helpers overlapped
(`unknown`).
What it has no property for: the badge of a card is compared with the global image and
goes stale after an Undo; an Undo overwrites a choice made elsewhere; after a failed
uninstall the switch's handler calls itself and installs the entry again
(`settings.py:102`).

Sessions end, hence `CHECK_DEADLOCK FALSE`.

### What is proved

`DeskProofs` proves all properties of the run, for every set of monitors, of images, of
offers, of custom actions and of sessions: `SharedFilesKept` (`FilesKept`), `WindowTrue`
(`WindowTells`), `SurfacesKeepFits` (`FitsKept`), `UndoRestores` (`UndoGivesBack`) and
`WindowTypes` (`TypeOK`). It assumes that no connector is called `all`, `lock`, `login`,
`splash` or `grub`, the other keys of the same dictionaries, and that `Matching` lists
connectors (`MonitorsAssumption`); that
the built-in image is a picture, and the unusable file, the stock background, `None` and
the composites the program makes are none; and that the program's entry is none of the
user's (`DeskAssumption`).

None of the properties is inductive.

* `LibraryInv` says what is known in the middle of a save: the index is never the
  temporary file; a save that is alone has the temporary file to itself and carries the
  index with its own change; the window's list is the index once it has been told.
* `MenuInv` says that a change of Thunar's file under way has read what is still there,
  unless Thunar wrote since; `SwitchInv`, that it is a change to what the switch shows.
* `RecordInv` says, of a surface that is not in doubt, that one installation at most is
  on its way to the record - in a helper that is not heard yet or in a callback that
  waits for the main loop, never in both -, that it is the last one, and that with none on
  its way both the record and its file tell the last one. The file is needed because a
  restart takes the record from it.
* `PreviewInv` is `PreviewIsApplied` with the shape of the cards. Each handler ends in
  one of four ways - all cards built again, one refreshed, the fit of one changed, none
  touched -, and the lemma `PreviewSteps` says which: the proof is that no handler that
  changes the image, the surfaces' own images or the fits leaves out the cards.
* `FitsInv` is what `FitsKept` needs about requests under way: a privileged surface whose
  fit was never picked was last sent at `fill`, whether that request is in the dialog, in
  a helper, in a callback or in the record, so that what the record seeds the fits with
  (`SeedInv`) is what the surface had.
* `DesktopInv` is the argument for Undo. A composite is one file for all applies, so a
  setting that names one shows what was last made under that name. `Standing` says that
  such a setting is marked with the composite it was given and that its file is in the
  cache; `GivesBack`, that each toast on offer still gives what was shown before its
  apply, unless a composite it names was made again since. The subprocesses of an apply
  or an undo may stop after any one of them (`Ends`), and both survive that. The apply to
  all surfaces is a recursive function over the surfaces, followed by induction.
* `MineInv` says that the lists of the library hold pictures of the user and never the
  built-in one; `BudgetInv`, that clicks are spent one at a time.

## 10. Runs

| Run | Distinct states | Kind of properties |
|---|---|---|
| `scan_safety` | 500,072 | invariants, refinement |
| `scan_returns` | 288,671 | liveness, deadlock |
| `apply_overlap` | 719,280 | invariants, action property |
| `apply_in_turn` | 1,344,208 | action properties |
| `catalogue_processes` | 204,181 | invariants, action properties, liveness |
| `rescans` | 1,733,909 | invariants, action property |
| `app_session` | 268,937 | invariants, liveness |
| `judgement` | 21,776 | invariants over computed verdicts |
| `desk` | 236,381 | invariants, action properties |
| `scan_probe_raises`, `apply_uncaught`, `apply_twice_undo` | | expected to be violated, see sections 3 and 4 |

Every property of a passing run has a mutant: a definition of the model changed the way
a slip in that code would change it, under which TLC finds the property violated.
Mutants stand before the definition they change, marked `Mutant`.

Bounds are constants of the models (`MaxFaults`, `MaxOpens`, `MaxScans`, `MaxDeaths`,
`MaxChanges`, `Sessions`, the lengths of queues); nothing else limits a behaviour. No
theorem uses the value of one.

## 11. What is proved and what is only checked

Proved, for every value of the constants that satisfies the named assumptions:

* `ScanPipeline`: types, safety, and that it implements `ScanContract` (section 3);
* `PrivilegedApply`: types and every safety property (section 4);
* `CatalogueProcesses`: all but `LockComesBack` (section 5);
* `Rescans`: types and every property of its run (section 6);
* `AppSession`: types, `RulesApplied`, `BannerTells` (section 7);
* `Desk`: types and every property of its run (section 9);
* `Judgement`: types and every property of its run, with the meaning of the matcher and
  of the seeding they rest on (section 8).

Only model-checked: liveness (`ScanReturns`, `CloseReturns`, `BrowseCatchesUp`,
`LockComesBack`), which the proof system does not reason about under fairness. Assumed
rather than proved is one fact about data: that the mounts read from a tree of `findmnt`
have the fields and types of a mount (`DesktopAssumption`); the tree is flattened by a
fold of the community modules, whose result for every input would need induction over
data. TLC evaluates it for the desktops of the run.

About induction. The library states it over a predicate given as a parameter, which no
prover here can instantiate. `RuleBookProofs`, `RescansProofs` and `DeskProofs` each state
what they need with a set in the place of the predicate (`SetInduction`), and from it how to unfold a recursive function
over a finite set (`Iterates`, `Repeats`, `StaysIn`), that a finite set of numbers has a
greatest one, that its elements can be numbered in order (`RanksAre`) and that any finite
set can be listed. That is enough for the healing of a drive's rows, the apply to all
surfaces, the seeding of the rules and the runs of a glob.

## 12. Not modelled

* The larger thumbnails and `clear`, which have no caller, and the temporary files a
  killed store leaves behind.
* The decoding in the probe, imaging and composition of pixels.
* The text of SQL, paging, sorting and text search; the text of the migrations.
* Parsing the text other tools print (`findmnt`, `xrandr`, sysfs) and of arguments;
  printing, wording, layout and widgets of GTK.
* The snapshot the Sources page shows while it is older than the catalogue.
* An exception of the progress listener while the walker is blocked (`ingest.py:830`) is
  in `ScanPipeline` as a fault, and the safety properties hold with it; that such a scan
  comes back is not claimed, since it does not. Two applies within one second share a
  directory of backups (`lw_privileged.py:545`): excluded by assumption, see section 4.
