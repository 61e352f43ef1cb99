------------------------------ MODULE Rescans ------------------------------
(***************************************************************************)
(* Scan after scan over several roots while the disk changes: what the     *)
(* image table makes of renamed, linked, edited and deleted files, of      *)
(* drives that are unplugged or mounted elsewhere, and of a rule that is   *)
(* added or removed meanwhile (src/src/catalogue/ingest.py and             *)
(* src/src/scanner/walker.py; the rule jobs are those of the Sources page).*)
(*                                                                         *)
(* ScanPipeline has the threads and queues of one root's pass; here a pass *)
(* is its effects: the snapshot of the known files, one visit per          *)
(* directory entry in any order, the three steps of the probe of a         *)
(* candidate some time later, and its batch some time after that.  A batch *)
(* has one item, which admits every order the larger batches commit in.    *)
(* Every probe that can open its file decodes it, header and pixels in one *)
(* step; no two files have the same content, and an edit keeps the length  *)
(* of the file (one that does not gives a key nobody asks for).  A row     *)
(* names its thumbnail while thumb_status is 'ok'.                         *)
(***************************************************************************)
EXTENDS Thumbnails, FiniteSets

CONSTANTS
    HomeDir,     \* roots on the system disk, each named by its path
    Volume,      \* drives with a root each, found again by UUID
    Stable,      \* roots on file systems with stable inode numbers
    MountPoint,  \* where a drive may be mounted; a HomeDir when it hides one
    Name,        \* file names
    FirstMount,  \* where each drive was mounted when it became a root
    Scanned,     \* entries of FirstTree the catalogue holds at first
    FirstTree,   \* what is on the disks at first: a file or None at each entry
    File,        \* inodes, each on one device
    DiskOf,      \* DiskOf[f]: the drive of f, or Home for the system disk
    Home,        \* the system disk; None is no file, no mount point
    RootOrder,   \* the roots in the order of their ids
    Hidden,      \* the paths the user's rule covers
    Requests,    \* the sets of roots scans are asked for
    MaxChanges,  \* bound: changes of the disk, the mounts and the rule
    MaxScans     \* bound: scans begun

Root == HomeDir \cup Volume
Dir == HomeDir \cup MountPoint
Path == Dir \X Name
Place == DOMAIN FirstTree  \* <<root, name>>: an entry, wherever its drive is mounted
Stamp == 0 .. MaxChanges   \* mtime and size of a file, as one version number

ASSUME DiskAssumption == DiskOf \in [File -> Volume \cup {Home}]
ASSUME MountAssumption ==
    /\ FirstMount \in [Volume -> MountPoint \ HomeDir]
    /\ \A v, w \in Volume : FirstMount[v] = FirstMount[w] => v = w
ASSUME ScannedAssumption ==
    /\ IsFiniteSet(Scanned) /\ Scanned \subseteq DOMAIN FirstTree
    /\ \A e \in Scanned : FirstTree[e] # None
ASSUME RequestAssumption == Stable \subseteq Root /\ Requests \subseteq SUBSET Root
ASSUME TreeAssumption ==
    /\ Place \subseteq Root \X Name
    /\ FirstTree \in [Place -> File \cup {None}]
    /\ \A e \in Place : FirstTree[e] # None =>
         DiskOf[FirstTree[e]] = IF e[1] \in Volume THEN e[1] ELSE Home
ASSUME NameAssumption ==
    /\ {Home, None} \cap (Root \cup MountPoint \cup File) = {}
    /\ Volume \cap (HomeDir \cup MountPoint) = {}
    /\ None \notin File \X Stamp
ASSUME OrderAssumption ==
    /\ RootOrder \in Seq(Root)
    /\ \A r \in Root : \E i \in DOMAIN RootOrder : RootOrder[i] = r
ASSUME HiddenAssumption == Hidden \subseteq Path
ASSUME BoundAssumption == MaxChanges \in Nat

VARIABLES
    tree,     \* tree[e]: the file at entry e, or None
    stamp,    \* stamp[f]: the version of f
    at,       \* at[v]: where v is mounted, or None
    rootPath, \* root.path
    rows,     \* the image table: rows[id]
    rule,     \* the rule is stored
    due,      \* a rule change was committed and its reapply job was not
    pc,       \* "idle", "reconciled", "load", "walk"
    left,     \* roots of this scan not finished
    offline,  \* volume roots without a mount when this scan began
    matcher,  \* the rule as compiled for this scan
    known,    \* the rows when this root's pass loaded them
    todo,     \* names of this root not visited
    met,      \* files_seen of this root's walk
    failed,   \* the root could not be listed
    items,    \* candidates, results and unchanged paths on their way
    thumbs,   \* the thumbnail cache
    scans, changes,  \* spent bounds
    \* history
    quiet,    \* no change, and no failure, since the first job of the last scan
    scope,    \* roots that scan was asked for, while quiet
    settled,  \* every file got a row, none moved since, and no drive during a scan
    spoilt,   \* keys stored with pixels decoded before the file was edited
    evicted   \* keys evicted

world == <<tree, stamp, at>>
pass == <<known, todo, met, failed, items>>
scan == <<pc, left, offline, matcher, pass, scans>>
cache == <<thumbs, spoilt, evicted>>
vars == <<world, rootPath, rows, rule, due, scan, cache, changes, quiet, scope, settled>>

Disk(r) == IF r \in Volume THEN r ELSE Home

\* What a path leads to now: a mounted drive hides what was there.
Mounted(d) == {v \in Volume : at[v] = d}
Listable(d) == d \in HomeDir \/ Mounted(d) # {}
FileAt(p) ==
    LET e == IF Mounted(p[1]) = {} THEN p
             ELSE <<CHOOSE v \in Mounted(p[1]) : TRUE, p[2]>> IN
    IF e \in Place THEN tree[e] ELSE None

Ids == DOMAIN rows
RowsAt(p) == {i \in Ids : rows[i].path = p}
Key(row) == <<row.file, row.stamp>>

\* Mutant: the inode for a key.
KeyByInode(f, version) == <<f, 0>>

\* content_key: a hash of the content.
ThumbKey(f, version) == <<f, version>>

-----------------------------------------------------------------------------

Init ==
    /\ tree = FirstTree
    /\ stamp = [f \in File |-> 0]
    /\ at = FirstMount
    /\ rootPath = [r \in Root |-> IF r \in Volume THEN FirstMount[r] ELSE r]
    /\ rows = LET Row(e) ==
                 [path |-> <<rootPath[e[1]], e[2]>>, root |-> e[1],
                  file |-> FirstTree[e], stamp |-> 0, shown |-> <<FirstTree[e], 0>>,
                  thumb |-> ThumbKey(FirstTree[e], 0),
                  seen |-> FALSE, missing |-> FALSE, excluded |-> FALSE] IN
              SetToSeq({Row(e) : e \in Scanned})
    /\ rule = FALSE /\ due = FALSE
    /\ pc = "idle" /\ left = {} /\ offline = {} /\ matcher = FALSE
    /\ known = <<>> /\ todo = {} /\ met = {} /\ failed = FALSE /\ items = {}
    /\ scans = 0 /\ changes = 0
    /\ quiet = FALSE /\ scope = {}
    /\ settled = FALSE
    /\ thumbs = SetToSeq({[key |-> rows[i].thumb, pixels |-> rows[i].thumb] : i \in Ids})
    /\ spoilt = {} /\ evicted = {}

\* Anything but the scan: the user, other programs, the page with the rules.
Change ==
    /\ changes < MaxChanges
    /\ changes' = changes + 1
    /\ quiet' = FALSE /\ scope' = {}
    /\ UNCHANGED <<scan, cache>>

\* A new file, or a deleted one's inode used again when nobody has it open.
Create(e, f) ==
    /\ Change
    /\ \A d \in Place : tree[d] # f
    /\ \A it \in items : it.kind \in {"open", "decoded"} => it.key[1] # f
    /\ DiskOf[f] = Disk(e[1])
    /\ tree' = [tree EXCEPT ![e] = f]
    /\ stamp' = [stamp EXCEPT ![f] = changes']
    /\ settled' = FALSE
    /\ UNCHANGED <<at, rootPath, rows, rule, due>>

Rename(d, e) ==
    /\ Change
    /\ d # e /\ tree[d] # None /\ tree[d] # tree[e]
    /\ Disk(d[1]) = Disk(e[1])
    /\ tree' = [tree EXCEPT ![e] = tree[d], ![d] = None]
    /\ settled' = FALSE
    /\ UNCHANGED <<stamp, at, rootPath, rows, rule, due>>

HardLink(d, e) ==
    /\ Change
    /\ tree[d] # None /\ tree[e] = None
    /\ Disk(d[1]) = Disk(e[1])
    /\ tree' = [tree EXCEPT ![e] = tree[d]]
    /\ settled' = FALSE
    /\ UNCHANGED <<stamp, at, rootPath, rows, rule, due>>

Delete(e) ==
    /\ Change
    /\ tree[e] # None
    /\ tree' = [tree EXCEPT ![e] = None]
    /\ UNCHANGED <<stamp, at, rootPath, rows, rule, due, settled>>

Edit(f) ==
    /\ Change
    /\ \E e \in Place : tree[e] = f
    /\ stamp' = [stamp EXCEPT ![f] = changes']
    /\ UNCHANGED <<tree, at, rootPath, rows, rule, due, settled>>

Remount(v, m) ==
    /\ changes < MaxChanges
    /\ changes' = changes + 1
    /\ quiet' = FALSE /\ scope' = {}
    /\ at[v] # m
    /\ m # None => \A w \in Volume : at[w] # m
    /\ at' = [at EXCEPT ![v] = m]
    /\ settled' = (settled /\ (pc = "idle" \/ m \in {None, rootPath[v]}))
    /\ UNCHANGED <<tree, stamp, rootPath, rows, rule, due, scan, cache>>

\* SourcesVM stores the rule in one job and flags the rows in the next.
AddRule ==
    /\ Change
    /\ ~rule /\ ~due
    /\ rule' = TRUE /\ due' = TRUE
    /\ UNCHANGED <<world, rootPath, rows, settled>>

\* ON DELETE SET NULL: the flags that point at a removed rule go with it.
RemoveRule ==
    /\ Change
    /\ rule /\ ~due
    /\ rule' = FALSE /\ due' = TRUE
    /\ rows' = [i \in Ids |-> [rows[i] EXCEPT !.excluded = FALSE]]
    /\ UNCHANGED <<world, rootPath, settled>>

Flagged == [i \in Ids |-> [rows[i] EXCEPT !.excluded = rule /\ rows[i].path \in Hidden]]

Reapply ==
    /\ due
    /\ due' = FALSE
    /\ rows' = Flagged
    /\ quiet' = FALSE /\ scope' = {}
    /\ UNCHANGED <<world, rootPath, rule, scan, changes, settled, cache>>

-----------------------------------------------------------------------------
\* A scan.

\* A row's seen says that it bears the number of the scan that runs.
EndScan ==
    /\ pc' = "idle" /\ left' = {} /\ matcher' = FALSE
    /\ rows' = [i \in Ids |-> [rows[i] EXCEPT !.seen = FALSE]]
    /\ known' = <<>> /\ todo' = {} /\ met' = {} /\ failed' = FALSE /\ items' = {}

\* Mutant: the images of the drive keep their old paths.
HealRootOnly(st, r) ==
    IF ~st.ok \/ r \notin Volume \/ at[r] \in {None, st.paths[r]} THEN st
    ELSE [st EXCEPT !.paths[r] = at[r]]

\* A drive found at another mount point takes its root's path and, _heal_paths,
\* its rows along, unless UNIQUE(root.path) or UNIQUE(image.path) forbids it.
Heal(st, r) ==
    IF ~st.ok \/ r \notin Volume \/ at[r] \in {None, st.paths[r]} THEN st
    ELSE LET moved == [i \in Ids |-> IF st.rows[i].root = r /\ st.rows[i].path[1] = st.paths[r]
                                     THEN [st.rows[i] EXCEPT !.path = <<at[r], @[2]>>]
                                     ELSE st.rows[i]] IN
         [ok |-> /\ \A q \in Root \ {r} : st.paths[q] # at[r]
                 /\ \A i, j \in Ids : moved[i].path = moved[j].path => i = j,
          paths |-> [st.paths EXCEPT ![r] = at[r]], rows |-> moved]

\* The tables after the first n roots.
Healing[n \in 0 .. Len(RootOrder)] ==
    IF n = 0 THEN [ok |-> TRUE, paths |-> rootPath, rows |-> rows]
    ELSE Heal(Healing[n - 1], RootOrder[n])

Healed == Healing[Len(RootOrder)]

\* The drives whose UUID is not in the mount table.
Unmounted == {v \in Volume : at[v] = None}

\* The job of _reconcile_volumes.  When it fails the scan does, before it has a
\* row of its own.
Reconcile ==
    /\ pc = "idle"
    /\ scans < MaxScans
    /\ scans' = scans + 1
    /\ offline' = Unmounted
    /\ quiet' = Healed.ok /\ scope' = {}
    /\ IF Healed.ok
       THEN rootPath' = Healed.paths /\ rows' = Healed.rows /\ pc' = "reconciled"
       ELSE UNCHANGED <<pc, rootPath, rows>>
    /\ UNCHANGED <<world, rule, due, left, matcher, pass, changes, settled, cache>>

\* _begin and _matcher: the roots, the number of the scan and the rule, once for
\* the whole scan.
Begin(wanted) ==
    /\ pc = "reconciled"
    /\ scope' = IF quiet THEN wanted ELSE {}
    /\ left' = wanted
    /\ matcher' = rule
    /\ pc' = "load"
    /\ UNCHANGED <<world, rootPath, rows, rule, due, offline, pass, scans, changes,
                   quiet, settled, cache>>

\* The root whose turn it is: they are taken in the order of their ids.
This == RootOrder[Min({i \in DOMAIN RootOrder : RootOrder[i] \in left})]

\* Rows the sweep of root r may mark: never those a rule hides.
Absent(r) == {i \in Ids : rows[i].root = r /\ ~rows[i].excluded /\ ~rows[i].seen}

MarkedMissing(ids) ==
    [i \in Ids |-> IF i \in ids THEN [rows[i] EXCEPT !.missing = TRUE] ELSE rows[i]]

\* The next root: an unplugged drive is not walked, its rows are missing.
SkipOffline ==
    /\ pc = "load" /\ left # {} /\ This \in offline
    /\ rows' = MarkedMissing({i \in Ids : rows[i].root = This /\ ~rows[i].excluded})
    /\ left' = left \ {This}
    /\ UNCHANGED <<world, rootPath, rule, due, pc, offline, matcher, pass, scans,
                   changes, quiet, scope, settled, cache>>

\* _load_known, and the walk up to its first entry.
LoadKnown ==
    /\ pc = "load" /\ left # {} /\ This \notin offline
    /\ known' = rows
    /\ failed' = ~Listable(rootPath[This])
    /\ todo' = IF Listable(rootPath[This]) THEN Name ELSE {}
    /\ met' = {} /\ items' = {}
    /\ pc' = "walk"
    /\ UNCHANGED <<world, rootPath, rows, rule, due, left, offline, matcher, scans,
                   changes, quiet, scope, settled, cache>>

KnownAs(p) == {i \in DOMAIN known : known[i].root = This /\ known[i].path = p}

\* by_inode spans all roots; of two rows of one inode the later one is kept.
ByInode(f) == Max({0} \cup {i \in DOMAIN known : known[i].file = f})

\* Mutant: the inode alone tells that it is the same file.
MovedByInode(p, f) ==
    LET i == ByInode(f) IN
    IF i # 0 /\ known[i].path # p /\ FileAt(known[i].path) = None THEN i ELSE 0

\* The old row, when the file is the same and nothing is left at the old path.
MovedFrom(p, f) ==
    LET i == ByInode(f) IN
    IF /\ This \in Stable /\ i # 0
       /\ known[i].stamp = stamp[f]
       /\ known[i].path # p
       /\ FileAt(known[i].path) = None
    THEN i ELSE 0

Item(p, f) ==
    LET key == <<f, stamp[f]>> IN
    IF \E i \in KnownAs(p) : Key(known[i]) = key
    THEN [kind |-> "unchanged", path |-> p, key |-> key, from |-> 0, shown |-> None, thumb |-> None]
    ELSE [kind |-> IF MovedFrom(p, f) # 0 THEN "moved" ELSE "candidate",
          path |-> p, key |-> key, from |-> MovedFrom(p, f), shown |-> None,
          thumb |-> None]

\* Mutant: files_seen is not asked.
VisitLinks(n) ==
    LET p == <<rootPath[This], n>>
        f == FileAt(p) IN
    /\ pc = "walk" /\ n \in todo
    /\ todo' = todo \ {n}
    /\ items' = IF f = None \/ (matcher /\ p \in Hidden) THEN items ELSE items \cup {Item(p, f)}
    /\ UNCHANGED <<world, rootPath, rows, rule, due, pc, left, offline, matcher, known,
                   met, failed, scans, changes, quiet, scope, settled, cache>>

\* _entry and _file for one name.
Visit(n) ==
    LET p == <<rootPath[This], n>>
        f == FileAt(p)
        wanted == f # None /\ ~(matcher /\ p \in Hidden) /\ f \notin met IN
    /\ pc = "walk" /\ n \in todo
    /\ todo' = todo \ {n}
    /\ IF wanted THEN met' = met \cup {f} /\ items' = items \cup {Item(p, f)}
                 ELSE UNCHANGED <<met, items>>
    /\ UNCHANGED <<world, rootPath, rows, rule, due, pc, left, offline, matcher, known,
                   failed, scans, changes, quiet, scope, settled, cache>>

\* The listing breaks off.
FailDir ==
    /\ pc = "walk" /\ todo # {}
    /\ todo' = {} /\ failed' = TRUE
    /\ quiet' = FALSE /\ scope' = {}
    /\ UNCHANGED <<world, rootPath, rows, rule, due, pc, left, offline, matcher, known,
                   met, items, scans, changes, settled, cache>>

\* An item goes on to its next step.
Probed(it, next) ==
    /\ pc = "walk" /\ it \in items
    /\ items' = (items \ {it}) \cup {next}
    /\ UNCHANGED <<world, rootPath, rows, rule, due, pc, left, offline, matcher, known,
                   todo, met, failed, scans, changes, quiet, scope, settled>>

\* probe_file opens what is at the path now, if anything, and _probe takes its
\* key from the open file, before it reads.
ProbeOpens(it) ==
    LET f == FileAt(it.path) IN
    /\ it.kind = "candidate"
    /\ Probed(it, IF f = None THEN [it EXCEPT !.kind = "result"]
                  ELSE [it EXCEPT !.kind = "open", !.key = <<f, stamp[f]>>])
    /\ UNCHANGED cache

\* The header and the pixels.
ProbeDecodes(it) ==
    /\ it.kind = "open"
    /\ Probed(it, [it EXCEPT !.kind = "decoded", !.shown = <<it.key[1], stamp[it.key[1]]>>])
    /\ UNCHANGED cache

\* Mutant: a store that failed is taken for one that did not.
StoreAssumed(it) ==
    /\ it.kind = "decoded"
    /\ Probed(it, [it EXCEPT !.kind = "result",
                            !.thumb = ThumbKey(it.key[1], stamp[it.key[1]])])
    /\ UNCHANGED cache

\* The content is hashed, once more from the open file, and the decoded pixels are
\* stored under the hash.
ProbeStores(it) ==
    LET f == it.key[1]
        key == ThumbKey(f, stamp[f]) IN
    /\ it.kind = "decoded"
    /\ Probed(it, [it EXCEPT !.kind = "result", !.thumb = key])
    /\ thumbs' = Store(thumbs, key, it.shown)
    /\ spoilt' = IF ~Held(thumbs, key) /\ it.shown # <<f, stamp[f]>>
                 THEN spoilt \cup {key} ELSE spoilt
    /\ evicted' = evicted \ {key}

\* No thumbnail: the time is up, the token is cancelled, or the store fails.
ProbeSkips(it) ==
    /\ it.kind = "decoded"
    /\ Probed(it, [it EXCEPT !.kind = "result"])
    /\ UNCHANGED cache

Touched(it) ==
    [i \in Ids |-> IF rows[i].root = This /\ rows[i].path = it.path
                   THEN [rows[i] EXCEPT !.seen = TRUE, !.missing = FALSE] ELSE rows[i]]

Renamed(it) ==
    [rows EXCEPT ![it.from] =
        [@ EXCEPT !.path = it.path, !.seen = TRUE, !.missing = FALSE]]

\* Mutant: the key is taken when the row is written.
UpsertedLate(it) ==
    LET New(flag) == [path |-> it.path, root |-> This, file |-> it.key[1],
                stamp |-> stamp[it.key[1]], shown |-> it.shown, thumb |-> it.thumb, seen |-> TRUE,
                missing |-> FALSE, excluded |-> flag] IN
    IF RowsAt(it.path) = {} THEN Append(rows, New(FALSE))
    ELSE [i \in Ids |-> IF i \in RowsAt(it.path) THEN New(rows[i].excluded) ELSE rows[i]]

\* ON CONFLICT(path) everything but the id and the flag of the rules is replaced.
Upserted(it) ==
    LET New(flag) == [path |-> it.path, root |-> This, file |-> it.key[1],
                stamp |-> it.key[2], shown |-> it.shown, thumb |-> it.thumb, seen |-> TRUE,
                missing |-> FALSE, excluded |-> flag] IN
    IF RowsAt(it.path) = {} THEN Append(rows, New(FALSE))
    ELSE [i \in Ids |-> IF i \in RowsAt(it.path) THEN New(rows[i].excluded) ELSE rows[i]]

\* Mutant: image.path is not UNIQUE.
ClashUnnoticed(it) == FALSE

Clash(it) == it.kind = "moved" /\ RowsAt(it.path) \ {it.from} # {}

Commit(it) ==
    /\ pc = "walk" /\ it \in items /\ it.kind \in {"unchanged", "moved", "result"} /\ ~Clash(it)
    /\ items' = items \ {it}
    /\ rows' = CASE it.kind = "unchanged" -> Touched(it)
                 [] it.kind = "moved" -> Renamed(it)
                 [] it.kind = "result" -> Upserted(it)
    /\ UNCHANGED <<world, rootPath, rule, due, pc, left, offline, matcher, known, todo,
                   met, failed, scans, changes, quiet, scope, settled, cache>>

\* UNIQUE(image.path): the batch fails, and the scan ends.
CommitFails(it) ==
    /\ pc = "walk" /\ it \in items /\ Clash(it)
    /\ EndScan
    /\ quiet' = FALSE /\ scope' = {}
    /\ UNCHANGED <<world, rootPath, rule, due, offline, scans, changes, settled, cache>>

\* The root's walk is complete and all it found is written: _mark_missing.
Sweep ==
    /\ pc = "walk" /\ todo = {} /\ items = {}
    /\ rows' = IF failed THEN rows ELSE MarkedMissing(Absent(This))
    /\ left' = left \ {This}
    /\ known' = <<>> /\ met' = {} /\ failed' = FALSE
    /\ pc' = "load"
    /\ UNCHANGED <<world, rootPath, rule, due, offline, matcher, todo, items, scans,
                   changes, quiet, scope, settled, cache>>

\* A quiet scan of everything, with no file linked twice, no rule, and no file of a
\* drive left under another root.
Settles ==
    /\ quiet /\ scope = Root /\ offline = {} /\ ~rule
    /\ \A d, e \in Place : tree[d] = tree[e] /\ tree[d] # None => d = e
    /\ \A i \in Ids : ~rows[i].missing /\ DiskOf[rows[i].file] \in Volume
          => rows[i].root = DiskOf[rows[i].file]

Finish ==
    /\ pc = "load" /\ left = {}
    /\ EndScan
    /\ settled' = (settled \/ Settles)
    /\ thumbs' = Evict(thumbs)
    /\ evicted' = evicted \cup {t.key : t \in ToSet(thumbs) \ ToSet(thumbs')}
    /\ UNCHANGED spoilt
    /\ UNCHANGED <<world, rootPath, rule, due, offline, scans, changes, quiet, scope>>

\* Cancelled, failed elsewhere, or killed and recovered later.
Stop ==
    /\ pc # "idle"
    /\ EndScan
    /\ quiet' = FALSE /\ scope' = {}
    /\ UNCHANGED <<world, rootPath, rule, due, offline, scans, changes, settled, cache>>

Next ==
    \/ \E e \in Place, f \in File : Create(e, f)
    \/ \E d, e \in Place : Rename(d, e) \/ HardLink(d, e)
    \/ \E e \in Place : Delete(e)
    \/ \E f \in File : Edit(f)
    \/ \E v \in Volume, m \in MountPoint \cup {None} : Remount(v, m)
    \/ AddRule \/ RemoveRule \/ Reapply
    \/ Reconcile
    \/ \E wanted \in Requests : Begin(wanted)
    \/ SkipOffline \/ LoadKnown
    \/ \E n \in Name : Visit(n)
    \/ FailDir
    \/ \E it \in items : \/ ProbeOpens(it) \/ ProbeDecodes(it)
                        \/ ProbeStores(it) \/ ProbeSkips(it)
                        \/ Commit(it) \/ CommitFails(it)
    \/ Sweep \/ Finish \/ Stop

Spec == Init /\ [][Next]_vars
-----------------------------------------------------------------------------
\* Properties.

Rows == [path : Path, root : Root, file : File, stamp : Stamp,
         shown : {None} \cup (File \X Stamp), thumb : {None} \cup (File \X Stamp),
         seen : BOOLEAN, missing : BOOLEAN, excluded : BOOLEAN]

\* Types, and UNIQUE(path) of both tables: no job the code commits breaks it.
TypeOK ==
    /\ tree \in [Place -> File \cup {None}] /\ stamp \in [File -> Stamp]
    /\ at \in [Volume -> MountPoint \cup {None}] /\ rootPath \in [Root -> Dir]
    /\ rows \in Seq(Rows)
    /\ \A i, j \in Ids : rows[i].path = rows[j].path => i = j
    /\ \A q, r \in Root : rootPath[q] = rootPath[r] => q = r
    /\ pc \in {"idle", "reconciled", "load", "walk"}
    /\ todo \subseteq Name /\ met \subseteq File

Ended == pc = "idle" /\ quiet
Visible(i) == ~rows[i].missing /\ ~rows[i].excluded
Covered(r) == r \in scope /\ ~(r \in Volume /\ r \in offline)

\* After a scan that ended well, with no change of disk, mounts or rules since
\* it began, a visible row of a root it was asked for is that very version of a
\* file that is there and that no rule hides.  The root may be that of an
\* unplugged drive: the row of a file that moved to a root walked later keeps
\* its root (ingest.py:861), and is there.
VisibleIsThere ==
    Ended => \A i \in Ids : rows[i].root \in scope /\ Visible(i) =>
        /\ FileAt(rows[i].path) = rows[i].file
        /\ rows[i].stamp = stamp[rows[i].file]
        /\ ~(rule /\ rows[i].path \in Hidden)

\* A file that a walk of root r meets: it is there, and no rule hides it.
OnShow(f, r) ==
    \E n \in Name : LET p == <<rootPath[r], n>> IN FileAt(p) = f /\ ~(rule /\ p \in Hidden)

\* After such a scan a file that is in a root it walked, where no rule hides it,
\* has a row there that is not missing, and no file has two visible rows there,
\* wherever it was before, however often it is linked and in whatever order its
\* names are met.  Only one drive that took the place of another while the root of
\* that was walked has left its files to that root: their rows are missing again
\* when the other is unplugged.
FilesAppearOnce ==
    Ended => \A f \in File, r \in Root :
        LET here == {i \in Ids : rows[i].file = f /\ rows[i].path[1] = rootPath[r]} IN
        /\ Covered(r) /\ OnShow(f, r) =>
              \E i \in here : /\ ~(rule /\ rows[i].path \in Hidden)
                              /\ \/ ~rows[i].missing
                                 \/ rows[i].root \in offline /\ DiskOf[f] \in Volume \ {rows[i].root}
        /\ \A i, j \in here : {rows[i].root, rows[j].root} \subseteq scope /\ Visible(i) /\ Visible(j)
              => i = j

\* The row will pass for unchanged when a scan meets its file.
Current(i) == FileAt(rows[i].path) = rows[i].file /\ rows[i].stamp = stamp[rows[i].file]

\* Whatever happens between the stat of a file, the steps of its probe and its
\* batch, a row that will pass for unchanged shows the dimensions and the picture
\* of that very version; only a probe that stored under the hash of an edit what
\* it had decoded before (spoilt) leaves another picture, and for good.  The
\* thumbnail a row names is in the cache before the row, until it is evicted.
FreshData ==
    \A i \in Ids : LET version == <<rows[i].file, rows[i].stamp>> IN
        /\ Current(i) /\ rows[i].shown # None
              => rows[i].shown = version
        /\ Current(i) /\ rows[i].thumb \notin spoilt
              => Read(thumbs, rows[i].thumb) \in {None, version}
        /\ rows[i].thumb # None
              => Held(thumbs, rows[i].thumb) \/ rows[i].thumb \in evicted

\* Once a scan of everything has given each file its row, no scan adds another while
\* files are only edited or deleted, rules come and go, and drives are unplugged at
\* any moment and mounted elsewhere between two scans: the rows of a drive come back
\* with it.  A drive mounted over a root that is being walked may give its files a
\* second row, there or when it is back.
DrivesComeBack == [][settled => Len(rows') = Len(rows)]_vars
=============================================================================
