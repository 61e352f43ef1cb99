------------------------------ MODULE ScanWorld ------------------------------
(***************************************************************************)
(* The data a scan of one root works on, shared by what the scan promises  *)
(* (ScanContract) and how it is done (ScanPipeline): the files the walk    *)
(* can meet, the image rows of the root, and what each kind of writer job  *)
(* does to the rows (src/src/catalogue/ingest.py, scanner/walker.py).      *)
(***************************************************************************)
EXTENDS Integers

CONSTANTS Path,    \* the paths this pass can meet or the catalogue holds
          Dir,     \* the directories they lie in
          DirOf,   \* the directory of each path
          Worlds,  \* the disks and catalogues a pass may start from
          NoPath   \* no path: an empty hand, a file that was not moved

\* A path's row in the image table: image.path is UNIQUE, image.missing a flag.
\* The other flag, excluded_by, is a set of paths beside it.
Status == {"none", "live", "missing"}

\* What the walker makes of a path: nothing is there; a filter, a rule or a stat
\* error drops it; its key is the catalogued one; its inode is catalogued at
\* another path where nothing is left; or it is new or changed.
Kind == {"absent", "skipped", "unchanged", "moved", "fresh"}

\* What a pass starts from.  The kinds are fixed for the pass: the matcher and
\* the index of known files are built once, before the walk.  The flags of the
\* rows need not agree with them, and may be computed again meanwhile.
LegalWorld(w) ==
  /\ w \in [row : [Path -> Status], kind : [Path -> Kind],
            from : [Path -> Path \cup {NoPath}],
            excluded : SUBSET Path,        \* the rows that are flagged at first
            hides : SUBSET (SUBSET Path)]  \* what the rules may come to hide
  /\ \A p \in w.excluded : w.row[p] # "none"
  /\ \A p \in Path : w.kind[p] = "unchanged" => w.row[p] # "none"
  /\ \A p \in Path : w.kind[p] = "moved" <=> w.from[p] # NoPath
  /\ \A p \in Path : w.kind[p] = "moved" =>
        /\ w.kind[w.from[p]] = "absent"
        /\ w.row[w.from[p]] # "none"
        /\ \A q \in Path : w.from[q] = w.from[p] => q = p

ASSUME WorldAssumption ==
  /\ NoPath \notin Path
  /\ DirOf \in [Path -> Dir]
  /\ \A w \in Worlds : LegalWorld(w)

OnDisk(w) == {p \in Path : w.kind[p] # "absent"}

\* What _entry and _file turn into a result item, were no directory to fail.
Walkable(w) == {p \in OnDisk(w) : w.kind[p] # "skipped"}

Beneath(dirs) == {p \in Path : DirOf[p] \in dirs}

-----------------------------------------------------------------------------
\* The batch job of _flush.

Moved(w, batch) == {p \in batch : w.kind[p] = "moved"}

\* The paths whose rows a batch of moves takes away:
\* UPDATE image SET path = <new> WHERE id = <old>.
Sources(w, batch) == {w.from[p] : p \in Moved(w, batch)}

\* A move onto a catalogued path breaks UNIQUE(path) and with it the whole job.
Clash(w, row, batch) == \E p \in Moved(w, batch) : row[p] # "none"

Upserted(w, row, batch) ==
  [p \in Path |-> IF p \in batch THEN "live"
                  ELSE IF p \in Sources(w, batch) THEN "none" ELSE row[p]]

\* A row that moves keeps its flag, a new one has none.
Carried(w, flagged, batch) ==
  (flagged \ Sources(w, batch)) \cup {p \in Moved(w, batch) : w.from[p] \in flagged}

\* Mutant: flagged rows are marked like any other.
UnseenFlagged(row, flagged, seen, failed) ==
  {p \in Path : row[p] # "none" /\ p \notin seen /\ p \notin Beneath(failed)}

\* The job of _mark_missing: a row this scan has not seen and no rule hides is
\* missing, unless it lies below a directory that failed to list.
Unseen(row, flagged, seen, failed) ==
  {p \in Path \ flagged : row[p] # "none" /\ p \notin seen /\ p \notin Beneath(failed)}

\* Mutant: the row of an absent file is deleted, not marked.
SweptDeletes(row, flagged, seen, failed) ==
  [p \in Path |-> IF p \in Unseen(row, flagged, seen, failed) THEN "none"
                  ELSE IF p \in seen \ flagged THEN "live" ELSE row[p]]

Swept(row, flagged, seen, failed) ==
  [p \in Path |-> IF p \in Unseen(row, flagged, seen, failed) THEN "missing"
                  ELSE IF p \in seen \ flagged THEN "live" ELSE row[p]]

\* The job of apply_exclusions, with rules that hide these paths.
Reflagged(row, hidden) == {p \in hidden : row[p] # "none"}
=============================================================================
