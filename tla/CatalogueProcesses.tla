------------------------- MODULE CatalogueProcesses -------------------------
(***************************************************************************)
(* Several processes (the application, the command line, an older release  *)
(* still installed) on one catalogue file: open_catalogue of               *)
(* src/src/catalogue/db.py with its migrations, its seeding and the        *)
(* recovery of abandoned scans, and the scan lock a scan of                *)
(* src/src/catalogue/ingest.py holds from its first job to its last.       *)
(*                                                                         *)
(* One action is one SQLite transaction, one statement outside a           *)
(* transaction or one call on the lock file; between two of them every     *)
(* other process may run, and a process may be killed or give up with an   *)
(* error.  What a scan writes between its first and its last job is the    *)
(* subject of ScanPipeline; which thread runs the jobs, that of AppSession.*)
(***************************************************************************)
EXTENDS Naturals, Sequences, FiniteSets

CONSTANTS
    Proc,       \* processes that open the catalogue
    Nobody,     \* the holder of a lock nobody holds
    Release,    \* Release[p]: last migration known to the release p runs
    MaxOpens,   \* bound: how often the catalogue is opened, over all processes
    MaxScans,   \* bound: scans recorded
    MaxDeaths   \* bound: processes killed or failed half way

ASSUME ProcAssumption == Proc # {} /\ Nobody \notin Proc
ASSUME ReleaseAssumption == Release \in [Proc -> Nat \ {0}]
ASSUME BoundAssumption == MaxOpens \in Nat /\ MaxScans \in Nat /\ MaxDeaths \in Nat

VARIABLES
    pc,        \* pc[p]: where p is in opening the catalogue or in a scan
    current,   \* current[p]: the schema version run_migrations of p works from
    version,   \* PRAGMA user_version of the file; 0 before the first migration
    seeded,    \* release whose built-in rules the file holds; 0 before the first
    holder,    \* who holds the flock on <db>.scanlock
    rows,      \* the scan table, in the order of its ids
    mine,      \* mine[p]: id of the scan p runs
    opens, deaths, \* spent bounds
    \* history
    applied,   \* applied[v]: how often migration v was applied
    bases,     \* versions a process migrates from: nothing to save (0), or backed up
    duty,      \* duty[p]: abandoned scans when p counted
    sawScan,   \* sawScan[p]: the probe of p met the lock of a scanner
    late,      \* late[p]: a scanner took the lock after the probe of p
    lapsed     \* a recovery died between its probe and its update

fileVars == <<version, seeded, applied, bases>>
probeVars == <<duty, sawScan, late, lapsed>>
bounds == <<opens, deaths>>
vars == <<pc, current, fileVars, holder, rows, mine, bounds, probeVars>>

Opening == {"connect", "versions", "backup", "migrate", "seed", "count",
            "probe", "unlock", "update"}
Scanning == {"locked", "scanning", "finished"}
Steps == {"off", "ready"} \cup Opening \cup Scanning

Results == {"running", "interrupted", "ok", "cancelled", "error"}
Versions == UNION {0 .. Release[p] : p \in Proc}

\* The rows of the WHERE clause of recover: no finish time, result 'running'.
Pending == {i \in DOMAIN rows : ~rows[i].finished /\ rows[i].result = "running"}

Live(i) == \E p \in Proc : pc[p] = "scanning" /\ mine[p] = i

-----------------------------------------------------------------------------

Init ==
    /\ pc = [p \in Proc |-> "off"]
    /\ current = [p \in Proc |-> 0]
    /\ version \in {0, 1}
    /\ seeded = version
    /\ holder = Nobody
    /\ rows = <<>>
    /\ mine = [p \in Proc |-> 0]
    /\ opens = 0 /\ deaths = 0
    /\ applied = [v \in Versions |-> IF v = 1 THEN version ELSE 0]
    /\ bases = {}
    /\ duty = [p \in Proc |-> {}]
    /\ sawScan = [p \in Proc |-> FALSE]
    /\ late = [p \in Proc |-> FALSE]
    /\ lapsed = FALSE

Goto(p, step) == pc' = [pc EXCEPT ![p] = step]

\* open_catalogue begins: the directory and the empty file are made when they
\* are not there (an existing file is left alone).
Precreate(p) ==
    /\ pc[p] = "off"
    /\ opens < MaxOpens
    /\ opens' = opens + 1
    /\ Goto(p, "connect")
    /\ duty' = [duty EXCEPT ![p] = {}]
    /\ sawScan' = [sawScan EXCEPT ![p] = FALSE]
    /\ late' = [late EXCEPT ![p] = FALSE]
    /\ UNCHANGED <<current, fileVars, holder, rows, mine, deaths, lapsed>>

\* A schema that is too new is refused, and the connection closed.
Connect(p) ==
    /\ pc[p] = "connect"
    /\ Goto(p, IF version > Release[p] THEN "off" ELSE "versions")
    /\ UNCHANGED <<current, fileVars, holder, rows, mine, bounds, probeVars>>

\* run_migrations reads the version again, outside any transaction.
ReadVersion(p) ==
    /\ pc[p] = "versions"
    /\ current' = [current EXCEPT ![p] = version]
    /\ Goto(p, CASE version > Release[p] -> "off"
                 [] version = Release[p] -> "seed"
                 [] OTHER -> IF version >= 1 THEN "backup" ELSE "migrate")
    /\ bases' = IF version = 0 THEN bases \cup {0} ELSE bases
    /\ UNCHANGED <<version, seeded, applied, holder, rows, mine, bounds, probeVars>>

Backup(p) ==
    /\ pc[p] = "backup"
    /\ bases' = bases \cup {current[p]}
    /\ Goto(p, "migrate")
    /\ UNCHANGED <<current, version, seeded, applied, holder, rows, mine, bounds, probeVars>>

\* Mutant: the version is not read again inside the transaction.
MigrateBlindly(p) ==
    /\ pc[p] = "migrate"
    /\ current' = [current EXCEPT ![p] = @ + 1]
    /\ version' = current[p] + 1
    /\ applied' = [applied EXCEPT ![current[p] + 1] = @ + 1]
    /\ Goto(p, IF current[p] + 1 = Release[p] THEN "seed" ELSE "migrate")
    /\ UNCHANGED <<seeded, bases, holder, rows, mine, bounds, probeVars>>

\* Mutant: one migration more than the release has.
MigratePastLast(p) ==
    /\ pc[p] = "migrate"
    /\ current' = [current EXCEPT ![p] = @ + 1]
    /\ version' = current[p] + 1
    /\ Goto(p, IF current[p] + 1 > Release[p] THEN "seed" ELSE "migrate")
    /\ UNCHANGED <<applied, seeded, bases, holder, rows, mine, bounds, probeVars>>

\* One migration is one transaction: skipped when another process was faster.
Migrate(p) ==
    LET step == current[p] + 1
        needed == version < step IN
    /\ pc[p] = "migrate"
    /\ current' = [current EXCEPT ![p] = step]
    /\ version' = IF needed THEN step ELSE version
    /\ applied' = IF needed THEN [applied EXCEPT ![step] = @ + 1] ELSE applied
    /\ Goto(p, IF step = Release[p] THEN "seed" ELSE "migrate")
    /\ UNCHANGED <<seeded, bases, holder, rows, mine, bounds, probeVars>>

\* Built-in groups of this release; nothing is written when they are there.
Seed(p) ==
    /\ pc[p] = "seed"
    /\ seeded' = Release[p]
    /\ Goto(p, "count")
    /\ UNCHANGED <<current, version, applied, bases, holder, rows, mine, bounds, probeVars>>

-----------------------------------------------------------------------------
(* recover: count the unfinished scans, probe the lock, mark them.         *)

RecoverCount(p) ==
    /\ pc[p] = "count"
    /\ Goto(p, IF Pending = {} THEN "ready" ELSE "probe")
    /\ duty' = [duty EXCEPT ![p] = {i \in Pending : ~Live(i)}]
    /\ UNCHANGED <<current, fileVars, holder, rows, mine, bounds, sawScan, late, lapsed>>

\* Mutant: the probe does not look at the lock.
ProbeBlindly(p) ==
    /\ pc[p] = "probe"
    /\ Goto(p, "update")
    /\ late' = [late EXCEPT ![p] = FALSE]
    /\ UNCHANGED <<current, fileVars, holder, rows, mine, bounds, duty, sawScan, lapsed>>

\* _scan_running takes the lock to learn whether it is free...
RecoverProbe(p) ==
    /\ pc[p] = "probe"
    /\ IF holder = Nobody
          THEN /\ holder' = p
               /\ Goto(p, "unlock")
               /\ UNCHANGED sawScan
          ELSE /\ Goto(p, "ready")
               /\ sawScan' = [sawScan EXCEPT ![p] = pc[holder] \in Scanning]
               /\ UNCHANGED holder
    /\ late' = [late EXCEPT ![p] = FALSE]
    /\ UNCHANGED <<current, fileVars, rows, mine, bounds, duty, lapsed>>

\* Mutant: the probe keeps the lock it took.
ProbeKeepsLock(p) ==
    /\ pc[p] = "unlock"
    /\ Goto(p, "update")
    /\ UNCHANGED <<current, fileVars, holder, rows, mine, bounds, probeVars>>

\* Mutant: the probe gives the wrong answer when it had the lock.
UnlockAndLeave(p) ==
    /\ pc[p] = "unlock"
    /\ holder' = Nobody
    /\ Goto(p, "ready")
    /\ UNCHANGED <<current, fileVars, rows, mine, bounds, probeVars>>

\* ... and gives it back before anything is marked.
RecoverUnlock(p) ==
    /\ pc[p] = "unlock"
    /\ holder' = Nobody
    /\ Goto(p, "update")
    /\ UNCHANGED <<current, fileVars, rows, mine, bounds, probeVars>>

Marked(is) == [i \in DOMAIN rows |-> IF i \in is THEN [rows[i] EXCEPT !.result = "interrupted"]
                                     ELSE rows[i]]

\* The update selects again, in its own transaction.
RecoverUpdate(p) ==
    /\ pc[p] = "update"
    /\ rows' = Marked(Pending)
    /\ Goto(p, "ready")
    /\ UNCHANGED <<current, fileVars, holder, mine, bounds, probeVars>>

-----------------------------------------------------------------------------
(* A scan: lock, first job, last job, unlock.                              *)

\* Mutant: the lock is asked for but the refusal is ignored.
LockIgnored(p) ==
    /\ pc[p] = "ready"
    /\ Len(rows) < MaxScans
    /\ holder' = p
    /\ Goto(p, "locked")
    /\ late' = [q \in Proc |-> TRUE]
    /\ UNCHANGED <<current, fileVars, rows, mine, bounds, duty, sawScan, lapsed>>

\* scan_lock: exclusive and non-blocking.  A process that finds the lock held,
\* by a scanner or for a moment by a probe, is told ScanInProgressError and
\* stays ready.
TakeLock(p) ==
    /\ pc[p] = "ready"
    /\ Len(rows) < MaxScans
    /\ holder = Nobody
    /\ holder' = p
    /\ Goto(p, "locked")
    /\ late' = [q \in Proc |-> TRUE]
    /\ UNCHANGED <<current, fileVars, rows, mine, bounds, duty, sawScan, lapsed>>

\* The job of _begin inserts the scan row.
Begin(p) ==
    /\ pc[p] = "locked"
    /\ Len(rows) < MaxScans
    /\ rows' = Append(rows, [result |-> "running", finished |-> FALSE])
    /\ mine' = [mine EXCEPT ![p] = Len(rows) + 1]
    /\ Goto(p, "scanning")
    /\ UNCHANGED <<current, fileVars, holder, bounds, probeVars>>

\* Mutant: the last job updates the row only while it says 'running'.
FinishIfRunning(p) ==
    /\ pc[p] = "scanning"
    /\ \E result \in {"ok", "cancelled", "error"} :
          rows' = IF rows[mine[p]].result = "running"
                     THEN [rows EXCEPT ![mine[p]] = [result |-> result, finished |-> TRUE]]
                     ELSE rows
    /\ Goto(p, "finished")
    /\ UNCHANGED <<current, fileVars, holder, mine, bounds, probeVars>>

\* The job of _finish writes the result, whatever the row says by now.
Finish(p) ==
    /\ pc[p] = "scanning"
    /\ \E result \in {"ok", "cancelled", "error"} :
          rows' = [rows EXCEPT ![mine[p]] = [result |-> result, finished |-> TRUE]]
    /\ Goto(p, "finished")
    /\ UNCHANGED <<current, fileVars, holder, mine, bounds, probeVars>>

\* A first job that fails ends the scan without a row, a last job that fails is
\* suppressed: the lock is given back all the same.
JobFails(p) ==
    /\ pc[p] \in {"locked", "scanning"}
    /\ deaths < MaxDeaths
    /\ deaths' = deaths + 1
    /\ Goto(p, "finished")
    /\ UNCHANGED <<current, fileVars, holder, rows, mine, opens, probeVars>>

ReleaseLock(p) ==
    /\ pc[p] = "finished"
    /\ holder' = Nobody
    /\ Goto(p, "ready")
    /\ mine' = [mine EXCEPT ![p] = 0]
    /\ UNCHANGED <<current, fileVars, rows, bounds, probeVars>>

-----------------------------------------------------------------------------

\* The process closes.
Exit(p) ==
    /\ pc[p] = "ready"
    /\ Goto(p, "off")
    /\ UNCHANGED <<current, fileVars, holder, rows, mine, bounds, probeVars>>

\* kill -9, or an error that open_catalogue reports and the caller exits on (a
\* busy, corrupt or unreachable file): what is committed stays, the connection
\* is closed and the flock dies with its descriptor.
Dies(p) ==
    /\ pc[p] \in Opening \cup Scanning
    /\ deaths < MaxDeaths
    /\ deaths' = deaths + 1
    /\ holder' = IF holder = p THEN Nobody ELSE holder
    /\ Goto(p, "off")
    /\ mine' = [mine EXCEPT ![p] = 0]
    /\ lapsed' = (lapsed \/ pc[p] \in {"unlock", "update"})
    /\ UNCHANGED <<current, fileVars, rows, opens, duty, sawScan, late>>

Next == \E p \in Proc :
    \/ Precreate(p) \/ Connect(p) \/ ReadVersion(p) \/ Backup(p) \/ Migrate(p) \/ Seed(p)
    \/ RecoverCount(p) \/ RecoverProbe(p) \/ RecoverUnlock(p) \/ RecoverUpdate(p)
    \/ TakeLock(p) \/ Begin(p) \/ Finish(p) \/ JobFails(p) \/ ReleaseLock(p)
    \/ Exit(p) \/ Dies(p)

\* Once a process has begun it runs on, until it dies; nobody must open the
\* catalogue, scan or exit.
Runs(p) ==
    \/ Connect(p) \/ ReadVersion(p) \/ Backup(p) \/ Migrate(p) \/ Seed(p)
    \/ RecoverCount(p) \/ RecoverProbe(p) \/ RecoverUnlock(p) \/ RecoverUpdate(p)
    \/ Begin(p) \/ Finish(p) \/ ReleaseLock(p)

Spec == Init /\ [][Next]_vars /\ \A p \in Proc : WF_vars(Runs(p))

-----------------------------------------------------------------------------
(* Properties                                                              *)

TypeOK ==
    /\ pc \in [Proc -> Steps]
    /\ current \in [Proc -> Versions]
    /\ version \in Versions /\ seeded \in Versions
    /\ holder \in Proc \cup {Nobody}
    /\ rows \in Seq([result : Results, finished : BOOLEAN])
    /\ mine \in [Proc -> Nat]
    /\ opens \in 0 .. MaxOpens /\ deaths \in 0 .. MaxDeaths
    /\ applied \in [Versions -> Nat]
    /\ bases \subseteq Versions
    /\ duty \in [Proc -> SUBSET Nat]
    /\ sawScan \in [Proc -> BOOLEAN] /\ late \in [Proc -> BOOLEAN]
    /\ lapsed \in BOOLEAN

\* No two processes are inside a scan, and none is inside one without holding
\* the lock: two scanners would mark each other's rows missing.
OneScanner ==
    \A p \in Proc : pc[p] \in Scanning => holder = p

\* However many processes find the file at an old version, every migration is
\* applied once, in order, and only after a process that set out from a lower
\* version has written its backup, or found an empty file.
MigratedOnce ==
    \A v \in Versions \ {0} :
        /\ applied[v] = IF v <= version THEN 1 ELSE 0
        /\ v \in 2 .. version => \E b \in bases : b < v

\* Processes that open at the same moment may each take the other's probe for
\* a scanner and leave the abandoned scans to it.  Still one of them marks
\* them: after an open that met no scanner, a scan that was abandoned when it
\* counted says 'running' only while another recovery is between its probe and
\* its update, or because such a recovery died there.
AbandonedAreMarked ==
    \A p \in Proc : pc[p] \in Scanning \cup {"ready"} /\ ~sawScan[p] /\ ~lapsed =>
        \A i \in duty[p] : \/ rows[i].result # "running"
                           \/ \E q \in Proc : pc[q] \in {"unlock", "update"}

\* Who scans is one process, and a row that says 'running' has somebody to it.
LockGuards == OneScanner /\ AbandonedAreMarked

\* recover marks a scan that is alive only when the scanner took the lock
\* after the probe had given it back (the probe and the update are apart).
LiveMarkedOnlyLate ==
    [][\A i \in DOMAIN rows :
          rows[i].result = "running" /\ rows'[i].result = "interrupted" /\ Live(i)
              => \E p \in Proc : pc[p] = "update" /\ pc'[p] = "ready" /\ late[p]]_vars

\* What a scan records when it ends stands, also over an 'interrupted' that a
\* recovery wrote meanwhile, and is never rewritten.
ResultStands ==
    [][/\ \A i \in DOMAIN rows : rows[i].finished => rows'[i] = rows[i]
       /\ \A p \in Proc : pc[p] = "scanning" /\ pc'[p] = "finished" /\ deaths' = deaths
              => rows'[mine[p]].finished /\ rows'[mine[p]].result # "interrupted"]_vars

\* A lock that is held is given back: no probe and no scan keeps later scans
\* out for good.
LockComesBack == \A p \in Proc : holder = p ~> holder # p

=============================================================================
