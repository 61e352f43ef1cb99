---------------------- MODULE CatalogueProcessesProofs ----------------------
(***************************************************************************)
(* Proofs about CatalogueProcesses for any number of processes of any      *)
(* releases, and any number of opens, scans and deaths.                    *)
(***************************************************************************)
EXTENDS CatalogueProcesses, TLAPS

-----------------------------------------------------------------------------
\* The inductive invariant, in parts.

\* The lock belongs to the process that is inside a scan or probing.
Owned ==
    /\ \A p \in Proc : pc[p] \in Scanning \cup {"unlock"} => holder = p
    /\ holder # Nobody => pc[holder] \in Scanning \cup {"unlock"}

\* A process that migrates works from a version the file has reached, below its
\* own release, and has its base.
Migrating ==
    \A p \in Proc : pc[p] \in {"backup", "migrate"} =>
        /\ current[p] <= version
        /\ current[p] < Release[p]
        /\ pc[p] = "migrate" => \E b \in bases : b <= current[p]

\* The row of a live scan is there and open.
OwnRow == \A p \in Proc : pc[p] = "scanning" => mine[p] \in DOMAIN rows /\ ~rows[mine[p]].finished

\* A finished row never says 'running'.
Closed == \A i \in DOMAIN rows : rows[i].finished => rows[i].result # "running"

\* The duty of a recovery are rows that exist.
Duties == \A p \in Proc : duty[p] \subseteq DOMAIN rows

\* Between a free probe and the update nobody is inside a scan, unless a scanner
\* took the lock since.
Late == \A p \in Proc : pc[p] \in {"unlock", "update"} /\ ~late[p] =>
           \A q \in Proc : pc[q] \notin Scanning

IInv == /\ TypeOK /\ Owned /\ Migrating /\ MigratedOnce /\ OwnRow /\ Closed
        /\ Duties /\ Late /\ AbandonedAreMarked

-----------------------------------------------------------------------------
\* Versions.

LEMMA VersionFacts ==
    /\ Versions \subseteq Nat
    /\ 0 \in Versions /\ 1 \in Versions
    /\ \A p \in Proc : \A v \in Nat : v <= Release[p] => v \in Versions
<1>1. \A p \in Proc : Release[p] \in Nat \ {0}
  BY ReleaseAssumption
<1>2. \A p \in Proc : \A v \in Nat : v <= Release[p] => v \in 0 .. Release[p]
  BY <1>1
<1>3. \A p \in Proc : \A v \in Nat : v <= Release[p] => v \in Versions
  BY <1>2 DEF Versions
<1>4. PICK p \in Proc : TRUE
  BY ProcAssumption
<1>5. 0 <= Release[p] /\ 1 <= Release[p]
  BY <1>1
<1>6. Versions \subseteq Nat
  BY <1>1 DEF Versions
<1>. QED
  BY <1>3, <1>5, <1>6

\* Init puts every variable into its type and establishes the invariant.
LEMMA InitHolds == Init => IInv
<1>. SUFFICES ASSUME Init PROVE IInv
  OBVIOUS
<1>1. TypeOK
  <2>1. rows \in Seq([result : Results, finished : BOOLEAN])
    BY DEF Init
  <2>2. applied \in [Versions -> Nat]
    BY VersionFacts DEF Init
  <2>3. version \in Versions /\ seeded \in Versions /\ current \in [Proc -> Versions]
    BY VersionFacts DEF Init
  <2>4. opens \in 0 .. MaxOpens /\ deaths \in 0 .. MaxDeaths
    BY BoundAssumption DEF Init
  <2>5. /\ pc \in [Proc -> Steps] /\ mine \in [Proc -> Nat] /\ holder \in Proc \cup {Nobody}
        /\ duty \in [Proc -> SUBSET Nat]
        /\ sawScan \in [Proc -> BOOLEAN] /\ late \in [Proc -> BOOLEAN]
        /\ bases \subseteq Versions /\ lapsed \in BOOLEAN
    BY DEF Init, Steps
  <2>. QED
    BY <2>1, <2>2, <2>3, <2>4, <2>5 DEF TypeOK
<1>2. MigratedOnce
  BY VersionFacts DEF Init, MigratedOnce
<1>3. Owned /\ Migrating /\ OwnRow /\ Closed /\ Duties /\ Late /\ AbandonedAreMarked
  BY DEF Init, Owned, Migrating, OwnRow, Closed, Duties, Late, AbandonedAreMarked, Scanning
<1>. QED
  BY <1>1, <1>2, <1>3 DEF IInv

\* Rows are records, and marking them keeps them so.
RowType == [result : Results, finished : BOOLEAN]

LEMMA RowFacts ==
  ASSUME NEW s \in Seq(RowType)
  PROVE  /\ DOMAIN s = 1 .. Len(s) /\ Len(s) \in Nat
         /\ \A i \in DOMAIN s : s[i] \in RowType
  OBVIOUS

LEMMA MarkedFacts ==
  ASSUME rows \in Seq(RowType), NEW is
  PROVE  /\ Marked(is) \in Seq(RowType)
         /\ DOMAIN Marked(is) = DOMAIN rows
         /\ \A i \in DOMAIN rows :
              /\ i \in is => Marked(is)[i] = [result |-> "interrupted", finished |-> rows[i].finished]
              /\ i \notin is => Marked(is)[i] = rows[i]
<1>1. \A i \in DOMAIN rows : rows[i] \in RowType
  BY RowFacts
<1>2. DOMAIN rows = 1 .. Len(rows) /\ Len(rows) \in Nat
  BY RowFacts
<1>3. \A i \in DOMAIN rows : [rows[i] EXCEPT !.result = "interrupted"]
                                = [result |-> "interrupted", finished |-> rows[i].finished]
  BY <1>1 DEF RowType
<1>4. \A i \in DOMAIN rows : [result |-> "interrupted", finished |-> rows[i].finished] \in RowType
  BY <1>1 DEF RowType, Results
<1>5. Marked(is) = [i \in 1 .. Len(rows) |->
                      IF i \in is THEN [result |-> "interrupted", finished |-> rows[i].finished]
                      ELSE rows[i]]
  BY <1>2, <1>3 DEF Marked
<1>6. \A i \in 1 .. Len(rows) : Marked(is)[i] \in RowType
  BY <1>1, <1>2, <1>4, <1>5
<1>7. Marked(is) \in [1 .. Len(rows) -> RowType]
  BY <1>5, <1>6, Zenon
<1>8. Marked(is) \in Seq(RowType)
  BY <1>2, <1>7
<1>. QED
  BY <1>2, <1>5, <1>8

-----------------------------------------------------------------------------
\* Types are kept by every step.

LEMMA GotoType ==
  ASSUME TypeOK, NEW p \in Proc, NEW step \in Steps, Goto(p, step)
  PROVE  /\ pc' \in [Proc -> Steps]
         /\ pc' = [pc EXCEPT ![p] = step]
BY DEF TypeOK, Goto

LEMMA TypeStep ==
  ASSUME TypeOK, Migrating, OwnRow, NEW p \in Proc,
         \/ Precreate(p) \/ Connect(p) \/ ReadVersion(p) \/ Backup(p) \/ Migrate(p) \/ Seed(p)
         \/ RecoverCount(p) \/ RecoverProbe(p) \/ RecoverUnlock(p) \/ RecoverUpdate(p)
         \/ TakeLock(p) \/ Begin(p) \/ Finish(p) \/ JobFails(p) \/ ReleaseLock(p)
         \/ Exit(p) \/ Dies(p)
  PROVE  TypeOK'
<1>. USE DEF TypeOK, Steps, Opening, Scanning, fileVars, probeVars, bounds
<1>1. CASE Precreate(p)
  BY <1>1, BoundAssumption DEF Precreate, Goto
<1>2. CASE Connect(p)
  BY <1>2 DEF Connect, Goto
<1>3. CASE ReadVersion(p)
  <2>1. pc' \in [Proc -> Steps]
    BY <1>3 DEF ReadVersion, Goto
  <2>. QED
    BY <1>3, <2>1, VersionFacts DEF ReadVersion
<1>4. CASE Backup(p)
  BY <1>4 DEF Backup, Goto
<1>5. CASE Migrate(p)
  <2>1. current[p] + 1 \in Versions
    <3>1. current[p] \in Nat /\ Release[p] \in Nat /\ current[p] < Release[p]
      BY <1>5, VersionFacts, ReleaseAssumption DEF Migrate, Migrating
    <3>2. current[p] + 1 \in Nat /\ current[p] + 1 <= Release[p]
      BY <3>1
    <3>. QED
      BY <3>2, VersionFacts
  <2>2. pc' \in [Proc -> Steps]
    BY <1>5 DEF Migrate, Goto
  <2>3. applied' \in [Versions -> Nat]
    <3>1. applied[current[p] + 1] + 1 \in Nat
      BY <2>1
    <3>. QED
      BY <1>5, <2>1, <3>1 DEF Migrate
  <2>. QED
    BY <1>5, <2>1, <2>2, <2>3 DEF Migrate
<1>6. CASE Seed(p)
  <2>1. Release[p] \in Nat /\ Release[p] <= Release[p]
    BY ReleaseAssumption
  <2>2. Release[p] \in Versions
    BY <2>1, VersionFacts
  <2>. QED
    BY <1>6, <2>2 DEF Seed, Goto
<1>7. CASE RecoverCount(p)
  <2>1. {i \in Pending : ~Live(i)} \in SUBSET Nat
    BY DEF Pending
  <2>. QED
    BY <1>7, <2>1 DEF RecoverCount, Goto
<1>8. CASE RecoverProbe(p)
  <2>1. sawScan' \in [Proc -> BOOLEAN] /\ late' \in [Proc -> BOOLEAN]
    <3>1. (pc[holder] \in {"locked", "scanning", "finished"}) \in BOOLEAN
      OBVIOUS
    <3>2. CASE holder = Nobody
      BY <1>8, <3>2 DEF RecoverProbe
    <3>3. CASE holder # Nobody
      BY <1>8, <3>3, <3>1 DEF RecoverProbe
    <3>. QED
      BY <3>2, <3>3
  <2>2. pc' \in [Proc -> Steps] /\ holder' \in Proc \cup {Nobody}
    BY <1>8 DEF RecoverProbe, Goto
  <2>. QED
    BY <1>8, <2>1, <2>2 DEF RecoverProbe
<1>9. CASE RecoverUnlock(p)
  BY <1>9 DEF RecoverUnlock, Goto
<1>10. CASE RecoverUpdate(p)
  <2>1. Marked(Pending) \in Seq([result : Results, finished : BOOLEAN])
    BY MarkedFacts DEF RowType
  <2>. QED
    BY <1>10, <2>1 DEF RecoverUpdate, Goto
<1>11. CASE TakeLock(p)
  BY <1>11 DEF TakeLock, Goto
<1>12. CASE Begin(p)
  <2>1. Append(rows, [result |-> "running", finished |-> FALSE]) \in Seq([result : Results, finished : BOOLEAN])
    BY DEF Results
  <2>2. Len(rows) + 1 \in Nat
    OBVIOUS
  <2>. QED
    BY <1>12, <2>1, <2>2 DEF Begin, Goto
<1>13. CASE Finish(p)
  <2>1. rows' \in Seq([result : Results, finished : BOOLEAN])
    BY <1>13 DEF Finish, OwnRow, Results
  <2>. QED
    BY <1>13, <2>1 DEF Finish, Goto
<1>14. CASE JobFails(p)
  BY <1>14, BoundAssumption DEF JobFails, Goto
<1>15. CASE ReleaseLock(p)
  BY <1>15 DEF ReleaseLock, Goto
<1>16. CASE Exit(p)
  BY <1>16 DEF Exit, Goto
<1>17. CASE Dies(p)
  BY <1>17, BoundAssumption DEF Dies, Goto
<1>. QED
  BY <1>1, <1>2, <1>3, <1>4, <1>5, <1>6, <1>7, <1>8, <1>9, <1>10, <1>11, <1>12, <1>13,
     <1>14, <1>15, <1>16, <1>17

-----------------------------------------------------------------------------
\* Each part is kept by every step.

LEMMA OwnedStep ==
  ASSUME TypeOK, Owned, NEW p \in Proc,
         \/ Precreate(p) \/ Connect(p) \/ ReadVersion(p) \/ Backup(p) \/ Migrate(p) \/ Seed(p)
         \/ RecoverCount(p) \/ RecoverProbe(p) \/ RecoverUnlock(p) \/ RecoverUpdate(p)
         \/ TakeLock(p) \/ Begin(p) \/ Finish(p) \/ JobFails(p) \/ ReleaseLock(p)
         \/ Exit(p) \/ Dies(p)
  PROVE  Owned'
<1>. USE ProcAssumption DEF Owned, Goto, Scanning
<1>1. pc \in [Proc -> Steps] /\ holder \in Proc \cup {Nobody}
  BY DEF TypeOK
<1>2. CASE Precreate(p) \/ Connect(p) \/ ReadVersion(p) \/ Backup(p) \/ Migrate(p) \/ Seed(p)
  BY <1>1, <1>2 DEF Precreate, Connect, ReadVersion, Backup, Migrate, Seed
<1>3. CASE RecoverCount(p) \/ RecoverUpdate(p) \/ Exit(p)
  BY <1>1, <1>3 DEF RecoverCount, RecoverUpdate, Exit
<1>4. CASE RecoverProbe(p)
  BY <1>1, <1>4 DEF RecoverProbe
<1>5. CASE RecoverUnlock(p) \/ ReleaseLock(p)
  BY <1>1, <1>5 DEF RecoverUnlock, ReleaseLock
<1>6. CASE TakeLock(p)
  BY <1>1, <1>6 DEF TakeLock
<1>7. CASE Begin(p) \/ Finish(p) \/ JobFails(p)
  BY <1>1, <1>7 DEF Begin, Finish, JobFails
<1>8. CASE Dies(p)
  BY <1>1, <1>8 DEF Dies, Opening
<1>. QED
  BY <1>2, <1>3, <1>4, <1>5, <1>6, <1>7, <1>8

LEMMA MigrationStep ==
  ASSUME TypeOK, Migrating, MigratedOnce, NEW p \in Proc,
         \/ Precreate(p) \/ Connect(p) \/ ReadVersion(p) \/ Backup(p) \/ Migrate(p) \/ Seed(p)
         \/ RecoverCount(p) \/ RecoverProbe(p) \/ RecoverUnlock(p) \/ RecoverUpdate(p)
         \/ TakeLock(p) \/ Begin(p) \/ Finish(p) \/ JobFails(p) \/ ReleaseLock(p)
         \/ Exit(p) \/ Dies(p)
  PROVE  Migrating' /\ MigratedOnce'
<1>1. /\ pc \in [Proc -> Steps] /\ current \in [Proc -> Versions]
      /\ version \in Versions /\ applied \in [Versions -> Nat] /\ bases \subseteq Versions
      /\ \A q \in Proc : current[q] \in Nat /\ Release[q] \in Nat
      /\ version \in Nat /\ Versions \subseteq Nat
  BY VersionFacts, ReleaseAssumption DEF TypeOK
<1>2. CASE /\ UNCHANGED <<version, applied, current>> /\ bases \subseteq bases'
           /\ \/ pc' = [pc EXCEPT ![p] = pc'[p]] /\ pc'[p] \notin {"backup", "migrate"}
              \/ pc' = [pc EXCEPT ![p] = "migrate"] /\ pc[p] = "backup" /\ current[p] \in bases'
  BY <1>1, <1>2 DEF Migrating, MigratedOnce
<1>3. CASE ReadVersion(p)
  <2>1. /\ current' = [current EXCEPT ![p] = version] /\ bases \subseteq bases'
        /\ UNCHANGED <<version, applied>>
    BY <1>3 DEF ReadVersion
  <2>2. \A q \in Proc \ {p} : pc'[q] = pc[q] /\ current'[q] = current[q]
    BY <1>1, <1>3, <2>1 DEF ReadVersion, Goto
  <2>3. current'[p] = version
    BY <1>1, <2>1
  <2>4. pc'[p] \in {"backup", "migrate"} => version < Release[p]
    BY <1>1, <1>3 DEF ReadVersion, Goto
  <2>5. pc'[p] = "migrate" => version = 0 /\ 0 \in bases'
    BY <1>1, <1>3 DEF ReadVersion, Goto
  <2>6. Migrating'
    BY <1>1, <2>1, <2>2, <2>3, <2>4, <2>5 DEF Migrating
  <2>. QED
    BY <2>1, <2>6 DEF MigratedOnce
<1>4. CASE Migrate(p)
  <2>. DEFINE step == current[p] + 1
  <2>1. /\ step \in Nat /\ step <= Release[p] /\ step \in Versions
        /\ current[p] <= version
        /\ \E b \in bases : b <= current[p]
    <3>1. pc[p] = "migrate"
      BY <1>4 DEF Migrate
    <3>. QED
      BY <1>1, <3>1, VersionFacts DEF Migrating
  <2>2. /\ current' = [current EXCEPT ![p] = step] /\ bases' = bases
        /\ \A q \in Proc \ {p} : pc'[q] = pc[q] /\ current'[q] = current[q]
        /\ current'[p] = step
        /\ pc'[p] = IF step = Release[p] THEN "seed" ELSE "migrate"
    BY <1>1, <1>4 DEF Migrate, Goto
  <2>3. step <= version' /\ version <= version' /\ version' \in Nat
    BY <1>1, <1>4, <2>1 DEF Migrate
  <2>4. Migrating'
    BY <1>1, <2>1, <2>2, <2>3 DEF Migrating
  <2>5. CASE version < step
    <3>1. version' = version + 1 /\ step = version + 1
      BY <1>1, <1>4, <2>1, <2>5 DEF Migrate
    <3>2. applied' = [applied EXCEPT ![step] = @ + 1]
      BY <1>4, <2>5 DEF Migrate
    <3>3. applied[step] = 0
      BY <1>1, <2>1, <2>5, <3>1 DEF MigratedOnce
    <3>4. \A v \in Versions \ {0} : applied'[v] = IF v <= version' THEN 1 ELSE 0
      BY <1>1, <2>1, <3>1, <3>2, <3>3 DEF MigratedOnce
    <3>5. \A v \in Versions \ {0} : v \in 2 .. version' => \E b \in bases : b < v
      BY <1>1, <2>1, <3>1 DEF MigratedOnce
    <3>6. bases' = bases
      BY <2>2
    <3>. QED
      BY <2>4, <3>4, <3>5, <3>6 DEF MigratedOnce
  <2>6. CASE ~(version < step)
    <3>1. UNCHANGED <<version, applied>>
      BY <1>4, <2>6 DEF Migrate
    <3>2. bases' = bases
      BY <2>2
    <3>. QED
      BY <2>4, <3>1, <3>2 DEF MigratedOnce
  <2>. QED
    BY <2>4, <2>5, <2>6
<1>5. CASE Backup(p)
  BY <1>1, <1>2, <1>5 DEF Backup, Goto
<1>6. CASE Precreate(p) \/ Connect(p) \/ Seed(p) \/ RecoverCount(p) \/ RecoverProbe(p)
           \/ RecoverUnlock(p) \/ RecoverUpdate(p)
  BY <1>1, <1>2, <1>6 DEF Precreate, Connect, Seed, RecoverCount, RecoverProbe, RecoverUnlock,
     RecoverUpdate, Goto, fileVars
<1>7. CASE TakeLock(p) \/ Begin(p) \/ Finish(p) \/ JobFails(p) \/ ReleaseLock(p) \/ Exit(p) \/ Dies(p)
  BY <1>1, <1>2, <1>7 DEF TakeLock, Begin, Finish, JobFails, ReleaseLock, Exit, Dies, Goto, fileVars
<1>. QED
  BY <1>3, <1>4, <1>5, <1>6, <1>7

LEMMA RowsStep ==
  ASSUME TypeOK, Owned, OwnRow, Closed, Duties, NEW p \in Proc,
         \/ Precreate(p) \/ Connect(p) \/ ReadVersion(p) \/ Backup(p) \/ Migrate(p) \/ Seed(p)
         \/ RecoverCount(p) \/ RecoverProbe(p) \/ RecoverUnlock(p) \/ RecoverUpdate(p)
         \/ TakeLock(p) \/ Begin(p) \/ Finish(p) \/ JobFails(p) \/ ReleaseLock(p)
         \/ Exit(p) \/ Dies(p)
  PROVE  OwnRow' /\ Closed' /\ Duties'
<1>1. /\ pc \in [Proc -> Steps] /\ mine \in [Proc -> Nat] /\ duty \in [Proc -> SUBSET Nat]
      /\ rows \in Seq(RowType)
      /\ DOMAIN rows = 1 .. Len(rows) /\ Len(rows) \in Nat
  BY RowFacts DEF TypeOK, RowType
<1>2. CASE /\ UNCHANGED rows
           /\ mine' = mine \/ mine' = [mine EXCEPT ![p] = 0]
           /\ pc' = [pc EXCEPT ![p] = pc'[p]] /\ pc'[p] # "scanning"
           /\ duty' = duty \/ \E is \in SUBSET DOMAIN rows : duty' = [duty EXCEPT ![p] = is]
  BY <1>1, <1>2 DEF OwnRow, Closed, Duties
<1>3. CASE RecoverUpdate(p)
  <2>1. /\ rows' = Marked(Pending) /\ UNCHANGED <<mine, duty>>
        /\ pc' = [pc EXCEPT ![p] = "ready"]
    BY <1>3 DEF RecoverUpdate, Goto, probeVars
  <2>2. /\ DOMAIN rows' = DOMAIN rows
        /\ \A i \in DOMAIN rows : rows'[i].finished = rows[i].finished
        /\ \A i \in DOMAIN rows : rows'[i].result # rows[i].result => rows'[i].result = "interrupted"
    <3>1. \A i \in DOMAIN rows :
            \/ rows'[i] = [result |-> "interrupted", finished |-> rows[i].finished]
            \/ rows'[i] = rows[i]
      BY <1>1, <2>1, MarkedFacts
    <3>2. DOMAIN rows' = DOMAIN rows
      BY <1>1, <2>1, MarkedFacts
    <3>. QED
      BY <3>1, <3>2
  <2>. QED
    BY <1>1, <2>1, <2>2 DEF OwnRow, Closed, Duties
<1>4. CASE Begin(p)
  <2>. DEFINE new == [result |-> "running", finished |-> FALSE]
  <2>1. /\ rows' = Append(rows, new) /\ mine' = [mine EXCEPT ![p] = Len(rows) + 1]
        /\ pc' = [pc EXCEPT ![p] = "scanning"] /\ duty' = duty
    BY <1>4 DEF Begin, Goto, probeVars
  <2>2. /\ DOMAIN rows' = 1 .. (Len(rows) + 1)
        /\ \A i \in DOMAIN rows : rows'[i] = rows[i]
        /\ rows'[Len(rows) + 1] = new
    BY <1>1, <2>1
  <2>. QED
    BY <1>1, <2>1, <2>2 DEF OwnRow, Closed, Duties
<1>5. CASE Finish(p)
  <2>1. PICK result \in {"ok", "cancelled", "error"} :
            rows' = [rows EXCEPT ![mine[p]] = [result |-> result, finished |-> TRUE]]
    BY <1>5 DEF Finish
  <2>2. /\ UNCHANGED <<mine, duty>> /\ pc' = [pc EXCEPT ![p] = "finished"] /\ pc[p] = "scanning"
    BY <1>5 DEF Finish, Goto, probeVars
  <2>3. mine[p] \in DOMAIN rows
    BY <2>2 DEF OwnRow
  <2>4. \A q \in Proc \ {p} : pc[q] # "scanning"
    BY <2>2 DEF Owned, Scanning
  <2>5. /\ DOMAIN rows' = DOMAIN rows
        /\ \A i \in DOMAIN rows : i # mine[p] => rows'[i] = rows[i]
        /\ rows'[mine[p]] = [result |-> result, finished |-> TRUE]
    BY <2>1, <2>3
  <2>6. OwnRow'
    BY <1>1, <2>2, <2>4, <2>5 DEF OwnRow
  <2>7. Closed'
    BY <2>1, <2>5 DEF Closed
  <2>8. Duties'
    BY <2>2, <2>5 DEF Duties
  <2>. QED
    BY <2>6, <2>7, <2>8
<1>6. CASE RecoverCount(p)
  <2>1. {i \in Pending : ~Live(i)} \in SUBSET DOMAIN rows
    BY DEF Pending
  <2>. QED
    BY <1>1, <1>2, <1>6, <2>1 DEF RecoverCount, Goto
<1>7. CASE Precreate(p)
  BY <1>1, <1>2, <1>7 DEF Precreate, Goto
<1>8. CASE Connect(p) \/ ReadVersion(p) \/ Backup(p) \/ Migrate(p) \/ Seed(p)
           \/ RecoverProbe(p) \/ RecoverUnlock(p)
  BY <1>1, <1>2, <1>8 DEF Connect, ReadVersion, Backup, Migrate, Seed, RecoverProbe,
     RecoverUnlock, Goto, probeVars
<1>9. CASE TakeLock(p) \/ JobFails(p) \/ ReleaseLock(p) \/ Exit(p) \/ Dies(p)
  BY <1>1, <1>2, <1>9 DEF TakeLock, JobFails, ReleaseLock, Exit, Dies, Goto, probeVars
<1>. QED
  BY <1>3, <1>4, <1>5, <1>6, <1>7, <1>8, <1>9

LEMMA LateStep ==
  ASSUME TypeOK, Owned, Late, NEW p \in Proc,
         \/ Precreate(p) \/ Connect(p) \/ ReadVersion(p) \/ Backup(p) \/ Migrate(p) \/ Seed(p)
         \/ RecoverCount(p) \/ RecoverProbe(p) \/ RecoverUnlock(p) \/ RecoverUpdate(p)
         \/ TakeLock(p) \/ Begin(p) \/ Finish(p) \/ JobFails(p) \/ ReleaseLock(p)
         \/ Exit(p) \/ Dies(p)
  PROVE  Late'
<1>. USE DEF Scanning
<1>1. /\ pc \in [Proc -> Steps] /\ late \in [Proc -> BOOLEAN]
      /\ holder \in Proc \cup {Nobody}
  BY DEF TypeOK
\* A step that neither enters a scan nor ends a free probe.
<1>2. CASE /\ pc' = [pc EXCEPT ![p] = pc'[p]]
           /\ pc'[p] \in Scanning => pc[p] \in Scanning
           /\ pc'[p] \in {"unlock", "update"} => pc[p] = "unlock" /\ UNCHANGED late
           /\ late' = late \/ late' = [late EXCEPT ![p] = FALSE]
  BY <1>1, <1>2 DEF Late
<1>3. CASE RecoverProbe(p)
  <2>1. CASE holder = Nobody
    <3>1. \A q \in Proc : pc[q] \notin Scanning
      BY <2>1, ProcAssumption DEF Owned
    <3>. QED
      BY <1>1, <1>3, <2>1, <3>1 DEF RecoverProbe, Goto, Late
  <2>2. CASE holder # Nobody
    BY <1>1, <1>2, <1>3, <2>2 DEF RecoverProbe, Goto
  <2>. QED
    BY <2>1, <2>2
<1>4. CASE TakeLock(p)
  BY <1>1, <1>4 DEF TakeLock, Late
<1>5. CASE Precreate(p)
  BY <1>1, <1>2, <1>5 DEF Precreate, Goto
<1>6. CASE Connect(p) \/ ReadVersion(p) \/ Backup(p) \/ Migrate(p) \/ Seed(p)
  BY <1>1, <1>2, <1>6 DEF Connect, ReadVersion, Backup, Migrate, Seed, Goto, probeVars
<1>7. CASE RecoverCount(p) \/ RecoverUnlock(p) \/ RecoverUpdate(p)
  BY <1>1, <1>2, <1>7 DEF RecoverCount, RecoverUnlock, RecoverUpdate, Goto, probeVars
<1>8. CASE Begin(p) \/ Finish(p) \/ JobFails(p) \/ ReleaseLock(p) \/ Exit(p) \/ Dies(p)
  BY <1>1, <1>2, <1>8 DEF Begin, Finish, JobFails, ReleaseLock, Exit, Dies, Goto, probeVars
<1>. QED
  BY <1>3, <1>4, <1>5, <1>6, <1>7, <1>8

LEMMA AbandonedStep ==
  ASSUME TypeOK, Owned, OwnRow, Closed, Duties, AbandonedAreMarked, NEW p \in Proc,
         \/ Precreate(p) \/ Connect(p) \/ ReadVersion(p) \/ Backup(p) \/ Migrate(p) \/ Seed(p)
         \/ RecoverCount(p) \/ RecoverProbe(p) \/ RecoverUnlock(p) \/ RecoverUpdate(p)
         \/ TakeLock(p) \/ Begin(p) \/ Finish(p) \/ JobFails(p) \/ ReleaseLock(p)
         \/ Exit(p) \/ Dies(p)
  PROVE  AbandonedAreMarked'
<1>. USE DEF Scanning, Opening
<1>1. /\ pc \in [Proc -> Steps] /\ mine \in [Proc -> Nat] /\ duty \in [Proc -> SUBSET Nat]
      /\ sawScan \in [Proc -> BOOLEAN] /\ lapsed \in BOOLEAN
      /\ holder \in Proc \cup {Nobody}
      /\ rows \in Seq(RowType)
      /\ DOMAIN rows = 1 .. Len(rows) /\ Len(rows) \in Nat
  BY RowFacts DEF TypeOK, RowType
\* A step that opens no duty and ends no recovery.
<1>2. CASE /\ pc' = [pc EXCEPT ![p] = pc'[p]]
           /\ pc[p] \in {"unlock", "update"} => pc'[p] \in {"unlock", "update"} \/ lapsed'
           /\ pc'[p] \in Scanning \cup {"ready"} =>
                \/ pc[p] \in Scanning \cup {"ready"} /\ UNCHANGED <<duty, sawScan>>
                \/ sawScan'[p] \/ duty'[p] = {}
           /\ \A q \in Proc \ {p} : duty'[q] = duty[q] /\ sawScan'[q] = sawScan[q]
           /\ lapsed => lapsed'
           /\ \A i \in DOMAIN rows : rows[i].result # "running" => rows'[i].result # "running"
  <2>1. SUFFICES ASSUME NEW q \in Proc, pc'[q] \in Scanning \cup {"ready"}, ~sawScan'[q],
                        ~lapsed', NEW i \in duty'[q]
                 PROVE  rows'[i].result # "running" \/ \E r \in Proc : pc'[r] \in {"unlock", "update"}
    BY DEF AbandonedAreMarked
  <2>2. pc[q] \in Scanning \cup {"ready"} /\ duty'[q] = duty[q] /\ sawScan'[q] = sawScan[q]
    BY <1>1, <1>2, <2>1
  <2>3. ~sawScan[q] /\ ~lapsed /\ i \in duty[q] /\ i \in DOMAIN rows
    BY <1>1, <1>2, <2>1, <2>2 DEF Duties
  <2>4. CASE rows[i].result # "running"
    BY <1>2, <2>3, <2>4
  <2>5. CASE \E r \in Proc : pc[r] \in {"unlock", "update"}
    BY <1>1, <1>2, <2>1, <2>5
  <2>. QED
    BY <2>2, <2>3, <2>4, <2>5 DEF AbandonedAreMarked
<1>3. CASE RecoverUpdate(p)
  <2>1. rows' = Marked(Pending) /\ duty' = duty
    BY <1>3 DEF RecoverUpdate, probeVars
  <2>2. \A i \in DOMAIN rows : rows'[i].result # "running"
    <3>1. SUFFICES ASSUME NEW i \in DOMAIN rows PROVE rows'[i].result # "running"
      OBVIOUS
    <3>2. CASE i \in Pending
      <4>1. rows'[i] = [result |-> "interrupted", finished |-> rows[i].finished]
        BY <1>1, <2>1, <3>2, MarkedFacts
      <4>. QED
        BY <4>1
    <3>3. CASE i \notin Pending
      <4>1. rows'[i] = rows[i]
        BY <1>1, <2>1, <3>3, MarkedFacts
      <4>. QED
        BY <3>3, <4>1 DEF Pending, Closed
    <3>. QED
      BY <3>2, <3>3
  <2>. QED
    BY <1>1, <2>1, <2>2 DEF AbandonedAreMarked, Duties
<1>4. CASE RecoverProbe(p)
  <2>0. UNCHANGED <<rows, duty, lapsed>> /\ pc[p] = "probe"
    BY <1>4 DEF RecoverProbe
  <2>1. CASE holder = Nobody
    BY <1>1, <1>2, <1>4, <2>0, <2>1 DEF RecoverProbe, Goto
  <2>2. CASE holder # Nobody /\ pc[holder] \in Scanning
    <3>1. sawScan' = [sawScan EXCEPT ![p] = TRUE] /\ pc' = [pc EXCEPT ![p] = "ready"]
      BY <1>1, <1>4, <2>2 DEF RecoverProbe, Goto
    <3>. QED
      BY <1>1, <1>2, <2>0, <3>1
  <2>3. CASE holder # Nobody /\ pc[holder] \notin Scanning
    <3>1. holder \in Proc /\ pc[holder] = "unlock"
      BY <1>1, <2>3 DEF Owned
    <3>2. pc'[holder] = "unlock"
      BY <1>1, <1>4, <2>0, <2>3, <3>1 DEF RecoverProbe, Goto
    <3>. QED
      BY <3>1, <3>2 DEF AbandonedAreMarked
  <2>. QED
    BY <2>1, <2>2, <2>3
<1>5. CASE RecoverCount(p)
  <2>1. pc'[p] = "ready" => duty'[p] = {}
    BY <1>1, <1>5 DEF RecoverCount, Goto
  <2>. QED
    BY <1>1, <1>2, <1>5, <2>1 DEF RecoverCount, Goto
<1>6. CASE Begin(p)
  <2>1. \A i \in DOMAIN rows : rows'[i] = rows[i]
    BY <1>1, <1>6 DEF Begin
  <2>. QED
    BY <1>1, <1>2, <1>6, <2>1 DEF Begin, Goto, probeVars
<1>7. CASE Finish(p)
  <2>1. \A i \in DOMAIN rows : rows[i].result # "running" => rows'[i].result # "running"
    <3>1. PICK result \in {"ok", "cancelled", "error"} :
              rows' = [rows EXCEPT ![mine[p]] = [result |-> result, finished |-> TRUE]]
      BY <1>7 DEF Finish
    <3>. QED
      BY <3>1
  <2>. QED
    BY <1>1, <1>2, <1>7, <2>1 DEF Finish, Goto, probeVars
<1>8. CASE ReleaseLock(p) \/ RecoverUnlock(p)
  <2>1. CASE RecoverUnlock(p)
    BY <1>1, <1>2, <2>1 DEF RecoverUnlock, Goto, probeVars
  <2>2. CASE ReleaseLock(p)
    BY <1>1, <1>2, <2>2 DEF ReleaseLock, Goto, probeVars
  <2>. QED
    BY <1>8, <2>1, <2>2
<1>9. CASE Precreate(p) \/ Connect(p) \/ ReadVersion(p) \/ Backup(p) \/ Migrate(p) \/ Seed(p)
  BY <1>1, <1>2, <1>9 DEF Precreate, Connect, ReadVersion, Backup, Migrate, Seed, Goto, probeVars
<1>10. CASE TakeLock(p) \/ JobFails(p) \/ Exit(p) \/ Dies(p)
  BY <1>1, <1>2, <1>10 DEF TakeLock, JobFails, Exit, Dies, Goto, probeVars
<1>. QED
  BY <1>3, <1>4, <1>5, <1>6, <1>7, <1>8, <1>9, <1>10

-----------------------------------------------------------------------------
\* The theorems.

LEMMA NextHolds == IInv /\ [Next]_vars => IInv'
<1>. SUFFICES ASSUME IInv, [Next]_vars PROVE IInv'
  OBVIOUS
<1>1. CASE Next
  <2>1. PICK p \in Proc :
           \/ Precreate(p) \/ Connect(p) \/ ReadVersion(p) \/ Backup(p) \/ Migrate(p) \/ Seed(p)
           \/ RecoverCount(p) \/ RecoverProbe(p) \/ RecoverUnlock(p) \/ RecoverUpdate(p)
           \/ TakeLock(p) \/ Begin(p) \/ Finish(p) \/ JobFails(p) \/ ReleaseLock(p)
           \/ Exit(p) \/ Dies(p)
    BY <1>1 DEF Next
  <2>. QED
    BY <2>1, TypeStep, OwnedStep, MigrationStep, RowsStep, LateStep, AbandonedStep DEF IInv
<1>2. CASE UNCHANGED vars
  <2>1. TypeOK' /\ AbandonedAreMarked'
    BY <1>2 DEF IInv, vars, fileVars, probeVars, bounds, TypeOK, AbandonedAreMarked
  <2>2. Owned' /\ OwnRow' /\ Closed' /\ Duties' /\ Late'
    BY <1>2 DEF IInv, vars, fileVars, probeVars, Owned, OwnRow, Closed, Duties, Late
  <2>3. Migrating' /\ MigratedOnce'
    BY <1>2 DEF IInv, vars, fileVars, Migrating, MigratedOnce
  <2>. QED
    BY <2>1, <2>2, <2>3 DEF IInv
<1>. QED
  BY <1>1, <1>2

\* The invariant holds in every behaviour of any set of processes.
THEOREM ProcessesInductive == Spec => []IInv
<1>. QED
  BY InitHolds, NextHolds, PTL DEF Spec

\* Every variable keeps its type.
THEOREM ProcessTypes == Spec => []TypeOK
<1>1. IInv => TypeOK
  BY DEF IInv
<1>. QED
  BY <1>1, ProcessesInductive, PTL

\* scan_lock of db.py admits one scanner at a time, over all processes.
THEOREM OneScannerAtATime == Spec => []OneScanner
<1>1. IInv => OneScanner
  BY DEF IInv, Owned, OneScanner
<1>. QED
  BY <1>1, ProcessesInductive, PTL

\* run_migrations of db.py applies every migration once and in order, however
\* many processes of whatever releases open the file together.
THEOREM EachMigrationOnce == Spec => []MigratedOnce
<1>1. IInv => MigratedOnce
  BY DEF IInv
<1>. QED
  BY <1>1, ProcessesInductive, PTL

\* recover of db.py: simultaneous opens do not leave an abandoned scan to each
\* other.
THEOREM SomeoneRecovers == Spec => []AbandonedAreMarked
<1>1. IInv => AbandonedAreMarked
  BY DEF IInv
<1>. QED
  BY <1>1, ProcessesInductive, PTL

\* The lock admits one scanner, and the probes of it leave no scan unmarked.
THEOREM LockHolds == Spec => []LockGuards
BY OneScannerAtATime, SomeoneRecovers, PTL DEF LockGuards

\* Only an update that selects marks rows, and only those that say 'running'.
LEMMA MarkingIsUpdate ==
  ASSUME IInv, Next, NEW i \in DOMAIN rows, rows[i].result = "running", rows'[i].result = "interrupted"
  PROVE  \E p \in Proc : pc[p] = "update" /\ pc' = [pc EXCEPT ![p] = "ready"]
<1>1. PICK p \in Proc :
         \/ Precreate(p) \/ Connect(p) \/ ReadVersion(p) \/ Backup(p) \/ Migrate(p) \/ Seed(p)
         \/ RecoverCount(p) \/ RecoverProbe(p) \/ RecoverUnlock(p) \/ RecoverUpdate(p)
         \/ TakeLock(p) \/ Begin(p) \/ Finish(p) \/ JobFails(p) \/ ReleaseLock(p)
         \/ Exit(p) \/ Dies(p)
  BY DEF Next
<1>2. CASE RecoverUpdate(p)
  BY <1>2 DEF RecoverUpdate, Goto
<1>3. CASE Begin(p)
  <2>1. rows \in Seq(RowType)
    BY DEF IInv, TypeOK, RowType
  <2>2. rows'[i] = rows[i]
    BY <1>3, <2>1 DEF Begin
  <2>. QED
    BY <2>2
<1>4. CASE Finish(p)
  <2>1. PICK result \in {"ok", "cancelled", "error"} :
            rows' = [rows EXCEPT ![mine[p]] = [result |-> result, finished |-> TRUE]]
    BY <1>4 DEF Finish
  <2>. QED
    BY <2>1
<1>5. rows' = rows => FALSE
  OBVIOUS
<1>. QED
  BY <1>1, <1>2, <1>3, <1>4, <1>5 DEF Precreate, Connect, ReadVersion, Backup, Migrate, Seed,
     RecoverCount, RecoverProbe, RecoverUnlock, TakeLock, JobFails, ReleaseLock, Exit, Dies

\* recover never marks a live scan, save one that began after its probe.
THEOREM LiveScansKept == Spec => LiveMarkedOnlyLate
<1>1. IInv /\ [Next]_vars =>
        [\A i \in DOMAIN rows :
            rows[i].result = "running" /\ rows'[i].result = "interrupted" /\ Live(i)
              => \E p \in Proc : pc[p] = "update" /\ pc'[p] = "ready" /\ late[p]]_vars
  <2>. SUFFICES ASSUME IInv, [Next]_vars, NEW i \in DOMAIN rows, rows[i].result = "running",
                       rows'[i].result = "interrupted", Live(i), ~UNCHANGED vars
                PROVE  \E p \in Proc : pc[p] = "update" /\ pc'[p] = "ready" /\ late[p]
    OBVIOUS
  <2>1. PICK p \in Proc : pc[p] = "update" /\ pc' = [pc EXCEPT ![p] = "ready"]
    BY MarkingIsUpdate
  <2>2. pc'[p] = "ready"
    BY <2>1 DEF IInv, TypeOK
  <2>3. late[p]
    BY <2>1 DEF IInv, Late, Live, Scanning
  <2>. QED
    BY <2>1, <2>2, <2>3
<1>. QED
  BY <1>1, ProcessesInductive, PTL DEF Spec, LiveMarkedOnlyLate

\* What _finish of ingest.py recorded is final, and wins over a recovery.
THEOREM RecordedResultStands == Spec => ResultStands
<1>1. IInv /\ [Next]_vars =>
        [/\ \A i \in DOMAIN rows : rows[i].finished => rows'[i] = rows[i]
         /\ \A p \in Proc : pc[p] = "scanning" /\ pc'[p] = "finished" /\ deaths' = deaths
              => rows'[mine[p]].finished /\ rows'[mine[p]].result # "interrupted"]_vars
  <2>. SUFFICES ASSUME IInv, Next
                PROVE  /\ \A i \in DOMAIN rows : rows[i].finished => rows'[i] = rows[i]
                       /\ \A p \in Proc : pc[p] = "scanning" /\ pc'[p] = "finished" /\ deaths' = deaths
                            => rows'[mine[p]].finished /\ rows'[mine[p]].result # "interrupted"
    OBVIOUS
  <2>1. PICK p \in Proc :
           \/ Precreate(p) \/ Connect(p) \/ ReadVersion(p) \/ Backup(p) \/ Migrate(p) \/ Seed(p)
           \/ RecoverCount(p) \/ RecoverProbe(p) \/ RecoverUnlock(p) \/ RecoverUpdate(p)
           \/ TakeLock(p) \/ Begin(p) \/ Finish(p) \/ JobFails(p) \/ ReleaseLock(p)
           \/ Exit(p) \/ Dies(p)
    BY DEF Next
  <2>2. /\ pc \in [Proc -> Steps] /\ rows \in Seq(RowType) /\ deaths \in Nat
        /\ DOMAIN rows = 1 .. Len(rows) /\ Len(rows) \in Nat
    BY RowFacts, BoundAssumption DEF IInv, TypeOK, RowType
  <2>3. CASE Finish(p)
    <3>1. PICK result \in {"ok", "cancelled", "error"} :
              rows' = [rows EXCEPT ![mine[p]] = [result |-> result, finished |-> TRUE]]
      BY <2>3 DEF Finish
    <3>2. mine[p] \in DOMAIN rows /\ ~rows[mine[p]].finished
      BY <2>3 DEF Finish, IInv, OwnRow
    <3>3. \A q \in Proc : pc[q] = "scanning" => q = p
      BY <2>3 DEF Finish, IInv, Owned, Scanning
    <3>4. rows'[mine[p]] = [result |-> result, finished |-> TRUE]
      BY <3>1, <3>2
    <3>5. \A i \in DOMAIN rows : rows[i].finished => rows'[i] = rows[i]
      BY <3>1, <3>2
    <3>. QED
      BY <3>3, <3>4, <3>5
  <2>4. CASE RecoverUpdate(p)
    <3>1. \A i \in DOMAIN rows : rows[i].finished => rows'[i] = rows[i]
      <4>1. \A i \in DOMAIN rows : rows[i].finished => i \notin Pending
        BY DEF Pending
      <4>. QED
        BY <2>2, <2>4, <4>1, MarkedFacts DEF RecoverUpdate
    <3>2. \A q \in Proc : pc[q] = "scanning" => pc'[q] = "scanning"
      BY <2>2, <2>4 DEF RecoverUpdate, Goto
    <3>. QED
      BY <3>1, <3>2
  <2>5. CASE Begin(p)
    BY <2>2, <2>5 DEF Begin, Goto
  <2>6. CASE JobFails(p)
    BY <2>2, <2>6 DEF JobFails
  <2>7. CASE Dies(p)
    BY <2>2, <2>7 DEF Dies
  <2>8. CASE ReleaseLock(p) \/ TakeLock(p) \/ Exit(p) \/ RecoverUnlock(p) \/ RecoverProbe(p) \/ RecoverCount(p)
    BY <2>2, <2>8 DEF ReleaseLock, TakeLock, Exit, RecoverUnlock, RecoverProbe, RecoverCount, Goto
  <2>9. CASE Precreate(p) \/ Connect(p) \/ ReadVersion(p) \/ Backup(p) \/ Migrate(p) \/ Seed(p)
    BY <2>2, <2>9 DEF Precreate, Connect, ReadVersion, Backup, Migrate, Seed, Goto
  <2>. QED
    BY <2>1, <2>3, <2>4, <2>5, <2>6, <2>7, <2>8, <2>9
<1>. QED
  BY <1>1, ProcessesInductive, PTL DEF Spec, ResultStands
=============================================================================
