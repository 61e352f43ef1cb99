---------------------------- MODULE ScanContract ----------------------------
(***************************************************************************)
(* What one pass over a root promises the catalogue, without a word of     *)
(* threads and queues: files are recorded batch by batch, in transactions; *)
(* rows are judged absent once, when every file the walk could see has     *)
(* been recorded; and a pass is called ok only after that.                 *)
(***************************************************************************)
EXTENDS ScanWorld

VARIABLES world,   \* the disk and the catalogue the pass started from
          row,     \* the image table
          flagged, \* the paths whose row a rule hides
          seen,    \* the paths whose row carries this scan's seen_scan
          failed,  \* the directories that could not be listed
          swept,   \* the absent rows have been marked missing
          result   \* the result in the scan row

vars == <<world, row, flagged, seen, failed, swept, result>>

Visible == Walkable(world) \ Beneath(failed)

Init ==
  /\ world \in Worlds
  /\ row = world.row /\ flagged = world.excluded /\ seen = {} /\ failed = {} /\ swept = FALSE
  /\ result = "running"

\* A batch of files the scan has not recorded yet gets its rows.
Record ==
  /\ result = "running" /\ ~swept
  /\ \E batch \in (SUBSET (Walkable(world) \ seen)) \ {{}} :
        /\ ~Clash(world, row, batch)
        /\ row' = Upserted(world, row, batch)
        /\ flagged' = Carried(world, flagged, batch)
        /\ seen' = seen \cup batch
  /\ UNCHANGED <<world, failed, swept, result>>

\* Directories turn out unreadable: what lies in them is not to be judged.
LoseSight ==
  /\ result = "running" /\ ~swept
  /\ failed' \in SUBSET Dir /\ failed \subseteq failed'
  /\ UNCHANGED <<world, row, flagged, seen, swept, result>>

\* The rules have changed, and the rows are flagged anew.
Reflag ==
  /\ result = "running"
  /\ \E hidden \in world.hides : flagged' = Reflagged(row, hidden)
  /\ UNCHANGED <<world, row, seen, failed, swept, result>>

\* Everything visible has been recorded; all other rows no rule hides are absent.
Sweep ==
  /\ result = "running" /\ ~swept
  /\ Visible \subseteq seen
  /\ row' = Swept(row, flagged, seen, failed)
  /\ swept' = TRUE
  /\ UNCHANGED <<world, flagged, seen, failed, result>>

\* The pass is over; a failed or cancelled one may stop anywhere.
Finish ==
  /\ result = "running"
  /\ result' \in {"ok", "cancelled", "error"}
  /\ result' = "ok" => swept
  /\ UNCHANGED <<world, row, flagged, seen, failed, swept>>

Next == Record \/ LoseSight \/ Reflag \/ Sweep \/ Finish

Spec == Init /\ [][Next]_vars
=============================================================================
