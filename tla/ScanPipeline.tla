---------------------------- MODULE ScanPipeline ----------------------------
(***************************************************************************)
(* One root's pass through ScanService.scan (src/src/catalogue/ingest.py): *)
(* the walker thread, the probe workers, the finaliser thread and the      *)
(* consumer (the thread that called scan()), joined by two bounded queues, *)
(* writing the catalogue in transactions, under a user cancel at any       *)
(* moment and a writer that may fail at any job.                           *)
(*                                                                         *)
(* Abstractions.  A file is a path; what the walker will make of it (its   *)
(* kind) is fixed for the pass, because the matcher and the known-file     *)
(* index are compiled once before the walk.  The order in which entries    *)
(* are met is arbitrary.  A timed put is one step: it may land at any      *)
(* moment there is room, also just after a cancel, because the flag is     *)
(* only polled between attempts.                                           *)
(***************************************************************************)
EXTENDS ScanWorld, Sequences

CONSTANTS Workers,      \* min(4, cpu_count): the number of probe workers
          CandQueue,    \* _CAND_QUEUE, the bound of cand_q
          ResultQueue,  \* _RESULT_QUEUE, the bound of res_q
          BatchRows,    \* _BATCH_ROWS, the batch that is flushed at once
          Faults,       \* which of "writer", "probe", "listener" may fail
          End           \* the None sentinel of both queues

ASSUME PipelineAssumption ==
  /\ Workers \in Nat \ {0}
  /\ CandQueue \in Nat \ {0}
  /\ ResultQueue \in Nat \ {0}
  /\ BatchRows \in Nat \ {0}
  /\ Faults \subseteq {"writer", "probe", "listener"}
  /\ End \notin Path /\ End # NoPath

Worker == 1..Workers

VARIABLES
  world,     \* the disk and the catalogue this pass started from (never changes)
  row,       \* the image table: the status of each path's row
  flagged,   \* the paths whose row has a rule in excluded_by
  seen,      \* the paths whose row carries this scan's seen_scan
  swept,     \* _mark_missing has committed
  spared,    \* history: the rows that were flagged when it did
  stamped,   \* root.last_scan_id has been written
  result,    \* the scan row's result
  cancel,    \* the CancelToken
  abort,     \* the _Abort event
  wpc,       \* where the walker is
  todo,      \* the entries it has not met yet
  inHand,    \* the entry it is handing over
  failed,    \* failed_dirs
  complete,  \* WalkResult.complete
  candQ, resQ,
  worker,    \* where each probe worker is
  hand,      \* the candidate each is working on
  fin,       \* where the finaliser is
  con,       \* where the scanning thread is
  batch,     \* the consumer's open batch
  raised,    \* an exception is unwinding the scanning thread
  outcome    \* result_state

walkVars == <<wpc, todo, inHand, failed, complete>>
workVars == <<worker, hand>>
dbVars   == <<row, flagged, seen, swept, spared, stamped, result>>
conVars  == <<con, batch, raised, outcome>>
flags    == <<cancel, abort>>
vars == <<world, dbVars, flags, walkVars, candQ, resQ, workVars, fin, conVars>>

-----------------------------------------------------------------------------
Items(q) == {q[i] : i \in DOMAIN q}

\* Mutant: the bound is off by one.
HasRoomOffByOne(q, bound) == Len(q) <= bound

HasRoom(q, bound) == Len(q) < bound

TearDown == cancel \/ abort

Init ==
  /\ world \in Worlds
  /\ row = world.row /\ flagged = world.excluded
  /\ seen = {} /\ swept = FALSE /\ spared = {} /\ stamped = FALSE /\ result = "running"
  /\ cancel = FALSE /\ abort = FALSE
  /\ wpc = "start" /\ todo = OnDisk(world) /\ inHand = NoPath
  /\ failed = {} /\ complete = TRUE
  /\ candQ = <<>> /\ resQ = <<>>
  /\ worker = [w \in Worker |-> "get"] /\ hand = [w \in Worker |-> NoPath]
  /\ fin = "wait"
  /\ con = "get" /\ batch = <<>> /\ raised = FALSE /\ outcome = "ok"

-----------------------------------------------------------------------------
\* The user, or the window closing, cancels the token: one way, at any moment.
Cancel ==
  /\ con # "over" /\ ~cancel
  /\ cancel' = TRUE
  /\ UNCHANGED <<world, dbVars, abort, walkVars, candQ, resQ, workVars, fin, conVars>>

\* The user changes the rules, and the job of apply_exclusions comes between two
\* jobs of the scan, which goes on with the rules it began with.
RulesChange ==
  /\ con # "over"
  /\ \E hidden \in world.hides : flagged' = Reflagged(row, hidden)
  /\ flagged' # flagged
  /\ UNCHANGED <<world, row, seen, swept, spared, stamped, result, flags, walkVars,
                 candQ, resQ, workVars, fin, conVars>>

-----------------------------------------------------------------------------
\* The walker thread.

\* walk(): the root is stat'ed; an unreadable root is its own failed directory.
WalkStart ==
  /\ wpc = "start"
  /\ wpc' = "walk"
  /\ UNCHANGED <<world, dbVars, flags, todo, inHand, failed, complete,
                 candQ, resQ, workVars, fin, conVars>>

WalkRootFails ==
  /\ wpc = "start"
  /\ failed' = Dir
  /\ todo' = {}
  /\ complete' = ~cancel
  /\ wpc' = "end"
  /\ UNCHANGED <<world, dbVars, flags, inHand, candQ, resQ, workVars, fin, conVars>>

\* _entry: a file the filters drop is counted and forgotten.
WalkSkip(p) ==
  /\ wpc = "walk" /\ ~cancel
  /\ p \in todo /\ world.kind[p] = "skipped"
  /\ todo' = todo \ {p}
  /\ UNCHANGED <<world, dbVars, flags, wpc, inHand, failed, complete,
                 candQ, resQ, workVars, fin, conVars>>

\* _file: any other file is about to be put on a queue.
WalkEntry(p) ==
  /\ wpc = "walk" /\ ~cancel
  /\ p \in todo /\ world.kind[p] # "skipped"
  /\ todo' = todo \ {p}
  /\ inHand' = p
  /\ wpc' = "put"
  /\ UNCHANGED <<world, dbVars, flags, failed, complete,
                 candQ, resQ, workVars, fin, conVars>>

\* _fail_dir: scandir raised, before the first entry or in the middle.
WalkDirFails(d) ==
  /\ wpc = "walk" /\ ~cancel
  /\ todo \cap Beneath({d}) # {}
  /\ todo' = todo \ Beneath({d})
  /\ failed' = failed \cup {d}
  /\ UNCHANGED <<world, dbVars, flags, wpc, inHand, complete,
                 candQ, resQ, workVars, fin, conVars>>

\* run and _visit poll the token before a directory and before an entry.
WalkStops ==
  /\ wpc = "walk" /\ cancel
  /\ complete' = FALSE
  /\ wpc' = "end"
  /\ UNCHANGED <<world, dbVars, flags, todo, inHand, failed,
                 candQ, resQ, workVars, fin, conVars>>

\* The stack is empty: the walk is complete, whatever the token says.
WalkAll ==
  /\ wpc = "walk" /\ todo = {}
  /\ wpc' = "end"
  /\ UNCHANGED <<world, dbVars, flags, todo, inHand, failed, complete,
                 candQ, resQ, workVars, fin, conVars>>

\* on_unchanged -> ScanService._put: straight to res_q, past the workers.
WalkPutUnchanged ==
  /\ wpc = "put" /\ world.kind[inHand] = "unchanged"
  /\ \/ HasRoom(resQ, ResultQueue) /\ resQ' = Append(resQ, inHand)
     \/ TearDown /\ UNCHANGED resQ
  /\ inHand' = NoPath
  /\ wpc' = "walk"
  /\ UNCHANGED <<world, dbVars, flags, todo, failed, complete, candQ, workVars, fin, conVars>>

\* walker._put: a new, changed or moved file goes to a probe worker.
WalkPutCandidate ==
  /\ wpc = "put" /\ world.kind[inHand] # "unchanged"
  /\ HasRoom(candQ, CandQueue)
  /\ candQ' = Append(candQ, inHand)
  /\ inHand' = NoPath
  /\ wpc' = "walk"
  /\ UNCHANGED <<world, dbVars, flags, todo, failed, complete, resQ, workVars, fin, conVars>>

\* walker._put gave up on a cancel: the walk is over and not complete.
WalkPutCancelled ==
  /\ wpc = "put" /\ world.kind[inHand] # "unchanged"
  /\ cancel
  /\ complete' = FALSE
  /\ inHand' = NoPath
  /\ wpc' = "end"
  /\ UNCHANGED <<world, dbVars, flags, todo, failed, candQ, resQ, workVars, fin, conVars>>

\* Mutant: the walker repeats its sentinel, though the workers pass it on.
WalkEndsTwice ==
  /\ wpc = "end"
  /\ \/ HasRoom(candQ, CandQueue) /\ candQ' = Append(candQ, End)
     \/ ~HasRoom(candQ, CandQueue) /\ ~complete /\ UNCHANGED candQ
     \/ complete /\ cancel /\ UNCHANGED candQ
  /\ wpc' = IF End \in Items(candQ) THEN "done" ELSE "end"
  /\ UNCHANGED <<world, dbVars, flags, todo, inHand, failed, complete,
                 resQ, workVars, fin, conVars>>

\* _finish: a complete walk insists on its sentinel until a cancel, an
\* incomplete one tries once (_send_end).
WalkEnds ==
  /\ wpc = "end"
  /\ \/ HasRoom(candQ, CandQueue) /\ candQ' = Append(candQ, End)
     \/ ~HasRoom(candQ, CandQueue) /\ ~complete /\ UNCHANGED candQ
     \/ complete /\ cancel /\ UNCHANGED candQ
  /\ wpc' = "done"
  /\ UNCHANGED <<world, dbVars, flags, todo, inHand, failed, complete,
                 resQ, workVars, fin, conVars>>

Walker ==
  \/ WalkStart \/ WalkRootFails
  \/ \E p \in Path : WalkSkip(p) \/ WalkEntry(p)
  \/ \E d \in Dir : WalkDirFails(d)
  \/ WalkStops \/ WalkAll
  \/ WalkPutUnchanged \/ WalkPutCandidate \/ WalkPutCancelled
  \/ WalkEnds

-----------------------------------------------------------------------------
\* The probe workers.

\* cand_q.get returned a candidate and no teardown is on: it is probed.
WorkerTakes(w) ==
  /\ worker[w] = "get" /\ candQ # <<>> /\ Head(candQ) # End
  /\ ~TearDown
  /\ hand' = [hand EXCEPT ![w] = Head(candQ)]
  /\ worker' = [worker EXCEPT ![w] = "hold"]
  /\ candQ' = Tail(candQ)
  /\ UNCHANGED <<world, dbVars, flags, walkVars, resQ, fin, conVars>>

\* Under a teardown the queue is drained without probing.
WorkerDiscards(w) ==
  /\ worker[w] = "get" /\ candQ # <<>> /\ Head(candQ) # End
  /\ TearDown
  /\ candQ' = Tail(candQ)
  /\ UNCHANGED <<world, dbVars, flags, walkVars, resQ, workVars, fin, conVars>>

\* The sentinel is taken, then put back for the siblings by a put that has no
\* timeout and polls nothing.
WorkerSeesEnd(w) ==
  /\ worker[w] = "get" /\ candQ # <<>> /\ Head(candQ) = End
  /\ worker' = [worker EXCEPT ![w] = "forward"]
  /\ candQ' = Tail(candQ)
  /\ UNCHANGED <<world, dbVars, flags, walkVars, resQ, hand, fin, conVars>>

WorkerForwardsEnd(w) ==
  /\ worker[w] = "forward" /\ HasRoom(candQ, CandQueue)
  /\ candQ' = Append(candQ, End)
  /\ worker' = [worker EXCEPT ![w] = "done"]
  /\ UNCHANGED <<world, dbVars, flags, walkVars, resQ, hand, fin, conVars>>

\* get timed out on an empty queue; only then are the flags polled, and the
\* queue may have filled again.
WorkerTimesOut(w) ==
  /\ worker[w] = "get" /\ candQ = <<>>
  /\ worker' = [worker EXCEPT ![w] = "poll"]
  /\ UNCHANGED <<world, dbVars, flags, walkVars, candQ, resQ, hand, fin, conVars>>

WorkerPolls(w) ==
  /\ worker[w] = "poll"
  /\ worker' = [worker EXCEPT ![w] = IF TearDown THEN "done" ELSE "get"]
  /\ UNCHANGED <<world, dbVars, flags, walkVars, candQ, resQ, hand, fin, conVars>>

\* Mutant: a result that meets a full queue is dropped.
WorkerPutsNoWait(w) ==
  /\ worker[w] = "hold"
  /\ resQ' = IF HasRoom(resQ, ResultQueue) THEN Append(resQ, hand[w]) ELSE resQ
  /\ hand' = [hand EXCEPT ![w] = NoPath]
  /\ worker' = [worker EXCEPT ![w] = "get"]
  /\ UNCHANGED <<world, dbVars, flags, walkVars, candQ, fin, conVars>>

\* ScanService._put of the probe result (or of the _Moved marker).
WorkerPuts(w) ==
  /\ worker[w] = "hold"
  /\ \/ HasRoom(resQ, ResultQueue) /\ resQ' = Append(resQ, hand[w])
     \/ TearDown /\ UNCHANGED resQ
  /\ hand' = [hand EXCEPT ![w] = NoPath]
  /\ worker' = [worker EXCEPT ![w] = "get"]
  /\ UNCHANGED <<world, dbVars, flags, walkVars, candQ, fin, conVars>>

\* probe_file lets an exception out (content_key's pread is not guarded): the
\* future holds it and the worker is gone with its candidate.
WorkerRaises(w) ==
  /\ "probe" \in Faults
  /\ worker[w] = "hold" /\ world.kind[hand[w]] # "moved"
  /\ worker' = [worker EXCEPT ![w] = "raised"]
  /\ UNCHANGED <<world, dbVars, flags, walkVars, candQ, resQ, hand, fin, conVars>>

ProbeWorker(w) ==
  \/ WorkerTakes(w) \/ WorkerDiscards(w)
  \/ WorkerSeesEnd(w) \/ WorkerForwardsEnd(w)
  \/ WorkerTimesOut(w) \/ WorkerPolls(w)
  \/ WorkerPuts(w) \/ WorkerRaises(w)

-----------------------------------------------------------------------------
\* The finaliser thread: result() of every probe future in turn, then the
\* walker's join, then the sentinel of res_q.

FinaliserJoins ==
  /\ fin = "wait"
  /\ \A w \in Worker : worker[w] = "done"
  /\ wpc = "done"
  /\ fin' = "put"
  /\ UNCHANGED <<world, dbVars, flags, walkVars, candQ, resQ, workVars, conVars>>

\* The first future that holds an exception re-raises it here, and no sentinel
\* is ever delivered.
FinaliserDies ==
  /\ fin = "wait"
  /\ \E w \in Worker : /\ worker[w] = "raised"
                       /\ \A v \in 1..(w - 1) : worker[v] = "done"
  /\ fin' = "dead"
  /\ UNCHANGED <<world, dbVars, flags, walkVars, candQ, resQ, workVars, conVars>>

\* Mutant: the sentinel waits for room even when the consumer has gone.
FinaliserPutsBlocking ==
  /\ fin = "put"
  /\ HasRoom(resQ, ResultQueue) /\ resQ' = Append(resQ, End)
  /\ fin' = "done"
  /\ UNCHANGED <<world, dbVars, flags, walkVars, candQ, workVars, conVars>>

FinaliserPuts ==
  /\ fin = "put"
  /\ \/ HasRoom(resQ, ResultQueue) /\ resQ' = Append(resQ, End)
     \/ ~HasRoom(resQ, ResultQueue) /\ abort /\ UNCHANGED resQ
  /\ fin' = "done"
  /\ UNCHANGED <<world, dbVars, flags, walkVars, candQ, workVars, conVars>>

Finaliser == FinaliserJoins \/ FinaliserDies \/ FinaliserPuts

-----------------------------------------------------------------------------
\* The consumer, on the thread that called scan().

\* _consume: an item joins the batch, which is flushed when it is full.
ConsumeItem ==
  /\ con = "get" /\ resQ # <<>> /\ Head(resQ) # End
  /\ batch' = Append(batch, Head(resQ))
  /\ resQ' = Tail(resQ)
  /\ con' = IF Len(batch) + 1 >= BatchRows THEN "flush" ELSE "get"
  /\ UNCHANGED <<world, dbVars, flags, walkVars, candQ, workVars, fin, raised, outcome>>

\* Mutant: the open batch is forgotten at the sentinel.
ConsumeEndNoFlush ==
  /\ con = "get" /\ resQ # <<>> /\ Head(resQ) = End
  /\ resQ' = Tail(resQ)
  /\ con' = "reap"
  /\ UNCHANGED <<world, dbVars, flags, walkVars, candQ, workVars, fin, batch, raised, outcome>>

\* The sentinel: the last batch is flushed and the loop is left.
ConsumeEnd ==
  /\ con = "get" /\ resQ # <<>> /\ Head(resQ) = End
  /\ resQ' = Tail(resQ)
  /\ con' = IF batch = <<>> THEN "reap" ELSE "lastFlush"
  /\ UNCHANGED <<world, dbVars, flags, walkVars, candQ, workVars, fin, batch, raised, outcome>>

\* _BATCH_SECONDS pass with nothing to read and a batch open.
ConsumeTick ==
  /\ con = "get" /\ resQ = <<>> /\ batch # <<>>
  /\ con' = "flush"
  /\ UNCHANGED <<world, dbVars, flags, walkVars, candQ, resQ, workVars, fin,
                 batch, raised, outcome>>

\* The progress listener raises: the loop unwinds into the join of the pipeline,
\* with neither flag set.
ListenerRaises ==
  /\ "listener" \in Faults
  /\ con = "get"
  /\ raised' = TRUE
  /\ con' = "reap"
  /\ UNCHANGED <<world, dbVars, flags, walkVars, candQ, resQ, workVars, fin, batch, outcome>>

\* Mutant: the batch is not replaced after its flush.
FlushKeepsBatch ==
  /\ con \in {"flush", "lastFlush"}
  /\ ~Clash(world, row, Items(batch))
  /\ row' = Upserted(world, row, Items(batch))
  /\ flagged' = Carried(world, flagged, Items(batch))
  /\ seen' = (seen \ Sources(world, Items(batch))) \cup Items(batch)
  /\ con' = IF con = "flush" THEN "get" ELSE "reap"
  /\ UNCHANGED <<world, swept, spared, stamped, result, flags, walkVars, candQ, resQ, workVars, fin,
                 batch, raised, outcome>>

\* _flush: the batch is one writer job, one transaction.
FlushCommits ==
  /\ con \in {"flush", "lastFlush"}
  /\ ~Clash(world, row, Items(batch))
  /\ row' = Upserted(world, row, Items(batch))
  /\ flagged' = Carried(world, flagged, Items(batch))
  /\ seen' = (seen \ Sources(world, Items(batch))) \cup Items(batch)
  /\ batch' = <<>>
  /\ con' = IF con = "flush" THEN "get" ELSE "reap"
  /\ UNCHANGED <<world, swept, spared, stamped, result, flags, walkVars, candQ, resQ, workVars, fin,
                 raised, outcome>>

\* The job raised: the abort event is triggered, then the token cancelled, then
\* the exception goes on.
FlushFails ==
  /\ con \in {"flush", "lastFlush"}
  /\ "writer" \in Faults \/ Clash(world, row, Items(batch))
  /\ abort' = TRUE
  /\ raised' = TRUE
  /\ con' = "failing"
  /\ UNCHANGED <<world, dbVars, cancel, walkVars, candQ, resQ, workVars, fin, batch, outcome>>

FlushCancels ==
  /\ con = "failing"
  /\ cancel' = TRUE
  /\ con' = "reap"
  /\ UNCHANGED <<world, dbVars, abort, walkVars, candQ, resQ, workVars, fin,
                 batch, raised, outcome>>

\* Mutant: the pipeline threads are joined after a clean end only.
ReapCleanOnly ==
  /\ con = "reap"
  /\ raised \/ (fin \in {"done", "dead"} /\ wpc = "done")
  /\ con' = IF raised THEN "shutdown" ELSE "decide"
  /\ UNCHANGED <<world, dbVars, flags, walkVars, candQ, resQ, workVars, fin,
                 batch, raised, outcome>>

\* _scan_one joins the finaliser and the walker whatever happened.
Reap ==
  /\ con = "reap"
  /\ fin \in {"done", "dead"} /\ wpc = "done"
  /\ con' = IF raised THEN "shutdown" ELSE "decide"
  /\ UNCHANGED <<world, dbVars, flags, walkVars, candQ, resQ, workVars, fin,
                 batch, raised, outcome>>

\* Mutant: a complete walk sweeps although the scan was cancelled.
DecideUncancelled ==
  /\ con = "decide"
  /\ con' = IF complete THEN "sweep" ELSE "stamp"
  /\ UNCHANGED <<world, dbVars, flags, walkVars, candQ, resQ, workVars, fin,
                 batch, raised, outcome>>

\* _run_roots: only a complete walk nobody cancelled may sweep.
Decide ==
  /\ con = "decide"
  /\ con' = IF ~cancel /\ complete THEN "sweep" ELSE "stamp"
  /\ UNCHANGED <<world, dbVars, flags, walkVars, candQ, resQ, workVars, fin,
                 batch, raised, outcome>>

\* _mark_missing, then _stamp_root_job.
SweepCommits ==
  /\ con = "sweep"
  /\ row' = Swept(row, flagged, seen, failed)
  /\ swept' = TRUE
  /\ spared' = flagged
  /\ con' = "stamp"
  /\ UNCHANGED <<world, flagged, seen, stamped, result, flags, walkVars, candQ, resQ, workVars, fin,
                 batch, raised, outcome>>

\* _stamp_root_job, also after a cancelled walk.
StampCommits ==
  /\ con = "stamp"
  /\ stamped' = TRUE
  /\ con' = "shutdown"
  /\ UNCHANGED <<world, row, flagged, seen, swept, spared, result, flags, walkVars, candQ, resQ, workVars, fin,
                 batch, raised, outcome>>

SweepOrStampFails ==
  /\ con \in {"sweep", "stamp"}
  /\ "writer" \in Faults
  /\ raised' = TRUE
  /\ con' = "shutdown"
  /\ UNCHANGED <<world, dbVars, flags, walkVars, candQ, resQ, workVars, fin, batch, outcome>>

\* pool.shutdown(wait=True) in the finally of _run_roots.
PoolShutdown ==
  /\ con = "shutdown"
  /\ \A w \in Worker : worker[w] \in {"done", "raised"}
  /\ con' = "conclude"
  /\ UNCHANGED <<world, dbVars, flags, walkVars, candQ, resQ, workVars, fin,
                 batch, raised, outcome>>

\* Mutant: the token is not looked at when the roots are done.
ConcludeOk ==
  /\ con = "conclude"
  /\ outcome' = IF raised THEN "error" ELSE "ok"
  /\ abort' = (abort \/ raised)
  /\ cancel' = (cancel \/ raised)
  /\ con' = "finish"
  /\ UNCHANGED <<world, dbVars, walkVars, candQ, resQ, workVars, fin, batch, raised>>

\* scan: the outcome, and in the error path both flags.
Conclude ==
  /\ con = "conclude"
  /\ outcome' = IF raised THEN "error" ELSE IF cancel THEN "cancelled" ELSE "ok"
  /\ abort' = (abort \/ raised)
  /\ cancel' = (cancel \/ raised)
  /\ con' = "finish"
  /\ UNCHANGED <<world, dbVars, walkVars, candQ, resQ, workVars, fin, batch, raised>>

\* _finish writes the scan row; its failure is suppressed.
FinishCommits ==
  /\ con = "finish"
  /\ result' = outcome
  /\ con' = "over"
  /\ UNCHANGED <<world, row, flagged, seen, swept, spared, stamped, flags, walkVars, candQ, resQ, workVars, fin,
                 batch, raised, outcome>>

FinishFails ==
  /\ con = "finish"
  /\ "writer" \in Faults
  /\ con' = "over"
  /\ UNCHANGED <<world, dbVars, flags, walkVars, candQ, resQ, workVars, fin,
                 batch, raised, outcome>>

\* scan() has returned; nothing is left to run.
Over == con = "over" /\ UNCHANGED vars

Consumer ==
  \/ ConsumeItem \/ ConsumeEnd \/ ConsumeTick \/ ListenerRaises
  \/ FlushCommits \/ FlushFails \/ FlushCancels
  \/ Reap \/ Decide \/ SweepCommits \/ StampCommits \/ SweepOrStampFails
  \/ PoolShutdown \/ Conclude \/ FinishCommits \/ FinishFails

Next ==
  \/ Cancel \/ RulesChange \/ Walker
  \/ \E w \in Worker : ProbeWorker(w)
  \/ Finaliser \/ Consumer \/ Over

Spec == Init /\ [][Next]_vars

\* Every thread keeps running; nobody has to cancel and nothing has to fail.
Fairness ==
  /\ WF_vars(Walker)
  /\ \A w \in Worker : WF_vars(ProbeWorker(w))
  /\ WF_vars(Finaliser)
  /\ WF_vars(Consumer)

FairSpec == Spec /\ Fairness

-----------------------------------------------------------------------------
\* Every value is of its kind.
TypeOK ==
  /\ world \in Worlds
  /\ row \in [Path -> Status]
  /\ flagged \subseteq Path /\ seen \subseteq Path /\ spared \subseteq Path
  /\ swept \in BOOLEAN /\ stamped \in BOOLEAN
  /\ result \in {"running", "ok", "cancelled", "error"}
  /\ cancel \in BOOLEAN /\ abort \in BOOLEAN
  /\ wpc \in {"start", "walk", "put", "end", "done"}
  /\ todo \subseteq Path
  /\ inHand \in IF wpc = "put" THEN Path ELSE {NoPath}
  /\ failed \subseteq Dir
  /\ complete \in BOOLEAN
  /\ candQ \in Seq(Path \cup {End}) /\ Len(candQ) <= CandQueue
  /\ resQ \in Seq(Path \cup {End}) /\ Len(resQ) <= ResultQueue
  /\ worker \in [Worker -> {"get", "poll", "hold", "forward", "done", "raised"}]
  /\ hand \in [Worker -> Path \cup {NoPath}]
  /\ \A w \in Worker : worker[w] \in {"hold", "raised"} <=> hand[w] \in Path
  /\ fin \in {"wait", "put", "done", "dead"}
  /\ con \in {"get", "flush", "lastFlush", "failing", "reap", "decide", "sweep", "stamp",
              "shutdown", "conclude", "finish", "over"}
  /\ batch \in Seq(Path)
  /\ raised \in BOOLEAN
  /\ outcome \in {"ok", "cancelled", "error"}

\* Where a path can be while the pass is under way.
Travelling ==
  {inHand} \cup Items(candQ) \cup {hand[w] : w \in Worker} \cup Items(resQ) \cup Items(batch)

\* Until a teardown begins, no file falls between the walker, the workers and
\* the consumer: each one is still to be met, on its way, catalogued, or under a
\* directory that failed to list.
NothingLost ==
  ~TearDown => Walkable(world) \subseteq todo \cup Travelling \cup seen \cup Beneath(failed)

\* A pass never marks missing the row of a file that is on the disk and that its
\* walk could have met, nor one a rule hides, however the threads interleave with
\* a cancel, a failing writer or a change of the rules (_mark_missing runs after a
\* complete walk only, and reads the flags of that moment).
MissingIsGone ==
  \A p \in Path : row[p] = "missing" /\ world.row[p] # "missing" =>
    p \notin Walkable(world) \cup spared

\* A pass recorded ok left the catalogue as it found the disk: except below a
\* directory that failed to list, every file it could meet has a live row, and of
\* the other rows those that a rule hid at the sweep are as they were before and
\* all others missing, whether their file is gone or the walk dropped it.
OkIsExact ==
  result = "ok" =>
    \A p \in Path \ Beneath(failed) :
      /\ p \in Walkable(world) => row[p] = "live" /\ p \in seen
      /\ p \notin Walkable(world) /\ row[p] # "none" =>
           row[p] = IF p \in spared THEN world.row[p] ELSE "missing"

\* No file is in two places at once, nor queued twice, so that none is probed or
\* counted twice (the batch is replaced after each flush).
EachFileOnce ==
  LET Spots == ({"walker"} \X {0}) \cup ({"worker"} \X Worker)
               \cup ({"cand"} \X DOMAIN candQ) \cup ({"res"} \X DOMAIN resQ)
               \cup ({"batch"} \X DOMAIN batch)
      At(s) == CASE s[1] = "walker" -> inHand
                 [] s[1] = "cand"   -> candQ[s[2]]
                 [] s[1] = "worker" -> hand[s[2]]
                 [] s[1] = "res"    -> resQ[s[2]]
                 [] s[1] = "batch"  -> batch[s[2]]
  IN \A s, t \in Spots : At(s) \in Path =>
       /\ At(s) = At(t) => s = t
       /\ At(s) \notin todo \cup seen

\* A row is never dropped: if its path is gone from the table, it is because the
\* same row now stands at the path its file was moved to (its pins and tags hang
\* on the row's id).
RowsSurvive ==
  \A p \in Path : world.row[p] # "none" /\ row[p] = "none" =>
    \E q \in Path : world.from[q] = p /\ row[q] # "none"

\* Nothing is dropped on the way: neither a file between two threads nor a row.
FilesAndRowsKept == NothingLost /\ RowsSurvive

\* The rows marked missing, and the word ok, tell what the walk found.
SweepIsExact == MissingIsGone /\ OkIsExact

\* When the outcome is decided no thread of the pipeline is left: neither a
\* walker, nor a worker, nor the finaliser outlives the scan.
NothingOutlives ==
  con \in {"conclude", "finish", "over"} =>
    /\ wpc = "done" /\ fin \in {"done", "dead"}
    /\ \A w \in Worker : worker[w] \in {"done", "raised"}

\* The worker's unguarded put of the sentinel (no timeout, no poll of cancel)
\* always finds room, whatever the walker and its siblings do.
ForwardNeverBlocks ==
  \A w \in Worker : worker[w] = "forward" => HasRoom(candQ, CandQueue)

\* No thread is left behind, and none waits where nothing would wake it.
NoThreadLeft == NothingOutlives /\ ForwardNeverBlocks

\* The pipeline keeps the promise of ScanContract: the threads, the queues, the
\* cancel and the failures show in the catalogue as whole batches recorded, one
\* sweep of what is absent after everything visible, and a result.
Contract == INSTANCE ScanContract
  WITH world <- world, row <- row, flagged <- flagged, seen <- seen, failed <- failed, swept <- swept, result <- result
ImplementsContract == Contract!Spec

\* With no exception loose in a worker or a listener, every scan comes back: with
\* queues of any size, a cancel at any moment and a writer that fails at any job.
ScanReturns == <>(con = "over")

\* Cancelling a scan ends it (ScanViewModel.cancel: the final state arrives as
\* usual once it unwinds).
CancelUnwinds == cancel ~> (con = "over")
=============================================================================
