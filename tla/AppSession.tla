----------------------------- MODULE AppSession -----------------------------
(***************************************************************************)
(* One session of the window: the main loop with its view models           *)
(* (src/src/viewmodels/browse_vm.py, scan_vm.py, sources_vm.py), the pool   *)
(* their jobs run on (src/src/util/threads.py), the catalogue's one writer  *)
(* thread (CatalogueWriter of src/src/catalogue/ingest.py), the change feed *)
(* that tells the Browse page of what was written, and the shutdown.        *)
(*                                                                         *)
(* A job is the list of its steps.  A step that writes hands a function to  *)
(* the writer and waits for it.  What a scan does between its writes is in  *)
(* ScanPipeline; other processes on the catalogue in CatalogueProcesses.    *)
(***************************************************************************)
EXTENDS Naturals, FiniteSets, SequencesExt

CONSTANTS
    Image,     \* images on the Browse page, each with a FILE rule of its own
    Search,    \* what may be in the search box and the filter chips
    FirstSearch,
    None,      \* no rule, no read
    PoolSize,  \* threads of the pool (4 in the code)
    Sessions   \* bound: what the user and the faults may do, one of these

ASSUME SearchAssumption == FirstSearch \in Search
ASSUME PoolAssumption == PoolSize \in Nat \ {0}
ASSUME NoneAssumption == None \notin Image \cup Search \cup Nat
ASSUME SessionsAssumption ==
    Sessions \subseteq [{"search", "edit", "scan", "root", "look", "close", "fault"} -> Nat]

VARIABLES
    db,        \* [rules, flags: the images excluded, rows: batches written]
    writer,    \* [started, closed, thread, queue]
    jobs,      \* all jobs given to the pool, in order
    idle,      \* callbacks waiting for the main loop
    browse,    \* BrowseVM: [spec, loaded, newest: the last refresh, due, shown]
    scan,      \* ScanVM: [running, token: the job its cancel token belongs to]
    cancelled, \* jobs whose token is cancelled
    toast,     \* the image whose exclusion the toast offers to undo
    app,       \* "open", "closing", "sealed", "joining", "stopping", "closed"
    left,      \* what of this session's bounds is left
    \* history
    asked,     \* the search the user chose last
    raced,     \* the first load stored its default over a newer choice
    torn,      \* a page's second write, the reapply, failed or was refused
    doubled    \* a scan was started while another was on its way

vars == <<db, writer, jobs, idle, browse, scan, cancelled, toast, app, left,
          asked, raced, torn, doubled>>

JobIds == DOMAIN jobs
Scans == {j \in JobIds : jobs[j].kind = "scan" /\ jobs[j].at # "done"}
Active == {j \in JobIds : jobs[j].at \notin {"pooled", "done"}}
Step(j) == Head(jobs[j].todo)
AtStep(j) == jobs[j].at = "step" /\ jobs[j].todo # <<>>

\* What Browse shows of the catalogue, but for the rows a scan marks missing: no
\* event announces these.
Content == [flags |-> db.flags, rows |-> db.rows]
Nothing == [flags |-> {}, rows |-> 0]

Writes == {"exclude", "undo", "add", "drop", "off", "reapply", "root", "batch", "finish"}

-----------------------------------------------------------------------------
\* Jobs.

\* Mutant: the feed is told before the write.
EmitsFirst(kind) ==
    CASE kind \in {"exclude", "undo", "root"} -> <<"emit", kind>>
      [] kind \in {"add", "drop", "off"} -> <<kind, "reapply", "emit">>
      [] kind = "scan" -> <<"lock", "batch", "emit", "progress", "finish">>
      [] kind = "refresh" -> <<"page">>
      [] kind = "look" -> <<"version">>

\* Browse excludes and undoes in one transaction, the Sources page in two.  Of a
\* scan's writes there is one that is announced, a batch, and one that is not: the
\* sweep that marks rows missing and the scan's own row are written like this.
Script(kind) ==
    CASE kind \in {"exclude", "undo", "root"} -> <<kind, "emit">>
      [] kind \in {"add", "drop", "off"} -> <<kind, "reapply", "emit">>
      [] kind = "scan" -> <<"lock", "batch", "emit", "progress", "finish">>
      [] kind = "refresh" -> <<"page">>
      [] kind = "look" -> <<"version">>

\* run_in_worker.
Given(kind, arg) ==
    Append(jobs, [kind |-> kind, arg |-> arg, todo |-> Script(kind), at |-> "pooled",
                  saw |-> None, page |-> Nothing])

Done == [kind |-> "done", arg |-> None, todo |-> <<>>, at |-> "done",
         saw |-> None, page |-> Nothing]

Advanced(j) == [jobs EXCEPT ![j].at = "step", ![j].todo = Tail(@)]

Answer(j, ok) ==
    LET job == jobs[j] IN
    CASE job.kind = "scan" -> <<[to |-> "scanned", ok |-> ok]>>
      [] job.kind = "refresh" ->
           <<[to |-> "page", id |-> j, spec |-> job.saw, page |-> job.page]>>
      [] job.kind = "look" -> <<[to |-> "version"]>>
      [] job.kind = "exclude" /\ ok -> <<[to |-> "toast", image |-> job.arg]>>
      [] job.kind = "root" /\ ok -> <<[to |-> "start"]>>
      [] OTHER -> <<>>

\* A thread of the pool takes the job.  The first loads read the spec here ...
Begin(j) ==
    /\ jobs[j].at = "pooled"
    /\ \A k \in 1 .. (j - 1) : jobs[k].at # "pooled"
    /\ Cardinality(Active) < PoolSize
    /\ app \notin {"stopping", "closed"}
    /\ jobs' = IF jobs[j].kind = "refresh" /\ ~browse.loaded
               THEN [jobs EXCEPT ![j].at = "step", ![j].saw = browse.spec,
                                 ![j].todo = <<"default">> \o @]
               ELSE [jobs EXCEPT ![j].at = "step"]
    /\ UNCHANGED <<db, writer, idle, browse, scan, cancelled, toast, app, left, asked,
                   raced, torn, doubled>>

\* A step failed.  A scan that has begun records how it ended; any other job ends.
Failed(j) ==
    /\ IF jobs[j].kind = "scan" /\ Step(j) = "batch"
       THEN /\ jobs' = [jobs EXCEPT ![j].at = "step", ![j].todo = <<"finish">>]
            /\ cancelled' = cancelled \cup {j}
            /\ UNCHANGED idle
       ELSE /\ jobs' = [jobs EXCEPT ![j] = Done]
            /\ idle' = idle \o Answer(j, FALSE)
            /\ UNCHANGED cancelled
    /\ torn' = (torn \/ Step(j) = "reapply")

\* CatalogueWriter.submit: closed is asked under the lock ...
Submit(j) ==
    /\ AtStep(j) /\ Step(j) \in Writes
    /\ IF writer.closed
       THEN Failed(j) /\ UNCHANGED writer
       ELSE /\ writer' = [writer EXCEPT !.started = TRUE,
                             !.thread = IF @ = "none" THEN "new" ELSE @]
            /\ jobs' = [jobs EXCEPT ![j].at = "put"]
            /\ UNCHANGED <<idle, cancelled, torn>>
    /\ UNCHANGED <<db, browse, scan, toast, app, left, asked, raced, doubled>>

\* ... and the job is queued after it is released.
Put(j) ==
    /\ jobs[j].at = "put"
    /\ writer' = [writer EXCEPT !.queue = Append(@, j)]
    /\ jobs' = [jobs EXCEPT ![j].at = "wait"]
    /\ UNCHANGED <<db, idle, browse, scan, cancelled, toast, app, left, asked, raced,
                   torn, doubled>>

Holds(k) == jobs[k].at # "pooled" /\ jobs[k].todo # <<>> /\ Step(k) # "lock"

\* scan_lock refuses the second scanner at once.
Lock(j) ==
    /\ AtStep(j) /\ Step(j) = "lock"
    /\ IF \E k \in Scans \ {j} : Holds(k)
       THEN Failed(j)
       ELSE jobs' = Advanced(j) /\ UNCHANGED <<idle, cancelled, torn>>
    /\ UNCHANGED <<db, writer, browse, scan, toast, app, left, asked, raced, doubled>>

\* A cancelled scan writes no more rows, or a few that were on their way.
Cut(j) ==
    /\ AtStep(j) /\ Step(j) = "batch" /\ j \in cancelled
    /\ jobs' = [jobs EXCEPT ![j].todo = <<"finish">>]
    /\ UNCHANGED <<db, writer, idle, browse, scan, cancelled, toast, app, left, asked,
                   raced, torn, doubled>>

\* BrowseVM._on_change tests _refresh_scheduled ...
Emit(j) ==
    /\ AtStep(j) /\ Step(j) = "emit"
    /\ jobs' = IF app = "open" /\ ~browse.due THEN [jobs EXCEPT ![j].at = "told"]
               ELSE Advanced(j)
    /\ UNCHANGED <<db, writer, idle, browse, scan, cancelled, toast, app, left, asked,
                   raced, torn, doubled>>

\* ... and sets it and schedules the refresh.
Schedule(j) ==
    /\ jobs[j].at = "told"
    /\ browse' = [browse EXCEPT !.due = TRUE]
    /\ idle' = Append(idle, [to |-> "flush"])
    /\ jobs' = Advanced(j)
    /\ UNCHANGED <<db, writer, scan, cancelled, toast, app, left, asked, raced, torn,
                   doubled>>

\* ScanVM.on_progress, which may also be too soon after the last one.
Progress(j) ==
    /\ AtStep(j) /\ Step(j) = "progress"
    /\ \/ idle' = Append(idle, [to |-> "progress"])
       \/ UNCHANGED idle
    /\ jobs' = Advanced(j)
    /\ UNCHANGED <<db, writer, browse, scan, cancelled, toast, app, left, asked, raced,
                   torn, doubled>>

\* ... and stores the spec it read, with the default, once it has that.
StoreDefault(j) ==
    /\ AtStep(j) /\ Step(j) = "default"
    /\ raced' = (raced \/ browse.spec # jobs[j].saw)
    /\ browse' = [browse EXCEPT !.spec = jobs[j].saw, !.loaded = TRUE]
    /\ jobs' = Advanced(j)
    /\ UNCHANGED <<db, writer, idle, scan, cancelled, toast, app, left, asked, torn, doubled>>

Page(j) ==
    /\ AtStep(j) /\ Step(j) = "page"
    /\ jobs' = [Advanced(j) EXCEPT ![j].saw = browse.spec, ![j].page = Content]
    /\ UNCHANGED <<db, writer, idle, browse, scan, cancelled, toast, app, left, asked,
                   raced, torn, doubled>>

\* PRAGMA data_version on this thread's connection.
ReadVersion(j) ==
    /\ AtStep(j) /\ Step(j) = "version"
    /\ jobs' = Advanced(j)
    /\ UNCHANGED <<db, writer, idle, browse, scan, cancelled, toast, app, left, asked,
                   raced, torn, doubled>>

\* on_done through the scheduler.
Finish(j) ==
    /\ jobs[j].at = "step" /\ jobs[j].todo = <<>>
    /\ jobs' = [jobs EXCEPT ![j] = Done]
    /\ idle' = idle \o Answer(j, TRUE)
    /\ UNCHANGED <<db, writer, browse, scan, cancelled, toast, app, left, asked, raced,
                   torn, doubled>>

Work(j) ==
    \/ Begin(j) \/ Submit(j) \/ Put(j) \/ Lock(j) \/ Cut(j) \/ Emit(j) \/ Schedule(j)
    \/ Progress(j) \/ StoreDefault(j) \/ Page(j)
    \/ ReadVersion(j) \/ Finish(j)

-----------------------------------------------------------------------------
\* The writer thread.

\* Mutant: an undo leaves the flags to the next reapply.
AppliedLate(op, i) ==
    CASE op = "exclude" -> [db EXCEPT !.rules = @ \cup {i}, !.flags = db.rules \cup {i}]
      [] op = "undo" -> [db EXCEPT !.rules = @ \ {i}]
      [] op = "add" -> [db EXCEPT !.rules = @ \cup {i}]
      [] op = "off" -> [db EXCEPT !.rules = @ \ {i}]
      [] op = "drop" -> [db EXCEPT !.rules = @ \ {i}, !.flags = @ \ {i}]
      [] op = "reapply" -> [db EXCEPT !.flags = db.rules]
      [] op = "batch" -> [db EXCEPT !.rows = @ + 1]
      [] OTHER -> db

\* What the transaction of a job changes.  The flags of a removed rule go with it,
\* those of a rule that is switched off do not.
Applied(op, i) ==
    CASE op = "exclude" -> [db EXCEPT !.rules = @ \cup {i}, !.flags = db.rules \cup {i}]
      [] op = "undo" -> [db EXCEPT !.rules = @ \ {i}, !.flags = db.rules \ {i}]
      [] op = "add" -> [db EXCEPT !.rules = @ \cup {i}]
      [] op = "off" -> [db EXCEPT !.rules = @ \ {i}]
      [] op = "drop" -> [db EXCEPT !.rules = @ \ {i}, !.flags = @ \ {i}]
      [] op = "reapply" -> [db EXCEPT !.flags = db.rules]
      [] op = "batch" -> [db EXCEPT !.rows = @ + 1]
      [] OTHER -> db

Spend(what) == left[what] > 0 /\ left' = [left EXCEPT ![what] = @ - 1]

\* connect on the writer thread, which may raise: then the thread is no more,
\* and submit does not know.
Connect ==
    /\ writer.thread = "new"
    /\ \/ writer' = [writer EXCEPT !.thread = "on"] /\ UNCHANGED left
       \/ writer' = [writer EXCEPT !.thread = "gone"] /\ Spend("fault")
    /\ UNCHANGED <<db, jobs, idle, browse, scan, cancelled, toast, app, asked, raced,
                   torn, doubled>>

Take == writer.thread = "on" /\ writer.queue # <<>>

\* remove_rule raises when the rule is gone.
Refused(j) == Step(j) \in {"undo", "drop"} /\ jobs[j].arg \notin db.rules

Commit ==
    /\ Take /\ Head(writer.queue) # None /\ ~Refused(Head(writer.queue))
    /\ LET j == Head(writer.queue) IN
       /\ db' = Applied(Step(j), jobs[j].arg)
       /\ jobs' = Advanced(j)
    /\ writer' = [writer EXCEPT !.queue = Tail(@)]
    /\ UNCHANGED <<idle, browse, scan, cancelled, toast, app, left, asked, raced, torn,
                   doubled>>

\* Mutant: the exception is not handed to the future.
RaiseUntold ==
    /\ Take /\ Head(writer.queue) # None
    /\ Spend("fault")
    /\ writer' = [writer EXCEPT !.queue = Tail(@)]
    /\ UNCHANGED <<db, jobs, idle, browse, scan, cancelled, toast, app, asked, raced,
                   torn, doubled>>

\* The transaction fails and is rolled back; the future carries the exception.
Raise ==
    /\ Take /\ Head(writer.queue) # None
    /\ IF Refused(Head(writer.queue)) THEN UNCHANGED left ELSE Spend("fault")
    /\ Failed(Head(writer.queue))
    /\ writer' = [writer EXCEPT !.queue = Tail(@)]
    /\ UNCHANGED <<db, browse, scan, toast, app, asked, raced, doubled>>

Leave ==
    /\ Take /\ Head(writer.queue) = None
    /\ writer' = [writer EXCEPT !.queue = Tail(@), !.thread = "gone"]
    /\ UNCHANGED <<db, jobs, idle, browse, scan, cancelled, toast, app, left, asked,
                   raced, torn, doubled>>

Write == Connect \/ Commit \/ Raise \/ Leave

-----------------------------------------------------------------------------
\* The main loop: callbacks, in their order.

Refreshed == Given("refresh", None)

\* BrowseVM.refresh: the newest refresh is the one whose answer counts.
Refresh(b) == browse' = [b EXCEPT !.newest = Len(Refreshed)] /\ jobs' = Refreshed

NoScan == [running |-> FALSE, token |-> 0]

\* ScanVM.start.
Start(queue) ==
    IF scan.running THEN idle' = queue /\ UNCHANGED <<jobs, scan, doubled>>
    ELSE /\ jobs' = Given("scan", None)
         /\ scan' = [scan EXCEPT !.token = Len(jobs')]
         /\ idle' = Append(queue, [to |-> "running"])
         /\ doubled' = (doubled \/ Scans # {}
                            \/ \E c \in DOMAIN queue : queue[c].to \in {"running", "scanned"})

Turn(what) == app = "open" /\ idle # <<>> /\ Head(idle).to = what

\* _flush_change.
Flush ==
    /\ Turn("flush")
    /\ Refresh([browse EXCEPT !.due = FALSE])
    /\ idle' = Tail(idle)
    /\ UNCHANGED <<db, writer, scan, cancelled, toast, app, left, asked, raced, torn, doubled>>

\* Mutant: any answer is shown.
ShowAny ==
    /\ Turn("page")
    /\ LET r == Head(idle) IN
       browse' = [browse EXCEPT !.spec = r.spec,
                     !.shown = [spec |-> r.spec, page |-> r.page]]
    /\ idle' = Tail(idle)
    /\ UNCHANGED <<db, writer, jobs, scan, cancelled, toast, app, left, asked, raced,
                   torn, doubled>>

\* done of refresh: an answer that is not the newest's is dropped.
Show ==
    /\ Turn("page")
    /\ LET r == Head(idle) IN
       browse' = IF r.id # browse.newest THEN browse
                 ELSE [browse EXCEPT !.spec = r.spec,
                          !.shown = [spec |-> r.spec, page |-> r.page]]
    /\ idle' = Tail(idle)
    /\ UNCHANGED <<db, writer, jobs, scan, cancelled, toast, app, left, asked, raced,
                   torn, doubled>>

\* done of on_page_shown: the numbers of two connections do not compare, so that
\* either answer may come of either state.
Compare ==
    /\ Turn("version")
    /\ \/ Refresh(browse)
       \/ UNCHANGED <<browse, jobs>>
    /\ idle' = Tail(idle)
    /\ UNCHANGED <<db, writer, scan, cancelled, toast, app, left, asked, raced, torn, doubled>>

ShowRunning ==
    /\ \/ Turn("running")
       \/ Turn("progress")
    /\ scan' = [scan EXCEPT !.running = TRUE]
    /\ idle' = Tail(idle)
    /\ UNCHANGED <<db, writer, jobs, browse, cancelled, toast, app, left, asked, raced,
                   torn, doubled>>

\* Mutant: without a summary the banner stays.
OnSummary ==
    /\ Turn("scanned")
    /\ scan' = IF Head(idle).ok THEN NoScan ELSE scan
    /\ idle' = Tail(idle)
    /\ UNCHANGED <<db, writer, jobs, browse, cancelled, toast, app, left, asked, raced,
                   torn, doubled>>

OnFinished ==
    /\ Turn("scanned")
    /\ scan' = NoScan
    /\ idle' = Tail(idle)
    /\ UNCHANGED <<db, writer, jobs, browse, cancelled, toast, app, left, asked, raced,
                   torn, doubled>>

OnExcluded ==
    /\ Turn("toast")
    /\ toast' = Head(idle).image
    /\ idle' = Tail(idle)
    /\ UNCHANGED <<db, writer, jobs, browse, scan, cancelled, app, left, asked, raced,
                   torn, doubled>>

\* SourcesPage._add_then_scan, when its root is stored.
RootAdded ==
    /\ Turn("start")
    /\ Start(Tail(idle))
    /\ UNCHANGED <<db, writer, browse, cancelled, toast, app, left, asked, raced, torn>>

Loop ==
    Flush \/ Show \/ Compare \/ ShowRunning \/ OnFinished \/ OnExcluded \/ RootAdded

-----------------------------------------------------------------------------
\* The user.

\* _update, which every filter calls.
Updated(s) == [browse EXCEPT !.spec = s]

\* Any of the filters: set_segment, set_search, ..., set_window.
Choose(s) ==
    /\ app = "open" /\ Spend("search")
    /\ s # browse.spec
    /\ asked' = s
    /\ Refresh(Updated(s))
    /\ UNCHANGED <<db, writer, idle, scan, cancelled, toast, app, raced, torn, doubled>>

\* Exclude Image on a card; on the Sources page a rule added or switched on,
\* removed, or switched off.
Edit(kind, i) ==
    /\ app = "open" /\ Spend("edit")
    /\ kind = "exclude" => i \notin browse.shown.page.flags
    /\ kind \in {"drop", "off"} => i \in db.rules
    /\ jobs' = Given(kind, i)
    /\ UNCHANGED <<db, writer, idle, browse, scan, cancelled, toast, app, asked, raced,
                   torn, doubled>>

Undo ==
    /\ app = "open" /\ Spend("edit")
    /\ toast # None
    /\ jobs' = Given("undo", toast)
    /\ toast' = None
    /\ UNCHANGED <<db, writer, idle, browse, scan, cancelled, app, asked, raced, torn,
                   doubled>>

\* F5, or the Scan button when there is no root to add.
Scan ==
    /\ app = "open" /\ Spend("scan")
    /\ Start(idle)
    /\ UNCHANGED <<db, writer, browse, cancelled, toast, app, asked, raced, torn>>

\* The Scan button with a root to add first.
AddThenScan ==
    /\ app = "open" /\ Spend("root")
    /\ jobs' = Given("root", None)
    /\ UNCHANGED <<db, writer, idle, browse, scan, cancelled, toast, app, asked, raced,
                   torn, doubled>>

Cancel ==
    /\ app = "open" /\ scan.running
    /\ scan.token \notin cancelled \cup {0}
    /\ cancelled' = cancelled \cup {scan.token}
    /\ UNCHANGED <<db, writer, jobs, idle, browse, scan, toast, app, left, asked, raced,
                   torn, doubled>>

PageShown ==
    /\ app = "open" /\ Spend("look")
    /\ jobs' = Given("look", None)
    /\ UNCHANGED <<db, writer, idle, browse, scan, cancelled, toast, app, asked, raced,
                   torn, doubled>>

User ==
    \/ \E s \in Search : Choose(s)
    \/ \E kind \in {"exclude", "add", "drop", "off"}, i \in Image : Edit(kind, i)
    \/ Undo \/ Scan \/ AddThenScan \/ Cancel \/ PageShown

-----------------------------------------------------------------------------
\* The end: do_shutdown on the main loop, which turns no more.

Quit ==
    /\ app = "open" /\ Spend("close")
    /\ cancelled' = cancelled \cup ({scan.token} \ {0})
    /\ app' = "closing"
    /\ UNCHANGED <<db, writer, jobs, idle, browse, scan, toast, asked, raced, torn, doubled>>

\* CatalogueWriter.close.
Seal ==
    /\ app = "closing"
    /\ writer' = [writer EXCEPT !.closed = TRUE]
    /\ app' = IF writer.started THEN "sealed" ELSE "stopping"
    /\ UNCHANGED <<db, jobs, idle, browse, scan, cancelled, toast, left, asked, raced,
                   torn, doubled>>

PutSentinel ==
    /\ app = "sealed"
    /\ writer' = [writer EXCEPT !.queue = Append(@, None)]
    /\ app' = "joining"
    /\ UNCHANGED <<db, jobs, idle, browse, scan, cancelled, toast, left, asked, raced,
                   torn, doubled>>

\* The join returns when the thread is gone, or after its five seconds.
Join ==
    /\ app = "joining"
    /\ app' = "stopping"
    /\ UNCHANGED <<db, writer, jobs, idle, browse, scan, cancelled, toast, left, asked,
                   raced, torn, doubled>>

\* threads.shutdown(wait=True): pooled jobs are cancelled, the others awaited.
Shutdown ==
    /\ app = "stopping"
    /\ Active = {}
    /\ jobs' = [j \in JobIds |-> Done]
    /\ app' = "closed"
    /\ UNCHANGED <<db, writer, idle, browse, scan, cancelled, toast, left, asked, raced,
                   torn, doubled>>

Close == Seal \/ PutSentinel \/ Join \/ Shutdown

-----------------------------------------------------------------------------

\* What each object of the window starts with.
FreshWriter == [started |-> FALSE, closed |-> FALSE, thread |-> "none", queue |-> <<>>]
FirstBrowse ==
    [spec |-> FirstSearch, loaded |-> FALSE, newest |-> 1, due |-> FALSE,
     shown |-> [spec |-> FirstSearch, page |-> Nothing]]

\* The window has just been built: Browse asked for its first page.
Init ==
    /\ db = [rules |-> {}, flags |-> {}, rows |-> 0]
    /\ writer = FreshWriter
    /\ jobs = <<[Done EXCEPT !.kind = "refresh", !.todo = Script("refresh"), !.at = "pooled"]>>
    /\ idle = <<>>
    /\ browse = FirstBrowse
    /\ scan = NoScan
    /\ cancelled = {} /\ toast = None /\ app = "open"
    /\ left \in Sessions
    /\ asked = FirstSearch
    /\ raced = FALSE /\ torn = FALSE /\ doubled = FALSE

Next ==
    \/ \E j \in JobIds : Work(j)
    \/ Write \/ Loop \/ User \/ Quit \/ Close

\* The threads of the pool, the writer and the main loop run as long as they have
\* something to do; the user owes nothing.
Spec ==
    /\ Init /\ [][Next]_vars
    /\ WF_vars(\E j \in JobIds : Work(j))
    /\ WF_vars(Write) /\ WF_vars(Loop) /\ WF_vars(Close)

-----------------------------------------------------------------------------
\* Properties.

Contents == [flags : SUBSET Image, rows : Nat]
Shown == [spec : Search, page : Contents]

TypeOK ==
    /\ db \in [rules : SUBSET Image, flags : SUBSET Image, rows : Nat]
    /\ writer \in [started : BOOLEAN, closed : BOOLEAN,
                   thread : {"none", "new", "on", "gone"}, queue : Seq(Nat \cup {None})]
    /\ \A j \in JobIds : /\ jobs[j].at \in {"pooled", "step", "put", "wait", "told", "done"}
                         /\ jobs[j].saw \in Search \cup {None}
    \* the queue holds each job that waits, once
    /\ \A j \in JobIds : jobs[j].at = "wait" <=> \E q \in DOMAIN writer.queue : writer.queue[q] = j
    /\ IsInjective(writer.queue)
    /\ browse \in [spec : Search, loaded : BOOLEAN, newest : JobIds, due : BOOLEAN, shown : Shown]
    /\ scan \in [running : BOOLEAN, token : Nat]
    /\ cancelled \subseteq JobIds /\ toast \in Image \cup {None}
    /\ app \in {"open", "closing", "sealed", "joining", "stopping", "closed"}
    /\ asked \in Search

\* However the jobs of the two pages mix on the writer, and whichever of them
\* fail: the flags in the table are those of the stored rules, except between the
\* two writes of one operation of the Sources page, or for good after the second
\* of them failed.
RulesApplied ==
    db.flags # db.rules =>
        \/ torn
        \/ \E j \in JobIds : jobs[j].at # "done" /\ jobs[j].todo # <<>> /\ Step(j) = "reapply"

\* Once the callbacks on their way have run, the banner runs while a scan does,
\* and its Cancel reaches that scan - unless a second start came before the
\* first was shown, which start does not notice.
BannerTells ==
    app = "open" /\ ~doubled
    /\ (\A c \in DOMAIN idle : idle[c].to \notin {"running", "progress", "scanned"}) =>
        /\ scan.running <=> Scans # {}
        /\ scan.running => Scans = {scan.token}

\* Jobs left in the queue of a thread that is gone.
Stuck == IF writer.thread = "gone" THEN ToSet(writer.queue) \ {None} ELSE {}

\* However bursts of changes are collapsed and answers overtake each other, Browse
\* comes to show what the announced writes left, for the search chosen last -
\* unless every thread of the pool waits for a dead writer, the first load
\* overran the choice, or a failed second write went unannounced.
BrowseCatchesUp ==
    <>[](\/ app # "open" \/ torn
         \/ Cardinality(Stuck) = PoolSize
         \/ /\ browse.shown.page = Content
            /\ raced \/ browse.shown.spec = asked)

\* Closing the window ends - unless a job was put behind the sentinel, or the
\* writer's thread died of its connect: then a thread of the pool waits for an
\* answer that never comes, and so does the shutdown.
CloseReturns == (app = "closing") ~> (app = "closed" \/ Stuck # {})
=============================================================================
