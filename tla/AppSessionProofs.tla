-------------------------- MODULE AppSessionProofs --------------------------
(***************************************************************************)
(* Proofs about one session of the window, for any images, searches, size  *)
(* of the pool and number of clicks and faults: the flags in the table     *)
(* follow the stored rules, however the jobs of the two pages mix on the   *)
(* writer and whichever of them fail; the writer's queue holds each job    *)
(* that waits for it, once; and the banner tells of the scan that runs.    *)
(***************************************************************************)
EXTENDS AppSession, TLAPS

-----------------------------------------------------------------------------
\* The inductive invariant.

\* The operations of the Sources page write twice, the others once.
TwoWrites == {"add", "drop", "off"}
OneWrite  == {"exclude", "undo", "root"}
Kinds == TwoWrites \cup OneWrite \cup {"scan", "refresh", "look"}
Steps == Writes \cup {"emit", "lock", "progress", "page", "default", "version"}

\* What a job of this kind may have left to do.
Remains(kind) ==
  CASE kind \in OneWrite -> {<<kind, "emit">>, <<"emit">>, <<>>}
    [] kind \in TwoWrites -> {<<kind, "reapply", "emit">>, <<"reapply", "emit">>, <<"emit">>, <<>>}
    [] kind = "scan" -> {<<"lock", "batch", "emit", "progress", "finish">>,
                         <<"batch", "emit", "progress", "finish">>,
                         <<"emit", "progress", "finish">>, <<"progress", "finish">>,
                         <<"finish">>, <<>>}
    [] kind = "refresh" -> {<<"default", "page">>, <<"page">>, <<>>}
    [] kind = "look" -> {<<"version">>, <<>>}
    [] kind = "done" -> {<<>>}

JobShape(job) ==
  /\ {"kind", "arg", "todo", "at", "saw", "page"} \subseteq DOMAIN job
  /\ job.kind \in Kinds \cup {"done"}
  /\ job.todo \in Remains(job.kind)
  /\ job.at \in {"put", "wait"} => job.todo # <<>> /\ Head(job.todo) \in Writes
  /\ job.at = "told" => job.todo # <<>> /\ Head(job.todo) = "emit"
  /\ job.at = "pooled" => job.kind \in Kinds /\ job.todo = Script(job.kind)

\* The job's second write is the next thing it does.
Owes(job) == job.at # "done" /\ job.todo # <<>> /\ Head(job.todo) = "reapply"

JobsInv ==
  /\ \E W : jobs \in Seq(W)
  /\ \A j \in JobIds : JobShape(jobs[j])

\* The queue holds jobs that wait for it, each once, and the sentinel.
QueueInv ==
  /\ "queue" \in DOMAIN writer
  /\ \E W : writer.queue \in Seq(W)
  /\ \A q \in DOMAIN writer.queue :
       writer.queue[q] # None => writer.queue[q] \in JobIds /\ jobs[writer.queue[q]].at = "wait"
  /\ \A p, q \in DOMAIN writer.queue :
       writer.queue[p] = writer.queue[q] /\ writer.queue[p] # None => p = q

FlagsInv ==
  /\ {"rules", "flags", "rows"} \subseteq DOMAIN db
  /\ db.flags # db.rules => torn \/ \E j \in JobIds : Owes(jobs[j])

SessionInv == JobsInv /\ QueueInv /\ FlagsInv

-----------------------------------------------------------------------------
\* Jobs.

LEMMA ScriptShape ==
  ASSUME NEW kind \in Kinds
  PROVE  /\ Script(kind) \in Remains(kind) /\ Script(kind) # <<>> /\ Head(Script(kind)) # "reapply"
         /\ kind \in TwoWrites => Script(kind) = <<kind, "reapply", "emit">>
<1>1. CASE kind \in TwoWrites
  <2>1. Script(kind) = <<kind, "reapply", "emit">> /\ kind \notin OneWrite
    BY <1>1 DEF TwoWrites, OneWrite, Script
  <2>2. Head(Script(kind)) = kind
    BY <2>1
  <2>3. QED
    BY <1>1, <2>1, <2>2 DEF TwoWrites, Remains
<1>2. CASE kind \in OneWrite
  <2>1. Script(kind) = <<kind, "emit">> /\ kind \notin TwoWrites
    BY <1>2 DEF Script, OneWrite, TwoWrites
  <2>2. Head(Script(kind)) = kind
    BY <2>1
  <2>3. QED
    BY <1>2, <2>1, <2>2 DEF OneWrite, Remains
<1>3. CASE kind \in {"scan", "refresh", "look"}
  BY <1>3 DEF Script, Remains, OneWrite, TwoWrites
<1>4. QED
  BY <1>1, <1>2, <1>3 DEF Kinds

\* What is left of a job after its next step, and who takes which step.
LEMMA TailShape ==
  ASSUME NEW kind \in Kinds \cup {"done"}, NEW todo \in Remains(kind), todo # <<>>
  PROVE  /\ Tail(todo) \in Remains(kind) /\ todo \in Seq(Steps) /\ Head(todo) \in Steps
         /\ Head(todo) = "reapply" => kind \in TwoWrites
         /\ Head(todo) \in TwoWrites => Tail(todo) = <<"reapply", "emit">>
         /\ Head(todo) \in {"lock", "batch", "progress", "finish"} => kind = "scan"
         /\ Head(todo) \in OneWrite \cup TwoWrites => kind = Head(todo)
         /\ Head(todo) = "default" => Tail(todo) = <<"page">>
         /\ kind = "refresh" <=> Head(todo) \in {"default", "page"}
<1>1. CASE kind \in TwoWrites
  <2>0. kind \notin OneWrite
    BY <1>1 DEF OneWrite, TwoWrites
  <2>1. CASE todo = <<kind, "reapply", "emit">>
    <3>1. Head(todo) = kind /\ Tail(todo) = <<"reapply", "emit">>
      BY <2>1
    <3>2. QED
      BY <1>1, <2>0, <2>1, <3>1 DEF Remains, TwoWrites, OneWrite, Steps, Writes
  <2>2. CASE todo = <<"reapply", "emit">>
    <3>1. Head(todo) = "reapply" /\ Tail(todo) = <<"emit">>
      BY <2>2
    <3>2. QED
      BY <1>1, <2>0, <2>2, <3>1 DEF Remains, TwoWrites, OneWrite, Steps, Writes
  <2>3. CASE todo = <<"emit">>
    <3>1. Head(todo) = "emit" /\ Tail(todo) = <<>>
      BY <2>3
    <3>2. QED
      BY <1>1, <2>0, <2>3, <3>1 DEF Remains, TwoWrites, OneWrite, Steps, Writes
  <2>4. Remains(kind) = {<<kind, "reapply", "emit">>, <<"reapply", "emit">>, <<"emit">>, <<>>}
    BY <1>1, <2>0 DEF Remains, TwoWrites
  <2>5. QED
    BY <2>1, <2>2, <2>3, <2>4
<1>2. CASE kind \in OneWrite
  <2>1. CASE todo = <<kind, "emit">>
    <3>1. Head(todo) = kind /\ Tail(todo) = <<"emit">>
      BY <2>1
    <3>2. QED
      BY <1>2, <2>1, <3>1 DEF Remains, TwoWrites, OneWrite, Steps, Writes
  <2>2. CASE todo = <<"emit">>
    <3>1. Head(todo) = "emit" /\ Tail(todo) = <<>>
      BY <2>2
    <3>2. QED
      BY <1>2, <2>2, <3>1 DEF Remains, TwoWrites, OneWrite, Steps, Writes
  <2>3. Remains(kind) = {<<kind, "emit">>, <<"emit">>, <<>>}
    BY <1>2 DEF Remains, OneWrite, TwoWrites
  <2>4. QED
    BY <2>1, <2>2, <2>3
<1>3. CASE kind = "scan"
  <2>1. Remains("scan") = {<<"lock", "batch", "emit", "progress", "finish">>,
                           <<"batch", "emit", "progress", "finish">>,
                           <<"emit", "progress", "finish">>, <<"progress", "finish">>,
                           <<"finish">>, <<>>}
    BY DEF Remains, OneWrite, TwoWrites
  <2>2. CASE todo = <<"lock", "batch", "emit", "progress", "finish">>
    <3>1. Head(todo) = "lock" /\ Tail(todo) = <<"batch", "emit", "progress", "finish">>
      BY <2>2
    <3>2. QED
      BY <1>3, <2>1, <2>2, <3>1 DEF TwoWrites, OneWrite, Steps, Writes
  <2>3. CASE todo = <<"batch", "emit", "progress", "finish">>
    <3>1. Head(todo) = "batch" /\ Tail(todo) = <<"emit", "progress", "finish">>
      BY <2>3
    <3>2. QED
      BY <1>3, <2>1, <2>3, <3>1 DEF TwoWrites, OneWrite, Steps, Writes
  <2>4. CASE todo = <<"emit", "progress", "finish">>
    <3>1. Head(todo) = "emit" /\ Tail(todo) = <<"progress", "finish">>
      BY <2>4
    <3>2. QED
      BY <1>3, <2>1, <2>4, <3>1 DEF TwoWrites, OneWrite, Steps, Writes
  <2>5. CASE todo = <<"progress", "finish">>
    <3>1. Head(todo) = "progress" /\ Tail(todo) = <<"finish">>
      BY <2>5
    <3>2. QED
      BY <1>3, <2>1, <2>5, <3>1 DEF TwoWrites, OneWrite, Steps, Writes
  <2>6. CASE todo = <<"finish">>
    <3>1. Head(todo) = "finish" /\ Tail(todo) = <<>>
      BY <2>6
    <3>2. QED
      BY <1>3, <2>1, <2>6, <3>1 DEF TwoWrites, OneWrite, Steps, Writes
  <2>7. QED
    BY <1>3, <2>1, <2>2, <2>3, <2>4, <2>5, <2>6
<1>4. CASE kind = "refresh"
  <2>1. Remains("refresh") = {<<"default", "page">>, <<"page">>, <<>>}
    BY DEF Remains, OneWrite, TwoWrites
  <2>2. CASE todo = <<"default", "page">>
    <3>1. Head(todo) = "default" /\ Tail(todo) = <<"page">>
      BY <2>2
    <3>2. QED
      BY <1>4, <2>1, <2>2, <3>1 DEF TwoWrites, OneWrite, Steps, Writes
  <2>3. CASE todo = <<"page">>
    <3>1. Head(todo) = "page" /\ Tail(todo) = <<>>
      BY <2>3
    <3>2. QED
      BY <1>4, <2>1, <2>3, <3>1 DEF TwoWrites, OneWrite, Steps, Writes
  <2>4. QED
    BY <1>4, <2>1, <2>2, <2>3
<1>5. CASE kind = "look"
  <2>1. Remains("look") = {<<"version">>, <<>>}
    BY DEF Remains, OneWrite, TwoWrites
  <2>2. todo = <<"version">>
    BY <1>5, <2>1
  <2>3. Head(todo) = "version" /\ Tail(todo) = <<>>
    BY <2>2
  <2>4. QED
    BY <1>5, <2>1, <2>2, <2>3 DEF TwoWrites, OneWrite, Steps, Writes
<1>6. kind # "done"
  BY DEF Remains, OneWrite, TwoWrites
<1>7. QED
  BY <1>1, <1>2, <1>3, <1>4, <1>5, <1>6 DEF Kinds

LEMMA PairOf ==
  ASSUME NEW S, NEW s \in Seq(S), NEW a, NEW b, Len(s) = 2, s[1] = a, s[2] = b
  PROVE  s = <<a, b>>
<1>1. DOMAIN s = 1 .. 2 /\ s = [i \in 1 .. 2 |-> s[i]]
  OBVIOUS
<1>2. DOMAIN <<a, b>> = 1 .. 2 /\ <<a, b>> = [i \in 1 .. 2 |-> <<a, b>>[i]]
  OBVIOUS
<1>3. \A i \in 1 .. 2 : s[i] = <<a, b>>[i]
  OBVIOUS
<1>4. [i \in 1 .. 2 |-> s[i]] = [i \in 1 .. 2 |-> <<a, b>>[i]]
  BY <1>3
<1>5. QED
  BY <1>1, <1>2, <1>4

LEMMA DoneShape == JobShape(Done) /\ ~Owes(Done)
BY DEF JobShape, Owes, Done, Remains, TwoWrites, OneWrite

\* One job changes: the others are as they were.
LEMMA OneChanged ==
  ASSUME JobsInv, NEW j \in JobIds, NEW job, jobs' = [jobs EXCEPT ![j] = job], JobShape(job)
  PROVE  JobsInv' /\ JobIds' = JobIds /\ \A k \in JobIds : jobs'[k] = IF k = j THEN job ELSE jobs[k]
<1>1. PICK W : jobs \in Seq(W)
  BY DEF JobsInv
<1>2. jobs' \in Seq(W \cup {job})
  BY <1>1 DEF JobIds
<1>3. JobIds' = JobIds /\ \A k \in JobIds : jobs'[k] = IF k = j THEN job ELSE jobs[k]
  BY <1>1 DEF JobIds
<1>4. JobsInv'
  BY <1>2, <1>3 DEF JobsInv
<1>5. QED
  BY <1>3, <1>4

LEMMA OneJob ==
  ASSUME JobsInv, FlagsInv, NEW j \in JobIds, NEW job, jobs' = [jobs EXCEPT ![j] = job],
         JobShape(job), UNCHANGED db, torn => torn', Owes(jobs[j]) => Owes(job) \/ torn'
  PROVE  /\ JobsInv' /\ FlagsInv'
         /\ JobIds' = JobIds /\ \A k \in JobIds : jobs'[k] = IF k = j THEN job ELSE jobs[k]
<1>1. JobsInv' /\ JobIds' = JobIds /\ \A k \in JobIds : jobs'[k] = IF k = j THEN job ELSE jobs[k]
  BY OneChanged
<1>2. ASSUME NEW k \in JobIds, Owes(jobs[k])
      PROVE  torn' \/ \E i \in JobIds' : Owes(jobs'[i])
  BY <1>1, <1>2
<1>3. FlagsInv'
  BY <1>2 DEF FlagsInv
<1>4. QED
  BY <1>1, <1>3

\* The queue does not feel the step of a job that does not wait in it.
LEMMA QueueStays ==
  ASSUME QueueInv, NEW j \in JobIds, jobs[j].at # "wait", JobIds' = JobIds,
         \A k \in JobIds \ {j} : jobs'[k] = jobs[k],
         "queue" \in DOMAIN writer', writer'.queue = writer.queue
  PROVE  QueueInv'
BY DEF QueueInv

\* A thread's step on its own job, which waits for nobody and owes no write yet, or
\* still does.
LEMMA WorkKeeps ==
  ASSUME SessionInv, NEW j \in JobIds, jobs[j].at # "wait", NEW job,
         jobs' = [jobs EXCEPT ![j] = job], JobShape(job), UNCHANGED db,
         torn => torn', Owes(jobs[j]) => Owes(job) \/ torn',
         "queue" \in DOMAIN writer', writer'.queue = writer.queue
  PROVE  SessionInv'
<1>1. /\ JobsInv' /\ FlagsInv' /\ JobIds' = JobIds
      /\ \A k \in JobIds : jobs'[k] = IF k = j THEN job ELSE jobs[k]
  BY OneJob DEF SessionInv
<1>2. QueueInv'
  BY <1>1, QueueStays DEF SessionInv
<1>3. QED
  BY <1>1, <1>2 DEF SessionInv

LEMMA ShapeOf == ASSUME SessionInv, NEW j \in JobIds PROVE JobShape(jobs[j])
BY DEF SessionInv, JobsInv

\* The step that was next is done.
LEMMA AdvanceKeeps ==
  ASSUME SessionInv, NEW j \in JobIds, jobs[j].todo # <<>>, jobs[j].at # "wait",
         ~Owes(jobs[j]), jobs' = Advanced(j), UNCHANGED <<db, writer, torn>>
  PROVE  SessionInv'
<1> DEFINE job == [jobs[j] EXCEPT !.at = "step", !.todo = Tail(@)]
<1>1. jobs' = [jobs EXCEPT ![j] = job]
  BY DEF Advanced
<1>2. /\ {"kind", "arg", "todo", "at", "saw", "page"} \subseteq DOMAIN job
      /\ job.kind = jobs[j].kind /\ job.todo = Tail(jobs[j].todo) /\ job.at = "step"
  BY ShapeOf DEF JobShape
<1>3. job.todo \in Remains(job.kind)
  BY <1>2, ShapeOf, TailShape DEF JobShape
<1>4. JobShape(job)
  BY <1>2, <1>3, ShapeOf DEF JobShape
<1>5. "queue" \in DOMAIN writer'
  BY DEF SessionInv, QueueInv
<1>6. QED
  BY <1>1, <1>4, <1>5, WorkKeeps

\* The job goes on, or to the writer, with all it has left.
LEMMA MoveKeeps ==
  ASSUME SessionInv, NEW j \in JobIds, NEW at \in {"step", "put", "told"}, jobs[j].at # "wait",
         at # "step" => jobs[j].todo # <<>>, at = "told" => Step(j) = "emit",
         at = "put" => Step(j) \in Writes, jobs' = [jobs EXCEPT ![j].at = at],
         UNCHANGED <<db, torn>>, "queue" \in DOMAIN writer', writer'.queue = writer.queue
  PROVE  SessionInv'
<1> DEFINE job == [jobs[j] EXCEPT !.at = at]
<1>1. jobs' = [jobs EXCEPT ![j] = job]
  OBVIOUS
<1>2. /\ {"kind", "arg", "todo", "at", "saw", "page"} \subseteq DOMAIN job
      /\ job.kind = jobs[j].kind /\ job.todo = jobs[j].todo /\ job.at = at
  BY ShapeOf DEF JobShape
<1>3. JobShape(job)
  BY <1>2, ShapeOf DEF JobShape, Step
<1>4. Owes(jobs[j]) => Owes(job)
  BY <1>2 DEF Owes
<1>5. QED
  BY <1>1, <1>3, <1>4, WorkKeeps

\* A step that fails: what it leaves of the job.
LEMMA FailedJob ==
  ASSUME SessionInv, NEW j \in JobIds, Failed(j), jobs[j].todo # <<>>
  PROVE  \E job : /\ jobs' = [jobs EXCEPT ![j] = job] /\ JobShape(job)
                  /\ torn => torn'
                  /\ Owes(jobs[j]) => torn'
<1>1. (torn => torn') /\ (Owes(jobs[j]) => torn')
  BY DEF Failed, Owes, Step
<1>2. CASE jobs[j].kind = "scan" /\ Step(j) = "batch"
  <2> DEFINE job == [jobs[j] EXCEPT !.at = "step", !.todo = <<"finish">>]
  <2>1. jobs' = [jobs EXCEPT ![j] = job]
    BY <1>2 DEF Failed
  <2>2. /\ {"kind", "arg", "todo", "at", "saw", "page"} \subseteq DOMAIN job
        /\ job.kind = "scan" /\ job.todo = <<"finish">> /\ job.at = "step"
    BY <1>2, ShapeOf DEF JobShape
  <2>3. <<"finish">> \in Remains("scan")
    BY DEF Remains, TwoWrites, OneWrite
  <2>4. JobShape(job)
    BY <2>2, <2>3 DEF JobShape, Kinds
  <2>5. QED
    BY <1>1, <2>1, <2>4
<1>3. CASE ~(jobs[j].kind = "scan" /\ Step(j) = "batch")
  <2>1. jobs' = [jobs EXCEPT ![j] = Done]
    BY <1>3 DEF Failed
  <2>2. QED
    BY <1>1, <2>1, DoneShape
<1>4. QED
  BY <1>2, <1>3

LEMMA FailKeeps ==
  ASSUME SessionInv, NEW j \in JobIds, AtStep(j), Failed(j), UNCHANGED <<db, writer>>
  PROVE  SessionInv'
<1>1. jobs[j].todo # <<>> /\ jobs[j].at # "wait"
  BY DEF AtStep
<1>2. PICK job : /\ jobs' = [jobs EXCEPT ![j] = job] /\ JobShape(job)
                 /\ torn => torn'
                 /\ Owes(jobs[j]) => torn'
  BY <1>1, FailedJob
<1>3. "queue" \in DOMAIN writer'
  BY DEF SessionInv, QueueInv
<1>4. QED
  BY <1>1, <1>2, <1>3, WorkKeeps

-----------------------------------------------------------------------------
\* The threads of the pool.

\* What is not written twice owes nothing at its other steps.
LEMMA OwesAt ==
  ASSUME SessionInv, NEW j \in JobIds, jobs[j].todo # <<>>, Step(j) # "reapply"
  PROVE  ~Owes(jobs[j])
BY DEF Owes, Step

LEMMA BeginKeeps ==
  ASSUME SessionInv, NEW j \in JobIds, Begin(j)
  PROVE  SessionInv'
<1>1. jobs[j].at = "pooled" /\ UNCHANGED <<db, writer, torn>> /\ "queue" \in DOMAIN writer'
  BY DEF Begin, SessionInv, QueueInv
<1>2. CASE jobs[j].kind = "refresh" /\ ~browse.loaded
  <2> DEFINE job == [jobs[j] EXCEPT !.at = "step", !.saw = browse.spec, !.todo = <<"default">> \o @]
  <2>1. jobs' = [jobs EXCEPT ![j] = job]
    BY <1>2 DEF Begin
  <2>2. jobs[j].todo = <<"page">>
    BY <1>1, <1>2, ShapeOf DEF JobShape, Script
  <2>3. <<"default">> \o <<"page">> = <<"default", "page">>
    <3>1. <<"default">> \in Seq({"default", "page"}) /\ <<"page">> \in Seq({"default", "page"})
      OBVIOUS
    <3>2. <<"default">> \o <<"page">> \in Seq({"default", "page"})
      BY <3>1
    <3>3. Len(<<"default">> \o <<"page">>) = 2
      BY <3>1
    <3>4. (<<"default">> \o <<"page">>)[1] = "default" /\ (<<"default">> \o <<"page">>)[2] = "page"
      BY <3>1
    <3>5. QED
      BY <3>2, <3>3, <3>4, PairOf
  <2>4. /\ {"kind", "arg", "todo", "at", "saw", "page"} \subseteq DOMAIN job
        /\ job.kind = "refresh" /\ job.todo = <<"default">> \o <<"page">> /\ job.at = "step"
    BY <1>2, <2>2, ShapeOf DEF JobShape
  <2>5. <<"default">> \o <<"page">> \in Remains("refresh")
    BY <2>3 DEF Remains, TwoWrites, OneWrite
  <2>6. JobShape(job)
    BY <2>4, <2>5 DEF JobShape, Kinds
  <2>7. ~Owes(jobs[j])
    BY <2>2 DEF Owes
  <2>8. QED
    BY <1>1, <2>1, <2>6, <2>7, WorkKeeps
<1>3. CASE ~(jobs[j].kind = "refresh" /\ ~browse.loaded)
  <2>1. jobs' = [jobs EXCEPT ![j].at = "step"]
    BY <1>3 DEF Begin
  <2>2. QED
    BY <1>1, <2>1, MoveKeeps
<1>4. QED
  BY <1>2, <1>3

LEMMA SubmitKeeps ==
  ASSUME SessionInv, NEW j \in JobIds, Submit(j)
  PROVE  SessionInv'
<1>1. AtStep(j) /\ Step(j) \in Writes /\ UNCHANGED db
  BY DEF Submit
<1>2. CASE writer.closed
  <2>1. Failed(j) /\ UNCHANGED writer
    BY <1>2 DEF Submit
  <2>2. QED
    BY <1>1, <2>1, FailKeeps
<1>3. CASE ~writer.closed
  <2>1. /\ writer' = [writer EXCEPT !.started = TRUE, !.thread = IF @ = "none" THEN "new" ELSE @]
        /\ jobs' = [jobs EXCEPT ![j].at = "put"] /\ UNCHANGED torn
    BY <1>3 DEF Submit
  <2>2. "queue" \in DOMAIN writer' /\ writer'.queue = writer.queue
    BY <2>1 DEF SessionInv, QueueInv
  <2>3. jobs[j].at # "wait" /\ jobs[j].todo # <<>> /\ Step(j) \in Writes
    BY <1>1 DEF AtStep
  <2>4. QED
    BY <1>1, <2>1, <2>2, <2>3, MoveKeeps
<1>4. QED
  BY <1>2, <1>3

LEMMA PutKeeps ==
  ASSUME SessionInv, NEW j \in JobIds, Put(j)
  PROVE  SessionInv'
<1> DEFINE job == [jobs[j] EXCEPT !.at = "wait"]
<1>1. /\ jobs[j].at = "put" /\ writer' = [writer EXCEPT !.queue = Append(@, j)]
      /\ jobs' = [jobs EXCEPT ![j] = job] /\ UNCHANGED <<db, torn>>
  BY DEF Put
<1>2. /\ {"kind", "arg", "todo", "at", "saw", "page"} \subseteq DOMAIN job
      /\ job.kind = jobs[j].kind /\ job.todo = jobs[j].todo /\ job.at = "wait"
  BY ShapeOf DEF JobShape
<1>3. JobShape(job)
  BY <1>1, <1>2, ShapeOf DEF JobShape
<1>4. Owes(jobs[j]) => Owes(job)
  BY <1>2 DEF Owes
<1>5. /\ JobsInv' /\ FlagsInv' /\ JobIds' = JobIds
      /\ \A k \in JobIds : jobs'[k] = IF k = j THEN job ELSE jobs[k]
  BY <1>1, <1>3, <1>4, OneJob DEF SessionInv
<1>6. QueueInv'
  <2>1. PICK W : writer.queue \in Seq(W)
    BY DEF SessionInv, QueueInv
  <2>2. "queue" \in DOMAIN writer' /\ writer'.queue = Append(writer.queue, j)
    BY <1>1 DEF SessionInv, QueueInv
  <2>3. writer.queue \in Seq(W \cup {j})
    BY <2>1
  <2>4. writer'.queue \in Seq(W \cup {j})
    BY <2>2, <2>3
  <2>5. \A q \in DOMAIN writer'.queue :
          \/ q \in DOMAIN writer.queue /\ writer'.queue[q] = writer.queue[q]
          \/ q = Len(writer.queue) + 1 /\ writer'.queue[q] = j
    BY <2>2, <2>3
  <2>6. \A q \in DOMAIN writer.queue : writer.queue[q] # None => writer.queue[q] # j
    BY <1>1 DEF SessionInv, QueueInv
  <2>7. \A q \in DOMAIN writer'.queue : writer'.queue[q] # None =>
          writer'.queue[q] \in JobIds' /\ jobs'[writer'.queue[q]].at = "wait"
    BY <1>2, <1>5, <2>5 DEF SessionInv, QueueInv
  <2>8. \A p, q \in DOMAIN writer'.queue :
          writer'.queue[p] = writer'.queue[q] /\ writer'.queue[p] # None => p = q
    BY <2>5, <2>6 DEF SessionInv, QueueInv
  <2>9. QED
    BY <2>2, <2>4, <2>7, <2>8 DEF QueueInv
<1>7. QED
  BY <1>5, <1>6 DEF SessionInv

LEMMA PageKeeps ==
  ASSUME SessionInv, NEW j \in JobIds, Page(j)
  PROVE  SessionInv'
<1> DEFINE job == [jobs[j] EXCEPT !.at = "step", !.todo = Tail(@), !.saw = browse.spec, !.page = Content]
<1>1. /\ jobs[j].at = "step" /\ jobs[j].todo # <<>> /\ Step(j) = "page"
      /\ jobs' = [Advanced(j) EXCEPT ![j].saw = browse.spec, ![j].page = Content]
      /\ UNCHANGED <<db, writer, torn>> /\ "queue" \in DOMAIN writer'
  BY DEF Page, AtStep, SessionInv, QueueInv
<1>2. jobs' = [jobs EXCEPT ![j] = job]
  BY <1>1 DEF Advanced
<1>3. /\ {"kind", "arg", "todo", "at", "saw", "page"} \subseteq DOMAIN job
      /\ job.kind = jobs[j].kind /\ job.todo = Tail(jobs[j].todo) /\ job.at = "step"
  BY ShapeOf DEF JobShape
<1>4. JobShape(job)
  BY <1>1, <1>3, ShapeOf, TailShape DEF JobShape
<1>5. QED
  BY <1>1, <1>2, <1>4, OwesAt, WorkKeeps

LEMMA CutKeeps ==
  ASSUME SessionInv, NEW j \in JobIds, Cut(j)
  PROVE  SessionInv'
<1> DEFINE job == [jobs[j] EXCEPT !.todo = <<"finish">>]
<1>1. /\ jobs[j].at = "step" /\ jobs[j].todo # <<>> /\ Step(j) = "batch"
      /\ jobs' = [jobs EXCEPT ![j] = job] /\ UNCHANGED <<db, writer, torn>>
      /\ "queue" \in DOMAIN writer'
  BY DEF Cut, AtStep, SessionInv, QueueInv
<1>2. /\ {"kind", "arg", "todo", "at", "saw", "page"} \subseteq DOMAIN job
      /\ job.kind = jobs[j].kind /\ job.todo = <<"finish">> /\ job.at = "step"
  BY <1>1, ShapeOf DEF JobShape
<1>3. jobs[j].kind = "scan"
  BY <1>1, ShapeOf, TailShape DEF JobShape, Step
<1>4. <<"finish">> \in Remains("scan")
  BY DEF Remains, TwoWrites, OneWrite
<1>5. JobShape(job)
  BY <1>2, <1>3, <1>4 DEF JobShape, Kinds
<1>6. QED
  BY <1>1, <1>5, OwesAt, WorkKeeps

LEMMA EachWorkKeeps ==
  ASSUME SessionInv, NEW j \in JobIds, Work(j)
  PROVE  SessionInv'
<1>1. CASE Lock(j)
  <2>1. CASE \E k \in Scans \ {j} : Holds(k)
    <3>1. AtStep(j) /\ Failed(j) /\ UNCHANGED <<db, writer>>
      BY <1>1, <2>1 DEF Lock
    <3>2. QED
      BY <3>1, FailKeeps
  <2>2. CASE ~\E k \in Scans \ {j} : Holds(k)
    <3>1. AtStep(j) /\ Step(j) = "lock" /\ jobs' = Advanced(j) /\ UNCHANGED <<db, writer, torn>>
      BY <1>1, <2>2 DEF Lock
    <3>2. QED
      BY <3>1, OwesAt, AdvanceKeeps DEF AtStep
  <2>3. QED
    BY <2>1, <2>2
<1>2. CASE Emit(j)
  <2>1. AtStep(j) /\ Step(j) = "emit" /\ UNCHANGED <<db, writer, torn>>
        /\ (jobs' = [jobs EXCEPT ![j].at = "told"] \/ jobs' = Advanced(j))
    BY <1>2 DEF Emit
  <2>2. jobs[j].todo # <<>> /\ jobs[j].at = "step" /\ "queue" \in DOMAIN writer'
    BY <2>1 DEF AtStep, SessionInv, QueueInv
  <2>3. QED
    BY <2>1, <2>2, OwesAt, AdvanceKeeps, MoveKeeps
<1>3. CASE Schedule(j)
  <2>1. jobs[j].at = "told" /\ jobs' = Advanced(j) /\ UNCHANGED <<db, writer, torn>>
    BY <1>3 DEF Schedule
  <2>2. jobs[j].todo # <<>> /\ ~Owes(jobs[j])
    BY <2>1, ShapeOf DEF JobShape, Owes
  <2>3. QED
    BY <2>1, <2>2, AdvanceKeeps
<1>4. CASE Progress(j) \/ StoreDefault(j) \/ ReadVersion(j)
  <2>1. AtStep(j) /\ Step(j) \in {"progress", "default", "version"} /\ jobs' = Advanced(j)
        /\ UNCHANGED <<db, writer, torn>>
    BY <1>4 DEF Progress, StoreDefault, ReadVersion
  <2>2. QED
    BY <2>1, OwesAt, AdvanceKeeps DEF AtStep
<1>5. CASE Finish(j)
  <2>1. /\ jobs[j].at = "step" /\ jobs[j].todo = <<>> /\ jobs' = [jobs EXCEPT ![j] = Done]
        /\ UNCHANGED <<db, writer, torn>> /\ "queue" \in DOMAIN writer'
    BY <1>5 DEF Finish, SessionInv, QueueInv
  <2>2. ~Owes(jobs[j])
    BY <2>1 DEF Owes
  <2>3. QED
    BY <2>1, <2>2, DoneShape, WorkKeeps
<1>6. QED
  BY <1>1, <1>2, <1>3, <1>4, <1>5, BeginKeeps, SubmitKeeps, PutKeeps, PageKeeps, CutKeeps DEF Work

-----------------------------------------------------------------------------
\* The writer thread.

\* The first of the queue leaves it; it is the only job that changed, if it is one.
LEMMA QueueMoves ==
  ASSUME QueueInv, writer.queue # <<>>, "queue" \in DOMAIN writer', writer'.queue = Tail(writer.queue),
         JobIds' = JobIds, \A k \in JobIds : Head(writer.queue) = None \/ k # Head(writer.queue) => jobs'[k] = jobs[k]
  PROVE  QueueInv'
<1> DEFINE j == Head(writer.queue)
<1>1. PICK W : writer.queue \in Seq(W)
  BY DEF QueueInv
<1>2. writer'.queue \in Seq(W)
  BY <1>1
<1>3. \A q \in DOMAIN writer'.queue :
        q + 1 \in DOMAIN writer.queue /\ writer'.queue[q] = writer.queue[q + 1] /\ q \in Nat \ {0}
  BY <1>1
<1>4. 1 \in DOMAIN writer.queue /\ writer.queue[1] = j
  BY <1>1
<1>5. ASSUME NEW q \in DOMAIN writer'.queue, writer'.queue[q] # None
      PROVE  writer'.queue[q] \in JobIds' /\ jobs'[writer'.queue[q]].at = "wait"
  <2>1. writer.queue[q + 1] \in JobIds /\ jobs[writer.queue[q + 1]].at = "wait"
    BY <1>3, <1>5 DEF QueueInv
  <2>2. j # None => writer.queue[q + 1] # j
    <3>1. q + 1 # 1
      BY <1>3
    <3>2. QED
      BY <1>3, <1>4, <3>1 DEF QueueInv
  <2>3. QED
    BY <1>3, <2>1, <2>2
<1>6. ASSUME NEW p \in DOMAIN writer'.queue, NEW q \in DOMAIN writer'.queue,
             writer'.queue[p] = writer'.queue[q], writer'.queue[p] # None
      PROVE  p = q
  <2>1. p + 1 = q + 1
    BY <1>3, <1>6 DEF QueueInv
  <2>2. QED
    BY <1>3, <2>1
<1>7. QED
  BY <1>2, <1>5, <1>6 DEF QueueInv

\* The job at the head of the queue waits for its next write.
LEMMA HeadWaits ==
  ASSUME SessionInv, Take, Head(writer.queue) # None
  PROVE  /\ Head(writer.queue) \in JobIds /\ jobs[Head(writer.queue)].at = "wait"
         /\ jobs[Head(writer.queue)].todo # <<>> /\ JobShape(jobs[Head(writer.queue)])
<1>1. PICK W : writer.queue \in Seq(W)
  BY DEF SessionInv, QueueInv
<1>2. 1 \in DOMAIN writer.queue /\ writer.queue[1] = Head(writer.queue)
  BY <1>1 DEF Take
<1>3. Head(writer.queue) \in JobIds /\ jobs[Head(writer.queue)].at = "wait"
  BY <1>2 DEF SessionInv, QueueInv
<1>4. QED
  BY <1>3, ShapeOf DEF JobShape

\* What a transaction does to the rules and the flags.
LEMMA AppliedFlags ==
  ASSUME FlagsInv, NEW op, NEW i
  PROVE  LET new == Applied(op, i)
         IN /\ {"rules", "flags", "rows"} \subseteq DOMAIN new
            /\ op \in {"exclude", "undo", "reapply"} => new.flags = new.rules
            /\ op \notin {"exclude", "undo", "reapply"} \cup TwoWrites =>
                 new.flags = db.flags /\ new.rules = db.rules
BY DEF FlagsInv, Applied, TwoWrites

LEMMA CommitKeeps ==
  ASSUME SessionInv, Commit
  PROVE  SessionInv'
<1> DEFINE j == Head(writer.queue)
           job == [jobs[j] EXCEPT !.at = "step", !.todo = Tail(@)]
<1>1. /\ Take /\ j # None /\ db' = Applied(Step(j), jobs[j].arg) /\ UNCHANGED torn
      /\ jobs' = [jobs EXCEPT ![j] = job]
      /\ writer' = [writer EXCEPT !.queue = Tail(@)]
  BY DEF Commit, Advanced
<1>2. j \in JobIds /\ jobs[j].at = "wait" /\ jobs[j].todo # <<>> /\ JobShape(jobs[j])
  BY <1>1, HeadWaits
<1>3. /\ {"kind", "arg", "todo", "at", "saw", "page"} \subseteq DOMAIN job
      /\ job.kind = jobs[j].kind /\ job.todo = Tail(jobs[j].todo) /\ job.at = "step"
  BY <1>2 DEF JobShape
<1>4. JobShape(job)
  BY <1>2, <1>3, TailShape DEF JobShape
<1>5. JobsInv' /\ JobIds' = JobIds /\ \A k \in JobIds : jobs'[k] = IF k = j THEN job ELSE jobs[k]
  BY <1>1, <1>2, <1>4, OneChanged DEF SessionInv
<1>6. FlagsInv /\ writer.queue # <<>> /\ "queue" \in DOMAIN writer' /\ writer'.queue = Tail(writer.queue)
  BY <1>1 DEF Take, SessionInv, QueueInv
<1>7. QueueInv'
  BY <1>1, <1>5, <1>6, QueueMoves DEF SessionInv
<1>8. FlagsInv'
  <2>1. {"rules", "flags", "rows"} \subseteq DOMAIN db'
    BY <1>1, <1>6, AppliedFlags
  <2>2. CASE Step(j) \in {"exclude", "undo", "reapply"}
    <3>1. db'.flags = db'.rules
      BY <1>1, <1>6, <2>2, AppliedFlags
    <3>2. QED
      BY <2>1, <3>1 DEF FlagsInv
  <2>3. CASE Step(j) \in TwoWrites
    <3>1. job.todo = <<"reapply", "emit">>
      BY <1>2, <1>3, <2>3, TailShape DEF Step, JobShape
    <3>2. <<"reapply", "emit">> # <<>> /\ Head(<<"reapply", "emit">>) = "reapply"
      OBVIOUS
    <3>3. Owes(job)
      BY <1>3, <3>1, <3>2 DEF Owes
    <3>4. QED
      BY <1>2, <1>5, <2>1, <3>3 DEF FlagsInv
  <2>4. CASE Step(j) \notin {"exclude", "undo", "reapply"} \cup TwoWrites
    <3>1. db'.flags = db.flags /\ db'.rules = db.rules
      BY <1>1, <1>6, <2>4, AppliedFlags
    <3>2. ~Owes(jobs[j])
      BY <1>2, <2>4, OwesAt
    <3>3. ASSUME NEW k \in JobIds, Owes(jobs[k])
          PROVE  k \in JobIds' /\ Owes(jobs'[k])
      BY <1>5, <3>2, <3>3
    <3>4. QED
      BY <1>1, <1>6, <2>1, <3>1, <3>3 DEF FlagsInv
  <2>5. QED
    BY <2>2, <2>3, <2>4
<1>9. QED
  BY <1>5, <1>7, <1>8 DEF SessionInv

LEMMA RaiseKeeps ==
  ASSUME SessionInv, Raise
  PROVE  SessionInv'
<1> DEFINE j == Head(writer.queue)
<1>1. /\ Take /\ j # None /\ Failed(j) /\ UNCHANGED db
      /\ writer' = [writer EXCEPT !.queue = Tail(@)]
  BY DEF Raise
<1>2. j \in JobIds /\ jobs[j].todo # <<>>
  BY <1>1, HeadWaits
<1>3. PICK job : /\ jobs' = [jobs EXCEPT ![j] = job] /\ JobShape(job)
                 /\ torn => torn'
                 /\ Owes(jobs[j]) => torn'
  BY <1>1, <1>2, FailedJob
<1>4. /\ JobsInv' /\ FlagsInv' /\ JobIds' = JobIds
      /\ \A k \in JobIds : jobs'[k] = IF k = j THEN job ELSE jobs[k]
  BY <1>1, <1>2, <1>3, OneJob DEF SessionInv
<1>5. writer.queue # <<>> /\ "queue" \in DOMAIN writer' /\ writer'.queue = Tail(writer.queue)
  BY <1>1 DEF Take, SessionInv, QueueInv
<1>6. QueueInv'
  BY <1>1, <1>4, <1>5, QueueMoves DEF SessionInv
<1>7. QED
  BY <1>4, <1>6 DEF SessionInv

\* Jobs, rules and the queue are left alone.
LEMMA NothingMoves ==
  ASSUME SessionInv, UNCHANGED <<db, jobs, torn>>, "queue" \in DOMAIN writer', writer'.queue = writer.queue
  PROVE  SessionInv'
BY DEF SessionInv, JobsInv, QueueInv, FlagsInv, JobIds

LEMMA WriteKeeps ==
  ASSUME SessionInv, Write
  PROVE  SessionInv'
<1>1. CASE Connect
  <2>1. UNCHANGED <<db, jobs, torn>> /\ "queue" \in DOMAIN writer' /\ writer'.queue = writer.queue
    BY <1>1 DEF Connect, SessionInv, QueueInv
  <2>2. QED
    BY <2>1, NothingMoves
<1>2. CASE Leave
  <2>1. /\ UNCHANGED <<db, jobs, torn>> /\ writer.queue # <<>>
        /\ "queue" \in DOMAIN writer' /\ writer'.queue = Tail(writer.queue)
    BY <1>2 DEF Leave, Take, SessionInv, QueueInv
  <2>2. JobIds' = JobIds
    BY <2>1 DEF JobIds
  <2>3. QueueInv'
    BY <2>1, <2>2, QueueMoves DEF SessionInv
  <2>4. JobsInv' /\ FlagsInv'
    BY <2>1 DEF SessionInv, JobsInv, FlagsInv, JobIds
  <2>5. QED
    BY <2>3, <2>4 DEF SessionInv
<1>3. QED
  BY <1>1, <1>2, CommitKeeps, RaiseKeeps DEF Write

-----------------------------------------------------------------------------
\* The main loop, the user and the end.

LEMMA GivenKeeps ==
  ASSUME SessionInv, NEW kind \in Kinds, NEW arg, jobs' = Given(kind, arg), UNCHANGED <<db, writer, torn>>
  PROVE  SessionInv'
<1> DEFINE job == [kind |-> kind, arg |-> arg, todo |-> Script(kind), at |-> "pooled",
                   saw |-> None, page |-> Nothing]
<1>1. jobs' = Append(jobs, job)
  BY DEF Given
<1>2. PICK W : jobs \in Seq(W)
  BY DEF SessionInv, JobsInv
<1>3. jobs \in Seq(W \cup {job})
  BY <1>2
<1>4. jobs' \in Seq(W \cup {job})
  BY <1>1, <1>3
<1>5. /\ JobIds \subseteq JobIds' /\ \A k \in JobIds : jobs'[k] = jobs[k]
      /\ \A k \in JobIds' \ JobIds : jobs'[k] = job
  BY <1>1, <1>3 DEF JobIds
<1>6. JobShape(job)
  BY ScriptShape DEF JobShape
<1>7. JobsInv'
  BY <1>4, <1>5, <1>6 DEF SessionInv, JobsInv
<1>8. QueueInv'
  BY <1>5 DEF SessionInv, QueueInv
<1>9. FlagsInv'
  BY <1>5 DEF SessionInv, FlagsInv
<1>10. QED
  BY <1>7, <1>8, <1>9 DEF SessionInv

LEMMA RestKeeps ==
  ASSUME SessionInv, Loop \/ User \/ Quit
  PROVE  SessionInv'
<1>1. /\ UNCHANGED <<db, writer, torn>>
      /\ jobs' = jobs \/ \E kind \in Kinds : \E arg : jobs' = Given(kind, arg)
  <2>1. CASE Flush \/ Show \/ Compare \/ ShowRunning \/ OnFinished \/ OnExcluded
    BY <2>1 DEF Flush, Show, Compare, ShowRunning, OnFinished, OnExcluded, Refresh, Refreshed, Kinds
  <2>2. CASE RootAdded \/ Scan
    BY <2>2 DEF RootAdded, Scan, Start, Kinds
  <2>3. CASE \E s \in Search : Choose(s)
    BY <2>3 DEF Choose, Refresh, Refreshed, Kinds
  <2>4. CASE \E kind \in {"exclude", "add", "drop", "off"}, i \in Image : Edit(kind, i)
    BY <2>4 DEF Edit, Kinds, TwoWrites, OneWrite
  <2>5. CASE Undo \/ AddThenScan \/ Cancel \/ PageShown \/ Quit
    BY <2>5 DEF Undo, AddThenScan, Cancel, PageShown, Quit, Kinds, OneWrite
  <2>6. QED
    BY <2>1, <2>2, <2>3, <2>4, <2>5 DEF Loop, User
<1>2. "queue" \in DOMAIN writer' /\ writer'.queue = writer.queue
  BY <1>1 DEF SessionInv, QueueInv
<1>3. QED
  BY <1>1, <1>2, GivenKeeps, NothingMoves

LEMMA CloseKeeps ==
  ASSUME SessionInv, Close
  PROVE  SessionInv'
<1>1. CASE Seal \/ Join
  <2>1. UNCHANGED <<db, jobs, torn>> /\ "queue" \in DOMAIN writer' /\ writer'.queue = writer.queue
    BY <1>1 DEF Seal, Join, SessionInv, QueueInv
  <2>2. QED
    BY <2>1, NothingMoves
<1>2. CASE PutSentinel
  <2>1. UNCHANGED <<db, jobs, torn>> /\ "queue" \in DOMAIN writer' /\ writer'.queue = Append(writer.queue, None)
    BY <1>2 DEF PutSentinel, SessionInv, QueueInv
  <2>2. PICK W : writer.queue \in Seq(W)
    BY DEF SessionInv, QueueInv
  <2>3. writer.queue \in Seq(W \cup {None})
    BY <2>2
  <2>4. writer'.queue \in Seq(W \cup {None})
    BY <2>1, <2>3
  <2>5. \A q \in DOMAIN writer'.queue :
          writer'.queue[q] # None => q \in DOMAIN writer.queue /\ writer'.queue[q] = writer.queue[q]
    BY <2>1, <2>3
  <2>6. QueueInv'
    BY <2>1, <2>4, <2>5 DEF SessionInv, QueueInv, JobIds
  <2>7. JobsInv' /\ FlagsInv'
    BY <2>1 DEF SessionInv, JobsInv, FlagsInv, JobIds
  <2>8. QED
    BY <2>6, <2>7 DEF SessionInv
<1>3. CASE Shutdown
  <2>1. Active = {} /\ jobs' = [j \in JobIds |-> Done] /\ UNCHANGED <<db, writer, torn>>
    BY <1>3 DEF Shutdown
  <2>2. PICK W : jobs \in Seq(W)
    BY DEF SessionInv, JobsInv
  <2>3. jobs' \in Seq({Done}) /\ JobIds' = JobIds /\ \A j \in JobIds : jobs'[j] = Done
    BY <2>1, <2>2 DEF JobIds
  <2>4. JobsInv'
    BY <2>3, DoneShape DEF JobsInv
  <2>5. \A j \in JobIds : jobs[j].at \in {"pooled", "done"}
    BY <2>1 DEF Active
  <2>6. QueueInv'
    BY <2>1, <2>5 DEF SessionInv, QueueInv
  <2>7. ASSUME NEW j \in JobIds
        PROVE  ~Owes(jobs[j])
    BY <2>5, ShapeOf, ScriptShape DEF Owes, JobShape
  <2>8. FlagsInv'
    BY <2>1, <2>7 DEF SessionInv, FlagsInv
  <2>9. QED
    BY <2>4, <2>6, <2>8 DEF SessionInv
<1>4. QED
  BY <1>1, <1>2, <1>3 DEF Close

LEMMA SessionStarts == Init => SessionInv
<1> DEFINE job == [Done EXCEPT !.kind = "refresh", !.todo = Script("refresh"), !.at = "pooled"]
<1>1. SUFFICES ASSUME db = [rules |-> {}, flags |-> {}, rows |-> 0], writer = FreshWriter, jobs = <<job>>
               PROVE  SessionInv
  BY DEF Init
<1>2. /\ {"kind", "arg", "todo", "at", "saw", "page"} \subseteq DOMAIN job
      /\ job.kind = "refresh" /\ job.todo = Script("refresh") /\ job.at = "pooled"
  BY DEF Done
<1>3. "refresh" \in Kinds
  BY DEF Kinds
<1>4. JobShape(job)
  BY <1>2, <1>3, ScriptShape DEF JobShape
<1>5. jobs \in Seq({job}) /\ \A j \in JobIds : jobs[j] = job
  BY <1>1 DEF JobIds
<1>6. JobsInv
  BY <1>4, <1>5 DEF JobsInv
<1>7. "queue" \in DOMAIN writer /\ writer.queue = <<>>
  BY <1>1 DEF FreshWriter
<1>8. writer.queue \in Seq({}) /\ DOMAIN writer.queue = {}
  BY <1>7
<1>9. QueueInv
  BY <1>7, <1>8 DEF QueueInv
<1>10. FlagsInv
  BY <1>1 DEF FlagsInv
<1>11. QED
  BY <1>6, <1>9, <1>10 DEF SessionInv

-----------------------------------------------------------------------------
\* Types.

LEMMA SessionKept == SessionInv /\ [Next]_vars => SessionInv'
<1>1. SUFFICES ASSUME SessionInv, [Next]_vars
               PROVE  SessionInv'
  OBVIOUS
<1>2. CASE UNCHANGED vars
  <2>1. UNCHANGED <<db, jobs, torn>> /\ "queue" \in DOMAIN writer' /\ writer'.queue = writer.queue
    BY <1>1, <1>2 DEF vars, SessionInv, QueueInv
  <2>2. QED
    BY <1>1, <2>1, NothingMoves
<1>3. CASE Next
  BY <1>1, <1>3, EachWorkKeeps, WriteKeeps, RestKeeps, CloseKeeps DEF Next
<1>4. QED
  BY <1>1, <1>2, <1>3

Stations == {"pooled", "step", "put", "wait", "told", "done"}
Jobs == [kind : Kinds \cup {"done"}, arg : Image \cup {None}, todo : Seq(Steps), at : Stations,
         saw : Search \cup {None}, page : Contents]

\* A rule is about an image, and a page that was read about a search.
JobData(job) ==
  /\ job.kind \in {"exclude", "add"} => job.arg \in Image
  /\ job.kind = "refresh" /\ job.todo # <<"page">> => job.saw \in Search

JobsTyped == jobs \in Seq(Jobs) /\ \A j \in JobIds : JobData(jobs[j])

Plain == {"version", "start", "flush", "running", "progress"}
Callbacks == [to : Plain] \cup [to : {"scanned"}, ok : BOOLEAN] \cup [to : {"toast"}, image : Image]
             \cup [to : {"page"}, id : Nat, spec : Search, page : Contents]

Browsers == [spec : Search, loaded : BOOLEAN, newest : Nat, due : BOOLEAN, shown : Shown]

LoopTyped ==
  /\ idle \in Seq(Callbacks)
  /\ browse \in Browsers /\ browse.newest \in JobIds
  /\ scan \in [running : BOOLEAN, token : Nat] /\ scan.token \in JobIds \cup {0}
  /\ cancelled \subseteq JobIds
  /\ toast \in Image \cup {None} /\ asked \in Search
  /\ app \in {"open", "closing", "sealed", "joining", "stopping", "closed"}

Writers == [started : BOOLEAN, closed : BOOLEAN, thread : {"none", "new", "on", "gone"},
            queue : Seq(Nat \cup {None})]
Tables == [rules : SUBSET Image, flags : SUBSET Image, rows : Nat]

\* A job that waits is in the queue, and the sentinel is there once, put there by
\* the close.
Queued(q, w) == \E i \in DOMAIN q : q[i] = w
WriterTyped ==
  /\ db \in Tables /\ writer \in Writers
  /\ \A j \in JobIds : jobs[j].at = "wait" => Queued(writer.queue, j)
  /\ \A p, q \in DOMAIN writer.queue : writer.queue[p] = None /\ writer.queue[q] = None => p = q
  /\ Queued(writer.queue, None) => app \in {"joining", "stopping", "closed"}

Typed == JobsTyped /\ LoopTyped /\ WriterTyped
TypeInv == SessionInv /\ Typed

LEMMA TypesSuffice == TypeInv => TypeOK
<1>. SUFFICES ASSUME TypeInv
              PROVE  TypeOK
  OBVIOUS
<1>2. \A j \in JobIds : jobs[j] \in Jobs
  BY DEF TypeInv, Typed, JobsTyped, JobIds
<1>3. \A j \in JobIds : jobs[j].at = "wait" <=> \E q \in DOMAIN writer.queue : writer.queue[q] = j
  <2>1. ASSUME NEW j \in JobIds, NEW q \in DOMAIN writer.queue, writer.queue[q] = j
        PROVE  jobs[j].at = "wait"
    <3>1. j # None
      BY NoneAssumption DEF JobIds, TypeInv, Typed, JobsTyped
    <3>2. QED
      BY <2>1, <3>1 DEF TypeInv, SessionInv, QueueInv
  <2>2. QED
    BY <2>1 DEF TypeInv, Typed, WriterTyped, Queued
<1>4. IsInjective(writer.queue)
  BY DEF TypeInv, Typed, WriterTyped, SessionInv, QueueInv, IsInjective
<1>5. browse \in [spec : Search, loaded : BOOLEAN, newest : JobIds, due : BOOLEAN, shown : Shown]
  BY DEF TypeInv, Typed, LoopTyped, Browsers
<1>6. QED
  BY <1>2, <1>3, <1>4, <1>5 DEF TypeInv, Typed, LoopTyped, WriterTyped, TypeOK, Jobs, Stations,
     Tables, Writers

\* The jobs after a step of one of them.
LEMMA OneTyped ==
  ASSUME JobsTyped, NEW j \in JobIds, NEW job \in Jobs, JobData(job), jobs' = [jobs EXCEPT ![j] = job]
  PROVE  /\ JobsTyped' /\ JobIds' = JobIds
         /\ \A k \in JobIds : jobs'[k] = IF k = j THEN job ELSE jobs[k]
<1>1. jobs' \in Seq(Jobs) /\ JobIds' = JobIds
  BY DEF JobsTyped, JobIds
<1>2. \A k \in JobIds : jobs'[k] = IF k = j THEN job ELSE jobs[k]
  BY DEF JobsTyped, JobIds
<1>3. QED
  BY <1>1, <1>2 DEF JobsTyped

\* The step of a job that neither waits nor will.
LEMMA WorkTyped ==
  ASSUME Typed, NEW j \in JobIds, jobs[j].at # "wait",
         NEW job \in Jobs, JobData(job), job.at # "wait", jobs' = [jobs EXCEPT ![j] = job],
         writer' \in Writers, writer'.queue = writer.queue, idle' \in Seq(Callbacks),
         browse' \in Browsers, browse'.newest = browse.newest, cancelled' \subseteq JobIds,
         UNCHANGED <<db, scan, toast, app, asked>>
  PROVE  Typed'
<1>1. /\ JobsTyped' /\ JobIds' = JobIds
      /\ \A k \in JobIds : jobs'[k] = IF k = j THEN job ELSE jobs[k]
  BY OneTyped DEF Typed
<1>2. LoopTyped'
  BY <1>1 DEF Typed, LoopTyped
<1>3. WriterTyped'
  BY <1>1 DEF Typed, WriterTyped, Queued
<1>4. QED
  BY <1>1, <1>2, <1>3 DEF Typed

LEMMA JobFacts ==
  ASSUME TypeInv, NEW j \in JobIds
  PROVE  /\ jobs[j] \in Jobs /\ JobData(jobs[j]) /\ JobShape(jobs[j]) /\ j \in Nat \ {0}
         /\ writer \in Writers /\ idle \in Seq(Callbacks) /\ browse \in Browsers
         /\ browse.spec \in Search /\ Content \in Contents /\ cancelled \subseteq JobIds
<1>1. jobs[j] \in Jobs /\ JobData(jobs[j]) /\ JobShape(jobs[j]) /\ j \in Nat \ {0}
  BY ShapeOf DEF TypeInv, Typed, JobsTyped, JobIds
<1>2. writer \in Writers /\ idle \in Seq(Callbacks) /\ browse \in Browsers /\ cancelled \subseteq JobIds
  BY DEF TypeInv, Typed, WriterTyped, LoopTyped
<1>3. Content \in Contents
  BY DEF Content, Contents, TypeInv, Typed, WriterTyped, Tables
<1>4. QED
  BY <1>1, <1>2, <1>3 DEF Browsers

\* A job that goes on with what it has left, but for a page it has just read.
LEMMA AdvancedTyped ==
  ASSUME TypeInv, NEW j \in JobIds, jobs[j].todo # <<>>, Step(j) # "page"
  PROVE  \E job \in Jobs : /\ JobData(job) /\ job.at = "step" /\ Advanced(j) = [jobs EXCEPT ![j] = job]
                           /\ job.kind = jobs[j].kind
<1> DEFINE job == [jobs[j] EXCEPT !.at = "step", !.todo = Tail(@)]
<1>1. Advanced(j) = [jobs EXCEPT ![j] = job]
  BY DEF Advanced
<1>2. /\ Tail(jobs[j].todo) \in Remains(jobs[j].kind) /\ jobs[j].todo \in Seq(Steps)
      /\ jobs[j].kind = "refresh" => Step(j) \in {"default", "page"}
      /\ Step(j) = "default" => Tail(jobs[j].todo) = <<"page">>
  BY JobFacts, TailShape DEF JobShape, Step
<1>3. Tail(jobs[j].todo) \in Seq(Steps)
  BY <1>2
<1>4. job \in Jobs /\ job.at = "step" /\ job.todo = Tail(jobs[j].todo) /\ job.kind = jobs[j].kind
      /\ job.arg = jobs[j].arg
  BY <1>3, JobFacts DEF Jobs, Stations
<1>5. JobData(job)
  BY <1>2, <1>4, JobFacts DEF JobData
<1>6. QED
  BY <1>1, <1>4, <1>5

LEMMA MovedTyped ==
  ASSUME TypeInv, NEW j \in JobIds, NEW at \in Stations
  PROVE  /\ [jobs[j] EXCEPT !.at = at] \in Jobs /\ JobData([jobs[j] EXCEPT !.at = at])
         /\ [jobs[j] EXCEPT !.at = at].at = at
<1> DEFINE job == [jobs[j] EXCEPT !.at = at]
<1>1. job \in Jobs /\ job.at = at /\ job.kind = jobs[j].kind /\ job.todo = jobs[j].todo
      /\ job.arg = jobs[j].arg /\ job.saw = jobs[j].saw
  BY JobFacts DEF Jobs
<1>2. QED
  BY <1>1, JobFacts DEF JobData

LEMMA DoneTyped == Done \in Jobs /\ JobData(Done) /\ Done.at = "done" /\ Done.kind = "done"
<1>1. Nothing \in Contents /\ <<>> \in Seq(Steps)
  BY DEF Nothing, Contents
<1>2. QED
  BY <1>1 DEF Done, Jobs, JobData, Stations

\* What a job sends to the main loop.
LEMMA AnswerTyped ==
  ASSUME TypeInv, NEW j \in JobIds, NEW ok \in BOOLEAN, jobs[j].kind = "refresh" => jobs[j].todo = <<>>
  PROVE  Answer(j, ok) \in Seq(Callbacks)
<1>1. CASE jobs[j].kind = "scan"
  <2>1. [to |-> "scanned", ok |-> ok] \in Callbacks
    BY DEF Callbacks
  <2>2. QED
    BY <1>1, <2>1 DEF Answer
<1>2. CASE jobs[j].kind = "refresh"
  <2>0. jobs[j].todo # <<"page">>
    <3>1. <<>> # <<"page">>
      OBVIOUS
    <3>2. QED
      BY <1>2, <3>1
  <2>1. jobs[j].saw \in Search /\ jobs[j].page \in Contents /\ j \in Nat
    BY <1>2, <2>0, JobFacts DEF JobData, Jobs
  <2>2. [to |-> "page", id |-> j, spec |-> jobs[j].saw, page |-> jobs[j].page] \in Callbacks
    BY <2>1 DEF Callbacks
  <2>3. Answer(j, ok) = <<[to |-> "page", id |-> j, spec |-> jobs[j].saw, page |-> jobs[j].page]>>
    BY <1>2 DEF Answer
  <2>4. QED
    BY <2>2, <2>3
<1>3. CASE jobs[j].kind = "look"
  <2>1. [to |-> "version"] \in Callbacks
    BY DEF Callbacks, Plain
  <2>2. QED
    BY <1>3, <2>1 DEF Answer
<1>4. CASE jobs[j].kind = "exclude" /\ ok
  <2>1. jobs[j].arg \in Image
    BY <1>4, JobFacts DEF JobData
  <2>2. [to |-> "toast", image |-> jobs[j].arg] \in Callbacks
    BY <2>1 DEF Callbacks
  <2>3. Answer(j, ok) = <<[to |-> "toast", image |-> jobs[j].arg]>>
    BY <1>4 DEF Answer
  <2>4. QED
    BY <2>2, <2>3
<1>5. CASE jobs[j].kind = "root" /\ ok
  <2>1. [to |-> "start"] \in Callbacks
    BY DEF Callbacks, Plain
  <2>2. QED
    BY <1>5, <2>1 DEF Answer
<1>6. CASE jobs[j].kind \notin {"scan", "refresh", "look"} /\ ~(jobs[j].kind = "exclude" /\ ok)
           /\ ~(jobs[j].kind = "root" /\ ok)
  BY <1>6 DEF Answer
<1>7. QED
  BY <1>1, <1>2, <1>3, <1>4, <1>5, <1>6

LEMMA ConcatOf ==
  ASSUME NEW S, NEW s \in Seq(S), NEW t \in Seq(S)
  PROVE  /\ s \o t \in Seq(S) /\ Len(s \o t) = Len(s) + Len(t)
         /\ \A i \in 1 .. Len(s) + Len(t) : (s \o t)[i] = IF i <= Len(s) THEN s[i] ELSE t[i - Len(s)]
OBVIOUS

\* What a failed step leaves of the job and sends.
LEMMA FailedTyped ==
  ASSUME TypeInv, NEW j \in JobIds, Failed(j), jobs[j].todo # <<>>, Step(j) # "page", Step(j) # "default"
  PROVE  /\ \E job \in Jobs : JobData(job) /\ job.at # "wait" /\ jobs' = [jobs EXCEPT ![j] = job]
         /\ idle' \in Seq(Callbacks) /\ cancelled' \subseteq JobIds
<1>1. CASE jobs[j].kind = "scan" /\ Step(j) = "batch"
  <2> DEFINE job == [jobs[j] EXCEPT !.at = "step", !.todo = <<"finish">>]
  <2>1. jobs' = [jobs EXCEPT ![j] = job] /\ cancelled' = cancelled \cup {j} /\ idle' = idle
    BY <1>1 DEF Failed
  <2>2. <<"finish">> \in Seq(Steps)
    BY DEF Steps, Writes
  <2>3. job \in Jobs /\ job.kind = "scan" /\ job.at = "step"
    BY <1>1, <2>2, JobFacts DEF Jobs, Stations
  <2>4. QED
    BY <2>1, <2>3, JobFacts DEF JobData
<1>2. CASE ~(jobs[j].kind = "scan" /\ Step(j) = "batch")
  <2>1. jobs' = [jobs EXCEPT ![j] = Done] /\ cancelled' = cancelled /\ idle' = idle \o Answer(j, FALSE)
    BY <1>2 DEF Failed
  <2>2. jobs[j].kind # "refresh"
    BY JobFacts, TailShape DEF JobShape, Step
  <2>3. Answer(j, FALSE) \in Seq(Callbacks)
    BY <2>2, AnswerTyped
  <2>4. idle \in Seq(Callbacks)
    BY JobFacts
  <2>5. idle' \in Seq(Callbacks)
    BY <2>1, <2>3, <2>4, ConcatOf
  <2>6. QED
    BY <2>1, <2>5, DoneTyped, JobFacts
<1>3. QED
  BY <1>1, <1>2

LEMMA BeginTyped == ASSUME TypeInv, NEW j \in JobIds, Begin(j) PROVE Typed'
<1>1. jobs[j].at = "pooled" /\ UNCHANGED <<db, writer, idle, browse, scan, cancelled, toast, app, asked>>
  BY DEF Begin
<1>2. CASE jobs[j].kind = "refresh" /\ ~browse.loaded
  <2> DEFINE job == [jobs[j] EXCEPT !.at = "step", !.saw = browse.spec, !.todo = <<"default">> \o @]
  <2>1. jobs' = [jobs EXCEPT ![j] = job]
    BY <1>2 DEF Begin
  <2>2. <<"default">> \in Seq(Steps)
    BY DEF Steps
  <2>3. <<"default">> \o jobs[j].todo \in Seq(Steps)
    BY <2>2, JobFacts, ConcatOf DEF Jobs
  <2>4. job \in Jobs /\ job.at = "step" /\ job.kind = "refresh" /\ job.saw = browse.spec
    BY <1>2, <2>3, JobFacts DEF Jobs, Stations
  <2>5. JobData(job)
    BY <2>4, JobFacts DEF JobData
  <2>6. QED
    BY <1>1, <2>1, <2>4, <2>5, JobFacts, WorkTyped DEF TypeInv
<1>3. CASE ~(jobs[j].kind = "refresh" /\ ~browse.loaded)
  <2>1. jobs' = [jobs EXCEPT ![j].at = "step"]
    BY <1>3 DEF Begin
  <2>2. "step" \in Stations
    BY DEF Stations
  <2>3. QED
    BY <1>1, <2>1, <2>2, MovedTyped, JobFacts, WorkTyped DEF TypeInv
<1>4. QED
  BY <1>2, <1>3

LEMMA SubmitTyped == ASSUME TypeInv, NEW j \in JobIds, Submit(j) PROVE Typed'
<1>1. /\ jobs[j].at = "step" /\ jobs[j].todo # <<>> /\ Step(j) \in Writes
      /\ UNCHANGED <<db, browse, scan, toast, app, asked>>
  BY DEF Submit, AtStep
<1>2. CASE writer.closed
  <2>1. Failed(j) /\ writer' = writer /\ Step(j) # "page" /\ Step(j) # "default"
    BY <1>1, <1>2 DEF Submit, Writes
  <2>2. PICK job \in Jobs : JobData(job) /\ job.at # "wait" /\ jobs' = [jobs EXCEPT ![j] = job]
    BY <1>1, <2>1, FailedTyped
  <2>3. idle' \in Seq(Callbacks) /\ cancelled' \subseteq JobIds
    BY <1>1, <2>1, FailedTyped
  <2>4. QED
    BY <1>1, <2>1, <2>2, <2>3, JobFacts, WorkTyped DEF TypeInv
<1>3. CASE ~writer.closed
  <2>1. /\ writer' = [writer EXCEPT !.started = TRUE, !.thread = IF @ = "none" THEN "new" ELSE @]
        /\ jobs' = [jobs EXCEPT ![j].at = "put"] /\ UNCHANGED <<idle, cancelled>>
    BY <1>3 DEF Submit
  <2>2. writer' \in Writers /\ writer'.queue = writer.queue
    BY <2>1, JobFacts DEF Writers
  <2>3. "put" \in Stations
    BY DEF Stations
  <2>4. QED
    BY <1>1, <2>1, <2>2, <2>3, MovedTyped, JobFacts, WorkTyped DEF TypeInv
<1>4. QED
  BY <1>2, <1>3

LEMMA PutTyped == ASSUME TypeInv, NEW j \in JobIds, Put(j) PROVE Typed'
<1> DEFINE job == [jobs[j] EXCEPT !.at = "wait"]
<1>1. /\ writer' = [writer EXCEPT !.queue = Append(@, j)] /\ jobs' = [jobs EXCEPT ![j] = job]
      /\ UNCHANGED <<db, idle, browse, scan, cancelled, toast, app, asked>>
  BY DEF Put
<1>2. job \in Jobs /\ JobData(job)
  BY MovedTyped DEF Stations
<1>3. /\ JobsTyped' /\ JobIds' = JobIds
      /\ \A k \in JobIds : jobs'[k] = IF k = j THEN job ELSE jobs[k]
  BY <1>1, <1>2, OneTyped DEF TypeInv, Typed
<1>4. LoopTyped'
  BY <1>1, <1>3 DEF TypeInv, Typed, LoopTyped
<1>5. j # None /\ j \in Nat /\ writer.queue \in Seq(Nat \cup {None})
  BY NoneAssumption, JobFacts DEF Writers
<1>6. /\ writer'.queue = Append(writer.queue, j) /\ writer' \in Writers
      /\ Len(writer.queue) \in Nat /\ DOMAIN writer'.queue = 1 .. Len(writer.queue) + 1
      /\ DOMAIN writer.queue = 1 .. Len(writer.queue)
      /\ writer'.queue[Len(writer.queue) + 1] = j
      /\ \A q \in DOMAIN writer.queue : writer'.queue[q] = writer.queue[q]
  <2>1. writer'.queue = Append(writer.queue, j)
    BY <1>1, JobFacts DEF Writers
  <2>2. Append(writer.queue, j) \in Seq(Nat \cup {None})
    BY <1>5
  <2>3. writer' \in Writers
    BY <1>1, <2>2, JobFacts DEF Writers
  <2>4. QED
    BY <1>5, <2>1, <2>2, <2>3
<1>7. Queued(writer'.queue, j) /\ \A w : w # j => (Queued(writer'.queue, w) <=> Queued(writer.queue, w))
  BY <1>6 DEF Queued
<1>8. \A p, q \in DOMAIN writer'.queue : writer'.queue[p] = None /\ writer'.queue[q] = None => p = q
  BY <1>5, <1>6 DEF TypeInv, Typed, WriterTyped
<1>9. WriterTyped'
  BY <1>1, <1>3, <1>5, <1>6, <1>7, <1>8 DEF TypeInv, Typed, WriterTyped
<1>10. QED
  BY <1>3, <1>4, <1>9 DEF Typed

\* A job takes the step it was at.
LEMMA StepTyped ==
  ASSUME TypeInv, NEW j \in JobIds, jobs[j].todo # <<>>, Step(j) # "page", jobs[j].at # "wait",
         jobs' = Advanced(j), idle' \in Seq(Callbacks),
         browse' \in Browsers, browse'.newest = browse.newest,
         UNCHANGED <<db, writer, scan, cancelled, toast, app, asked>>
  PROVE  Typed'
<1>1. PICK job \in Jobs : JobData(job) /\ job.at = "step" /\ Advanced(j) = [jobs EXCEPT ![j] = job]
  BY AdvancedTyped
<1>2. QED
  BY <1>1, JobFacts, WorkTyped DEF TypeInv

LEMMA CallbackTyped ==
  ASSUME TypeInv, NEW to \in Plain
  PROVE  Append(idle, [to |-> to]) \in Seq(Callbacks)
<1>1. [to |-> to] \in Callbacks
  BY DEF Callbacks
<1>2. QED
  BY <1>1 DEF TypeInv, Typed, LoopTyped

LEMMA LockTyped == ASSUME TypeInv, NEW j \in JobIds, Lock(j) PROVE Typed'
<1>1. /\ jobs[j].at = "step" /\ jobs[j].todo # <<>> /\ Step(j) = "lock"
      /\ UNCHANGED <<db, writer, browse, scan, toast, app, asked>>
  BY DEF Lock, AtStep
<1>2. CASE Failed(j)
  <2>1. PICK job \in Jobs : JobData(job) /\ job.at # "wait" /\ jobs' = [jobs EXCEPT ![j] = job]
    BY <1>1, <1>2, FailedTyped
  <2>2. idle' \in Seq(Callbacks) /\ cancelled' \subseteq JobIds
    BY <1>1, <1>2, FailedTyped
  <2>3. QED
    BY <1>1, <2>1, <2>2, JobFacts, WorkTyped DEF TypeInv
<1>3. CASE jobs' = Advanced(j) /\ UNCHANGED <<idle, cancelled>>
  BY <1>1, <1>3, JobFacts, StepTyped
<1>4. QED
  BY <1>2, <1>3 DEF Lock

LEMMA CutTyped == ASSUME TypeInv, NEW j \in JobIds, Cut(j) PROVE Typed'
<1> DEFINE job == [jobs[j] EXCEPT !.todo = <<"finish">>]
<1>1. /\ jobs[j].at = "step" /\ jobs[j].todo # <<>> /\ Step(j) = "batch"
      /\ jobs' = [jobs EXCEPT ![j] = job]
      /\ UNCHANGED <<db, writer, idle, browse, scan, cancelled, toast, app, asked>>
  BY DEF Cut, AtStep
<1>2. jobs[j].kind = "scan"
  BY <1>1, JobFacts, TailShape DEF JobShape, Step
<1>3. <<"finish">> \in Seq(Steps)
  BY DEF Steps, Writes
<1>4. job \in Jobs /\ job.kind = "scan" /\ job.at = "step"
  BY <1>1, <1>2, <1>3, JobFacts DEF Jobs
<1>5. JobData(job)
  BY <1>4 DEF JobData
<1>6. QED
  BY <1>1, <1>4, <1>5, JobFacts, WorkTyped DEF TypeInv

LEMMA EmitTyped == ASSUME TypeInv, NEW j \in JobIds, Emit(j) PROVE Typed'
<1>1. /\ jobs[j].at = "step" /\ jobs[j].todo # <<>> /\ Step(j) = "emit"
      /\ UNCHANGED <<db, writer, idle, browse, scan, cancelled, toast, app, asked>>
      /\ jobs' = [jobs EXCEPT ![j].at = "told"] \/ jobs' = Advanced(j)
  BY DEF Emit, AtStep
<1>2. CASE jobs' = [jobs EXCEPT ![j].at = "told"]
  <2>1. "told" \in Stations
    BY DEF Stations
  <2>2. QED
    BY <1>1, <1>2, <2>1, MovedTyped, JobFacts, WorkTyped DEF TypeInv
<1>3. CASE jobs' = Advanced(j)
  BY <1>1, <1>3, JobFacts, StepTyped
<1>4. QED
  BY <1>1, <1>2, <1>3

LEMMA ScheduleTyped == ASSUME TypeInv, NEW j \in JobIds, Schedule(j) PROVE Typed'
<1>1. /\ jobs[j].at = "told" /\ jobs' = Advanced(j) /\ browse' = [browse EXCEPT !.due = TRUE]
      /\ idle' = Append(idle, [to |-> "flush"])
      /\ UNCHANGED <<db, writer, scan, cancelled, toast, app, asked>>
  BY DEF Schedule
<1>2. jobs[j].todo # <<>> /\ Step(j) # "page"
  BY <1>1, JobFacts DEF JobShape, Step
<1>3. browse' \in Browsers /\ browse'.newest = browse.newest
  BY <1>1, JobFacts DEF Browsers
<1>4. idle' \in Seq(Callbacks)
  BY <1>1, CallbackTyped DEF Plain
<1>5. QED
  BY <1>1, <1>2, <1>3, <1>4, StepTyped

LEMMA ProgressTyped == ASSUME TypeInv, NEW j \in JobIds, Progress(j) PROVE Typed'
<1>1. /\ jobs[j].at = "step" /\ jobs[j].todo # <<>> /\ Step(j) = "progress" /\ jobs' = Advanced(j)
      /\ idle' = Append(idle, [to |-> "progress"]) \/ idle' = idle
      /\ UNCHANGED <<db, writer, browse, scan, cancelled, toast, app, asked>>
  BY DEF Progress, AtStep
<1>2. idle' \in Seq(Callbacks)
  BY <1>1, CallbackTyped, JobFacts DEF Plain
<1>3. QED
  BY <1>1, <1>2, JobFacts, StepTyped

LEMMA StoreDefaultTyped == ASSUME TypeInv, NEW j \in JobIds, StoreDefault(j) PROVE Typed'
<1>1. /\ jobs[j].at = "step" /\ jobs[j].todo # <<>> /\ Step(j) = "default" /\ jobs' = Advanced(j)
      /\ browse' = [browse EXCEPT !.spec = jobs[j].saw, !.loaded = TRUE]
      /\ UNCHANGED <<db, writer, idle, scan, cancelled, toast, app, asked>>
  BY DEF StoreDefault, AtStep
<1>2. jobs[j].saw \in Search
  <2>1. jobs[j].kind = "refresh"
    BY <1>1, JobFacts, TailShape DEF JobShape, Step
  <2>2. Head(<<"page">>) # "default"
    OBVIOUS
  <2>3. jobs[j].todo # <<"page">>
    BY <1>1, <2>2 DEF Step
  <2>4. QED
    BY <2>1, <2>3, JobFacts DEF JobData
<1>3. browse' \in Browsers /\ browse'.newest = browse.newest
  BY <1>1, <1>2, JobFacts DEF Browsers
<1>4. QED
  BY <1>1, <1>3, JobFacts, StepTyped

LEMMA PageTyped == ASSUME TypeInv, NEW j \in JobIds, Page(j) PROVE Typed'
<1> DEFINE job == [jobs[j] EXCEPT !.at = "step", !.todo = Tail(@), !.saw = browse.spec, !.page = Content]
<1>1. /\ jobs[j].at = "step" /\ jobs[j].todo # <<>>
      /\ jobs' = [Advanced(j) EXCEPT ![j].saw = browse.spec, ![j].page = Content]
      /\ UNCHANGED <<db, writer, idle, browse, scan, cancelled, toast, app, asked>>
  BY DEF Page, AtStep
<1>2. jobs' = [jobs EXCEPT ![j] = job]
  BY <1>1 DEF Advanced
<1>3. Tail(jobs[j].todo) \in Seq(Steps)
  BY <1>1, JobFacts DEF Jobs
<1>4. job \in Jobs /\ job.at = "step" /\ job.saw = browse.spec /\ job.kind = jobs[j].kind
      /\ job.arg = jobs[j].arg
  BY <1>3, JobFacts DEF Jobs, Stations
<1>5. JobData(job)
  BY <1>4, JobFacts DEF JobData
<1>6. QED
  BY <1>1, <1>2, <1>4, <1>5, JobFacts, WorkTyped DEF TypeInv

LEMMA FinishTyped == ASSUME TypeInv, NEW j \in JobIds, Finish(j) PROVE Typed'
<1>1. /\ jobs[j].at = "step" /\ jobs[j].todo = <<>> /\ jobs' = [jobs EXCEPT ![j] = Done]
      /\ idle' = idle \o Answer(j, TRUE)
      /\ UNCHANGED <<db, writer, browse, scan, cancelled, toast, app, asked>>
  BY DEF Finish
<1>2. idle \in Seq(Callbacks) /\ Answer(j, TRUE) \in Seq(Callbacks)
  BY <1>1, AnswerTyped, JobFacts
<1>3. idle' \in Seq(Callbacks)
  BY <1>1, <1>2, ConcatOf
<1>4. QED
  BY <1>1, <1>3, DoneTyped, JobFacts, WorkTyped DEF TypeInv

LEMMA EachWorkTyped == ASSUME TypeInv, NEW j \in JobIds, Work(j) PROVE Typed'
<1>1. CASE ReadVersion(j)
  <2>1. /\ jobs[j].at = "step" /\ jobs[j].todo # <<>> /\ Step(j) = "version" /\ jobs' = Advanced(j)
        /\ UNCHANGED <<db, writer, idle, browse, scan, cancelled, toast, app, asked>>
    BY <1>1 DEF ReadVersion, AtStep
  <2>2. QED
    BY <2>1, JobFacts, StepTyped
<1>2. QED
  BY <1>1, BeginTyped, SubmitTyped, PutTyped, LockTyped, CutTyped, EmitTyped, ScheduleTyped,
     ProgressTyped, StoreDefaultTyped, PageTyped, FinishTyped DEF Work

\* The first of the queue leaves it.
LEMMA TailQueued ==
  ASSUME NEW S, NEW s \in Seq(S), s # <<>>, NEW w,
         \A p, q \in DOMAIN s : s[p] = None /\ s[q] = None => p = q
  PROVE  /\ Tail(s) \in Seq(S)
         /\ Queued(Tail(s), w) => Queued(s, w)
         /\ w # Head(s) /\ Queued(s, w) => Queued(Tail(s), w)
         /\ \A p, q \in DOMAIN Tail(s) : Tail(s)[p] = None /\ Tail(s)[q] = None => p = q
<1>1. /\ Tail(s) \in Seq(S) /\ Len(s) \in Nat \ {0} /\ DOMAIN s = 1 .. Len(s) /\ s[1] = Head(s)
      /\ DOMAIN Tail(s) = 1 .. Len(s) - 1
      /\ \A i \in 1 .. Len(s) - 1 : Tail(s)[i] = s[i + 1]
  OBVIOUS
<1>2. Queued(Tail(s), w) => Queued(s, w)
  <2>1. ASSUME NEW i \in DOMAIN Tail(s), Tail(s)[i] = w
        PROVE  i + 1 \in DOMAIN s /\ s[i + 1] = w
    BY <1>1, <2>1
  <2>2. QED
    BY <2>1 DEF Queued
<1>3. w # Head(s) /\ Queued(s, w) => Queued(Tail(s), w)
  <2>1. ASSUME NEW i \in DOMAIN s, s[i] = w, w # Head(s)
        PROVE  i - 1 \in DOMAIN Tail(s) /\ Tail(s)[i - 1] = w
    <3>1. i # 1
      BY <1>1, <2>1
    <3>2. QED
      BY <1>1, <2>1, <3>1
  <2>2. QED
    BY <2>1 DEF Queued
<1>4. ASSUME NEW p \in DOMAIN Tail(s), NEW q \in DOMAIN Tail(s), Tail(s)[p] = None, Tail(s)[q] = None
      PROVE  p = q
  <2>1. p + 1 \in DOMAIN s /\ q + 1 \in DOMAIN s /\ s[p + 1] = None /\ s[q + 1] = None
    BY <1>1, <1>4
  <2>2. p + 1 = q + 1
    BY <2>1
  <2>3. QED
    BY <1>1, <2>2
<1>5. QED
  BY <1>1, <1>2, <1>3, <1>4

\* A job the writer has answered.
LEMMA AnsweredTyped ==
  ASSUME TypeInv, Take, NEW j \in JobIds, j = Head(writer.queue),
         NEW job \in Jobs, JobData(job), job.at # "wait", jobs' = [jobs EXCEPT ![j] = job],
         writer' = [writer EXCEPT !.queue = Tail(@)], idle' \in Seq(Callbacks),
         db' \in Tables, cancelled' \subseteq JobIds,
         UNCHANGED <<browse, scan, toast, app, asked>>
  PROVE  Typed'
<1>1. /\ JobsTyped' /\ JobIds' = JobIds
      /\ \A k \in JobIds : jobs'[k] = IF k = j THEN job ELSE jobs[k]
  BY OneTyped DEF TypeInv, Typed
<1>2. LoopTyped'
  BY <1>1 DEF TypeInv, Typed, LoopTyped
<1>3. writer.queue \in Seq(Nat \cup {None}) /\ writer.queue # <<>> /\ writer'.queue = Tail(writer.queue)
  BY JobFacts DEF Writers, Take
<1>4. \A p, q \in DOMAIN writer.queue : writer.queue[p] = None /\ writer.queue[q] = None => p = q
  BY DEF TypeInv, Typed, WriterTyped
<1>5. /\ writer' \in Writers
      /\ \A w : /\ Queued(writer'.queue, w) => Queued(writer.queue, w)
                /\ w # j /\ Queued(writer.queue, w) => Queued(writer'.queue, w)
      /\ \A p, q \in DOMAIN writer'.queue : writer'.queue[p] = None /\ writer'.queue[q] = None => p = q
  <2>1. writer' \in Writers
    BY <1>3, <1>4, TailQueued, JobFacts DEF Writers
  <2>2. QED
    BY <1>3, <1>4, <2>1, TailQueued
<1>6. WriterTyped'
  BY <1>1, <1>5 DEF TypeInv, Typed, WriterTyped
<1>7. QED
  BY <1>1, <1>2, <1>6 DEF Typed

LEMMA TablesAfter ==
  ASSUME db \in Tables, NEW op, NEW i, op \in {"exclude", "add"} => i \in Image
  PROVE  Applied(op, i) \in Tables
<1>1. /\ db = [rules |-> db.rules, flags |-> db.flags, rows |-> db.rows]
      /\ db.rules \subseteq Image /\ db.flags \subseteq Image /\ db.rows \in Nat
  BY DEF Tables
<1>2. CASE op = "exclude"
  <2>1. Applied(op, i) = [rules |-> db.rules \cup {i}, flags |-> db.rules \cup {i}, rows |-> db.rows]
    BY <1>1, <1>2 DEF Applied
  <2>2. QED
    BY <1>1, <1>2, <2>1 DEF Tables
<1>3. CASE op = "undo"
  <2>1. Applied(op, i) = [rules |-> db.rules \ {i}, flags |-> db.rules \ {i}, rows |-> db.rows]
    BY <1>1, <1>3 DEF Applied
  <2>2. QED
    BY <1>1, <2>1 DEF Tables
<1>4. CASE op = "add"
  <2>1. Applied(op, i) = [rules |-> db.rules \cup {i}, flags |-> db.flags, rows |-> db.rows]
    BY <1>1, <1>4 DEF Applied
  <2>2. QED
    BY <1>1, <1>4, <2>1 DEF Tables
<1>5. CASE op = "off"
  <2>1. Applied(op, i) = [rules |-> db.rules \ {i}, flags |-> db.flags, rows |-> db.rows]
    BY <1>1, <1>5 DEF Applied
  <2>2. QED
    BY <1>1, <2>1 DEF Tables
<1>6. CASE op = "drop"
  <2>1. Applied(op, i) = [rules |-> db.rules \ {i}, flags |-> db.flags \ {i}, rows |-> db.rows]
    BY <1>1, <1>6 DEF Applied
  <2>2. QED
    BY <1>1, <2>1 DEF Tables
<1>7. CASE op = "reapply"
  <2>1. Applied(op, i) = [rules |-> db.rules, flags |-> db.rules, rows |-> db.rows]
    BY <1>1, <1>7 DEF Applied
  <2>2. QED
    BY <1>1, <2>1 DEF Tables
<1>8. CASE op = "batch"
  <2>1. Applied(op, i) = [rules |-> db.rules, flags |-> db.flags, rows |-> db.rows + 1]
    BY <1>1, <1>8 DEF Applied
  <2>2. QED
    BY <1>1, <2>1 DEF Tables
<1>9. CASE op \notin {"exclude", "undo", "add", "off", "drop", "reapply", "batch"}
  BY <1>9 DEF Applied
<1>10. QED
  BY <1>2, <1>3, <1>4, <1>5, <1>6, <1>7, <1>8, <1>9

LEMMA AppliedTyped ==
  ASSUME TypeInv, NEW j \in JobIds, jobs[j].todo # <<>>
  PROVE  Applied(Step(j), jobs[j].arg) \in Tables
<1>1. Step(j) \in {"exclude", "add"} => jobs[j].arg \in Image
  BY JobFacts, TailShape DEF JobShape, Step, JobData, OneWrite, TwoWrites
<1>2. QED
  BY <1>1, TablesAfter DEF TypeInv, Typed, WriterTyped

LEMMA WriteTyped == ASSUME TypeInv, Write PROVE Typed'
<1>0. writer \in Writers
  BY DEF TypeInv, Typed, WriterTyped
<1>1. CASE Connect
  <2>1. /\ writer' \in Writers /\ writer'.queue = writer.queue
        /\ UNCHANGED <<db, jobs, idle, browse, scan, cancelled, toast, app, asked>>
    BY <1>0, <1>1 DEF Connect, Writers
  <2>2. QED
    BY <2>1 DEF TypeInv, Typed, JobsTyped, LoopTyped, WriterTyped, Queued, JobIds
<1>2. CASE Commit
  <2> DEFINE j == Head(writer.queue)
  <2>1. /\ Take /\ j # None /\ db' = Applied(Step(j), jobs[j].arg) /\ jobs' = Advanced(j)
        /\ writer' = [writer EXCEPT !.queue = Tail(@)]
        /\ UNCHANGED <<idle, browse, scan, cancelled, toast, app, asked>>
    BY <1>2 DEF Commit
  <2>2. j \in JobIds /\ jobs[j].todo # <<>> /\ jobs[j].at = "wait"
    BY <2>1, HeadWaits DEF TypeInv
  <2>3. Step(j) # "page"
    BY <2>2, JobFacts DEF JobShape, Step, Writes
  <2>4. PICK job \in Jobs : JobData(job) /\ job.at = "step" /\ Advanced(j) = [jobs EXCEPT ![j] = job]
    BY <2>2, <2>3, AdvancedTyped
  <2>5. db' \in Tables /\ idle' \in Seq(Callbacks) /\ cancelled' \subseteq JobIds
    BY <2>1, <2>2, AppliedTyped, JobFacts
  <2>6. QED
    BY <2>1, <2>2, <2>4, <2>5, AnsweredTyped
<1>3. CASE Raise
  <2> DEFINE j == Head(writer.queue)
  <2>1. /\ Take /\ j # None /\ Failed(j) /\ writer' = [writer EXCEPT !.queue = Tail(@)]
        /\ UNCHANGED <<db, browse, scan, toast, app, asked>>
    BY <1>3 DEF Raise
  <2>2. j \in JobIds /\ jobs[j].todo # <<>> /\ jobs[j].at = "wait"
    BY <2>1, HeadWaits DEF TypeInv
  <2>3. Step(j) # "page" /\ Step(j) # "default"
    BY <2>2, JobFacts DEF JobShape, Step, Writes
  <2>4. PICK job \in Jobs : JobData(job) /\ job.at # "wait" /\ jobs' = [jobs EXCEPT ![j] = job]
    BY <2>1, <2>2, <2>3, FailedTyped
  <2>5. idle' \in Seq(Callbacks) /\ cancelled' \subseteq JobIds
    BY <2>1, <2>2, <2>3, FailedTyped
  <2>6. db' \in Tables
    BY <2>1 DEF TypeInv, Typed, WriterTyped
  <2>7. QED
    BY <2>1, <2>2, <2>4, <2>5, <2>6, AnsweredTyped
<1>4. CASE Leave
  <2>1. /\ writer.queue # <<>> /\ Head(writer.queue) = None
        /\ writer' = [writer EXCEPT !.queue = Tail(@), !.thread = "gone"]
        /\ UNCHANGED <<db, jobs, idle, browse, scan, cancelled, toast, app, asked>>
    BY <1>4 DEF Leave, Take
  <2>2. \A p, q \in DOMAIN writer.queue : writer.queue[p] = None /\ writer.queue[q] = None => p = q
    BY DEF TypeInv, Typed, WriterTyped
  <2>3. writer.queue \in Seq(Nat \cup {None}) /\ writer'.queue = Tail(writer.queue)
    BY <1>0, <2>1 DEF Writers
  <2>4. writer' \in Writers
    BY <1>0, <2>1, <2>2, <2>3, TailQueued DEF Writers
  <2>5. /\ \A w : /\ Queued(writer'.queue, w) => Queued(writer.queue, w)
                  /\ w # None /\ Queued(writer.queue, w) => Queued(writer'.queue, w)
        /\ \A p, q \in DOMAIN writer'.queue : writer'.queue[p] = None /\ writer'.queue[q] = None => p = q
    BY <2>1, <2>2, <2>3, TailQueued
  <2>6. \A j \in JobIds : j # None
    BY NoneAssumption DEF JobIds, TypeInv, Typed, JobsTyped
  <2>7. QED
    BY <2>1, <2>4, <2>5, <2>6 DEF TypeInv, Typed, JobsTyped, LoopTyped, WriterTyped, JobIds
<1>5. QED
  BY <1>1, <1>2, <1>3, <1>4 DEF Write

\* A job is given to the pool.
LEMMA GivenTyped ==
  ASSUME TypeInv, NEW kind \in Kinds, NEW arg \in Image \cup {None},
         kind \in {"exclude", "add"} => arg \in Image, jobs' = Given(kind, arg)
  PROVE  /\ JobsTyped' /\ JobIds \subseteq JobIds' /\ Len(jobs') \in JobIds'
         /\ Len(jobs') = Len(jobs) + 1 /\ Len(jobs) \in Nat /\ JobIds = 1 .. Len(jobs)
         /\ JobIds' = JobIds \cup {Len(jobs) + 1}
         /\ jobs'[Len(jobs')].kind = kind /\ jobs'[Len(jobs')].at = "pooled"
         /\ \A k \in JobIds : jobs'[k] = jobs[k]
         /\ UNCHANGED <<db, writer, app>> => WriterTyped'
<1> DEFINE job == [kind |-> kind, arg |-> arg, todo |-> Script(kind), at |-> "pooled",
                   saw |-> None, page |-> Nothing]
<1>1. jobs' = Append(jobs, job)
  BY DEF Given
<1>2. Script(kind) \in Seq(Steps) /\ (kind = "refresh" => Script(kind) = <<"page">>)
  <2>1. Script(kind) \in Seq(Steps)
    BY ScriptShape, TailShape
  <2>2. Script("refresh") = <<"page">>
    BY DEF Script
  <2>3. QED
    BY <2>1, <2>2
<1>3. job \in Jobs /\ JobData(job)
  BY <1>2 DEF Jobs, Stations, Nothing, Contents, JobData
<1>4. /\ jobs \in Seq(Jobs) /\ Len(jobs) \in Nat /\ JobIds = 1 .. Len(jobs)
      /\ jobs' \in Seq(Jobs) /\ Len(jobs') = Len(jobs) + 1 /\ JobIds' = 1 .. Len(jobs) + 1
      /\ jobs'[Len(jobs) + 1] = job /\ \A k \in JobIds : jobs'[k] = jobs[k]
  <2> HIDE DEF job
  <2>1. jobs \in Seq(Jobs)
    BY DEF TypeInv, Typed, JobsTyped
  <2>2. QED
    BY <1>1, <1>3, <2>1 DEF JobIds
<1>5. JobIds' = JobIds \cup {Len(jobs) + 1} /\ Len(jobs') \in JobIds'
  BY <1>4
<1>6. JobsTyped'
  BY <1>3, <1>4, <1>5 DEF TypeInv, Typed, JobsTyped
<1>7. UNCHANGED <<db, writer, app>> => WriterTyped'
  BY <1>4, <1>5 DEF TypeInv, Typed, WriterTyped, Queued
<1>8. QED
  BY <1>4, <1>5, <1>6, <1>7

\* What the main loop and the user change beside the jobs.
LEMMA LoopFacts ==
  ASSUME TypeInv
  PROVE  /\ idle \in Seq(Callbacks) /\ browse \in Browsers /\ browse.newest \in JobIds
         /\ scan \in [running : BOOLEAN, token : Nat] /\ scan.token \in JobIds \cup {0}
         /\ cancelled \subseteq JobIds /\ toast \in Image \cup {None} /\ asked \in Search
         /\ idle # <<>> => Tail(idle) \in Seq(Callbacks) /\ Head(idle) \in Callbacks
         /\ JobsTyped /\ WriterTyped
<1>1. idle \in Seq(Callbacks)
  BY DEF TypeInv, Typed, LoopTyped
<1>2. idle # <<>> => Tail(idle) \in Seq(Callbacks) /\ Head(idle) \in Callbacks
  BY <1>1
<1>3. QED
  BY <1>1, <1>2 DEF TypeInv, Typed, LoopTyped

\* No job is given.
LEMMA NoJobTyped ==
  ASSUME TypeInv, UNCHANGED <<db, writer, jobs, app>>, idle' \in Seq(Callbacks),
         browse' \in Browsers, browse'.newest = browse.newest,
         scan' \in [running : BOOLEAN, token : Nat], scan'.token \in JobIds \cup {0},
         cancelled' \subseteq JobIds, toast' \in Image \cup {None}, asked' \in Search
  PROVE  Typed'
BY DEF TypeInv, Typed, JobsTyped, LoopTyped, WriterTyped, Queued, JobIds

\* A job is given.
LEMMA JobGivenTyped ==
  ASSUME TypeInv, NEW kind \in Kinds, NEW arg \in Image \cup {None},
         kind \in {"exclude", "add"} => arg \in Image, jobs' = Given(kind, arg),
         UNCHANGED <<db, writer, app>>, idle' \in Seq(Callbacks),
         browse' \in Browsers, browse'.newest \in JobIds \cup {Len(jobs')},
         scan' \in [running : BOOLEAN, token : Nat], scan'.token \in JobIds \cup {0, Len(jobs')},
         cancelled' = cancelled, toast' \in Image \cup {None}, asked' \in Search
  PROVE  Typed'
<1>1. JobsTyped' /\ WriterTyped' /\ JobIds \subseteq JobIds' /\ Len(jobs') \in JobIds'
  BY GivenTyped
<1>2. LoopTyped'
  BY <1>1 DEF TypeInv, Typed, LoopTyped
<1>3. QED
  BY <1>1, <1>2 DEF Typed

LEMMA RefreshTyped ==
  ASSUME TypeInv, NEW b \in Browsers, Refresh(b), UNCHANGED <<db, writer, app>>,
         idle' \in Seq(Callbacks), asked' \in Search, UNCHANGED <<scan, cancelled, toast>>
  PROVE  Typed'
<1>1. /\ jobs' = Given("refresh", None) /\ browse' = [b EXCEPT !.newest = Len(jobs')]
      /\ "refresh" \in Kinds
  BY DEF Refresh, Refreshed, Kinds
<1>2. Len(jobs') \in Nat
  BY <1>1, GivenTyped
<1>3. browse' \in Browsers /\ browse'.newest = Len(jobs')
  BY <1>1, <1>2 DEF Browsers
<1>4. QED
  BY <1>1, <1>3, LoopFacts, JobGivenTyped

LEMMA StartTyped ==
  ASSUME TypeInv, NEW queue \in Seq(Callbacks), Start(queue),
         UNCHANGED <<db, writer, browse, cancelled, toast, app, asked>>
  PROVE  Typed'
<1>1. CASE scan.running
  <2>1. idle' = queue /\ UNCHANGED <<jobs, scan>>
    BY <1>1 DEF Start
  <2>2. QED
    BY <2>1, LoopFacts, NoJobTyped
<1>2. CASE ~scan.running
  <2>1. /\ jobs' = Given("scan", None) /\ scan' = [scan EXCEPT !.token = Len(jobs')]
        /\ idle' = Append(queue, [to |-> "running"]) /\ "scan" \in Kinds
    BY <1>2 DEF Start, Kinds
  <2>2. Len(jobs') \in Nat
    BY <2>1, GivenTyped
  <2>3. [to |-> "running"] \in Callbacks
    BY DEF Callbacks, Plain
  <2>4. idle' \in Seq(Callbacks)
    BY <2>1, <2>3
  <2>5. scan' \in [running : BOOLEAN, token : Nat] /\ scan'.token = Len(jobs')
    BY <2>1, <2>2, LoopFacts
  <2>6. QED
    BY <2>1, <2>4, <2>5, LoopFacts, JobGivenTyped
<1>3. QED
  BY <1>1, <1>2

LEMMA LoopStepTyped == ASSUME TypeInv, Loop PROVE Typed'
<1>0. idle # <<>> /\ Tail(idle) \in Seq(Callbacks) /\ Head(idle) \in Callbacks
  BY LoopFacts DEF Loop, Flush, Show, Compare, ShowRunning, OnFinished, OnExcluded, RootAdded, Turn
<1>1. CASE Flush
  <2>1. [browse EXCEPT !.due = FALSE] \in Browsers
    BY LoopFacts DEF Browsers
  <2>2. QED
    BY <1>0, <1>1, <2>1, LoopFacts, RefreshTyped DEF Flush
<1>2. CASE Show
  <2> DEFINE r == Head(idle)
  <2>1. /\ r.to = "page" /\ idle' = Tail(idle)
        /\ browse' = IF r.id # browse.newest THEN browse
                     ELSE [browse EXCEPT !.spec = r.spec,
                              !.shown = [spec |-> r.spec, page |-> r.page]]
        /\ UNCHANGED <<db, writer, jobs, scan, cancelled, toast, app, asked>>
    BY <1>2 DEF Show, Turn
  <2>2. r.spec \in Search /\ r.page \in Contents
    BY <1>0, <2>1 DEF Callbacks, Plain
  <2>3. browse' \in Browsers /\ browse'.newest = browse.newest
    BY <2>1, <2>2, LoopFacts DEF Browsers, Shown
  <2>4. QED
    BY <1>0, <2>1, <2>3, LoopFacts, NoJobTyped
<1>3. CASE Compare
  <2>1. /\ idle' = Tail(idle) /\ UNCHANGED <<db, writer, scan, cancelled, toast, app, asked>>
        /\ Refresh(browse) \/ UNCHANGED <<browse, jobs>>
    BY <1>3 DEF Compare
  <2>2. CASE Refresh(browse)
    BY <1>0, <2>1, <2>2, LoopFacts, RefreshTyped
  <2>3. CASE UNCHANGED <<browse, jobs>>
    BY <1>0, <2>1, <2>3, LoopFacts, NoJobTyped
  <2>4. QED
    BY <2>1, <2>2, <2>3
<1>4. CASE ShowRunning
  <2>1. /\ idle' = Tail(idle) /\ scan' = [scan EXCEPT !.running = TRUE]
        /\ UNCHANGED <<db, writer, jobs, browse, cancelled, toast, app, asked>>
    BY <1>4 DEF ShowRunning
  <2>2. scan' \in [running : BOOLEAN, token : Nat] /\ scan'.token = scan.token
    BY <2>1, LoopFacts
  <2>3. QED
    BY <1>0, <2>1, <2>2, LoopFacts, NoJobTyped
<1>5. CASE OnFinished
  <2>1. /\ idle' = Tail(idle) /\ scan' = NoScan
        /\ UNCHANGED <<db, writer, jobs, browse, cancelled, toast, app, asked>>
    BY <1>5 DEF OnFinished
  <2>2. scan' \in [running : BOOLEAN, token : Nat] /\ scan'.token = 0
    BY <2>1 DEF NoScan
  <2>3. QED
    BY <1>0, <2>1, <2>2, LoopFacts, NoJobTyped
<1>6. CASE OnExcluded
  <2>1. /\ Head(idle).to = "toast" /\ toast' = Head(idle).image /\ idle' = Tail(idle)
        /\ UNCHANGED <<db, writer, jobs, browse, scan, cancelled, app, asked>>
    BY <1>6 DEF OnExcluded, Turn
  <2>2. toast' \in Image
    BY <1>0, <2>1 DEF Callbacks, Plain
  <2>3. QED
    BY <1>0, <2>1, <2>2, LoopFacts, NoJobTyped
<1>7. CASE RootAdded
  BY <1>0, <1>7, StartTyped DEF RootAdded
<1>8. QED
  BY <1>1, <1>2, <1>3, <1>4, <1>5, <1>6, <1>7 DEF Loop

LEMMA UserTyped == ASSUME TypeInv, User PROVE Typed'
<1>1. ASSUME NEW s \in Search, Choose(s) PROVE Typed'
  <2>1. /\ Refresh([browse EXCEPT !.spec = s]) /\ asked' = s
        /\ UNCHANGED <<db, writer, idle, scan, cancelled, toast, app>>
    BY <1>1 DEF Choose, Updated
  <2>2. [browse EXCEPT !.spec = s] \in Browsers
    BY LoopFacts DEF Browsers
  <2>3. QED
    BY <2>1, <2>2, LoopFacts, RefreshTyped
<1>2. ASSUME NEW kind \in {"exclude", "add", "drop", "off"}, NEW i \in Image, Edit(kind, i)
      PROVE  Typed'
  <2>1. /\ jobs' = Given(kind, i) /\ kind \in Kinds
        /\ UNCHANGED <<db, writer, idle, browse, scan, cancelled, toast, app, asked>>
    BY <1>2 DEF Edit, Kinds, OneWrite, TwoWrites
  <2>2. QED
    BY <2>1, LoopFacts, JobGivenTyped
<1>3. CASE Undo
  <2>1. /\ jobs' = Given("undo", toast) /\ toast' = None /\ "undo" \in Kinds
        /\ UNCHANGED <<db, writer, idle, browse, scan, cancelled, app, asked>>
    BY <1>3 DEF Undo, Kinds, OneWrite
  <2>2. QED
    BY <2>1, LoopFacts, JobGivenTyped
<1>4. CASE Scan
  BY <1>4, LoopFacts, StartTyped DEF Scan
<1>5. CASE AddThenScan
  <2>1. /\ jobs' = Given("root", None) /\ "root" \in Kinds
        /\ UNCHANGED <<db, writer, idle, browse, scan, cancelled, toast, app, asked>>
    BY <1>5 DEF AddThenScan, Kinds, OneWrite
  <2>2. QED
    BY <2>1, LoopFacts, JobGivenTyped
<1>6. CASE Cancel
  <2>1. /\ cancelled' = cancelled \cup {scan.token} /\ scan.token # 0
        /\ UNCHANGED <<db, writer, jobs, idle, browse, scan, toast, app, asked>>
    BY <1>6 DEF Cancel
  <2>2. QED
    BY <2>1, LoopFacts, NoJobTyped
<1>7. CASE PageShown
  <2>1. /\ jobs' = Given("look", None) /\ "look" \in Kinds
        /\ UNCHANGED <<db, writer, idle, browse, scan, cancelled, toast, app, asked>>
    BY <1>7 DEF PageShown, Kinds
  <2>2. QED
    BY <2>1, LoopFacts, JobGivenTyped
<1>8. QED
  BY <1>1, <1>2, <1>3, <1>4, <1>5, <1>6, <1>7 DEF User

LEMMA EndTyped == ASSUME TypeInv, Quit \/ Close PROVE Typed'
<1>0. /\ JobsTyped /\ LoopTyped /\ WriterTyped
      /\ writer \in Writers /\ writer.queue \in Seq(Nat \cup {None})
  BY DEF TypeInv, Typed, WriterTyped, Writers
<1>1. CASE Quit
  <2>1. /\ app = "open" /\ app' = "closing" /\ cancelled' = cancelled \cup ({scan.token} \ {0})
        /\ UNCHANGED <<db, writer, jobs, idle, browse, scan, toast, asked>>
    BY <1>1 DEF Quit
  <2>2. JobsTyped' /\ JobIds' = JobIds
    BY <1>0, <2>1 DEF JobsTyped, JobIds
  <2>3. LoopTyped'
    BY <1>0, <2>1, <2>2, LoopFacts DEF LoopTyped
  <2>4. WriterTyped'
    BY <1>0, <2>1, <2>2 DEF WriterTyped
  <2>5. QED
    BY <2>2, <2>3, <2>4 DEF Typed
<1>2. CASE Seal
  <2>1. /\ writer' = [writer EXCEPT !.closed = TRUE] /\ app = "closing" /\ app' \in {"sealed", "stopping"}
        /\ UNCHANGED <<db, jobs, idle, browse, scan, cancelled, toast, asked>>
    BY <1>2 DEF Seal
  <2>2. writer' \in Writers /\ writer'.queue = writer.queue
    BY <1>0, <2>1 DEF Writers
  <2>3. QED
    BY <1>0, <2>1, <2>2 DEF Typed, JobsTyped, LoopTyped, WriterTyped, JobIds
<1>3. CASE PutSentinel
  <2>1. /\ writer' = [writer EXCEPT !.queue = Append(@, None)] /\ app = "sealed" /\ app' = "joining"
        /\ UNCHANGED <<db, jobs, idle, browse, scan, cancelled, toast, asked>>
    BY <1>3 DEF PutSentinel
  <2>2. ~Queued(writer.queue, None)
    BY <1>0, <2>1 DEF WriterTyped
  <2>3. Append(writer.queue, None) \in Seq(Nat \cup {None})
    BY <1>0
  <2>4. writer' \in Writers /\ writer'.queue = Append(writer.queue, None)
    BY <1>0, <2>1, <2>3 DEF Writers
  <2>5. /\ Len(writer.queue) \in Nat /\ DOMAIN writer'.queue = 1 .. Len(writer.queue) + 1
        /\ DOMAIN writer.queue = 1 .. Len(writer.queue)
        /\ \A q \in DOMAIN writer.queue : writer'.queue[q] = writer.queue[q]
    BY <1>0, <2>4
  <2>6. \A w : Queued(writer.queue, w) => Queued(writer'.queue, w)
    BY <2>5 DEF Queued
  <2>7. \A p, q \in DOMAIN writer'.queue : writer'.queue[p] = None /\ writer'.queue[q] = None => p = q
    BY <2>2, <2>5 DEF Queued
  <2>8. QED
    BY <1>0, <2>1, <2>4, <2>6, <2>7 DEF Typed, JobsTyped, LoopTyped, WriterTyped, JobIds
<1>4. CASE Join
  <2>1. /\ app' = "stopping" /\ app = "joining"
        /\ UNCHANGED <<db, writer, jobs, idle, browse, scan, cancelled, toast, asked>>
    BY <1>4 DEF Join
  <2>2. QED
    BY <1>0, <2>1 DEF Typed, JobsTyped, LoopTyped, WriterTyped, JobIds
<1>5. CASE Shutdown
  <2>1. /\ jobs' = [j \in JobIds |-> Done] /\ app' = "closed"
        /\ UNCHANGED <<db, writer, idle, browse, scan, cancelled, toast, asked>>
    BY <1>5 DEF Shutdown
  <2>2. jobs \in Seq(Jobs)
    BY <1>0 DEF JobsTyped
  <2>3. jobs' \in Seq(Jobs) /\ JobIds' = JobIds /\ \A j \in JobIds : jobs'[j] = Done
    BY <2>1, <2>2, DoneTyped DEF JobIds
  <2>4. JobsTyped'
    BY <2>3, DoneTyped DEF JobsTyped
  <2>5. LoopTyped'
    BY <1>0, <2>1, <2>3 DEF LoopTyped
  <2>6. WriterTyped'
    BY <1>0, <2>1, <2>3, DoneTyped DEF WriterTyped
  <2>7. QED
    BY <2>4, <2>5, <2>6 DEF Typed
<1>6. QED
  BY <1>1, <1>2, <1>3, <1>4, <1>5 DEF Close

LEMMA TypesStart == Init => TypeInv
<1> SUFFICES ASSUME Init
             PROVE  TypeInv
  OBVIOUS
<1> DEFINE job == [Done EXCEPT !.kind = "refresh", !.todo = Script("refresh"), !.at = "pooled"]
<1>1. jobs = <<job>>
  BY DEF Init
<1>2. Script("refresh") = <<"page">> /\ <<"page">> \in Seq(Steps) /\ Nothing \in Contents
  BY DEF Script, Steps, Nothing, Contents
<1>3. job \in Jobs /\ JobData(job) /\ job.at = "pooled"
  <2>1. job \in Jobs /\ job.kind = "refresh" /\ job.todo = <<"page">> /\ job.at = "pooled"
    BY <1>2, DoneTyped DEF Jobs, Kinds, Stations
  <2>2. QED
    BY <2>1 DEF JobData
<1>4. jobs \in Seq(Jobs) /\ JobIds = {1} /\ jobs[1] = job
  <2> HIDE DEF job
  <2>1. QED
    BY <1>1, <1>3 DEF JobIds
<1>5. JobsTyped
  BY <1>3, <1>4 DEF JobsTyped
<1>6. LoopTyped
  BY <1>2, <1>4, SearchAssumption DEF Init, LoopTyped, FirstBrowse, Browsers, Shown, NoScan
<1>7. writer = FreshWriter /\ writer.queue = <<>> /\ writer \in Writers
  BY DEF Init, FreshWriter, Writers
<1>8. WriterTyped
  <2>1. DOMAIN writer.queue = {} /\ db \in Tables
    BY <1>7 DEF Init, Tables
  <2>2. QED
    BY <1>3, <1>4, <1>7, <2>1 DEF WriterTyped, Queued
<1>9. QED
  BY <1>5, <1>6, <1>8, SessionStarts DEF TypeInv, Typed

LEMMA TypesKept == TypeInv /\ [Next]_vars => TypeInv'
<1> SUFFICES ASSUME TypeInv, [Next]_vars
             PROVE  TypeInv'
  OBVIOUS
<1>1. SessionInv'
  BY SessionKept DEF TypeInv
<1>2. Typed'
  <2>1. CASE UNCHANGED vars
    BY <2>1 DEF vars, TypeInv, Typed, JobsTyped, LoopTyped, WriterTyped, Queued, JobIds
  <2>2. CASE Next
    BY <2>2, EachWorkTyped, WriteTyped, LoopStepTyped, UserTyped, EndTyped DEF Next
  <2>3. QED
    BY <2>1, <2>2
<1>3. QED
  BY <1>1, <1>2 DEF TypeInv

-----------------------------------------------------------------------------
\* The banner.

\* What a scan sends to the main loop.
News == {"running", "progress", "scanned"}
Says(q, to) == \E c \in DOMAIN q : q[c].to = to

\* "scanned" is the last that is heard of a scan, which is over then.  Without it,
\* and without a scan, nothing is on its way and the banner is off; and of a scan
\* that is not over the banner tells, or will.
Tells(q, scans, s) ==
  /\ \A c \in DOMAIN q : q[c].to = "scanned" =>
       scans = {} /\ \A d \in DOMAIN q : q[d].to \in News => d <= c
  /\ scans = {} /\ ~Says(q, "scanned") => ~s.running /\ \A c \in DOMAIN q : q[c].to \notin News
  /\ scans # {} => scans = {s.token} /\ (s.running \/ Says(q, "running"))

BannerInv == app = "open" /\ ~doubled => Tells(idle, Scans, scan)

LEMMA BannerSuffices == BannerInv => BannerTells
BY DEF BannerInv, BannerTells, Tells, Says, News

LEMMA AppendOf ==
  ASSUME NEW S, NEW q \in Seq(S), NEW x
  PROVE  /\ Len(q) \in Nat /\ DOMAIN q = 1 .. Len(q) /\ DOMAIN Append(q, x) = 1 .. Len(q) + 1
         /\ Append(q, x)[Len(q) + 1] = x /\ \A c \in 1 .. Len(q) : Append(q, x)[c] = q[c]
<1>1. q \in Seq(S \cup {x})
  OBVIOUS
<1>2. QED
  BY <1>1

LEMMA OtherAppended ==
  ASSUME NEW S, NEW q \in Seq(S), NEW x, x.to \notin News, NEW scans, NEW s, Tells(q, scans, s)
  PROVE  Tells(Append(q, x), scans, s)
<1> DEFINE r == Append(q, x)
<1>1. /\ Len(q) \in Nat /\ DOMAIN q = 1 .. Len(q) /\ DOMAIN r = 1 .. Len(q) + 1
      /\ r[Len(q) + 1] = x /\ \A c \in 1 .. Len(q) : r[c] = q[c]
  BY AppendOf
<1> HIDE DEF r
<1>2. \A c \in DOMAIN r : r[c].to \in News => c \in DOMAIN q /\ r[c] = q[c]
  BY <1>1
<1>3. \A to : Says(q, to) => Says(r, to)
  BY <1>1 DEF Says
<1>4. ASSUME NEW c \in DOMAIN r, r[c].to = "scanned"
      PROVE  scans = {} /\ \A d \in DOMAIN r : r[d].to \in News => d <= c
  BY <1>2, <1>4 DEF Tells, News
<1>5. QED
  BY <1>2, <1>3, <1>4 DEF Tells, r

LEMMA ProgressAppended ==
  ASSUME NEW S, NEW q \in Seq(S), NEW x, x.to = "progress", NEW scans, scans # {}, NEW s,
         Tells(q, scans, s)
  PROVE  Tells(Append(q, x), scans, s)
<1> DEFINE r == Append(q, x)
<1>1. /\ Len(q) \in Nat /\ DOMAIN q = 1 .. Len(q) /\ DOMAIN r = 1 .. Len(q) + 1
      /\ r[Len(q) + 1] = x /\ \A c \in 1 .. Len(q) : r[c] = q[c]
  BY AppendOf
<1> HIDE DEF r
<1>2. \A c \in DOMAIN r : r[c].to # "scanned"
  BY <1>1 DEF Tells
<1>3. Says(q, "running") => Says(r, "running")
  BY <1>1 DEF Says
<1>4. QED
  BY <1>2, <1>3 DEF Tells, r

LEMMA ScannedAppended ==
  ASSUME NEW S, NEW q \in Seq(S), NEW x, x.to = "scanned", NEW scans, scans # {}, NEW s,
         Tells(q, scans, s)
  PROVE  Tells(Append(q, x), {}, s)
<1> DEFINE r == Append(q, x)
<1>1. /\ Len(q) \in Nat /\ DOMAIN q = 1 .. Len(q) /\ DOMAIN r = 1 .. Len(q) + 1
      /\ r[Len(q) + 1] = x /\ \A c \in 1 .. Len(q) : r[c] = q[c]
  BY AppendOf
<1> HIDE DEF r
<1>2. ASSUME NEW c \in DOMAIN r, r[c].to = "scanned"
      PROVE  c = Len(q) + 1
  BY <1>1, <1>2 DEF Tells
<1>3. \A c \in DOMAIN r : c <= Len(q) + 1
  BY <1>1
<1>4. Says(r, "scanned")
  BY <1>1 DEF Says
<1>5. QED
  BY <1>2, <1>3, <1>4 DEF Tells, r

LEMMA TailOf ==
  ASSUME NEW S, NEW q \in Seq(S), q # <<>>
  PROVE  /\ Len(q) \in Nat \ {0} /\ DOMAIN q = 1 .. Len(q) /\ q[1] = Head(q)
         /\ DOMAIN Tail(q) = 1 .. Len(q) - 1
         /\ \A c \in 1 .. Len(q) - 1 : Tail(q)[c] = q[c + 1]
OBVIOUS

LEMMA OtherHeard ==
  ASSUME NEW S, NEW q \in Seq(S), q # <<>>, Head(q).to \notin News, NEW scans, NEW s,
         Tells(q, scans, s)
  PROVE  Tells(Tail(q), scans, s) /\ \A to \in News : Says(Tail(q), to) <=> Says(q, to)
<1> DEFINE r == Tail(q)
<1>1. /\ Len(q) \in Nat \ {0} /\ DOMAIN q = 1 .. Len(q) /\ q[1] = Head(q)
      /\ DOMAIN r = 1 .. Len(q) - 1
      /\ \A c \in 1 .. Len(q) - 1 : r[c] = q[c + 1]
  BY TailOf
<1> HIDE DEF r
<1>2. \A c \in DOMAIN r : c \in Int /\ c + 1 \in DOMAIN q /\ r[c] = q[c + 1]
  BY <1>1
<1>3. ASSUME NEW c \in DOMAIN q, q[c].to \in News
      PROVE  c - 1 \in DOMAIN r /\ r[c - 1] = q[c]
  <2>1. c # 1
    BY <1>1, <1>3
  <2>2. c - 1 \in 1 .. Len(q) - 1 /\ (c - 1) + 1 = c
    BY <1>1, <2>1
  <2>3. QED
    BY <1>1, <2>2
<1>4. ASSUME NEW to \in News
      PROVE  Says(r, to) <=> Says(q, to)
  BY <1>2, <1>3, <1>4 DEF Says
<1>5. ASSUME NEW c \in DOMAIN r, r[c].to = "scanned"
      PROVE  scans = {} /\ \A d \in DOMAIN r : r[d].to \in News => d <= c
  <2>1. scans = {} /\ \A d \in DOMAIN q : q[d].to \in News => d <= c + 1
    BY <1>2, <1>5 DEF Tells
  <2>2. ASSUME NEW d \in DOMAIN r, r[d].to \in News PROVE d <= c
    <3>1. d + 1 <= c + 1
      BY <1>2, <2>1, <2>2
    <3>2. QED
      BY <1>2, <3>1
  <2>3. QED
    BY <2>1, <2>2
<1>6. scans = {} /\ ~Says(r, "scanned") => ~s.running /\ \A c \in DOMAIN r : r[c].to \notin News
  BY <1>2, <1>4 DEF Tells, News
<1>7. scans # {} => scans = {s.token} /\ (s.running \/ Says(r, "running"))
  BY <1>4 DEF Tells, News
<1>8. QED
  BY <1>4, <1>5, <1>6, <1>7 DEF Tells, r

\* ShowRunning.
LEMMA RunningHeard ==
  ASSUME NEW S, NEW q \in Seq(S), q # <<>>, Head(q).to \in {"running", "progress"}, NEW scans,
         NEW s, NEW t, t.running, t.token = s.token, Tells(q, scans, s)
  PROVE  Tells(Tail(q), scans, t)
<1> DEFINE r == Tail(q)
<1>1. /\ Len(q) \in Nat \ {0} /\ DOMAIN q = 1 .. Len(q) /\ q[1] = Head(q)
      /\ DOMAIN r = 1 .. Len(q) - 1
      /\ \A c \in 1 .. Len(q) - 1 : r[c] = q[c + 1]
  BY TailOf
<1> HIDE DEF r
<1>2. \A c \in DOMAIN r : c \in Int /\ c + 1 \in DOMAIN q /\ r[c] = q[c + 1]
  BY <1>1
<1>3. ASSUME NEW c \in DOMAIN r, r[c].to = "scanned"
      PROVE  scans = {} /\ \A d \in DOMAIN r : r[d].to \in News => d <= c
  <2>1. scans = {} /\ \A d \in DOMAIN q : q[d].to \in News => d <= c + 1
    BY <1>2, <1>3 DEF Tells
  <2>2. ASSUME NEW d \in DOMAIN r, r[d].to \in News PROVE d <= c
    <3>1. d + 1 <= c + 1
      BY <1>2, <2>1, <2>2
    <3>2. QED
      BY <1>2, <3>1
  <2>3. QED
    BY <2>1, <2>2
<1>4. scans = {} => Says(r, "scanned")
  <2>1. SUFFICES ASSUME scans = {} PROVE Says(r, "scanned")
    OBVIOUS
  <2>2. 1 \in DOMAIN q /\ q[1].to \in News
    BY <1>1 DEF News
  <2>3. PICK c \in DOMAIN q : q[c].to = "scanned"
    BY <2>1, <2>2 DEF Tells, Says
  <2>4. c # 1
    BY <1>1, <2>3
  <2>5. c - 1 \in 1 .. Len(q) - 1 /\ (c - 1) + 1 = c
    BY <1>1, <2>4
  <2>6. QED
    BY <1>1, <2>3, <2>5 DEF Says
<1>5. QED
  BY <1>3, <1>4 DEF Tells, r

\* OnFinished.
LEMMA ScannedHeard ==
  ASSUME NEW S, NEW q \in Seq(S), q # <<>>, Head(q).to = "scanned", NEW scans,
         NEW s, NEW t, ~t.running, Tells(q, scans, s)
  PROVE  Tells(Tail(q), scans, t)
<1> DEFINE r == Tail(q)
<1>1. /\ Len(q) \in Nat \ {0} /\ DOMAIN q = 1 .. Len(q) /\ q[1] = Head(q)
      /\ DOMAIN r = 1 .. Len(q) - 1
      /\ \A c \in 1 .. Len(q) - 1 : r[c] = q[c + 1]
  BY TailOf
<1> HIDE DEF r
<1>2. scans = {} /\ \A d \in DOMAIN q : q[d].to \in News => d <= 1
  BY <1>1 DEF Tells
<1>3. \A c \in DOMAIN r : r[c].to \notin News
  <2>1. SUFFICES ASSUME NEW c \in DOMAIN r, r[c].to \in News PROVE FALSE
    OBVIOUS
  <2>2. c + 1 \in DOMAIN q /\ q[c + 1].to \in News /\ c \in 1 .. Len(q) - 1
    BY <1>1, <2>1
  <2>3. QED
    BY <1>1, <1>2, <2>2
<1>4. QED
  BY <1>2, <1>3 DEF Tells, News, r

\* start, when nothing of an earlier scan is on its way.
LEMMA RunningAppended ==
  ASSUME NEW S, NEW q \in Seq(S), NEW x, x.to = "running", NEW s, NEW t, NEW j, t.token = j,
         ~Says(q, "scanned")
  PROVE  Tells(Append(q, x), {j}, t)
<1> DEFINE r == Append(q, x)
<1>1. /\ Len(q) \in Nat /\ DOMAIN q = 1 .. Len(q) /\ DOMAIN r = 1 .. Len(q) + 1
      /\ r[Len(q) + 1] = x /\ \A c \in 1 .. Len(q) : r[c] = q[c]
  BY AppendOf
<1> HIDE DEF r
<1>2. \A c \in DOMAIN r : r[c].to # "scanned"
  BY <1>1 DEF Says
<1>3. Says(r, "running")
  BY <1>1 DEF Says
<1>4. QED
  BY <1>2, <1>3 DEF Tells, r

\* The scans that are not over, after a step of one job.
LEMMA ScansAfter ==
  ASSUME JobsTyped, NEW j \in JobIds, NEW job, jobs' = [jobs EXCEPT ![j] = job], jobs[j].at # "done"
  PROVE  /\ job.kind = jobs[j].kind /\ job.at # "done" => Scans' = Scans
         /\ job = Done => Scans' = Scans \ {j}
         /\ jobs[j].kind = "scan" <=> j \in Scans
<1>1. JobIds' = JobIds /\ \A k \in JobIds : jobs'[k] = IF k = j THEN job ELSE jobs[k]
  BY DEF JobsTyped, JobIds
<1>2. QED
  BY <1>1, DoneTyped DEF Scans

LEMMA AnswerNews ==
  ASSUME NEW j \in JobIds, NEW ok \in BOOLEAN
  PROVE  /\ jobs[j].kind = "scan" => Answer(j, ok) = <<[to |-> "scanned", ok |-> ok]>>
         /\ jobs[j].kind # "scan" =>
              Answer(j, ok) = <<>> \/ \E x : x.to \notin News /\ Answer(j, ok) = <<x>>
<1>1. CASE jobs[j].kind = "refresh"
  <2>1. /\ Answer(j, ok) = <<[to |-> "page", id |-> j, spec |-> jobs[j].saw, page |-> jobs[j].page]>>
        /\ [to |-> "page", id |-> j, spec |-> jobs[j].saw, page |-> jobs[j].page].to = "page"
    BY <1>1 DEF Answer
  <2>2. QED
    BY <1>1, <2>1 DEF News
<1>2. CASE jobs[j].kind = "look"
  <2>1. Answer(j, ok) = <<[to |-> "version"]>> /\ [to |-> "version"].to = "version"
    BY <1>2 DEF Answer
  <2>2. QED
    BY <1>2, <2>1 DEF News
<1>3. CASE jobs[j].kind = "exclude" /\ ok
  <2>1. /\ Answer(j, ok) = <<[to |-> "toast", image |-> jobs[j].arg]>>
        /\ [to |-> "toast", image |-> jobs[j].arg].to = "toast"
    BY <1>3 DEF Answer
  <2>2. QED
    BY <1>3, <2>1 DEF News
<1>4. CASE jobs[j].kind = "root" /\ ok
  <2>1. Answer(j, ok) = <<[to |-> "start"]>> /\ [to |-> "start"].to = "start"
    BY <1>4 DEF Answer
  <2>2. QED
    BY <1>4, <2>1 DEF News
<1>5. CASE jobs[j].kind = "scan"
  BY <1>5 DEF Answer
<1>6. CASE jobs[j].kind \notin {"scan", "refresh", "look"} /\ ~(jobs[j].kind = "exclude" /\ ok)
           /\ ~(jobs[j].kind = "root" /\ ok)
  BY <1>6 DEF Answer
<1>7. QED
  BY <1>1, <1>2, <1>3, <1>4, <1>5, <1>6

LEMMA ConcatOne ==
  ASSUME NEW S, NEW q \in Seq(S)
  PROVE  q \o <<>> = q /\ \A x : q \o <<x>> = Append(q, x)
OBVIOUS

\* What a job tells of scans: nothing, its progress, or its end.
Quiet == Scans' = Scans /\ (idle' = idle \/ \E x : x.to \notin News /\ idle' = Append(idle, x))
Going == Scans # {} /\ Scans' = Scans /\ \E x : x.to = "progress" /\ idle' = Append(idle, x)
Ending(j) == j \in Scans /\ Scans' = Scans \ {j} /\ \E x : x.to = "scanned" /\ idle' = Append(idle, x)

\* The job ends with its answer.
LEMMA AnswerTells ==
  ASSUME TypeInv, NEW j \in JobIds, jobs[j].at # "done", NEW ok \in BOOLEAN,
         jobs' = [jobs EXCEPT ![j] = Done], idle' = idle \o Answer(j, ok)
  PROVE  Quiet \/ Ending(j)
<1>1. (jobs[j].kind = "scan" <=> j \in Scans) /\ Scans' = Scans \ {j}
  BY ScansAfter DEF TypeInv, Typed
<1>2. idle \o <<>> = idle /\ \A x : idle \o <<x>> = Append(idle, x)
  BY JobFacts, ConcatOne
<1>3. CASE jobs[j].kind = "scan"
  <2>1. idle' = Append(idle, [to |-> "scanned", ok |-> ok]) /\ [to |-> "scanned", ok |-> ok].to = "scanned"
    BY <1>2, <1>3, AnswerNews
  <2>2. QED
    BY <1>1, <1>3, <2>1 DEF Ending
<1>4. CASE jobs[j].kind # "scan"
  <2>1. Scans' = Scans
    BY <1>1, <1>4
  <2>2. idle' = idle \/ \E x : x.to \notin News /\ idle' = Append(idle, x)
    BY <1>2, <1>4, AnswerNews
  <2>3. QED
    BY <2>1, <2>2 DEF Quiet
<1>5. QED
  BY <1>3, <1>4

LEMMA FailedTells ==
  ASSUME TypeInv, NEW j \in JobIds, Failed(j), jobs[j].at # "done"
  PROVE  Quiet \/ Ending(j)
<1>1. CASE jobs[j].kind = "scan" /\ Step(j) = "batch"
  <2> DEFINE job == [jobs[j] EXCEPT !.at = "step", !.todo = <<"finish">>]
  <2>1. jobs' = [jobs EXCEPT ![j] = job] /\ idle' = idle
    BY <1>1 DEF Failed
  <2>2. job.kind = jobs[j].kind /\ job.at = "step"
    BY JobFacts DEF Jobs
  <2>3. Scans' = Scans
    BY <2>1, <2>2, ScansAfter DEF TypeInv, Typed
  <2>4. QED
    BY <2>1, <2>3 DEF Quiet
<1>2. CASE ~(jobs[j].kind = "scan" /\ Step(j) = "batch")
  <2>1. jobs' = [jobs EXCEPT ![j] = Done] /\ idle' = idle \o Answer(j, FALSE)
    BY <1>2 DEF Failed
  <2>2. QED
    BY <2>1, AnswerTells
<1>3. QED
  BY <1>1, <1>2

\* A job that is still at it.
LEMMA AtTells ==
  ASSUME TypeInv, NEW j \in JobIds, jobs[j].at # "done", NEW job, jobs' = [jobs EXCEPT ![j] = job],
         job.kind = jobs[j].kind, job.at # "done"
  PROVE  Scans' = Scans
BY ScansAfter DEF TypeInv, Typed

LEMMA AdvancedTells ==
  ASSUME TypeInv, NEW j \in JobIds, jobs[j].at # "done", jobs' = Advanced(j)
  PROVE  Scans' = Scans
<1> DEFINE job == [jobs[j] EXCEPT !.at = "step", !.todo = Tail(@)]
<1>1. jobs' = [jobs EXCEPT ![j] = job]
  BY DEF Advanced
<1>2. job.kind = jobs[j].kind /\ job.at = "step"
  BY JobFacts DEF Jobs
<1>3. QED
  BY <1>1, <1>2, AtTells

LEMMA MovedTells ==
  ASSUME TypeInv, NEW j \in JobIds, jobs[j].at # "done", NEW at, at # "done",
         jobs' = [jobs EXCEPT ![j].at = at]
  PROVE  Scans' = Scans
<1> DEFINE job == [jobs[j] EXCEPT !.at = at]
<1>1. jobs' = [jobs EXCEPT ![j] = job] /\ job.kind = jobs[j].kind /\ job.at = at
  BY JobFacts DEF Jobs
<1>2. QED
  BY <1>1, AtTells

LEMMA WorkTells ==
  ASSUME TypeInv, NEW j \in JobIds, Work(j)
  PROVE  /\ UNCHANGED <<scan, app, doubled>>
         /\ Quiet \/ Going \/ Ending(j)
<1>1. CASE Begin(j)
  <2>1. jobs[j].at = "pooled" /\ UNCHANGED <<idle, scan, app, doubled>>
    BY <1>1 DEF Begin
  <2>2. CASE jobs[j].kind = "refresh" /\ ~browse.loaded
    <3> DEFINE job == [jobs[j] EXCEPT !.at = "step", !.saw = browse.spec, !.todo = <<"default">> \o @]
    <3>1. jobs' = [jobs EXCEPT ![j] = job]
      BY <1>1, <2>2 DEF Begin
    <3>2. job.kind = jobs[j].kind /\ job.at = "step"
      BY JobFacts DEF Jobs
    <3>3. QED
      BY <2>1, <3>1, <3>2, AtTells DEF Quiet
  <2>3. CASE ~(jobs[j].kind = "refresh" /\ ~browse.loaded)
    <3>1. jobs' = [jobs EXCEPT ![j].at = "step"]
      BY <1>1, <2>3 DEF Begin
    <3>2. QED
      BY <2>1, <3>1, MovedTells DEF Quiet
  <2>4. QED
    BY <2>2, <2>3
<1>2. CASE Submit(j)
  <2>1. jobs[j].at = "step" /\ UNCHANGED <<scan, app, doubled>>
    BY <1>2 DEF Submit, AtStep
  <2>2. CASE Failed(j)
    BY <2>1, <2>2, FailedTells
  <2>3. CASE jobs' = [jobs EXCEPT ![j].at = "put"] /\ idle' = idle
    BY <2>1, <2>3, MovedTells DEF Quiet
  <2>4. QED
    BY <1>2, <2>2, <2>3 DEF Submit
<1>3. CASE Put(j)
  <2>1. jobs[j].at = "put" /\ jobs' = [jobs EXCEPT ![j].at = "wait"] /\ UNCHANGED <<idle, scan, app, doubled>>
    BY <1>3 DEF Put
  <2>2. QED
    BY <2>1, MovedTells DEF Quiet
<1>4. CASE Lock(j)
  <2>1. jobs[j].at = "step" /\ UNCHANGED <<scan, app, doubled>>
    BY <1>4 DEF Lock, AtStep
  <2>2. CASE Failed(j)
    BY <2>1, <2>2, FailedTells
  <2>3. CASE jobs' = Advanced(j) /\ idle' = idle
    BY <2>1, <2>3, AdvancedTells DEF Quiet
  <2>4. QED
    BY <1>4, <2>2, <2>3 DEF Lock
<1>5. CASE Cut(j)
  <2> DEFINE job == [jobs[j] EXCEPT !.todo = <<"finish">>]
  <2>1. jobs[j].at = "step" /\ jobs' = [jobs EXCEPT ![j] = job] /\ UNCHANGED <<idle, scan, app, doubled>>
    BY <1>5 DEF Cut, AtStep
  <2>2. job.kind = jobs[j].kind /\ job.at = "step"
    BY <2>1, JobFacts DEF Jobs
  <2>3. QED
    BY <2>1, <2>2, AtTells DEF Quiet
<1>6. CASE Emit(j)
  <2>1. /\ jobs[j].at = "step" /\ UNCHANGED <<idle, scan, app, doubled>>
        /\ jobs' = [jobs EXCEPT ![j].at = "told"] \/ jobs' = Advanced(j)
    BY <1>6 DEF Emit, AtStep
  <2>2. QED
    BY <2>1, MovedTells, AdvancedTells DEF Quiet
<1>7. CASE Schedule(j)
  <2>1. /\ jobs[j].at = "told" /\ jobs' = Advanced(j) /\ UNCHANGED <<scan, app, doubled>>
        /\ idle' = Append(idle, [to |-> "flush"]) /\ [to |-> "flush"].to = "flush"
    BY <1>7 DEF Schedule
  <2>2. QED
    BY <2>1, AdvancedTells DEF Quiet, News
<1>8. CASE Progress(j)
  <2>1. /\ jobs[j].at = "step" /\ jobs[j].todo # <<>> /\ Step(j) = "progress" /\ jobs' = Advanced(j)
        /\ UNCHANGED <<scan, app, doubled>>
        /\ idle' = idle \/ idle' = Append(idle, [to |-> "progress"])
        /\ [to |-> "progress"].to = "progress"
    BY <1>8 DEF Progress, AtStep
  <2>2. Scans' = Scans
    BY <2>1, AdvancedTells
  <2>3. jobs[j].kind = "scan"
    BY <2>1, JobFacts, TailShape DEF JobShape, Step
  <2>4. Scans # {}
    BY <2>1, <2>3 DEF Scans
  <2>5. QED
    BY <2>1, <2>2, <2>4 DEF Quiet, Going
<1>9. CASE StoreDefault(j) \/ ReadVersion(j)
  <2>1. jobs[j].at = "step" /\ jobs' = Advanced(j) /\ UNCHANGED <<idle, scan, app, doubled>>
    BY <1>9 DEF StoreDefault, ReadVersion, AtStep
  <2>2. QED
    BY <2>1, AdvancedTells DEF Quiet
<1>10. CASE Page(j)
  <2> DEFINE job == [jobs[j] EXCEPT !.at = "step", !.todo = Tail(@), !.saw = browse.spec, !.page = Content]
  <2>1. jobs[j].at = "step" /\ jobs' = [jobs EXCEPT ![j] = job] /\ UNCHANGED <<idle, scan, app, doubled>>
    BY <1>10 DEF Page, AtStep, Advanced
  <2>2. job.kind = jobs[j].kind /\ job.at = "step"
    BY JobFacts DEF Jobs
  <2>3. QED
    BY <2>1, <2>2, AtTells DEF Quiet
<1>11. CASE Finish(j)
  <2>1. /\ jobs[j].at = "step" /\ jobs' = [jobs EXCEPT ![j] = Done] /\ idle' = idle \o Answer(j, TRUE)
        /\ UNCHANGED <<scan, app, doubled>>
    BY <1>11 DEF Finish
  <2>2. QED
    BY <2>1, AnswerTells
<1>12. QED
  BY <1>1, <1>2, <1>3, <1>4, <1>5, <1>6, <1>7, <1>8, <1>9, <1>10, <1>11 DEF Work

\* Such a step of a job keeps the banner true.
LEMMA ToldBanner ==
  ASSUME TypeInv, BannerInv, NEW j \in JobIds, UNCHANGED <<scan, app, doubled>>,
         Quiet \/ Going \/ Ending(j)
  PROVE  BannerInv'
<1>1. SUFFICES ASSUME app = "open", ~doubled
               PROVE  Tells(idle', Scans', scan)
  BY DEF BannerInv
<1>2. Tells(idle, Scans, scan) /\ idle \in Seq(Callbacks)
  BY <1>1, LoopFacts DEF BannerInv
<1>3. CASE Quiet
  BY <1>2, <1>3, OtherAppended DEF Quiet
<1>4. CASE Going
  BY <1>2, <1>4, ProgressAppended DEF Going
<1>5. CASE Ending(j)
  <2>1. j \in Scans /\ Scans' = Scans \ {j} /\ Scans # {}
    BY <1>5 DEF Ending
  <2>2. Scans = {scan.token}
    BY <1>2, <2>1 DEF Tells
  <2>3. Scans' = {}
    BY <2>1, <2>2
  <2>4. QED
    BY <1>2, <1>5, <2>1, <2>3, ScannedAppended DEF Ending
<1>6. QED
  BY <1>3, <1>4, <1>5

\* The other steps leave the scans alone, or start one.
LEMMA GivenOther ==
  ASSUME TypeInv, NEW kind \in Kinds \ {"scan"}, NEW arg \in Image \cup {None},
         kind \in {"exclude", "add"} => arg \in Image, jobs' = Given(kind, arg)
  PROVE  Scans' = Scans
<1>1. /\ JobIds' = JobIds \cup {Len(jobs) + 1} /\ Len(jobs') = Len(jobs) + 1
      /\ Len(jobs) + 1 \notin JobIds /\ jobs'[Len(jobs')].kind = kind
      /\ \A k \in JobIds : jobs'[k] = jobs[k]
  BY GivenTyped
<1>2. QED
  BY <1>1 DEF Scans

LEMMA GivenScan ==
  ASSUME TypeInv, Scans = {}, jobs' = Given("scan", None)
  PROVE  Scans' = {Len(jobs')}
<1>1. /\ JobIds' = JobIds \cup {Len(jobs')} /\ jobs'[Len(jobs')].kind = "scan"
      /\ jobs'[Len(jobs')].at = "pooled" /\ \A k \in JobIds : jobs'[k] = jobs[k]
  BY GivenTyped DEF Kinds
<1>2. ASSUME NEW k \in JobIds, k # Len(jobs') PROVE k \notin Scans'
  BY <1>1, <1>2 DEF Scans
<1>3. Len(jobs') \in Scans'
  BY <1>1 DEF Scans
<1>4. \A k \in Scans' : k \in JobIds'
  BY DEF Scans
<1>5. QED
  BY <1>1, <1>2, <1>3, <1>4

LEMMA SameScans == ASSUME jobs' = jobs PROVE Scans' = Scans
BY DEF Scans, JobIds

\* start: a second scan is seen by the flag, or by what is still on its way.
LEMMA StartTells ==
  ASSUME TypeInv, NEW queue \in Seq(Callbacks), Start(queue), UNCHANGED app,
         app = "open" /\ ~doubled => Tells(queue, Scans, scan)
  PROVE  BannerInv'
<1>1. CASE scan.running
  <2>1. idle' = queue /\ UNCHANGED <<jobs, scan, doubled>>
    BY <1>1 DEF Start
  <2>2. QED
    BY <2>1, SameScans DEF BannerInv
<1>2. CASE ~scan.running
  <2>1. /\ jobs' = Given("scan", None) /\ scan' = [scan EXCEPT !.token = Len(jobs')]
        /\ idle' = Append(queue, [to |-> "running"]) /\ [to |-> "running"].to = "running"
        /\ ~doubled' => ~doubled /\ Scans = {} /\ ~Says(queue, "scanned")
    BY <1>2 DEF Start, Says
  <2>2. scan'.token = Len(jobs')
    BY <2>1, LoopFacts
  <2>3. ASSUME ~doubled' PROVE Tells(idle', Scans', scan')
    <3>1. Scans' = {Len(jobs')}
      BY <2>1, <2>3, GivenScan
    <3>2. Tells(Append(queue, [to |-> "running"]), {Len(jobs')}, scan')
      BY <2>1, <2>2, <2>3, RunningAppended
    <3>3. QED
      BY <2>1, <3>1, <3>2
  <2>4. QED
    BY <2>3 DEF BannerInv
<1>3. QED
  BY <1>1, <1>2

LEMMA LoopTells == ASSUME TypeInv, BannerInv, Loop PROVE BannerInv'
<1>0. /\ idle # <<>> /\ idle \in Seq(Callbacks) /\ Tail(idle) \in Seq(Callbacks)
      /\ app = "open" /\ None \in Image \cup {None} /\ "refresh" \in Kinds \ {"scan"}
  BY LoopFacts DEF Loop, Flush, Show, Compare, ShowRunning, OnFinished, OnExcluded, RootAdded, Turn, Kinds
<1>1. ASSUME Head(idle).to \notin News, idle' = Tail(idle), UNCHANGED <<scan, app, doubled>>, Scans' = Scans
      PROVE  BannerInv'
  BY <1>0, <1>1, OtherHeard DEF BannerInv
<1>2. CASE Flush \/ Show \/ Compare \/ OnExcluded
  <2>1. /\ Head(idle).to \in {"flush", "page", "version", "toast"} /\ idle' = Tail(idle)
        /\ UNCHANGED <<scan, app, doubled>>
        /\ jobs' = jobs \/ jobs' = Given("refresh", None)
    BY <1>2 DEF Flush, Show, Compare, OnExcluded, Turn, Refresh, Refreshed
  <2>2. Scans' = Scans
    BY <1>0, <2>1, SameScans, GivenOther
  <2>3. QED
    BY <1>1, <2>1, <2>2 DEF News
<1>3. CASE ShowRunning
  <2>1. /\ Head(idle).to \in {"running", "progress"} /\ idle' = Tail(idle)
        /\ scan' = [scan EXCEPT !.running = TRUE] /\ UNCHANGED <<jobs, app, doubled>>
    BY <1>3 DEF ShowRunning, Turn
  <2>2. scan'.running /\ scan'.token = scan.token
    BY <2>1, LoopFacts
  <2>3. Scans' = Scans
    BY <2>1, SameScans
  <2>4. Tells(idle, Scans, scan) => Tells(Tail(idle), Scans, scan')
    BY <1>0, <2>1, <2>2, RunningHeard
  <2>5. QED
    BY <2>1, <2>3, <2>4 DEF BannerInv
<1>4. CASE OnFinished
  <2>1. /\ Head(idle).to = "scanned" /\ idle' = Tail(idle) /\ scan' = NoScan
        /\ UNCHANGED <<jobs, app, doubled>>
    BY <1>4 DEF OnFinished, Turn
  <2>2. ~scan'.running
    BY <2>1 DEF NoScan
  <2>3. Scans' = Scans
    BY <2>1, SameScans
  <2>4. Tells(idle, Scans, scan) => Tells(Tail(idle), Scans, scan')
    BY <1>0, <2>1, <2>2, ScannedHeard
  <2>5. QED
    BY <2>1, <2>3, <2>4 DEF BannerInv
<1>5. CASE RootAdded
  <2>1. Head(idle).to = "start" /\ Start(Tail(idle)) /\ UNCHANGED app
    BY <1>5 DEF RootAdded, Turn
  <2>2. Tells(idle, Scans, scan) => Tells(Tail(idle), Scans, scan)
    BY <1>0, <2>1, OtherHeard DEF News
  <2>3. QED
    BY <1>0, <2>1, <2>2, StartTells DEF BannerInv
<1>6. QED
  BY <1>2, <1>3, <1>4, <1>5 DEF Loop

LEMMA RestTells == ASSUME TypeInv, BannerInv, Write \/ User \/ Quit \/ Close PROVE BannerInv'
<1>1. ASSUME UNCHANGED <<idle, scan, app, doubled>>, Scans' = Scans PROVE BannerInv'
  BY <1>1 DEF BannerInv
<1>2. CASE Connect \/ Leave \/ Cancel
  BY <1>1, <1>2, SameScans DEF Connect, Leave, Cancel
<1>3. CASE Commit
  <2> DEFINE j == Head(writer.queue)
  <2>1. Take /\ j # None /\ jobs' = Advanced(j) /\ UNCHANGED <<idle, scan, app, doubled>>
    BY <1>3 DEF Commit
  <2>2. j \in JobIds /\ jobs[j].at = "wait"
    BY <2>1, HeadWaits DEF TypeInv
  <2>3. QED
    BY <1>1, <2>1, <2>2, AdvancedTells
<1>4. CASE Raise
  <2> DEFINE j == Head(writer.queue)
  <2>1. Take /\ j # None /\ Failed(j) /\ UNCHANGED <<scan, app, doubled>>
    BY <1>4 DEF Raise
  <2>2. j \in JobIds /\ jobs[j].at = "wait"
    BY <2>1, HeadWaits DEF TypeInv
  <2>3. QED
    BY <2>1, <2>2, FailedTells, ToldBanner
<1>5. CASE (\E s \in Search : Choose(s)) \/ Undo \/ AddThenScan \/ PageShown
           \/ \E kind \in {"exclude", "add", "drop", "off"}, i \in Image : Edit(kind, i)
  <2>1. /\ UNCHANGED <<idle, scan, app, doubled>>
        /\ \E kind \in Kinds \ {"scan"}, arg \in Image \cup {None} :
              jobs' = Given(kind, arg) /\ (kind \in {"exclude", "add"} => arg \in Image)
    <3>1. CASE \E s \in Search : Choose(s)
      <4>1. PICK s \in Search : Choose(s)
        BY <3>1
      <4>2. jobs' = Given("refresh", None) /\ UNCHANGED <<idle, scan, app, doubled>>
        BY <4>1 DEF Choose, Refresh, Refreshed
      <4>3. "refresh" \in Kinds \ {"scan"} /\ None \in Image \cup {None}
        BY DEF Kinds
      <4>4. QED
        BY <4>2, <4>3
    <3>2. CASE \E kind \in {"exclude", "add", "drop", "off"}, i \in Image : Edit(kind, i)
      BY <3>2 DEF Edit, Kinds, OneWrite, TwoWrites
    <3>3. CASE Undo
      BY <3>3, LoopFacts DEF Undo, Kinds, OneWrite
    <3>4. CASE AddThenScan \/ PageShown
      BY <3>4 DEF AddThenScan, PageShown, Kinds, OneWrite
    <3>5. QED
      BY <1>5, <3>1, <3>2, <3>3, <3>4
  <2>2. QED
    BY <1>1, <2>1, GivenOther
<1>6. CASE Scan
  BY <1>6, LoopFacts, StartTells DEF Scan, BannerInv
<1>7. CASE Quit \/ Close
  <2>1. app' # "open"
    BY <1>7 DEF Quit, Close, Seal, PutSentinel, Join, Shutdown
  <2>2. QED
    BY <2>1 DEF BannerInv
<1>8. QED
  BY <1>2, <1>3, <1>4, <1>5, <1>6, <1>7 DEF Write, User

LEMMA BannerKept == TypeInv /\ BannerInv /\ [Next]_vars => BannerInv'
<1> SUFFICES ASSUME TypeInv, BannerInv, [Next]_vars
             PROVE  BannerInv'
  OBVIOUS
<1>1. CASE UNCHANGED vars
  BY <1>1, SameScans DEF vars, BannerInv
<1>2. CASE Next
  BY <1>2, WorkTells, ToldBanner, LoopTells, RestTells DEF Next
<1>3. QED
  BY <1>1, <1>2

LEMMA BannerStarts == Init => BannerInv
<1> SUFFICES ASSUME Init
             PROVE  BannerInv
  OBVIOUS
<1>1. TypeInv /\ idle = <<>> /\ scan = NoScan
  BY TypesStart DEF Init
<1>2. jobs = <<[Done EXCEPT !.kind = "refresh", !.todo = Script("refresh"), !.at = "pooled"]>>
  BY DEF Init
<1>3. \A j \in JobIds : jobs[j].kind = "refresh"
  <2> DEFINE job == [Done EXCEPT !.kind = "refresh", !.todo = Script("refresh"), !.at = "pooled"]
  <2>1. job.kind = "refresh"
    BY DoneTyped DEF Jobs
  <2>2. jobs = <<job>>
    BY <1>2
  <2> HIDE DEF job
  <2>3. QED
    BY <2>1, <2>2 DEF JobIds
<1>4. Scans = {}
  BY <1>3 DEF Scans
<1>5. DOMAIN idle = {} /\ ~scan.running
  BY <1>1 DEF NoScan
<1>6. QED
  BY <1>4, <1>5 DEF BannerInv, Tells, Says

-----------------------------------------------------------------------------
\* The theorems.

\* For any images, searches, size of the pool and number of edits, faults and scans:
\* the flags of the table are those of the stored rules, except between the two writes
\* of an operation of the Sources page or after the second failed (browse_vm.py,
\* sources_vm.py, the writer of ingest.py).
THEOREM FlagsFollowRules == Spec => []RulesApplied
<1>1. SessionInv => RulesApplied
  BY DEF SessionInv, FlagsInv, RulesApplied, Owes, Step
<1>2. QED
  BY <1>1, SessionStarts, SessionKept, PTL DEF Spec

\* For any of these: the session's types, and that the writer's queue holds exactly
\* the jobs that wait for it, each once (CatalogueWriter.submit, ingest.py:99).
THEOREM SessionTypes == Spec => []TypeOK
<1>1. QED
  BY TypesStart, TypesKept, TypesSuffice, PTL DEF Spec

\* For any of these: once the callbacks on their way have run the banner runs while a
\* scan does, and its Cancel reaches that scan, unless a second start came before
\* the first was shown (ScanVM of scan_vm.py).
THEOREM BannerTrue == Spec => []BannerTells
<1>1. QED
  BY TypesStart, TypesKept, BannerStarts, BannerKept, BannerSuffices, PTL DEF Spec

=============================================================================
