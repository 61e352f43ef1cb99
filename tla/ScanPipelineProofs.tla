------------------------- MODULE ScanPipelineProofs -------------------------
(***************************************************************************)
(* Proofs about ScanPipeline, for any disk, any catalogue, any number of   *)
(* workers and any bounds of the queues: its types, the inductive          *)
(* invariant from which its safety properties follow, and that the         *)
(* pipeline keeps the promise of ScanContract. What the last needs beside  *)
(* the invariant is that a file is in one place only: a batch that         *)
(* recorded a file again would be no step of the contract.                 *)
(***************************************************************************)
EXTENDS ScanPipeline, TLAPS

-----------------------------------------------------------------------------
\* Queues: what an append and a get do to the items of a queue.

\* queue.put: the items gain the new one.
LEMMA AppendItems ==
  ASSUME NEW S, NEW q \in Seq(S), NEW x \in S
  PROVE  /\ Append(q, x) \in Seq(S)
         /\ Len(Append(q, x)) = Len(q) + 1
         /\ Items(Append(q, x)) = Items(q) \cup {x}
         /\ \A i \in DOMAIN Append(q, x) :
               Append(q, x)[i] = IF i = Len(q) + 1 THEN x ELSE q[i]
<1> DEFINE r == Append(q, x)
<1>1. /\ r \in Seq(S) /\ Len(r) = Len(q) + 1
      /\ DOMAIN r = 1..(Len(q) + 1) /\ DOMAIN q = 1..Len(q) /\ Len(q) \in Nat
      /\ \A i \in DOMAIN r : r[i] = IF i = Len(q) + 1 THEN x ELSE q[i]
  OBVIOUS
<1>2. Items(r) = Items(q) \cup {x}
  BY <1>1 DEF Items
<1>3. QED
  BY <1>1, <1>2

\* A put that may have been given up.
LEMMA MaybePut ==
  ASSUME NEW q \in Seq(Path \cup {End}), NEW x \in Path \cup {End},
         NEW r, r = q \/ r = Append(q, x)
  PROVE  Items(q) \subseteq Items(r) /\ Items(r) \subseteq Items(q) \cup {x}
<1>1. Items(Append(q, x)) = Items(q) \cup {x}
  BY AppendItems
<1>2. QED
  BY <1>1

\* queue.get: the head leaves, the rest moves up.
LEMMA TailItems ==
  ASSUME NEW S, NEW q \in Seq(S), q # <<>>
  PROVE  /\ Tail(q) \in Seq(S)
         /\ Head(q) \in S /\ Head(q) = q[1]
         /\ Len(Tail(q)) = Len(q) - 1 /\ Len(q) \in Nat \ {0}
         /\ Items(q) = Items(Tail(q)) \cup {Head(q)}
         /\ \A i \in DOMAIN Tail(q) : i + 1 \in DOMAIN q /\ Tail(q)[i] = q[i + 1]
<1> DEFINE r == Tail(q)
<1>1. /\ r \in Seq(S) /\ Len(r) = Len(q) - 1 /\ Len(q) \in Nat /\ Len(q) >= 1
      /\ DOMAIN r = 1..(Len(q) - 1) /\ DOMAIN q = 1..Len(q)
      /\ Head(q) = q[1] /\ Head(q) \in S
  OBVIOUS
<1>2. \A i \in DOMAIN r : i + 1 \in DOMAIN q /\ r[i] = q[i + 1]
  BY <1>1
<1>3. \A j \in DOMAIN q : j = 1 \/ (j - 1 \in DOMAIN r /\ q[j] = r[j - 1])
  BY <1>1, <1>2
<1>4. Items(q) = Items(r) \cup {q[1]}
  <2> HIDE DEF r
  <2>1. ASSUME NEW y \in Items(q)
        PROVE  y \in Items(r) \cup {q[1]}
    <3>1. PICK j \in DOMAIN q : y = q[j]
      BY DEF Items
    <3>2. CASE j = 1
      BY <3>1, <3>2
    <3>3. CASE j - 1 \in DOMAIN r /\ q[j] = r[j - 1]
      BY <3>1, <3>3 DEF Items
    <3>4. QED
      BY <1>3, <3>2, <3>3
  <2>2. \A y \in Items(r) : y \in Items(q)
    BY <1>2 DEF Items
  <2>3. q[1] \in Items(q)
    BY <1>1 DEF Items
  <2>4. QED
    BY <2>1, <2>2, <2>3
<1>5. QED
  BY <1>1, <1>2, <1>4

-----------------------------------------------------------------------------
\* Types.

\* What the assumption on Worlds says of the world at hand.
LEMMA WorldFacts ==
  ASSUME world \in Worlds
  PROVE  /\ LegalWorld(world)
         /\ world.row \in [Path -> Status]
         /\ world.kind \in [Path -> Kind]
         /\ world.from \in [Path -> Path \cup {NoPath}]
         /\ world.excluded \subseteq Path /\ world.hides \subseteq SUBSET Path
         /\ Walkable(world) \subseteq OnDisk(world) /\ OnDisk(world) \subseteq Path
BY WorldAssumption DEF LegalWorld, Walkable, OnDisk

\* Every row a batch or a sweep writes is a row.
LEMMA RowTypes ==
  ASSUME NEW r \in [Path -> Status], NEW w, NEW S, NEW F, NEW T, NEW D
  PROVE  /\ Upserted(w, r, S) \in [Path -> Status]
         /\ Swept(r, F, T, D) \in [Path -> Status]
BY DEF Upserted, Swept, Status

\* A bounded put that lands where there is room, or is given up, keeps the bound.
LEMMA BoundedPut ==
  ASSUME NEW q \in Seq(Path \cup {End}), NEW n \in Nat, Len(q) <= n,
         NEW x \in Path \cup {End}, NEW r,
         r = q \/ (HasRoom(q, n) /\ r = Append(q, x))
  PROVE  r \in Seq(Path \cup {End}) /\ Len(r) <= n
<1>1. CASE r = q
  BY <1>1
<1>2. CASE HasRoom(q, n) /\ r = Append(q, x)
  BY <1>2 DEF HasRoom
<1>3. QED
  BY <1>1, <1>2

\* The pass starts well typed.
LEMMA InitTypes == Init => TypeOK
<1> SUFFICES ASSUME Init PROVE TypeOK
  OBVIOUS
<1>1. world \in Worlds /\ row \in [Path -> Status] /\ todo \subseteq Path
  BY WorldFacts DEF Init
<1>2. flagged \subseteq Path
  BY WorldFacts DEF Init
<1>3. /\ candQ \in Seq(Path \cup {End}) /\ Len(candQ) <= CandQueue
      /\ resQ \in Seq(Path \cup {End}) /\ Len(resQ) <= ResultQueue
      /\ batch \in Seq(Path)
  BY PipelineAssumption DEF Init
<1>4. QED
  BY <1>1, <1>2, <1>3, WorldAssumption DEF Init, TypeOK

\* The state keeps its types; in particular no queue outgrows its bound.
THEOREM TypeCorrect == Spec => []TypeOK
<1>1. Init => TypeOK
  BY InitTypes
<1>2. TypeOK /\ [Next]_vars => TypeOK'
  <2> SUFFICES ASSUME TypeOK, [Next]_vars PROVE TypeOK'
    OBVIOUS
  <2> USE DEF TypeOK, vars, dbVars, flags, walkVars, workVars, conVars
  <2>1. CASE Cancel
    BY <2>1 DEF Cancel
  <2>41. CASE RulesChange
    <3>1. flagged' \subseteq Path
      BY <2>41, WorldFacts DEF RulesChange, Reflagged
    <3>2. QED
      BY <2>41, <3>1 DEF RulesChange
  <2>2. CASE WalkStart
    BY <2>2 DEF WalkStart
  <2>3. CASE WalkRootFails
    BY <2>3 DEF WalkRootFails, OnDisk
  <2>4. ASSUME NEW p \in Path, WalkSkip(p) PROVE TypeOK'
    BY <2>4 DEF WalkSkip
  <2>5. ASSUME NEW p \in Path, WalkEntry(p) PROVE TypeOK'
    BY <2>5 DEF WalkEntry
  <2>6. ASSUME NEW d \in Dir, WalkDirFails(d) PROVE TypeOK'
    BY <2>6 DEF WalkDirFails
  <2>7. CASE WalkStops
    <3>1. complete' \in BOOLEAN
      BY <2>7 DEF WalkStops
    <3>2. QED
      BY <2>7, <3>1 DEF WalkStops
  <2>8. CASE WalkAll
    BY <2>8 DEF WalkAll
  <2>9. CASE WalkPutUnchanged
    <3>1. resQ' \in Seq(Path \cup {End}) /\ Len(resQ') <= ResultQueue
      <4>1. resQ' = resQ \/ (HasRoom(resQ, ResultQueue) /\ resQ' = Append(resQ, inHand))
        BY <2>9 DEF WalkPutUnchanged
      <4>2. ResultQueue \in Nat /\ inHand \in Path \cup {End}
        BY <2>9, PipelineAssumption DEF WalkPutUnchanged
      <4>3. QED
        BY <4>1, <4>2, BoundedPut
    <3>2. QED
      BY <2>9, <3>1 DEF WalkPutUnchanged
  <2>10. CASE WalkPutCandidate
    <3>1. candQ' \in Seq(Path \cup {End}) /\ Len(candQ') <= CandQueue
      BY <2>10, PipelineAssumption DEF WalkPutCandidate, HasRoom
    <3>2. QED
      BY <2>10, <3>1 DEF WalkPutCandidate
  <2>11. CASE WalkPutCancelled
    <3>1. complete' \in BOOLEAN
      BY <2>11 DEF WalkPutCancelled
    <3>2. QED
      BY <2>11, <3>1 DEF WalkPutCancelled
  <2>12. CASE WalkEnds
    <3>1. candQ' \in Seq(Path \cup {End}) /\ Len(candQ') <= CandQueue
      <4>1. candQ' = candQ \/ (HasRoom(candQ, CandQueue) /\ candQ' = Append(candQ, End))
        BY <2>12 DEF WalkEnds
      <4>2. CandQueue \in Nat /\ End \in Path \cup {End}
        BY <2>12, PipelineAssumption DEF WalkEnds
      <4>3. QED
        BY <4>1, <4>2, BoundedPut
    <3>2. QED
      BY <2>12, <3>1 DEF WalkEnds
  <2>13. ASSUME NEW w \in Worker, WorkerTakes(w) PROVE TypeOK'
    <3>1. candQ' \in Seq(Path \cup {End}) /\ Len(candQ') <= CandQueue
      BY <2>13, TailItems, PipelineAssumption DEF WorkerTakes
    <3>2. Head(candQ) \in Path
      BY <2>13, TailItems, PipelineAssumption DEF WorkerTakes
    <3>3. QED
      BY <2>13, <3>1, <3>2 DEF WorkerTakes
  <2>14. ASSUME NEW w \in Worker, WorkerDiscards(w) PROVE TypeOK'
    <3>1. candQ' \in Seq(Path \cup {End}) /\ Len(candQ') <= CandQueue
      BY <2>14, TailItems, PipelineAssumption DEF WorkerDiscards
    <3>2. QED
      BY <2>14, <3>1 DEF WorkerDiscards
  <2>15. ASSUME NEW w \in Worker, WorkerSeesEnd(w) PROVE TypeOK'
    <3>1. candQ' \in Seq(Path \cup {End}) /\ Len(candQ') <= CandQueue
      BY <2>15, TailItems, PipelineAssumption DEF WorkerSeesEnd
    <3>2. QED
      BY <2>15, <3>1 DEF WorkerSeesEnd
  <2>16. ASSUME NEW w \in Worker, WorkerForwardsEnd(w) PROVE TypeOK'
    <3>1. candQ' \in Seq(Path \cup {End}) /\ Len(candQ') <= CandQueue
      BY <2>16, AppendItems, PipelineAssumption DEF WorkerForwardsEnd, HasRoom
    <3>2. QED
      BY <2>16, <3>1 DEF WorkerForwardsEnd
  <2>17. ASSUME NEW w \in Worker, WorkerTimesOut(w) \/ WorkerPolls(w) PROVE TypeOK'
    BY <2>17 DEF WorkerTimesOut, WorkerPolls
  <2>18. ASSUME NEW w \in Worker, WorkerPuts(w) PROVE TypeOK'
    <3>1. resQ' \in Seq(Path \cup {End}) /\ Len(resQ') <= ResultQueue
      <4>1. resQ' = resQ \/ (HasRoom(resQ, ResultQueue) /\ resQ' = Append(resQ, hand[w]))
        BY <2>18 DEF WorkerPuts
      <4>2. ResultQueue \in Nat /\ hand[w] \in Path \cup {End}
        BY <2>18, PipelineAssumption DEF WorkerPuts
      <4>3. QED
        BY <4>1, <4>2, BoundedPut
    <3>2. QED
      BY <2>18, <3>1, WorldAssumption DEF WorkerPuts
  <2>19. ASSUME NEW w \in Worker, WorkerRaises(w) PROVE TypeOK'
    BY <2>19 DEF WorkerRaises
  <2>20. CASE FinaliserJoins
    BY <2>20 DEF FinaliserJoins
  <2>21. CASE FinaliserDies
    BY <2>21 DEF FinaliserDies
  <2>22. CASE FinaliserPuts
    <3>1. resQ' \in Seq(Path \cup {End}) /\ Len(resQ') <= ResultQueue
      <4>1. resQ' = resQ \/ (HasRoom(resQ, ResultQueue) /\ resQ' = Append(resQ, End))
        BY <2>22 DEF FinaliserPuts
      <4>2. ResultQueue \in Nat /\ End \in Path \cup {End}
        BY <2>22, PipelineAssumption DEF FinaliserPuts
      <4>3. QED
        BY <4>1, <4>2, BoundedPut
    <3>2. QED
      BY <2>22, <3>1 DEF FinaliserPuts
  <2>23. CASE ConsumeItem
    <3>1. resQ' \in Seq(Path \cup {End}) /\ Len(resQ') <= ResultQueue
      BY <2>23, TailItems, PipelineAssumption DEF ConsumeItem
    <3>2. Head(resQ) \in Path
      BY <2>23, TailItems, PipelineAssumption DEF ConsumeItem
    <3>3. batch' \in Seq(Path)
      BY <2>23, <3>2, AppendItems DEF ConsumeItem
    <3>4. QED
      BY <2>23, <3>1, <3>2, <3>3 DEF ConsumeItem
  <2>24. CASE ConsumeEnd
    <3>1. resQ' \in Seq(Path \cup {End}) /\ Len(resQ') <= ResultQueue
      BY <2>24, TailItems, PipelineAssumption DEF ConsumeEnd
    <3>2. QED
      BY <2>24, <3>1 DEF ConsumeEnd
  <2>25. CASE ConsumeTick
    BY <2>25 DEF ConsumeTick
  <2>26. CASE ListenerRaises
    BY <2>26 DEF ListenerRaises
  <2>27. CASE FlushCommits
    <3>1. row' \in [Path -> Status]
      BY <2>27, RowTypes DEF FlushCommits
    <3>2. Items(batch) \subseteq Path
      BY DEF Items
    <3>3. flagged' \subseteq Path /\ seen' \subseteq Path
      BY <2>27, <3>2 DEF FlushCommits, Carried, Moved
    <3>4. QED
      BY <2>27, <3>1, <3>3 DEF FlushCommits
  <2>28. CASE FlushFails
    BY <2>28 DEF FlushFails
  <2>29. CASE FlushCancels
    BY <2>29 DEF FlushCancels
  <2>30. CASE Reap
    BY <2>30 DEF Reap
  <2>31. CASE Decide
    BY <2>31 DEF Decide
  <2>32. CASE SweepCommits
    <3>1. row' \in [Path -> Status]
      BY <2>32, RowTypes DEF SweepCommits
    <3>2. swept' \in BOOLEAN
      BY <2>32 DEF SweepCommits
    <3>3. QED
      BY <2>32, <3>1, <3>2 DEF SweepCommits
  <2>33. CASE StampCommits
    BY <2>33 DEF StampCommits
  <2>34. CASE SweepOrStampFails
    BY <2>34 DEF SweepOrStampFails
  <2>35. CASE PoolShutdown
    BY <2>35 DEF PoolShutdown
  <2>36. CASE Conclude
    BY <2>36 DEF Conclude
  <2>37. CASE FinishCommits
    BY <2>37 DEF FinishCommits
  <2>38. CASE FinishFails
    BY <2>38 DEF FinishFails
  <2>39. CASE Over
    BY <2>39 DEF Over
  <2>40. CASE UNCHANGED vars
    BY <2>40
  <2> QED
    BY <2>1, <2>2, <2>3, <2>4, <2>5, <2>6, <2>7, <2>8, <2>9, <2>10, <2>11, <2>12, <2>13, <2>14, <2>15, <2>16, <2>17, <2>18, <2>19, <2>20, <2>21, <2>22, <2>23, <2>24, <2>25, <2>26, <2>27, <2>28, <2>29, <2>30, <2>31, <2>32, <2>33, <2>34, <2>35, <2>36, <2>37, <2>38, <2>39, <2>40, <2>41
       DEF Next, Walker, ProbeWorker, Finaliser, Consumer
<1> QED
  BY <1>1, <1>2, PTL DEF Spec

-----------------------------------------------------------------------------
\* The inductive invariant, part by part.

\* The walker: what it holds, and when it has met everything.
WalkerInv ==
  /\ wpc = "put" => inHand \in Walkable(world)
  /\ wpc # "put" => inHand = NoPath
  /\ wpc = "end" \/ wpc = "done" => (complete => todo = {})
  /\ ~complete => cancel
  /\ todo \subseteq OnDisk(world)

\* Only files the walk could meet travel.
CargoInv ==
  /\ Items(candQ) \subseteq Walkable(world) \cup {End}
  /\ Items(resQ) \subseteq Walkable(world) \cup {End}
  /\ Items(batch) \subseteq Walkable(world)
  /\ seen \subseteq Walkable(world)
  /\ \A w \in Worker : /\ worker[w] \in {"hold", "raised"} => hand[w] \in Walkable(world)
                       /\ worker[w] \notin {"hold", "raised"} => hand[w] = NoPath

\* The sentinel of cand_q: one at most, behind every candidate, or in the hand of
\* the one worker that is putting it back.
EndInv ==
  /\ \A i \in DOMAIN candQ : candQ[i] = End => i = Len(candQ) /\ wpc = "done"
  /\ \A w \in Worker : worker[w] = "forward" =>
        /\ wpc = "done" /\ candQ = <<>>
        /\ \A v \in Worker : worker[v] = "forward" => v = w
  /\ ~TearDown => \A w \in Worker : worker[w] = "done" =>
        wpc = "done" /\ Items(candQ) \subseteq {End}

\* The sentinel of res_q: delivered after every thread but the consumer is done.
FinInv ==
  /\ fin \in {"put", "done"} => wpc = "done" /\ \A w \in Worker : worker[w] = "done"
  /\ \A i \in DOMAIN resQ : resQ[i] = End => i = Len(resQ) /\ fin = "done"

\* The scanning thread: what each of its stations implies.
ConInv ==
  /\ con \in {"get", "flush", "lastFlush", "decide", "sweep", "stamp"} => ~raised
  /\ con = "failing" => raised
  /\ abort => raised
  /\ con \in {"lastFlush", "decide", "sweep", "stamp"} \/ (con = "reap" /\ ~raised)
       => fin = "done" /\ resQ = <<>>
  /\ con \in {"reap", "decide", "sweep", "stamp"} /\ ~raised => batch = <<>>
  /\ con \in {"decide", "sweep", "stamp", "shutdown", "conclude", "finish", "over"}
       => wpc = "done" /\ fin \in {"done", "dead"}
  /\ con \in {"conclude", "finish", "over"} => \A w \in Worker : worker[w] \in {"done", "raised"}

\* The judgement: when it may be passed, and what it says once it has been.
Settled == Walkable(world) \ Beneath(failed) \subseteq seen

Exact ==
  \A p \in Path \ Beneath(failed) :
    /\ p \in Walkable(world) => row[p] = "live" /\ p \in seen
    /\ p \notin Walkable(world) /\ row[p] # "none" =>
         row[p] = IF p \in spared THEN world.row[p] ELSE "missing"

SweepInv ==
  /\ con = "sweep" => Settled
  /\ swept => /\ con \in {"stamp", "shutdown", "conclude", "finish", "over"}
              /\ Exact
  /\ ~swept => \A p \in Path :
        /\ row[p] = "missing" => world.row[p] = "missing"
        /\ p \notin Walkable(world) /\ row[p] # "none" => row[p] = world.row[p]
  /\ con \in {"stamp", "shutdown", "conclude"} /\ ~raised /\ ~cancel => swept
  /\ con \in {"finish", "over"} /\ outcome = "ok" => swept
  /\ result = "ok" => con = "over" /\ outcome = "ok"
  /\ \A p \in seen : row[p] = "live"

IInv ==
  /\ TypeOK /\ WalkerInv /\ CargoInv /\ EndInv /\ FinInv /\ ConInv /\ SweepInv
  /\ NothingLost /\ MissingIsGone /\ RowsSurvive

-----------------------------------------------------------------------------
\* What each thread leaves alone.

LEMMA WalkerLeaves ==
  ASSUME Walker
  PROVE  /\ UNCHANGED <<world, dbVars, flags, workVars, fin, conVars>>
         /\ wpc # "done"
BY DEF Walker, WalkStart, WalkRootFails, WalkSkip, WalkEntry, WalkDirFails, WalkStops, WalkAll,
       WalkPutUnchanged, WalkPutCandidate, WalkPutCancelled, WalkEnds

LEMMA WorkerLeaves ==
  ASSUME TypeOK, NEW w \in Worker, ProbeWorker(w)
  PROVE  /\ UNCHANGED <<world, dbVars, flags, walkVars, fin, conVars>>
         /\ worker[w] \in {"get", "poll", "hold", "forward"}
         /\ \A v \in Worker : v # w => worker'[v] = worker[v] /\ hand'[v] = hand[v]
<1>1. /\ UNCHANGED <<world, dbVars, flags, walkVars, fin, conVars>>
      /\ worker[w] \in {"get", "poll", "hold", "forward"}
  BY DEF ProbeWorker, WorkerTakes, WorkerDiscards, WorkerSeesEnd, WorkerForwardsEnd,
         WorkerTimesOut, WorkerPolls, WorkerPuts, WorkerRaises
<1>2. /\ worker' = worker \/ \E x : worker' = [worker EXCEPT ![w] = x]
      /\ hand' = hand \/ \E x : hand' = [hand EXCEPT ![w] = x]
  BY DEF ProbeWorker, WorkerTakes, WorkerDiscards, WorkerSeesEnd, WorkerForwardsEnd,
         WorkerTimesOut, WorkerPolls, WorkerPuts, WorkerRaises, workVars
<1>3. QED
  BY <1>1, <1>2 DEF TypeOK

LEMMA FinaliserLeaves ==
  ASSUME Finaliser
  PROVE  /\ UNCHANGED <<world, dbVars, flags, walkVars, candQ, workVars, conVars>>
         /\ fin \in {"wait", "put"}
BY DEF Finaliser, FinaliserJoins, FinaliserDies, FinaliserPuts

LEMMA ConsumerLeaves ==
  ASSUME Consumer
  PROVE  /\ UNCHANGED <<world, walkVars, candQ, workVars, fin>>
         /\ (cancel => cancel') /\ (abort => abort')
<1>1. UNCHANGED <<world, walkVars, candQ, workVars, fin>>
  BY DEF Consumer, ConsumeItem, ConsumeEnd, ConsumeTick, ListenerRaises, FlushCommits, FlushFails,
         FlushCancels, Reap, Decide, SweepCommits, StampCommits, SweepOrStampFails, PoolShutdown,
         Conclude, FinishCommits, FinishFails
<1>2. CASE UNCHANGED flags
  BY <1>1, <1>2 DEF flags
<1>3. CASE FlushFails
  BY <1>1, <1>3 DEF FlushFails
<1>4. CASE FlushCancels
  BY <1>1, <1>4 DEF FlushCancels
<1>5. CASE Conclude
  BY <1>1, <1>5 DEF Conclude
<1>6. QED
  BY <1>2, <1>3, <1>4, <1>5
     DEF Consumer, ConsumeItem, ConsumeEnd, ConsumeTick, ListenerRaises, FlushCommits, Reap,
         Decide, SweepCommits, StampCommits, SweepOrStampFails, PoolShutdown, FinishCommits,
         FinishFails

\* The flags only ever rise, and the world stands still.
LEMMA Monotone ==
  ASSUME TypeOK, [Next]_vars
  PROVE  /\ world' = world
         /\ (cancel => cancel') /\ (abort => abort') /\ (TearDown => TearDown')
<1>1. CASE Cancel \/ RulesChange
  BY <1>1 DEF Cancel, RulesChange, flags, TearDown
<1>2. CASE Walker
  BY <1>2, WalkerLeaves DEF flags, TearDown
<1>3. CASE \E w \in Worker : ProbeWorker(w)
  BY <1>3, WorkerLeaves DEF flags, TearDown
<1>4. CASE Finaliser
  BY <1>4, FinaliserLeaves DEF flags, TearDown
<1>5. CASE Consumer
  BY <1>5, ConsumerLeaves DEF TearDown
<1>6. CASE Over \/ UNCHANGED vars
  BY <1>6 DEF Over, vars, flags, TearDown
<1>7. QED
  BY <1>1, <1>2, <1>3, <1>4, <1>5, <1>6 DEF Next

-----------------------------------------------------------------------------
\* Each part of the invariant is preserved.

LEMMA WalkerStep ==
  ASSUME IInv, [Next]_vars
  PROVE  WalkerInv'
<1> USE DEF WalkerInv, walkVars
<1>0. WalkerInv /\ TypeOK /\ world \in Worlds /\ world' = world
  BY Monotone DEF IInv, TypeOK
<1>1. CASE Walker
  <2> USE <1>0, <1>1, WalkerLeaves, WorldFacts DEF flags, TypeOK
  <2>1. CASE WalkStart
    BY <2>1 DEF WalkStart
  <2>2. CASE WalkRootFails
    BY <2>2 DEF WalkRootFails
  <2>3. ASSUME NEW p \in Path, WalkSkip(p) PROVE WalkerInv'
    BY <2>3 DEF WalkSkip
  <2>4. ASSUME NEW p \in Path, WalkEntry(p) PROVE WalkerInv'
    BY <2>4 DEF WalkEntry, Walkable
  <2>5. ASSUME NEW d \in Dir, WalkDirFails(d) PROVE WalkerInv'
    BY <2>5 DEF WalkDirFails
  <2>6. CASE WalkStops
    BY <2>6 DEF WalkStops
  <2>7. CASE WalkAll
    BY <2>7 DEF WalkAll
  <2>8. CASE WalkPutUnchanged
    BY <2>8 DEF WalkPutUnchanged
  <2>9. CASE WalkPutCandidate
    BY <2>9 DEF WalkPutCandidate
  <2>10. CASE WalkPutCancelled
    BY <2>10 DEF WalkPutCancelled
  <2>11. CASE WalkEnds
    BY <2>11 DEF WalkEnds
  <2>12. QED
    BY <2>1, <2>2, <2>3, <2>4, <2>5, <2>6, <2>7, <2>8, <2>9, <2>10, <2>11 DEF Walker
<1>2. CASE \E w \in Worker : ProbeWorker(w)
  BY <1>0, <1>2, WorkerLeaves DEF flags
<1>3. CASE Finaliser
  BY <1>0, <1>3, FinaliserLeaves DEF flags
<1>4. CASE Consumer
  BY <1>0, <1>4, ConsumerLeaves
<1>5. CASE Cancel \/ RulesChange
  BY <1>0, <1>5 DEF Cancel, RulesChange, flags, walkVars
<1>6. CASE Over \/ UNCHANGED vars
  BY <1>0, <1>6 DEF Over, vars, flags
<1>7. QED
  BY <1>1, <1>2, <1>3, <1>4, <1>5, <1>6 DEF Next

LEMMA CargoStep ==
  ASSUME IInv, [Next]_vars
  PROVE  CargoInv'
<1> USE DEF CargoInv
<1>0. CargoInv /\ WalkerInv /\ TypeOK /\ world \in Worlds /\ world' = world
  BY Monotone DEF IInv, TypeOK
<1>1. CASE Walker
  <2> USE <1>0, WalkerInv, PipelineAssumption
  <2>1. UNCHANGED <<batch, seen, worker, hand>>
    BY <1>1, WalkerLeaves DEF dbVars, workVars, conVars
  <2>2. CASE WalkPutUnchanged
    <3>1. Items(resQ') \subseteq Items(resQ) \cup {inHand}
      <4>1. resQ' = resQ \/ resQ' = Append(resQ, inHand)
        BY <2>2 DEF WalkPutUnchanged
      <4>2. resQ \in Seq(Path \cup {End}) /\ inHand \in Path \cup {End}
        BY <2>2 DEF WalkPutUnchanged, TypeOK
      <4>3. QED
        BY <4>1, <4>2, MaybePut
    <3>2. QED
      BY <2>1, <2>2, <3>1 DEF WalkPutUnchanged, WalkerInv
  <2>3. CASE WalkPutCandidate
    <3>1. Items(candQ') \subseteq Items(candQ) \cup {inHand}
      BY <2>3, AppendItems DEF WalkPutCandidate, TypeOK
    <3>2. QED
      BY <2>1, <2>3, <3>1 DEF WalkPutCandidate, WalkerInv
  <2>4. CASE WalkEnds
    <3>1. Items(candQ') \subseteq Items(candQ) \cup {End}
      <4>1. candQ' = candQ \/ candQ' = Append(candQ, End)
        BY <2>4 DEF WalkEnds
      <4>2. candQ \in Seq(Path \cup {End}) /\ End \in Path \cup {End}
        BY <2>4 DEF WalkEnds, TypeOK
      <4>3. QED
        BY <4>1, <4>2, MaybePut
    <3>2. QED
      BY <2>1, <2>4, <3>1 DEF WalkEnds
  <2>5. CASE UNCHANGED <<candQ, resQ>>
    BY <2>1, <2>5
  <2>6. QED
    BY <1>1, <2>2, <2>3, <2>4, <2>5
       DEF Walker, WalkStart, WalkRootFails, WalkSkip, WalkEntry, WalkDirFails, WalkStops, WalkAll,
           WalkPutCancelled
<1>2. ASSUME NEW w \in Worker, ProbeWorker(w) PROVE CargoInv'
  <2>1. UNCHANGED <<batch, seen>>
    BY <1>0, <1>2, WorkerLeaves DEF dbVars, conVars
  <2> USE <1>0, <2>1, WorldAssumption
  <2>2. CASE WorkerTakes(w)
    <3>1. Items(candQ') \subseteq Items(candQ) /\ Head(candQ) \in Items(candQ)
      BY <2>2, TailItems DEF WorkerTakes, TypeOK
    <3>2. QED
      BY <2>2, <3>1 DEF WorkerTakes, TypeOK
  <2>3. CASE WorkerDiscards(w)
    <3>1. Items(candQ') \subseteq Items(candQ)
      BY <2>3, TailItems DEF WorkerDiscards, TypeOK
    <3>2. QED
      BY <2>3, <3>1 DEF WorkerDiscards, workVars, TypeOK
  <2>4. CASE WorkerSeesEnd(w)
    <3>1. Items(candQ') \subseteq Items(candQ)
      BY <2>4, TailItems DEF WorkerSeesEnd, TypeOK
    <3>2. QED
      BY <2>4, <3>1 DEF WorkerSeesEnd, TypeOK
  <2>5. CASE WorkerForwardsEnd(w)
    <3>1. Items(candQ') \subseteq Items(candQ) \cup {End}
      <4>1. candQ' = Append(candQ, End) /\ candQ \in Seq(Path \cup {End}) /\ End \in Path \cup {End}
        BY <2>5 DEF WorkerForwardsEnd, TypeOK
      <4>2. QED
        BY <4>1, AppendItems
    <3>2. QED
      BY <2>5, <3>1 DEF WorkerForwardsEnd, TypeOK
  <2>6. CASE WorkerTimesOut(w) \/ WorkerPolls(w)
    BY <2>6 DEF WorkerTimesOut, WorkerPolls, TypeOK
  <2>7. CASE WorkerPuts(w)
    <3>1. Items(resQ') \subseteq Items(resQ) \cup {hand[w]}
      <4>1. resQ' = resQ \/ resQ' = Append(resQ, hand[w])
        BY <2>7 DEF WorkerPuts, TypeOK
      <4>2. resQ \in Seq(Path \cup {End}) /\ hand[w] \in Path \cup {End}
        BY <2>7 DEF WorkerPuts, TypeOK
      <4>3. QED
        BY <4>1, <4>2, MaybePut
    <3>2. QED
      BY <2>7, <3>1 DEF WorkerPuts, TypeOK
  <2>8. CASE WorkerRaises(w)
    BY <2>8 DEF WorkerRaises, TypeOK
  <2>9. QED
    BY <1>2, <2>2, <2>3, <2>4, <2>5, <2>6, <2>7, <2>8 DEF ProbeWorker
<1>3. CASE Finaliser
  <2>1. Items(resQ') \subseteq Items(resQ) \cup {End}
    <3>1. resQ' = resQ \/ resQ' = Append(resQ, End)
      BY <1>3 DEF Finaliser, FinaliserJoins, FinaliserDies, FinaliserPuts
    <3>2. resQ \in Seq(Path \cup {End}) /\ End \in Path \cup {End}
      BY <1>0 DEF TypeOK
    <3>3. QED
      BY <3>1, <3>2, MaybePut
  <2>2. QED
    BY <1>0, <1>3, <2>1, FinaliserLeaves DEF dbVars, workVars, conVars
<1>4. CASE Consumer
  <2>1. UNCHANGED <<candQ, worker, hand>>
    BY <1>4, ConsumerLeaves DEF workVars
  <2> USE <1>0, <2>1
  <2>2. CASE ConsumeItem
    <3>1. Items(resQ') \subseteq Items(resQ) /\ Head(resQ) \in Items(resQ) /\ Head(resQ) \in Path
      BY <2>2, TailItems DEF ConsumeItem, TypeOK
    <3>2. Items(batch') = Items(batch) \cup {Head(resQ)}
      BY <2>2, <3>1, AppendItems DEF ConsumeItem, TypeOK
    <3>3. QED
      BY <2>2, <3>1, <3>2 DEF ConsumeItem, dbVars
  <2>3. CASE ConsumeEnd
    <3>1. Items(resQ') \subseteq Items(resQ)
      BY <2>3, TailItems DEF ConsumeEnd, TypeOK
    <3>2. QED
      BY <2>3, <3>1 DEF ConsumeEnd, dbVars
  <2>4. CASE FlushCommits
    <3>1. Items(batch') = {}
      BY <2>4 DEF FlushCommits, Items
    <3>2. QED
      BY <2>4, <3>1 DEF FlushCommits
  <2>5. CASE UNCHANGED <<resQ, batch, seen>>
    BY <2>5
  <2>6. QED
    BY <1>4, <2>2, <2>3, <2>4, <2>5
       DEF Consumer, ConsumeTick, ListenerRaises, FlushFails, FlushCancels, Reap, Decide,
           SweepCommits, StampCommits, SweepOrStampFails, PoolShutdown, Conclude, FinishCommits,
           FinishFails, dbVars
<1>5. CASE Cancel \/ RulesChange
  BY <1>0, <1>5 DEF Cancel, RulesChange, flags, dbVars, workVars, conVars
<1>6. CASE Over \/ UNCHANGED vars
  BY <1>0, <1>6 DEF Over, vars, dbVars, workVars, conVars
<1>7. QED
  BY <1>1, <1>2, <1>3, <1>4, <1>5, <1>6 DEF Next

LEMMA EndStep ==
  ASSUME IInv, [Next]_vars
  PROVE  EndInv'
<1> USE DEF EndInv
<1>0. /\ EndInv /\ WalkerInv /\ CargoInv /\ TypeOK /\ world' = world
      /\ (TearDown => TearDown')
      /\ candQ \in Seq(Path \cup {End})
  BY Monotone DEF IInv, TypeOK
<1>1. CASE Walker
  <2>1. UNCHANGED <<worker, cancel, abort>> /\ wpc # "done"
    BY <1>1, WalkerLeaves DEF flags, workVars
  <2>2. /\ \A i \in DOMAIN candQ : candQ[i] # End
        /\ \A w \in Worker : worker[w] # "forward"
        /\ ~TearDown => \A w \in Worker : worker[w] # "done"
    BY <1>0, <2>1
  <2>3. CASE WalkPutCandidate
    <3>1. inHand \in Path /\ inHand # End
      BY <2>3, PipelineAssumption, <1>0 DEF WalkPutCandidate, TypeOK
    <3>2. \A i \in DOMAIN candQ' : candQ'[i] # End
      BY <1>0, <2>2, <2>3, <3>1, AppendItems DEF WalkPutCandidate
    <3>3. QED
      BY <2>1, <2>2, <3>2 DEF TearDown
  <2>4. CASE WalkEnds
    <3>1. wpc' = "done"
      BY <2>4 DEF WalkEnds
    <3>2. candQ' = candQ \/ candQ' = Append(candQ, End)
      BY <2>4 DEF WalkEnds
    <3>3. \A i \in DOMAIN candQ' : candQ'[i] = End => i = Len(candQ')
      <4>1. CASE candQ' = candQ
        BY <2>2, <4>1
      <4>2. CASE candQ' = Append(candQ, End)
        BY <1>0, <2>2, <4>2, AppendItems
      <4>3. QED
        BY <3>2, <4>1, <4>2
    <3>4. QED
      BY <2>1, <2>2, <3>1, <3>3 DEF TearDown
  <2>5. CASE UNCHANGED candQ
    BY <2>1, <2>2, <2>5 DEF TearDown
  <2>6. QED
    BY <1>1, <2>3, <2>4, <2>5
       DEF Walker, WalkStart, WalkRootFails, WalkSkip, WalkEntry, WalkDirFails, WalkStops, WalkAll,
           WalkPutUnchanged, WalkPutCancelled
<1>2. ASSUME NEW w \in Worker, ProbeWorker(w) PROVE EndInv'
  <2>1. UNCHANGED <<wpc, cancel, abort>>
    BY <1>0, <1>2, WorkerLeaves DEF flags, walkVars
  <2>2. \A v \in Worker : v # w => worker'[v] = worker[v]
    BY <1>0, <1>2, WorkerLeaves
  <2>3. ASSUME candQ # <<>>, candQ' = Tail(candQ)
        PROVE  /\ \A i \in DOMAIN candQ' : candQ'[i] = End => i = Len(candQ') /\ wpc' = "done"
               /\ Items(candQ') \subseteq Items(candQ)
    BY <1>0, <2>1, <2>3, TailItems
  <2>4. CASE WorkerTakes(w) \/ WorkerDiscards(w)
    <3>1. candQ # <<>> /\ candQ' = Tail(candQ)
      BY <2>4 DEF WorkerTakes, WorkerDiscards
    <3>2. \A v \in Worker : worker[v] # "forward"
      BY <1>0, <3>1
    <3>3. worker'[w] \in {"get", "hold"}
      BY <1>0, <2>4 DEF WorkerTakes, WorkerDiscards, workVars, TypeOK
    <3>4. QED
      BY <1>0, <2>1, <2>2, <2>3, <3>1, <3>2, <3>3 DEF TearDown
  <2>5. CASE WorkerSeesEnd(w)
    <3>1. candQ # <<>> /\ candQ' = Tail(candQ) /\ Head(candQ) = End
      BY <2>5 DEF WorkerSeesEnd
    <3>2. 1 \in DOMAIN candQ /\ candQ[1] = End
      BY <1>0, <3>1, TailItems
    <3>3. Len(candQ) = 1 /\ wpc = "done"
      BY <1>0, <3>2
    <3>4. candQ' = <<>>
      BY <1>0, <3>1, <3>3
    <3>5. \A v \in Worker : worker[v] # "forward"
      BY <1>0, <3>1
    <3>6. worker'[w] = "forward"
      BY <1>0, <2>5 DEF WorkerSeesEnd, TypeOK
    <3>7. QED
      BY <1>0, <2>1, <2>2, <3>3, <3>4, <3>5, <3>6 DEF TearDown, Items
  <2>6. CASE WorkerForwardsEnd(w)
    <3>1. candQ = <<>> /\ wpc = "done" /\ worker'[w] = "done" /\ candQ' = Append(candQ, End)
      BY <1>0, <2>6 DEF WorkerForwardsEnd, TypeOK
    <3>2. \A v \in Worker : v # w => worker[v] # "forward"
      BY <1>0, <2>6 DEF WorkerForwardsEnd
    <3>3. candQ' = <<End>>
      BY <3>1
    <3>4. Items(candQ') \subseteq {End}
      BY <3>3 DEF Items
    <3>5. QED
      BY <1>0, <2>1, <2>2, <3>1, <3>2, <3>3, <3>4 DEF TearDown
  <2>7. CASE WorkerTimesOut(w) \/ WorkerPolls(w)
    <3>1. candQ' = candQ /\ worker'[w] \in {"get", "poll", "done"} /\ (worker'[w] = "done" => TearDown)
      BY <1>0, <2>7 DEF WorkerTimesOut, WorkerPolls, TypeOK
    <3>2. QED
      BY <1>0, <2>1, <2>2, <3>1 DEF TearDown
  <2>8. CASE WorkerPuts(w) \/ WorkerRaises(w)
    <3>1. candQ' = candQ /\ worker'[w] \in {"get", "raised"}
      BY <1>0, <2>8 DEF WorkerPuts, WorkerRaises, TypeOK
    <3>2. QED
      BY <1>0, <2>1, <2>2, <3>1 DEF TearDown
  <2>9. QED
    BY <1>2, <2>4, <2>5, <2>6, <2>7, <2>8 DEF ProbeWorker
<1>3. CASE Finaliser
  BY <1>0, <1>3, FinaliserLeaves DEF flags, walkVars, workVars, TearDown
<1>4. CASE Consumer
  BY <1>0, <1>4, ConsumerLeaves DEF walkVars, workVars, TearDown
<1>5. CASE Cancel \/ RulesChange
  BY <1>0, <1>5 DEF Cancel, RulesChange, flags, walkVars, workVars, TearDown
<1>6. CASE Over \/ UNCHANGED vars
  BY <1>0, <1>6 DEF Over, vars, walkVars, workVars, flags, TearDown
<1>7. QED
  BY <1>1, <1>2, <1>3, <1>4, <1>5, <1>6 DEF Next

LEMMA FinStep ==
  ASSUME IInv, [Next]_vars
  PROVE  FinInv'
<1> USE DEF FinInv
<1>0. /\ FinInv /\ WalkerInv /\ CargoInv /\ TypeOK /\ world' = world
      /\ resQ \in Seq(Path \cup {End})
  BY Monotone DEF IInv, TypeOK
<1>1. CASE Walker
  <2>1. UNCHANGED <<worker, fin>> /\ wpc # "done"
    BY <1>1, WalkerLeaves DEF workVars
  <2>2. fin \notin {"put", "done"} /\ \A i \in DOMAIN resQ : resQ[i] # End
    BY <1>0, <2>1
  <2>3. CASE WalkPutUnchanged
    <3>1. inHand \in Path /\ inHand # End
      BY <1>0, <2>3, PipelineAssumption DEF WalkPutUnchanged, TypeOK
    <3>2. resQ' = resQ \/ resQ' = Append(resQ, inHand)
      BY <2>3 DEF WalkPutUnchanged
    <3>3. Items(resQ') \subseteq Items(resQ) \cup {inHand}
      BY <1>0, <3>1, <3>2, MaybePut
    <3>4. \A i \in DOMAIN resQ' : resQ'[i] # End
      BY <2>2, <3>1, <3>3 DEF Items
    <3>5. QED
      BY <2>1, <2>2, <3>4
  <2>4. CASE UNCHANGED resQ
    BY <2>1, <2>2, <2>4
  <2>5. QED
    BY <1>1, <2>3, <2>4
       DEF Walker, WalkStart, WalkRootFails, WalkSkip, WalkEntry, WalkDirFails, WalkStops, WalkAll,
           WalkPutCandidate, WalkPutCancelled, WalkEnds
<1>2. ASSUME NEW w \in Worker, ProbeWorker(w) PROVE FinInv'
  <2>1. UNCHANGED <<fin, wpc>> /\ worker[w] # "done"
    BY <1>0, <1>2, WorkerLeaves DEF walkVars
  <2>2. fin \notin {"put", "done"} /\ \A i \in DOMAIN resQ : resQ[i] # End
    BY <1>0, <2>1
  <2>3. CASE WorkerPuts(w)
    <3>1. hand[w] \in Path /\ hand[w] # End
      BY <1>0, <2>3, PipelineAssumption DEF WorkerPuts, TypeOK
    <3>2. resQ' = resQ \/ resQ' = Append(resQ, hand[w])
      BY <2>3 DEF WorkerPuts
    <3>3. Items(resQ') \subseteq Items(resQ) \cup {hand[w]}
      BY <1>0, <3>1, <3>2, MaybePut
    <3>4. \A i \in DOMAIN resQ' : resQ'[i] # End
      BY <2>2, <3>1, <3>3 DEF Items
    <3>5. QED
      BY <2>1, <2>2, <3>4
  <2>4. CASE UNCHANGED resQ
    BY <2>1, <2>2, <2>4
  <2>5. QED
    BY <1>2, <2>3, <2>4
       DEF ProbeWorker, WorkerTakes, WorkerDiscards, WorkerSeesEnd, WorkerForwardsEnd,
           WorkerTimesOut, WorkerPolls, WorkerRaises
<1>3. CASE Finaliser
  <2>1. UNCHANGED <<worker, wpc>>
    BY <1>3, FinaliserLeaves DEF walkVars, workVars
  <2>2. CASE FinaliserJoins \/ FinaliserDies
    BY <1>0, <2>1, <2>2 DEF FinaliserJoins, FinaliserDies
  <2>3. CASE FinaliserPuts
    <3>1. /\ fin = "put" /\ fin' = "done"
          /\ resQ' = resQ \/ resQ' = Append(resQ, End)
          /\ \A i \in DOMAIN resQ : resQ[i] # End
      BY <1>0, <2>3 DEF FinaliserPuts
    <3>2. \A i \in DOMAIN resQ' : resQ'[i] = End => i = Len(resQ')
      BY <1>0, <3>1, AppendItems
    <3>3. QED
      BY <1>0, <2>1, <3>1, <3>2
  <2>4. QED
    BY <1>3, <2>2, <2>3 DEF Finaliser
<1>4. CASE Consumer
  <2>1. UNCHANGED <<worker, wpc, fin>>
    BY <1>4, ConsumerLeaves DEF walkVars, workVars
  <2>2. CASE ConsumeItem \/ ConsumeEnd
    <3>1. resQ # <<>> /\ resQ' = Tail(resQ)
      BY <2>2 DEF ConsumeItem, ConsumeEnd
    <3>2. \A i \in DOMAIN resQ' : resQ'[i] = End => i = Len(resQ') /\ fin' = "done"
      BY <1>0, <2>1, <3>1, TailItems
    <3>3. QED
      BY <1>0, <2>1, <3>2
  <2>3. CASE UNCHANGED resQ
    BY <1>0, <2>1, <2>3
  <2>4. QED
    BY <1>4, <2>2, <2>3
       DEF Consumer, ConsumeTick, ListenerRaises, FlushCommits, FlushFails, FlushCancels, Reap,
           Decide, SweepCommits, StampCommits, SweepOrStampFails, PoolShutdown, Conclude,
           FinishCommits, FinishFails
<1>5. CASE Cancel \/ RulesChange
  BY <1>0, <1>5 DEF Cancel, RulesChange, flags, walkVars, workVars
<1>6. CASE Over \/ UNCHANGED vars
  BY <1>0, <1>6 DEF Over, vars, walkVars, workVars
<1>7. QED
  BY <1>1, <1>2, <1>3, <1>4, <1>5, <1>6 DEF Next

LEMMA ConStep ==
  ASSUME IInv, [Next]_vars
  PROVE  ConInv'
<1> USE DEF ConInv
<1>0. /\ ConInv /\ FinInv /\ TypeOK
      /\ resQ \in Seq(Path \cup {End})
  BY DEF IInv, TypeOK
<1>1. CASE Walker
  <2>1. UNCHANGED <<con, batch, raised, abort, fin, worker>> /\ wpc # "done"
    BY <1>1, WalkerLeaves DEF flags, workVars, conVars
  <2>2. QED
    BY <1>0, <2>1 DEF FinInv
<1>2. ASSUME NEW w \in Worker, ProbeWorker(w) PROVE ConInv'
  <2>1. /\ UNCHANGED <<con, batch, raised, abort, fin, wpc>>
        /\ worker[w] \in {"get", "poll", "hold", "forward"}
    BY <1>0, <1>2, WorkerLeaves DEF flags, walkVars, conVars
  <2>2. QED
    BY <1>0, <2>1 DEF FinInv
<1>3. CASE Finaliser
  <2>1. /\ UNCHANGED <<con, batch, raised, abort, worker, wpc>>
        /\ fin \in {"wait", "put"}
    BY <1>3, FinaliserLeaves DEF flags, walkVars, workVars, conVars
  <2>2. QED
    BY <1>0, <2>1
<1>4. CASE Consumer
  <2>1. UNCHANGED <<wpc, worker, fin>>
    BY <1>4, ConsumerLeaves DEF walkVars, workVars
  <2> USE <1>0, <2>1
  <2>2. CASE ConsumeItem
    BY <2>2 DEF ConsumeItem, flags
  <2>3. CASE ConsumeEnd
    <3>1. 1 \in DOMAIN resQ /\ resQ[1] = End /\ resQ # <<>>
      BY <2>3, TailItems DEF ConsumeEnd
    <3>2. Len(resQ) = 1 /\ fin = "done"
      BY <3>1 DEF FinInv
    <3>3. resQ' = <<>>
      BY <2>3, <3>1, <3>2 DEF ConsumeEnd
    <3>4. QED
      BY <2>3, <3>2, <3>3 DEF ConsumeEnd, flags
  <2>4. CASE ConsumeTick
    BY <2>4 DEF ConsumeTick, flags
  <2>5. CASE ListenerRaises
    BY <2>5 DEF ListenerRaises, flags
  <2>6. CASE FlushCommits
    BY <2>6 DEF FlushCommits, flags
  <2>7. CASE FlushFails
    BY <2>7 DEF FlushFails
  <2>8. CASE FlushCancels
    BY <2>8 DEF FlushCancels
  <2>9. CASE Reap
    BY <2>9 DEF Reap, flags
  <2>10. CASE Decide
    BY <2>10 DEF Decide, flags
  <2>11. CASE SweepCommits
    BY <2>11 DEF SweepCommits, flags
  <2>12. CASE StampCommits
    BY <2>12 DEF StampCommits, flags
  <2>13. CASE SweepOrStampFails
    BY <2>13 DEF SweepOrStampFails, flags
  <2>14. CASE PoolShutdown
    BY <2>14 DEF PoolShutdown, flags
  <2>15. CASE Conclude
    BY <2>15 DEF Conclude, TypeOK
  <2>16. CASE FinishCommits
    BY <2>16 DEF FinishCommits, flags
  <2>17. CASE FinishFails
    BY <2>17 DEF FinishFails, flags
  <2>18. QED
    BY <1>4, <2>2, <2>3, <2>4, <2>5, <2>6, <2>7, <2>8, <2>9, <2>10, <2>11, <2>12, <2>13, <2>14,
       <2>15, <2>16, <2>17 DEF Consumer
<1>5. CASE Cancel \/ RulesChange
  BY <1>0, <1>5 DEF Cancel, RulesChange, flags, walkVars, workVars, conVars
<1>6. CASE Over \/ UNCHANGED vars
  BY <1>0, <1>6 DEF Over, vars, walkVars, workVars, conVars, flags
<1>7. QED
  BY <1>1, <1>2, <1>3, <1>4, <1>5, <1>6 DEF Next

\* When the consumer comes to decide, and nobody has cancelled a complete walk,
\* every file has arrived: there is nowhere left for one to be.
LEMMA AllArrived ==
  ASSUME IInv, con = "decide", ~cancel, complete
  PROVE  Settled
<1>1. /\ fin = "done" /\ resQ = <<>> /\ batch = <<>> /\ wpc = "done" /\ ~abort
      /\ \A w \in Worker : worker[w] = "done"
  BY DEF IInv, ConInv, FinInv
<1>2. 1 \in Worker
  BY PipelineAssumption DEF Worker
<1>3. todo = {} /\ inHand = NoPath /\ \A w \in Worker : hand[w] = NoPath
  BY <1>1 DEF IInv, WalkerInv, CargoInv
<1>4. Items(candQ) \subseteq {End} /\ Items(resQ) = {} /\ Items(batch) = {}
  BY <1>1, <1>2 DEF IInv, EndInv, TearDown, Items
<1>5. Walkable(world) \subseteq todo \cup Travelling \cup seen \cup Beneath(failed)
  BY <1>1 DEF IInv, NothingLost, TearDown
<1>6. Walkable(world) \subseteq Path /\ End \notin Path /\ NoPath \notin Path
  BY WorldFacts, WorldAssumption, PipelineAssumption DEF IInv, TypeOK
<1>7. QED
  BY <1>3, <1>4, <1>5, <1>6 DEF Settled, Travelling

LEMMA SweepStep ==
  ASSUME IInv, [Next]_vars
  PROVE  SweepInv'
<1> USE DEF SweepInv, Settled, Exact
<1>0. SweepInv /\ ConInv /\ WalkerInv /\ CargoInv /\ TypeOK /\ world' = world
  BY Monotone DEF IInv
<1>1. CASE Walker
  <2>1. /\ UNCHANGED <<con, raised, cancel, outcome, row, seen, swept, spared, result>>
        /\ wpc # "done"
    BY <1>1, WalkerLeaves DEF flags, dbVars, conVars
  <2>2. /\ con \notin {"sweep", "stamp", "shutdown", "conclude", "finish", "over"}
        /\ ~swept
    BY <1>0, <2>1 DEF ConInv
  <2>3. QED
    BY <1>0, <2>1, <2>2
<1>2. ASSUME NEW w \in Worker, ProbeWorker(w) PROVE SweepInv'
  BY <1>0, <1>2, WorkerLeaves DEF flags, dbVars, walkVars, conVars
<1>3. CASE Finaliser
  BY <1>0, <1>3, FinaliserLeaves DEF flags, dbVars, walkVars, conVars
<1>4. CASE Consumer
  <2>1. UNCHANGED failed
    BY <1>4, ConsumerLeaves DEF walkVars
  <2> USE <1>0, <2>1
  <2>2. CASE ConsumeItem \/ ConsumeEnd \/ ConsumeTick \/ ListenerRaises \/ Reap
    BY <2>2 DEF ConsumeItem, ConsumeEnd, ConsumeTick, ListenerRaises, Reap, dbVars, flags
  <2>3. CASE FlushCommits
    <3>1. ~swept /\ ~swept' /\ UNCHANGED <<result, raised, outcome, cancel>>
      BY <2>3 DEF FlushCommits, flags
    <3>2. \A p \in Path : row'[p] = IF p \in Items(batch) THEN "live"
                                    ELSE IF p \in Sources(world, Items(batch)) THEN "none"
                                    ELSE row[p]
      BY <2>3 DEF FlushCommits, Upserted
    <3>3. \A p \in seen' : row'[p] = "live"
      <4>1. \A p \in seen' : p \in Items(batch) \/ (p \in seen /\ p \notin Sources(world, Items(batch)))
        BY <2>3 DEF FlushCommits
      <4>2. seen \subseteq Path /\ Items(batch) \subseteq Path
        BY DEF TypeOK, Items
      <4>3. QED
        BY <3>2, <4>1, <4>2
    <3>4. \A p \in Path :
             /\ row'[p] = "missing" => world'.row[p] = "missing"
             /\ p \notin Walkable(world') /\ row'[p] # "none" => row'[p] = world'.row[p]
      BY <3>1, <3>2 DEF CargoInv
    <3>5. con' \in {"get", "reap"}
      BY <2>3 DEF FlushCommits
    <3>6. result' # "ok"
      BY <2>3, <3>1 DEF FlushCommits
    <3>7. QED
      BY <3>1, <3>3, <3>4, <3>5, <3>6
  <2>4. CASE FlushFails \/ FlushCancels
    BY <2>4 DEF FlushFails, FlushCancels, dbVars
  <2>5. CASE Decide
    <3>1. UNCHANGED <<row, seen, swept, spared, result, raised, outcome, cancel, failed, world>>
      BY <2>5 DEF Decide, dbVars, flags, walkVars
    <3>2. con' = "sweep" => Settled
      BY <2>5, AllArrived DEF Decide
    <3>3. con' \in {"sweep", "stamp"} /\ (con' = "stamp" => cancel)
      BY <2>5 DEF Decide, WalkerInv
    <3>4. ~swept /\ result # "ok"
      BY <2>5 DEF Decide
    <3>5. QED
      BY <3>1, <3>2, <3>3, <3>4
  <2>6. CASE SweepCommits
    <3>1. /\ con = "sweep" /\ con' = "stamp" /\ swept'
          /\ spared' = flagged /\ ~swept
          /\ UNCHANGED <<seen, result, raised, outcome, cancel>>
      BY <2>6 DEF SweepCommits, flags
    <3>2. \A p \in Path : row'[p] = IF p \in Unseen(row, flagged, seen, failed) THEN "missing"
                                    ELSE IF p \in seen \ flagged THEN "live" ELSE row[p]
      BY <2>6 DEF SweepCommits, Swept
    <3>3. \A p \in Path \ Beneath(failed) : p \in Walkable(world) => p \in seen
      BY <3>1
    <3>4. \A p \in seen : p \in Path /\ row'[p] = "live"
      BY <3>2 DEF TypeOK, Unseen
    <3>5. \A p \in Path \ Beneath(failed) :
             p \notin Walkable(world) /\ row'[p] # "none" =>
               row'[p] = IF p \in spared' THEN world.row[p] ELSE "missing"
      BY <3>1, <3>2 DEF CargoInv, Unseen
    <3>6. Exact'
      BY <3>1, <3>3, <3>4, <3>5 DEF Walkable
    <3>7. result' # "ok"
      BY <3>1
    <3>8. QED
      BY <3>1, <3>4, <3>6, <3>7
  <2>7. CASE StampCommits \/ SweepOrStampFails \/ PoolShutdown
    BY <2>7 DEF StampCommits, SweepOrStampFails, PoolShutdown, dbVars, flags
  <2>8. CASE Conclude
    BY <2>8 DEF Conclude, dbVars
  <2>9. CASE FinishCommits \/ FinishFails
    BY <2>9 DEF FinishCommits, FinishFails, dbVars, flags
  <2>10. QED
    BY <1>4, <2>2, <2>3, <2>4, <2>5, <2>6, <2>7, <2>8, <2>9 DEF Consumer
<1>5. CASE Cancel \/ RulesChange
  BY <1>0, <1>5 DEF Cancel, RulesChange, flags, dbVars, walkVars, conVars
<1>6. CASE Over \/ UNCHANGED vars
  BY <1>0, <1>6 DEF Over, vars, dbVars, walkVars, conVars, flags
<1>7. QED
  BY <1>1, <1>2, <1>3, <1>4, <1>5, <1>6 DEF Next

LEMMA LostStep ==
  ASSUME IInv, [Next]_vars
  PROVE  NothingLost'
<1> DEFINE Known == todo \cup Travelling \cup seen \cup Beneath(failed)
<1>0. /\ TypeOK /\ WalkerInv /\ CargoInv /\ world \in Worlds /\ world' = world
      /\ candQ \in Seq(Path \cup {End}) /\ resQ \in Seq(Path \cup {End}) /\ batch \in Seq(Path)
  BY Monotone DEF IInv, TypeOK
<1>00. Walkable(world) \subseteq Path /\ NoPath \notin Path /\ End \notin Path
  BY <1>0, WorldFacts, WorldAssumption, PipelineAssumption
<1> SUFFICES ASSUME ~TearDown'
             PROVE  Walkable(world) \subseteq Known'
  BY <1>0 DEF NothingLost
<1>01. ~TearDown /\ Walkable(world) \subseteq Known
  BY Monotone DEF IInv, NothingLost
<1> SUFFICES ASSUME NEW x \in Walkable(world), x \in Known
             PROVE  x \in Known'
  BY <1>01
<1>1. CASE Walker
  <2>1. UNCHANGED <<seen, hand, batch>>
    BY <1>1, WalkerLeaves DEF dbVars, workVars, conVars
  <2> USE <1>0, <1>00, <2>1
  <2>2. CASE WalkStart \/ WalkStops \/ WalkAll
    BY <2>2 DEF WalkStart, WalkStops, WalkAll, Travelling
  <2>3. CASE WalkRootFails
    BY <2>3, WorldAssumption DEF WalkRootFails, Beneath
  <2>4. ASSUME NEW p \in Path, WalkSkip(p) PROVE x \in Known'
    BY <2>4 DEF WalkSkip, Walkable, Travelling
  <2>5. ASSUME NEW p \in Path, WalkEntry(p) PROVE x \in Known'
    BY <2>5 DEF WalkEntry, Travelling, WalkerInv
  <2>6. ASSUME NEW d \in Dir, WalkDirFails(d) PROVE x \in Known'
    BY <2>6 DEF WalkDirFails, Travelling, Beneath
  <2>7. CASE WalkPutUnchanged
    <3>1. resQ' = Append(resQ, inHand)
      BY <1>01, <2>7 DEF WalkPutUnchanged
    <3>2. Items(resQ') = Items(resQ) \cup {inHand}
      BY <2>7, <3>1, AppendItems DEF WalkPutUnchanged, TypeOK
    <3>3. QED
      BY <2>7, <3>2 DEF WalkPutUnchanged, Travelling
  <2>8. CASE WalkPutCandidate
    <3>1. Items(candQ') = Items(candQ) \cup {inHand}
      <4>1. candQ' = Append(candQ, inHand) /\ inHand \in Path \cup {End}
        BY <2>8 DEF WalkPutCandidate, TypeOK
      <4>2. QED
        BY <4>1, AppendItems
    <3>2. QED
      BY <2>8, <3>1 DEF WalkPutCandidate, Travelling
  <2>9. CASE WalkPutCancelled
    BY <1>01, <2>9 DEF WalkPutCancelled, TearDown
  <2>10. CASE WalkEnds
    <3>1. Items(candQ) \subseteq Items(candQ')
      <4>1. candQ' = candQ \/ candQ' = Append(candQ, End)
        BY <2>10 DEF WalkEnds
      <4>2. QED
        BY <4>1, MaybePut
    <3>2. QED
      BY <2>10, <3>1 DEF WalkEnds, Travelling
  <2>11. QED
    BY <1>1, <2>2, <2>3, <2>4, <2>5, <2>6, <2>7, <2>8, <2>9, <2>10 DEF Walker
<1>2. ASSUME NEW w \in Worker, ProbeWorker(w) PROVE x \in Known'
  <2>1. UNCHANGED <<todo, inHand, failed, seen, batch>>
    BY <1>0, <1>2, WorkerLeaves DEF dbVars, walkVars, conVars
  <2>2. \A v \in Worker : v # w => hand'[v] = hand[v]
    BY <1>0, <1>2, WorkerLeaves
  <2> USE <1>0, <1>00, <2>1, <2>2
  <2>3. CASE WorkerTakes(w)
    <3>1. Items(candQ) = Items(candQ') \cup {Head(candQ)}
      BY <2>3, TailItems DEF WorkerTakes
    <3>2. hand'[w] = Head(candQ) /\ hand[w] = NoPath /\ resQ' = resQ
      BY <2>3 DEF WorkerTakes, TypeOK, CargoInv
    <3>3. QED
      BY <3>1, <3>2 DEF Travelling
  <2>4. CASE WorkerDiscards(w) \/ WorkerTimesOut(w) \/ WorkerPolls(w)
    BY <1>01, <2>4 DEF WorkerDiscards, WorkerTimesOut, WorkerPolls, Travelling
  <2>5. CASE WorkerSeesEnd(w)
    <3>1. Items(candQ) = Items(candQ') \cup {End}
      BY <2>5, TailItems DEF WorkerSeesEnd
    <3>2. QED
      BY <2>5, <3>1 DEF WorkerSeesEnd, Travelling
  <2>6. CASE WorkerForwardsEnd(w)
    <3>1. Items(candQ) \subseteq Items(candQ')
      BY <2>6, MaybePut DEF WorkerForwardsEnd
    <3>2. QED
      BY <2>6, <3>1 DEF WorkerForwardsEnd, Travelling
  <2>7. CASE WorkerPuts(w)
    <3>1. resQ' = Append(resQ, hand[w]) /\ hand[w] \in Path \cup {End}
      BY <1>01, <2>7 DEF WorkerPuts, TypeOK
    <3>2. Items(resQ') = Items(resQ) \cup {hand[w]}
      BY <3>1, AppendItems
    <3>3. QED
      BY <2>7, <3>2 DEF WorkerPuts, Travelling
  <2>8. CASE WorkerRaises(w)
    BY <2>8 DEF WorkerRaises, Travelling
  <2>9. QED
    BY <1>2, <2>3, <2>4, <2>5, <2>6, <2>7, <2>8 DEF ProbeWorker
<1>3. CASE Finaliser
  <2>1. UNCHANGED <<todo, inHand, failed, seen, batch, candQ, hand>>
    BY <1>3, FinaliserLeaves DEF dbVars, walkVars, workVars, conVars
  <2>2. Items(resQ) \subseteq Items(resQ')
    <3>1. resQ' = resQ \/ resQ' = Append(resQ, End)
      BY <1>3 DEF Finaliser, FinaliserJoins, FinaliserDies, FinaliserPuts
    <3>2. QED
      BY <1>0, <3>1, MaybePut
  <2>3. QED
    BY <2>1, <2>2 DEF Travelling
<1>4. CASE Consumer
  <2>1. UNCHANGED <<todo, inHand, failed, candQ, hand>>
    BY <1>4, ConsumerLeaves DEF walkVars, workVars
  <2> USE <1>0, <1>00, <2>1
  <2>2. CASE ConsumeItem
    <3>1. Items(resQ) = Items(resQ') \cup {Head(resQ)} /\ Head(resQ) \in Path
      BY <2>2, TailItems DEF ConsumeItem
    <3>2. Items(batch') = Items(batch) \cup {Head(resQ)}
      BY <2>2, <3>1, AppendItems DEF ConsumeItem
    <3>3. QED
      BY <2>2, <3>1, <3>2 DEF ConsumeItem, dbVars, Travelling
  <2>3. CASE ConsumeEnd
    <3>1. Items(resQ) = Items(resQ') \cup {End}
      BY <2>3, TailItems DEF ConsumeEnd
    <3>2. QED
      BY <2>3, <3>1 DEF ConsumeEnd, dbVars, Travelling
  <2>4. CASE FlushCommits
    <3>1. x \notin Sources(world, Items(batch))
      BY WorldFacts DEF Sources, Moved, LegalWorld, Walkable, OnDisk, Items
    <3>2. x \in seen \cup Items(batch) => x \in seen'
      BY <2>4, <3>1 DEF FlushCommits
    <3>3. resQ' = resQ
      BY <2>4 DEF FlushCommits
    <3>4. QED
      BY <3>2, <3>3 DEF Travelling
  <2>5. CASE UNCHANGED <<resQ, batch, seen>>
    BY <2>5 DEF Travelling
  <2>6. QED
    BY <1>4, <2>2, <2>3, <2>4, <2>5
       DEF Consumer, ConsumeTick, ListenerRaises, FlushFails, FlushCancels, Reap, Decide,
           SweepCommits, StampCommits, SweepOrStampFails, PoolShutdown, Conclude, FinishCommits,
           FinishFails, dbVars
<1>5. CASE Cancel
  BY <1>5 DEF Cancel, TearDown
<1>8. CASE RulesChange
  BY <1>8 DEF RulesChange, walkVars, workVars, conVars, Travelling
<1>6. CASE Over \/ UNCHANGED vars
  BY <1>6 DEF Over, vars, dbVars, walkVars, workVars, conVars, Travelling
<1>7. QED
  BY <1>1, <1>2, <1>3, <1>4, <1>5, <1>6, <1>8 DEF Next

\* Rows change in a flush and in the sweep only.
LEMMA RowsChange ==
  ASSUME TypeOK, [Next]_vars
  PROVE  FlushCommits \/ SweepCommits \/ UNCHANGED <<row, spared>>
<1>1. CASE Consumer
  BY <1>1
     DEF Consumer, ConsumeItem, ConsumeEnd, ConsumeTick, ListenerRaises, FlushFails, FlushCancels,
         Reap, Decide, StampCommits, SweepOrStampFails, PoolShutdown, Conclude, FinishCommits,
         FinishFails, dbVars
<1>2. CASE Cancel \/ RulesChange \/ Over \/ UNCHANGED vars
  BY <1>2 DEF Cancel, RulesChange, Over, vars, dbVars
<1>3. CASE Walker \/ Finaliser \/ \E w \in Worker : ProbeWorker(w)
  BY <1>3, WalkerLeaves, FinaliserLeaves, WorkerLeaves DEF dbVars
<1>4. QED
  BY <1>1, <1>2, <1>3 DEF Next

LEMMA MissingStep ==
  ASSUME IInv, [Next]_vars
  PROVE  MissingIsGone'
<1> USE DEF MissingIsGone
<1>0. TypeOK /\ MissingIsGone /\ SweepInv /\ world' = world
  BY Monotone DEF IInv
<1>1. CASE FlushCommits
  <2>1. \A p \in Path : row'[p] = "missing" => row[p] = "missing"
    BY <1>1 DEF FlushCommits, Upserted
  <2>2. spared' = spared
    BY <1>1 DEF FlushCommits
  <2>3. QED
    BY <1>0, <2>1, <2>2
<1>2. CASE SweepCommits
  <2>1. \A p \in Path : row'[p] = "missing" =>
           row[p] = "missing" \/ (p \notin seen \cup spared' /\ p \notin Beneath(failed))
    BY <1>2 DEF SweepCommits, Swept, Unseen
  <2>2. Settled /\ \A p \in Path : row[p] = "missing" => world.row[p] = "missing"
    BY <1>0, <1>2 DEF SweepCommits, SweepInv
  <2>3. QED
    BY <1>0, <2>1, <2>2 DEF Settled
<1>3. CASE UNCHANGED <<row, spared>>
  BY <1>0, <1>3
<1>4. QED
  BY <1>0, <1>1, <1>2, <1>3, RowsChange

LEMMA RowsStep ==
  ASSUME IInv, [Next]_vars
  PROVE  RowsSurvive'
<1> USE DEF RowsSurvive
<1>0. TypeOK /\ RowsSurvive /\ world \in Worlds /\ world' = world
  BY Monotone DEF IInv, TypeOK
<1>00. LegalWorld(world) /\ NoPath \notin Path
  BY <1>0, WorldFacts, WorldAssumption
<1>1. CASE FlushCommits
  <2>1. \A p \in Path : row'[p] = IF p \in Items(batch) THEN "live"
                                  ELSE IF p \in Sources(world, Items(batch)) THEN "none"
                                  ELSE row[p]
    BY <1>1 DEF FlushCommits, Upserted
  <2>2. Items(batch) \subseteq Path
    BY <1>0 DEF TypeOK, Items
  <2> SUFFICES ASSUME NEW p \in Path, world.row[p] # "none", row'[p] = "none"
               PROVE  \E q \in Path : world.from[q] = p /\ row'[q] # "none"
    BY <1>0
  <2>3. CASE p \in Sources(world, Items(batch))
    <3>1. PICK q \in Items(batch) : world.from[q] = p
      BY <2>3 DEF Sources, Moved
    <3>2. QED
      BY <2>1, <2>2, <3>1
  <2>4. CASE p \notin Sources(world, Items(batch))
    <3>1. row[p] = "none"
      BY <2>1, <2>4
    <3>2. PICK q \in Path : world.from[q] = p /\ row[q] # "none"
      BY <1>0, <3>1
    <3>3. q \notin Sources(world, Items(batch))
      BY <1>00, <2>2, <3>2 DEF Sources, Moved, LegalWorld
    <3>4. QED
      BY <2>1, <3>2, <3>3
  <2>5. QED
    BY <2>3, <2>4
<1>2. CASE SweepCommits
  <2>1. \A p \in Path : (row'[p] = "none" => row[p] = "none") /\ (row[p] # "none" => row'[p] # "none")
    BY <1>2 DEF SweepCommits, Swept, Unseen
  <2>2. QED
    BY <1>0, <2>1
<1>3. CASE row' = row
  BY <1>0, <1>3
<1>4. QED
  BY <1>0, <1>1, <1>2, <1>3, RowsChange

-----------------------------------------------------------------------------
\* The invariant, and what it gives.

\* The parts together are an invariant of every pass: this is the argument the
\* safety of a scan rests on.
THEOREM Inductive == Spec => []IInv
<1>1. Init => IInv
  <2> SUFFICES ASSUME Init PROVE IInv
    OBVIOUS
  <2>1. TypeOK
    BY InitTypes
  <2>2. WalkerInv
    BY DEF Init, WalkerInv
  <2>3. CargoInv /\ EndInv /\ FinInv /\ ConInv
    BY DEF Init, CargoInv, EndInv, FinInv, ConInv, Items
  <2>4. SweepInv
    BY DEF Init, SweepInv
  <2>5. NothingLost
    BY DEF Init, NothingLost, Walkable
  <2>6. MissingIsGone /\ RowsSurvive
    BY DEF Init, MissingIsGone, RowsSurvive
  <2>7. QED
    BY <2>1, <2>2, <2>3, <2>4, <2>5, <2>6 DEF IInv
<1>2. IInv /\ TypeOK' /\ [Next]_vars => IInv'
  BY WalkerStep, CargoStep, EndStep, FinStep, ConStep, SweepStep, LostStep, MissingStep, RowsStep
     DEF IInv
<1>3. QED
  BY <1>1, <1>2, TypeCorrect, PTL DEF Spec

\* A pass marks missing no row of a file its walk could have met, nor one that a
\* rule hid when it did (_mark_missing, run after a complete walk nobody cancelled).
THEOREM NoFalseMissing == Spec => []MissingIsGone
BY Inductive, PTL DEF IInv

\* Until a teardown begins, every file is still to be met, on its way,
\* catalogued, or below a directory that failed to list.
THEOREM NoFileLost == Spec => []NothingLost
BY Inductive, PTL DEF IInv

\* A row only leaves its path for the one its file was moved to.
THEOREM NoRowDropped == Spec => []RowsSurvive
BY Inductive, PTL DEF IInv

\* Except below a directory that failed to list, a pass recorded ok left a live row
\* for each file its walk could meet, the rows that a rule hid at the sweep as they
\* were, and all other rows missing.
THEOREM OkMeansExact == Spec => []OkIsExact
<1>1. IInv => OkIsExact
  BY DEF IInv, SweepInv, Exact, OkIsExact
<1>2. QED
  BY <1>1, Inductive, PTL

\* When the outcome is decided, the walker, the workers and the finaliser are
\* gone: no thread outlives its scan.
THEOREM NoThreadOutlives == Spec => []NothingOutlives
<1>1. IInv => NothingOutlives
  BY DEF IInv, ConInv, NothingOutlives
<1>2. QED
  BY <1>1, Inductive, PTL

\* The put of the sentinel that polls no flag always finds room, for any number
\* of workers and any bound of the queue.
THEOREM ForwardHasRoom == Spec => []ForwardNeverBlocks
<1>1. IInv => ForwardNeverBlocks
  BY PipelineAssumption DEF IInv, EndInv, ForwardNeverBlocks, HasRoom
<1>2. QED
  BY <1>1, Inductive, PTL

\* No file and no row is dropped by a pass.
THEOREM NothingDropped == Spec => []FilesAndRowsKept
BY NoFileLost, NoRowDropped, PTL DEF FilesAndRowsKept

\* The marks of the sweep, and the result ok, tell what the walk found, but for the
\* rows that a rule hid at the sweep: those stay as they were.
THEOREM SweepTells == Spec => []SweepIsExact
BY NoFalseMissing, OkMeansExact, PTL DEF SweepIsExact

\* Every thread of a pass ends, and none at a put that nobody would take.
THEOREM ThreadsEnd == Spec => []NoThreadLeft
BY NoThreadOutlives, ForwardHasRoom, PTL DEF NoThreadLeft

-----------------------------------------------------------------------------
\* The invariant.

Hands == {hand[w] : w \in Worker}

\* No file is twice in a queue.
Distinct(q) == \A i, j \in DOMAIN q : q[i] = q[j] /\ q[i] \in Path => i = j

\* No file is in two of the places a file can be in.
Apart ==
  \A p \in Path :
    /\ p \in todo => p \notin seen
    /\ p \in Travelling => p \notin todo \cup seen
    /\ p = inHand => p \notin Items(candQ) \cup Hands \cup Items(resQ) \cup Items(batch)
    /\ p \in Items(candQ) => p \notin Hands \cup Items(resQ) \cup Items(batch)
    /\ p \in Hands => p \notin Items(resQ) \cup Items(batch)
    /\ p \in Items(resQ) => p \notin Items(batch)

OnceInv ==
  /\ Apart
  /\ Distinct(candQ) /\ Distinct(resQ) /\ Distinct(batch)
  /\ \A v, w \in Worker : hand[v] = hand[w] /\ hand[v] \in Path => v = w

\* A flush has something to write, and the result is the last thing written.
StationInv ==
  /\ con \in {"flush", "lastFlush"} => batch # <<>>
  /\ con # "over" => result = "running"

-----------------------------------------------------------------------------
\* Queues.

\* A file put on a queue it is not on stays alone there.
LEMMA DistinctAppend ==
  ASSUME NEW S, NEW q \in Seq(S), NEW x \in S, Distinct(q), x \in Path => x \notin Items(q)
  PROVE  Distinct(Append(q, x))
<1> DEFINE r == Append(q, x)
<1>1. /\ DOMAIN r = 1..(Len(q) + 1) /\ DOMAIN q = 1..Len(q) /\ Len(q) \in Nat
      /\ \A i \in DOMAIN r : r[i] = IF i = Len(q) + 1 THEN x ELSE q[i]
  OBVIOUS
<1> HIDE DEF r
<1>2. \A i \in DOMAIN q : q[i] \in Items(q)
  BY DEF Items
<1> SUFFICES ASSUME NEW i \in DOMAIN r, NEW j \in DOMAIN r, r[i] = r[j], r[i] \in Path
             PROVE  i = j
  BY DEF Distinct, r
<1>3. CASE i = Len(q) + 1
  BY <1>1, <1>2, <1>3
<1>4. CASE j = Len(q) + 1
  BY <1>1, <1>2, <1>4
<1>5. CASE i # Len(q) + 1 /\ j # Len(q) + 1
  <2>1. i \in DOMAIN q /\ j \in DOMAIN q /\ r[i] = q[i] /\ r[j] = q[j]
    BY <1>1, <1>5
  <2>2. QED
    BY <2>1 DEF Distinct
<1>6. QED
  BY <1>3, <1>4, <1>5

\* A file taken from a queue is not on it any more.
LEMMA DistinctTail ==
  ASSUME NEW S, NEW q \in Seq(S), q # <<>>, Distinct(q)
  PROVE  Distinct(Tail(q)) /\ (Head(q) \in Path => Head(q) \notin Items(Tail(q)))
<1> DEFINE r == Tail(q)
<1>1. /\ DOMAIN r = 1..(Len(q) - 1) /\ DOMAIN q = 1..Len(q) /\ Len(q) \in Nat /\ Len(q) >= 1
      /\ Head(q) = q[1]
      /\ \A i \in DOMAIN r : r[i] = q[i + 1]
  OBVIOUS
<1> HIDE DEF r
<1>2. \A i \in DOMAIN r : i + 1 \in DOMAIN q /\ i + 1 # 1 /\ i \in Int
  BY <1>1
<1>3. Distinct(r)
  <2> SUFFICES ASSUME NEW i \in DOMAIN r, NEW j \in DOMAIN r, r[i] = r[j], r[i] \in Path
               PROVE  i = j
    BY DEF Distinct
  <2>1. i + 1 = j + 1
    BY <1>1, <1>2 DEF Distinct
  <2>2. QED
    BY <1>2, <2>1
<1>4. ASSUME Head(q) \in Path PROVE Head(q) \notin Items(r)
  <2> SUFFICES ASSUME NEW i \in DOMAIN r, r[i] = Head(q) PROVE FALSE
    BY DEF Items
  <2>1. q[i + 1] = q[1] /\ 1 \in DOMAIN q /\ q[1] \in Path
    BY <1>1, <1>4
  <2>2. QED
    BY <1>2, <2>1 DEF Distinct
<1>5. QED
  BY <1>3, <1>4 DEF r

-----------------------------------------------------------------------------
\* The invariant is preserved.

LEMMA OnceWalker ==
  ASSUME IInv, OnceInv, Walker
  PROVE  OnceInv'
<1> USE DEF OnceInv, Apart, Travelling, Hands, TypeOK
<1>0. /\ UNCHANGED <<seen, batch, hand>>
      /\ candQ \in Seq(Path \cup {End}) /\ resQ \in Seq(Path \cup {End})
      /\ NoPath \notin Path /\ (wpc # "put" => inHand = NoPath) /\ (wpc = "put" => inHand \in Path)
  BY WalkerLeaves, WorldAssumption DEF IInv, WalkerInv, dbVars, conVars, workVars
<1>1. CASE /\ todo' \subseteq todo /\ inHand' \in {inHand, NoPath}
           /\ UNCHANGED <<candQ, resQ>>
  BY <1>0, <1>1
<1>2. ASSUME NEW p \in Path, WalkEntry(p) PROVE OnceInv'
  <2>1. /\ p \in todo /\ todo' = todo \ {p} /\ inHand' = p /\ inHand = NoPath
        /\ UNCHANGED <<candQ, resQ>>
    BY <1>0, <1>2 DEF WalkEntry
  <2>2. QED
    BY <1>0, <2>1
<1>3. CASE todo' = todo /\ inHand' = NoPath /\ wpc = "put" /\ candQ' = candQ /\ resQ' = Append(resQ, inHand)
  <2>1. Items(resQ') = Items(resQ) \cup {inHand}
    BY <1>0, <1>3, AppendItems
  <2>2. Distinct(resQ')
    BY <1>0, <1>3, DistinctAppend
  <2>3. QED
    BY <1>0, <1>3, <2>1, <2>2
<1>4. CASE todo' = todo /\ inHand' = NoPath /\ wpc = "put" /\ resQ' = resQ /\ candQ' = Append(candQ, inHand)
  <2>1. Items(candQ') = Items(candQ) \cup {inHand}
    BY <1>0, <1>4, AppendItems
  <2>2. Distinct(candQ')
    BY <1>0, <1>4, DistinctAppend
  <2>3. QED
    BY <1>0, <1>4, <2>1, <2>2
<1>5. CASE todo' = todo /\ inHand' = inHand /\ resQ' = resQ /\ candQ' = Append(candQ, End)
  <2>1. Items(candQ') = Items(candQ) \cup {End}
    BY <1>0, <1>5, AppendItems
  <2>2. Distinct(candQ')
    BY <1>0, <1>5, DistinctAppend, PipelineAssumption
  <2>3. QED
    BY <1>0, <1>5, <2>1, <2>2, PipelineAssumption
<1>6. QED
  BY <1>1, <1>2, <1>3, <1>4, <1>5
     DEF Walker, WalkStart, WalkRootFails, WalkSkip, WalkDirFails, WalkStops, WalkAll,
         WalkPutUnchanged, WalkPutCandidate, WalkPutCancelled, WalkEnds

LEMMA OnceWorker ==
  ASSUME IInv, OnceInv, NEW w \in Worker, ProbeWorker(w)
  PROVE  OnceInv'
<1> USE DEF OnceInv, Apart, Travelling, Hands
<1>0. /\ UNCHANGED <<seen, batch, todo, inHand>>
      /\ candQ \in Seq(Path \cup {End}) /\ resQ \in Seq(Path \cup {End})
      /\ hand \in [Worker -> Path \cup {NoPath}]
      /\ NoPath \notin Path /\ End \notin Path
      /\ worker[w] = "hold" => hand[w] \in Path
      /\ worker[w] \notin {"hold", "raised"} => hand[w] = NoPath
  BY WorkerLeaves, WorldAssumption, PipelineAssumption
     DEF IInv, TypeOK, CargoInv, dbVars, conVars, walkVars
<1>1. CASE WorkerTakes(w)
  <2>1. /\ candQ # <<>> /\ candQ' = Tail(candQ) /\ resQ' = resQ
        /\ Head(candQ) \in Path /\ hand' = [hand EXCEPT ![w] = Head(candQ)]
        /\ hand[w] = NoPath
    BY <1>0, <1>1, TailItems DEF WorkerTakes
  <2>2. /\ Items(candQ) = Items(candQ') \cup {Head(candQ)}
        /\ Distinct(candQ') /\ Head(candQ) \notin Items(candQ')
    BY <1>0, <2>1, TailItems, DistinctTail
  <2>3. \A v \in Worker : hand'[v] = IF v = w THEN Head(candQ) ELSE hand[v]
    BY <1>0, <2>1
  <2>4. \A v \in Worker : hand[v] # Head(candQ)
    BY <2>1, <2>2
  <2>5. \A u, v \in Worker : hand'[u] = hand'[v] /\ hand'[u] \in Path => u = v
    BY <2>3, <2>4
  <2>6. Hands' \subseteq Hands \cup {Head(candQ)}
    BY <2>3
  <2>7. Apart'
    BY <1>0, <2>1, <2>2, <2>6
  <2>8. QED
    BY <1>0, <2>1, <2>2, <2>5, <2>7
<1>2. CASE WorkerDiscards(w) \/ WorkerSeesEnd(w)
  <2>1. candQ # <<>> /\ candQ' = Tail(candQ) /\ resQ' = resQ /\ hand' = hand
    BY <1>2 DEF WorkerDiscards, WorkerSeesEnd, workVars
  <2>2. Items(candQ') \subseteq Items(candQ) /\ Distinct(candQ')
    BY <1>0, <2>1, TailItems, DistinctTail
  <2>3. QED
    BY <1>0, <2>1, <2>2
<1>3. CASE WorkerForwardsEnd(w)
  <2>1. candQ' = Append(candQ, End) /\ resQ' = resQ /\ hand' = hand
    BY <1>3 DEF WorkerForwardsEnd
  <2>2. Items(candQ') = Items(candQ) \cup {End} /\ Distinct(candQ')
    BY <1>0, <2>1, AppendItems, DistinctAppend
  <2>3. QED
    BY <1>0, <2>1, <2>2
<1>4. CASE WorkerTimesOut(w) \/ WorkerPolls(w) \/ WorkerRaises(w)
  <2>1. UNCHANGED <<candQ, resQ, hand>>
    BY <1>4 DEF WorkerTimesOut, WorkerPolls, WorkerRaises
  <2>2. QED
    BY <1>0, <2>1
<1>5. CASE WorkerPuts(w)
  <2>1. /\ hand[w] \in Path /\ hand' = [hand EXCEPT ![w] = NoPath] /\ candQ' = candQ
        /\ resQ' = resQ \/ resQ' = Append(resQ, hand[w])
    BY <1>0, <1>5 DEF WorkerPuts
  <2>2. Items(resQ') \subseteq Items(resQ) \cup {hand[w]} /\ Distinct(resQ')
    <3>1. hand[w] \notin Items(resQ)
      BY <2>1
    <3>2. CASE resQ' = resQ
      BY <3>2
    <3>3. CASE resQ' = Append(resQ, hand[w])
      <4>1. hand[w] \in Path \cup {End}
        BY <2>1
      <4>2. Items(resQ') = Items(resQ) \cup {hand[w]}
        BY <1>0, <3>3, <4>1, AppendItems
      <4>3. Distinct(resQ')
        BY <1>0, <3>1, <3>3, <4>1, DistinctAppend
      <4>4. QED
        BY <4>2, <4>3
    <3>4. QED
      BY <2>1, <3>2, <3>3
  <2>3. \A v \in Worker : hand'[v] = IF v = w THEN NoPath ELSE hand[v]
    BY <1>0, <2>1
  <2>4. \A u, v \in Worker : hand'[u] = hand'[v] /\ hand'[u] \in Path => u = v
    BY <1>0, <2>3
  <2>5. \A p \in Path : p \in Hands' => p \in Hands /\ p # hand[w]
    BY <1>0, <2>3
  <2>6. Apart'
    BY <1>0, <2>1, <2>2, <2>5
  <2>7. QED
    BY <1>0, <2>1, <2>2, <2>4, <2>6
<1>6. QED
  BY <1>1, <1>2, <1>3, <1>4, <1>5 DEF ProbeWorker

LEMMA OnceFinaliser ==
  ASSUME IInv, OnceInv, Finaliser
  PROVE  OnceInv'
<1> USE DEF OnceInv, Apart, Travelling, Hands
<1>0. /\ UNCHANGED <<seen, batch, todo, inHand, candQ, hand>>
      /\ resQ \in Seq(Path \cup {End}) /\ End \notin Path
  BY FinaliserLeaves, PipelineAssumption DEF IInv, TypeOK, dbVars, conVars, walkVars, workVars
<1>1. resQ' = resQ \/ resQ' = Append(resQ, End)
  BY DEF Finaliser, FinaliserJoins, FinaliserDies, FinaliserPuts
<1>2. Items(resQ') \subseteq Items(resQ) \cup {End} /\ Distinct(resQ')
  <2>1. CASE resQ' = resQ
    BY <2>1
  <2>2. CASE resQ' = Append(resQ, End)
    <3>1. Items(resQ') = Items(resQ) \cup {End}
      BY <1>0, <2>2, AppendItems
    <3>2. Distinct(resQ')
      BY <1>0, <2>2, DistinctAppend
    <3>3. QED
      BY <3>1, <3>2
  <2>3. QED
    BY <1>1, <2>1, <2>2
<1>3. QED
  BY <1>0, <1>2

LEMMA OnceConsumer ==
  ASSUME IInv, OnceInv, Consumer
  PROVE  OnceInv'
<1> USE DEF OnceInv, Apart, Travelling, Hands
<1>0. /\ UNCHANGED <<todo, inHand, candQ, hand>>
      /\ resQ \in Seq(Path \cup {End}) /\ batch \in Seq(Path) /\ End \notin Path
  BY ConsumerLeaves, PipelineAssumption DEF IInv, TypeOK, walkVars, workVars
<1>1. CASE ConsumeItem
  <2>1. /\ resQ # <<>> /\ resQ' = Tail(resQ) /\ seen' = seen
        /\ batch' = Append(batch, Head(resQ)) /\ Head(resQ) \in Path
    BY <1>0, <1>1, TailItems DEF ConsumeItem, dbVars
  <2>2. /\ Items(resQ) = Items(resQ') \cup {Head(resQ)}
        /\ Distinct(resQ') /\ Head(resQ) \notin Items(resQ')
    BY <1>0, <2>1, TailItems, DistinctTail
  <2>3. Head(resQ) \notin Items(batch)
    BY <2>1, <2>2
  <2>4. Items(batch') = Items(batch) \cup {Head(resQ)} /\ Distinct(batch')
    BY <1>0, <2>1, <2>3, AppendItems, DistinctAppend
  <2>5. QED
    BY <1>0, <2>1, <2>2, <2>4
<1>2. CASE ConsumeEnd
  <2>1. resQ # <<>> /\ resQ' = Tail(resQ) /\ seen' = seen /\ batch' = batch
    BY <1>2 DEF ConsumeEnd, dbVars
  <2>2. Items(resQ') \subseteq Items(resQ) /\ Distinct(resQ')
    BY <1>0, <2>1, TailItems, DistinctTail
  <2>3. QED
    BY <1>0, <2>1, <2>2
<1>3. CASE FlushCommits
  <2>1. resQ' = resQ /\ batch' = <<>> /\ seen' \subseteq seen \cup Items(batch)
    BY <1>3 DEF FlushCommits
  <2>2. Items(batch') = {} /\ Distinct(batch')
    BY <2>1 DEF Items, Distinct
  <2>3. QED
    BY <1>0, <2>1, <2>2
<1>4. CASE UNCHANGED <<resQ, batch, seen>>
  BY <1>0, <1>4
<1>5. QED
  BY <1>1, <1>2, <1>3, <1>4
     DEF Consumer, ConsumeTick, ListenerRaises, FlushFails, FlushCancels, Reap, Decide,
         SweepCommits, StampCommits, SweepOrStampFails, PoolShutdown, Conclude, FinishCommits,
         FinishFails, dbVars

LEMMA StationStep ==
  ASSUME TypeOK, StationInv, [Next]_vars
  PROVE  StationInv'
<1> USE DEF StationInv
<1>1. CASE ConsumeItem
  <2>1. batch' # <<>> /\ result' = result
    BY <1>1, AppendItems, TailItems, PipelineAssumption DEF ConsumeItem, TypeOK, dbVars
  <2>2. QED
    BY <1>1, <2>1 DEF ConsumeItem
<1>2. CASE Consumer /\ ~ConsumeItem
  BY <1>2 DEF Consumer, ConsumeEnd, ConsumeTick, ListenerRaises, FlushCommits, FlushFails,
         FlushCancels, Reap, Decide, SweepCommits, StampCommits, SweepOrStampFails, PoolShutdown,
         Conclude, FinishCommits, FinishFails, dbVars
<1>3. CASE UNCHANGED <<con, batch, result>>
  BY <1>3
<1>4. UNCHANGED <<con, batch, result>> \/ Consumer
  BY WalkerLeaves, WorkerLeaves, FinaliserLeaves
     DEF Next, Cancel, RulesChange, Over, vars, dbVars, conVars
<1>5. QED
  BY <1>1, <1>2, <1>3, <1>4

\* A file is in one place at a time, and only what is in a batch is written.
THEOREM OnceInductive == Spec => [](IInv /\ OnceInv /\ StationInv)
<1>1. Init => OnceInv /\ StationInv
  <2> SUFFICES ASSUME Init PROVE OnceInv /\ StationInv
    OBVIOUS
  <2>1. /\ candQ = <<>> /\ resQ = <<>> /\ batch = <<>> /\ seen = {} /\ inHand = NoPath
        /\ \A w \in Worker : hand[w] = NoPath
        /\ NoPath \notin Path
    BY WorldAssumption DEF Init
  <2>2. \A q : q = <<>> => Items(q) = {} /\ Distinct(q)
    BY DEF Items, Distinct
  <2>3. Hands \subseteq {NoPath}
    BY <2>1 DEF Hands
  <2>4. Apart
    BY <2>1, <2>2, <2>3 DEF Apart, Travelling, Hands
  <2>5. QED
    BY <2>1, <2>2, <2>4 DEF OnceInv, StationInv, Init
<1>2. IInv /\ OnceInv /\ StationInv /\ [Next]_vars => OnceInv' /\ StationInv'
  <2> SUFFICES ASSUME IInv, OnceInv, StationInv, [Next]_vars PROVE OnceInv' /\ StationInv'
    OBVIOUS
  <2>1. CASE Cancel \/ RulesChange \/ Over \/ UNCHANGED vars
    BY <2>1 DEF Cancel, RulesChange, Over, vars, dbVars, walkVars, workVars, conVars, OnceInv, Apart,
               Travelling, Hands, StationInv
  <2>2. StationInv'
    BY StationStep DEF IInv
  <2>3. QED
    BY <2>1, <2>2, OnceWalker, OnceWorker, OnceFinaliser, OnceConsumer DEF Next
<1>3. QED
  BY <1>1, <1>2, Inductive, PTL DEF Spec

\* What a path in one place of the pipeline says of the others.
LEMMA Places ==
  ASSUME TypeOK, OnceInv
  PROVE  EachFileOnce
<1> DEFINE Spots == ({"walker"} \X {0}) \cup ({"worker"} \X Worker)
                    \cup ({"cand"} \X DOMAIN candQ) \cup ({"res"} \X DOMAIN resQ)
                    \cup ({"batch"} \X DOMAIN batch)
           At(s) == CASE s[1] = "walker" -> inHand
                      [] s[1] = "cand"   -> candQ[s[2]]
                      [] s[1] = "worker" -> hand[s[2]]
                      [] s[1] = "res"    -> resQ[s[2]]
                      [] s[1] = "batch"  -> batch[s[2]]
<1>1. ASSUME NEW s \in Spots
      PROVE  /\ s = <<s[1], s[2]>>
             /\ \/ s[1] = "walker" /\ s[2] = 0 /\ At(s) = inHand
                \/ s[1] = "worker" /\ s[2] \in Worker /\ At(s) = hand[s[2]]
                \/ s[1] = "cand" /\ s[2] \in DOMAIN candQ /\ At(s) = candQ[s[2]]
                \/ s[1] = "res" /\ s[2] \in DOMAIN resQ /\ At(s) = resQ[s[2]]
                \/ s[1] = "batch" /\ s[2] \in DOMAIN batch /\ At(s) = batch[s[2]]
  BY <1>1
<1> HIDE DEF At, Spots
<1>2. ASSUME NEW s \in Spots
      PROVE  /\ s[1] = "walker" => At(s) = inHand
             /\ s[1] = "worker" => At(s) \in Hands
             /\ s[1] = "cand" => At(s) \in Items(candQ)
             /\ s[1] = "res" => At(s) \in Items(resQ)
             /\ s[1] = "batch" => At(s) \in Items(batch)
             /\ At(s) \in Travelling
  BY <1>1 DEF Hands, Items, Travelling
<1> SUFFICES ASSUME NEW s \in Spots, NEW t \in Spots, At(s) \in Path
             PROVE  /\ At(s) = At(t) => s = t
                    /\ At(s) \notin todo \cup seen
  BY DEF EachFileOnce, At, Spots
<1>3. At(s) \notin todo \cup seen
  BY <1>2 DEF OnceInv, Apart
<1>4. ASSUME At(s) = At(t) PROVE s = t
  <2>1. s[1] = t[1]
    BY <1>1, <1>2, <1>4 DEF OnceInv, Apart
  <2>2. s[2] = t[2]
    BY <1>1, <1>4, <2>1 DEF OnceInv, Distinct
  <2>3. QED
    BY <1>1, <2>1, <2>2
<1>5. QED
  BY <1>3, <1>4

\* No file is on two of the walker, the queues, the workers and the batch, nor on
\* one of them twice, nor there while it is still to be met or already recorded:
\* none is probed or counted twice.
THEOREM FilesTravelOnce == Spec => []EachFileOnce
<1>1. IInv /\ OnceInv => EachFileOnce
  BY Places DEF IInv
<1>2. QED
  BY <1>1, OnceInductive, PTL

-----------------------------------------------------------------------------
\* The refinement.

\* A batch is one step of the contract: files not recorded before.
LEMMA FlushRecords ==
  ASSUME IInv, OnceInv, StationInv, FlushCommits
  PROVE  Contract!Record
<1>0. /\ TypeOK /\ LegalWorld(world) /\ NoPath \notin Path
      /\ seen \subseteq Walkable(world) /\ Items(batch) \subseteq Walkable(world)
  BY WorldFacts, WorldAssumption DEF IInv, TypeOK, CargoInv
<1>1. result = "running" /\ ~swept
  BY DEF FlushCommits, StationInv, IInv, SweepInv
<1>2. Items(batch) # {}
  <2>1. batch # <<>> /\ batch \in Seq(Path)
    BY <1>0 DEF FlushCommits, StationInv, TypeOK
  <2>2. Head(batch) \in Items(batch)
    BY <2>1, TailItems
  <2>3. QED
    BY <2>2
<1>3. Items(batch) \cap seen = {}
  <2>1. Items(batch) \subseteq Path
    BY <1>0, WorldFacts DEF TypeOK
  <2>2. QED
    BY <2>1 DEF OnceInv, Apart, Travelling
<1>4. Sources(world, Items(batch)) \cap seen = {}
  BY <1>0 DEF Sources, Moved, LegalWorld, Walkable, OnDisk
<1>5. /\ ~Contract!Clash(world, row, Items(batch))
      /\ row' = Contract!Upserted(world, row, Items(batch))
      /\ flagged' = Contract!Carried(world, flagged, Items(batch))
      /\ seen' = seen \cup Items(batch)
  BY <1>4 DEF FlushCommits, Clash, Moved, Upserted, Sources, Carried, Contract!Clash,
              Contract!Moved, Contract!Upserted, Contract!Sources, Contract!Carried
<1>6. Items(batch) \in (SUBSET (Contract!Walkable(world) \ seen)) \ {{}}
  BY <1>0, <1>2, <1>3 DEF Walkable, OnDisk, Contract!Walkable, Contract!OnDisk
<1>7. UNCHANGED <<world, failed, swept, result>>
  BY DEF FlushCommits, walkVars
<1>8. QED
  BY <1>1, <1>5, <1>6, <1>7 DEF Contract!Record

\* The sweep comes after everything visible was recorded.
LEMMA SweepSweeps ==
  ASSUME IInv, OnceInv, StationInv, SweepCommits
  PROVE  Contract!Sweep
<1>1. result = "running" /\ ~swept /\ Settled
  BY DEF SweepCommits, StationInv, IInv, SweepInv
<1>2. /\ row' = Swept(row, flagged, seen, failed) /\ swept' = TRUE
      /\ UNCHANGED <<world, flagged, seen, failed, result>>
  BY DEF SweepCommits, walkVars
<1>3. QED
  BY <1>1, <1>2
     DEF Contract!Sweep, Contract!Visible, Contract!Walkable, Contract!OnDisk, Contract!Beneath,
         Contract!Swept, Contract!Unseen, Settled, Walkable, OnDisk, Beneath, Swept, Unseen

\* A directory that fails takes its files out of sight, before the sweep.
LEMMA WalkerLoses ==
  ASSUME IInv, OnceInv, StationInv, Walker
  PROVE  Contract!LoseSight
<1>1. UNCHANGED <<world, row, flagged, seen, swept, result>>
  BY WalkerLeaves DEF dbVars
<1>2. result = "running" /\ ~swept
  BY WalkerLeaves DEF StationInv, IInv, ConInv, SweepInv
<1>3. failed' \in SUBSET Dir /\ failed \subseteq failed'
  BY DEF Walker, WalkStart, WalkRootFails, WalkSkip, WalkEntry, WalkDirFails, WalkStops, WalkAll,
         WalkPutUnchanged, WalkPutCandidate, WalkPutCancelled, WalkEnds, IInv, TypeOK
<1>4. QED
  BY <1>1, <1>2, <1>3 DEF Contract!LoseSight

\* The rules may change until the scan row has its result.
LEMMA RulesReflag ==
  ASSUME StationInv, RulesChange
  PROVE  Contract!Reflag
BY DEF RulesChange, Reflagged, StationInv, walkVars, Contract!Reflag, Contract!Reflagged

\* The scan row gets its result last.
LEMMA FinishFinishes ==
  ASSUME IInv, OnceInv, StationInv, FinishCommits
  PROVE  Contract!Finish
BY DEF FinishCommits, Contract!Finish, StationInv, IInv, TypeOK, SweepInv, walkVars

\* The threads, the queues, the cancel and the failures of a pass over a root show
\* in the catalogue as nothing but whole batches of files recorded once, one sweep
\* of the absent rows after everything visible was recorded, and a result that is
\* ok only then.
THEOREM KeepsContract == Spec => ImplementsContract
<1>1. Init => Contract!Init
  BY DEF Init, Contract!Init
<1>2. IInv /\ OnceInv /\ StationInv /\ [Next]_vars => [Contract!Next]_(Contract!vars)
  <2> SUFFICES ASSUME IInv, OnceInv, StationInv, [Next]_vars
               PROVE  Contract!Next \/ UNCHANGED Contract!vars
    OBVIOUS
  <2>1. CASE Walker
    BY <2>1, WalkerLoses DEF Contract!Next
  <2>2. CASE Consumer
    <3>1. CASE FlushCommits \/ SweepCommits \/ FinishCommits
      BY <3>1, FlushRecords, SweepSweeps, FinishFinishes DEF Contract!Next
    <3>2. CASE UNCHANGED <<world, dbVars, walkVars>>
      BY <3>2 DEF Contract!vars, dbVars, walkVars
    <3>3. CASE StampCommits
      BY <3>3 DEF StampCommits, Contract!vars, walkVars
    <3>4. QED
      BY <2>2, <3>1, <3>2, <3>3
         DEF Consumer, ConsumeItem, ConsumeEnd, ConsumeTick, ListenerRaises, FlushFails,
             FlushCancels, Reap, Decide, SweepOrStampFails, PoolShutdown, Conclude, FinishFails
  <2>3. CASE \E w \in Worker : ProbeWorker(w)
    BY <2>3, WorkerLeaves DEF IInv, Contract!vars, dbVars, walkVars
  <2>4. CASE Finaliser
    BY <2>4, FinaliserLeaves DEF Contract!vars, dbVars, walkVars
  <2>5. CASE Cancel \/ Over \/ UNCHANGED vars
    BY <2>5 DEF Cancel, Over, vars, Contract!vars, dbVars, walkVars
  <2>6. CASE RulesChange
    BY <2>6, RulesReflag DEF Contract!Next
  <2>7. QED
    BY <2>1, <2>2, <2>3, <2>4, <2>5, <2>6 DEF Next
<1>3. QED
  BY <1>1, <1>2, OnceInductive, PTL DEF Spec, ImplementsContract, Contract!Spec
=============================================================================
