--------------------------- MODULE MCScanPipeline ---------------------------
(***************************************************************************)
(* ScanPipeline on a small disk, for TLC.  Four paths in two directories:  *)
(* the worlds below have every kind of file, a row of every status, a move *)
(* across directories, and a move onto a catalogued path.       *)
(***************************************************************************)
EXTENDS ScanPipeline, TLC

CONSTANTS a, b, c, e, d1, d2

MCPath  == {a, b, c, e}
MCDir   == {d1, d2}
MCDirOf == (a :> d1) @@ (b :> d1) @@ (c :> d2) @@ (e :> d2)

\* The world in which the paths a, b, c, e have these rows and these kinds, and
\* the rules hid some and may come to hide others.
World(rows, kinds, old, excluded, hides) ==
  [row  |-> (a :> rows[1]) @@ (b :> rows[2]) @@ (c :> rows[3]) @@ (e :> rows[4]),
   kind |-> (a :> kinds[1]) @@ (b :> kinds[2]) @@ (c :> kinds[3]) @@ (e :> kinds[4]),
   from |-> old @@ [p \in MCPath |-> NoPath], excluded |-> excluded, hides |-> hides]

\* A rescan: one file as before, one new, one moved here from e, where a rule hid
\* it.
Rescan == World(<<"live", "none", "none", "live">>,
                <<"unchanged", "fresh", "moved", "absent">>, c :> e, {e}, {})

\* The rows are wrong to begin with: a file back from the dead, one edited, one
\* that a filter drops now and one gone; meanwhile the user hides one of the
\* last two, or the two that are met, or what a rule hid is shown again.
Stale == World(<<"missing", "live", "live", "live">>,
               <<"unchanged", "fresh", "skipped", "absent">>, <<>>, {c}, {{}, {a, b}, {e}})

\* The file at e was moved over the catalogued a.
MovedOnto == World(<<"live", "none", "none", "missing">>,
                   <<"moved", "fresh", "absent", "absent">>, a :> e, {}, {})

\* A first scan: the catalogue is empty and three files are new.
FirstScan == World(<<"none", "none", "none", "none">>,
                   <<"fresh", "fresh", "fresh", "skipped">>, <<>>, {}, {})

MCWorlds == {Rescan, Stale, MovedOnto, FirstScan}
=============================================================================
