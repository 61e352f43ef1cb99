----------------------------- MODULE Judgement -----------------------------
(***************************************************************************)
(* The catalogue as Browse asks it: which images are hidden by the rules    *)
(* (RuleBook), which displays the desktop has (DisplayDetection) and which  *)
(* of the images fit them (IdealJudgement), and which folders it proposes   *)
(* as sources (ScanRoots), together with the jobs that store what a scan    *)
(* and `linwp displays` measured                                            *)
(* (save_display_snapshot of src/catalogue/db.py, _begin, _flush and        *)
(* refresh_displays of src/catalogue/ingest.py, set_pin of ideal.py).       *)
(*                                                                          *)
(* The desktop is measured before the job that stores the measurement, by   *)
(* two processes: screens may be plugged, and another measurement stored,   *)
(* in between.                                                              *)
(***************************************************************************)
EXTENDS RuleBook, ScanRoots, DisplayDetection, IdealJudgement

CONSTANTS Desks,         \* what the desktop may be: screens, session, tools,
                         \* mounts and folders
          FirstDesk,     \* what it is at first
          Declarations,  \* what --display may say: sizes
          Thresholds,    \* the crop a stored setting may allow, in percent
          Queries        \* what Browse and `linwp list` may ask

\* A connector has a name; model is what GDK calls a screen without it.
Screens == [name : STRING \ {""}, model : STRING \ {""}, mode : Nat \X Nat, native : Nat \X Nat,
            sideways : BOOLEAN, scale : Nat \ {0}, per : Nat \ {0}, panel : BOOLEAN,
            on : BOOLEAN]

\* What was read of an image, and what may be asked of the catalogue.
Measures == [size : Nat \X Nat, usable : BOOLEAN, plain : BOOLEAN]

Questions == [segment : {"all", "ideal", "near"}, display : Nat, every : BOOLEAN,
              exact : {"any", "exact", "larger"}, excluded : BOOLEAN,
              unusable : BOOLEAN, edge : Nat]

\* A mount findmnt prints: its target is an absolute path.
Mounts == [target : Seq(Names), fstype : STRING, uuid : STRING \cup {None},
           network : BOOLEAN]

\* A directory is not an image, nor a connector named as a declared display;
\* None is neither a mount nor the reason for which a proposal is off.
ASSUME DesktopAssumption ==
    /\ FirstDesk \in Desks /\ Thresholds \subseteq 0 .. 40
    /\ \A d \in Desks : /\ d.screens \in Seq(Screens)
                        /\ \A s \in ToSet(d.screens) : s.name \notin ToSet(DeclaredNames)
                        /\ d.dirs \subseteq Seq(Names) \ Files
                        /\ ParseFindmnt(d.mounts) \in Seq(Mounts)
                        /\ {d.session, d.x, d.gtk4} \subseteq BOOLEAN
    /\ None \notin Mounts \cup {"network"}
    /\ Declarations \subseteq Seq(Nat \X Nat)
    /\ Looks \subseteq Measures /\ \A f \in DOMAIN Disk : Disk[f].dims \in Measures
    /\ Queries \subseteq Questions

VARIABLES desk,       \* the desktop as it is
          displays,   \* display: id -> name, size, primary, connected
          ideal,      \* ideal_image: <<image, display>> -> verdict, exact
          pins,       \* ideal_pin: image -> "in" or "out"
          threshold,  \* the setting ideal.threshold_pct
          held,       \* who -> the detection made and not yet stored
          saved       \* history: the detection stored last

fitVars == <<desk, displays, ideal, pins, threshold, held, saved>>

vars == <<release, groups, rules, roots, rows, disk, owed, scanning, token,
          stale, late, changes, desk, displays, ideal, pins, threshold, held,
          saved>>

-----------------------------------------------------------------------------
(* What the tools say of the screens. *)

\* A screen as it stands.
Stands(screen) == IF screen.sideways THEN Turned(screen.mode) ELSE screen.mode

\* A side of it in the pixels an application sees.
Logical(screen, side) == (side * screen.per) \div screen.scale

\* DRM reports the preferred mode of every connector, xrandr the mode and the
\* rotated geometry of those in use, GDK the logical size (the pixels over
\* the scale) with the scale rounded up.  GTK 3 does not name connectors.
Reported(d) ==
    LET lit == KeptAt(d.screens, {i \in DOMAIN d.screens : d.screens[i].on})
    IN  [session |-> d.session,
         drm |-> [i \in DOMAIN d.screens |->
            LET s == d.screens[i]
            IN  [name |-> s.name, writeback |-> FALSE, connected |-> TRUE,
                 mode |-> s.native, enabled |-> s.on, panel |-> s.panel]],
         xrandr |-> IF ~d.x THEN <<>> ELSE [i \in DOMAIN lit |->
            [name |-> lit[i].name, geometry |-> Stands(lit[i]),
             current |-> lit[i].mode, sideways |-> lit[i].sideways,
             primary |-> i = 1]],
         gdk |-> IF ~d.session THEN <<>> ELSE [i \in DOMAIN lit |->
            LET s == lit[i]
            IN  [connector |-> IF d.gtk4 THEN s.name ELSE "", model |-> s.model,
                 geometry |-> <<Logical(s, Stands(s)[1]), Logical(s, Stands(s)[2])>>,
                 scale |-> (s.scale + s.per - 1) \div s.per, primary |-> FALSE]]]

-----------------------------------------------------------------------------
(* The jobs. *)

\* The sources, switched on or off.
KnownPaths == {roots[r].path : r \in DOMAIN roots}

Images == {rows[f].id : f \in DOMAIN rows}

\* The images of a set of rows, as the judgement takes them.
ImagesOf(rs) ==
    [id \in {rs[f].id : f \in DOMAIN rs} |->
        LET row == rs[CHOOSE f \in DOMAIN rs : rs[f].id = id]
        IN  [dims |-> row.dims, visible |-> row.by = None]]

DimsOf(rs) == [id \in DOMAIN ImagesOf(rs) |-> ImagesOf(rs)[id].dims]

\* Mutant: a display met again keeps its primary flag.
StickySaveDisplay(table, d) ==
    LET same == {i \in DOMAIN table : table[i].name = d.name
                                      /\ table[i].size = d.size}
    IN  IF same = {}
        THEN Insert(table, [name |-> d.name, size |-> d.size,
                            primary |-> d.primary, source |-> d.source,
                            connected |-> TRUE])
        ELSE [i \in DOMAIN table |->
                IF i \in same THEN [table[i] EXCEPT !.connected = TRUE] ELSE table[i]]

\* A display is known by its name and size.
SaveDisplay(table, d) ==
    LET same == {i \in DOMAIN table : table[i].name = d.name
                                      /\ table[i].size = d.size}
    IN  IF same = {}
        THEN Insert(table, [name |-> d.name, size |-> d.size,
                            primary |-> d.primary, source |-> d.source,
                            connected |-> TRUE])
        ELSE [i \in DOMAIN table |->
                IF i \in same
                THEN [table[i] EXCEPT !.primary = d.primary,
                                      !.source = d.source, !.connected = TRUE]
                ELSE table[i]]

\* The detection becomes the set of targets, an empty one too.
SaveDisplaySnapshot(table, targets) ==
    LET stored[i \in 0 .. Len(targets)] ==
            IF i = 0 THEN [d \in DOMAIN table |-> [table[d] EXCEPT !.connected = FALSE]]
            ELSE SaveDisplay(stored[i - 1], targets[i])
    IN  stored[Len(targets)]

\* All images are judged anew when the set of targets has changed.
RebuildIfChanged(table) ==
    IF Connected(table) = Connected(displays) THEN ideal
    ELSE Rebuild(ideal, DimsOf(rows), table, threshold, Images)

\* A measurement: what it found and, for the record, of what it was made.
Measurement(gui, sizes) ==
    LET probes == IF gui THEN GuiProbes(Reported(desk)) ELSE ServiceProbes(Reported(desk))
        declared == ParseDeclared(sizes).displays
    IN  [targets |-> Detect(probes, declared), desk |-> desk, gui |-> gui,
         declared |-> declared]

Nothing == [targets |-> <<>>]

StoreMeasurement(who) ==
    LET table == SaveDisplaySnapshot(displays, held[who].targets)
    IN  /\ displays' = table
        /\ ideal' = RebuildIfChanged(table)
        /\ saved' = held[who]
        /\ held' = [held EXCEPT ![who] = Nothing]
        /\ UNCHANGED <<desk, pins, threshold>>

JInit ==
    /\ Init
    /\ desk = FirstDesk
    /\ threshold \in Thresholds
    /\ pins = <<>>
    /\ held = [who \in {"scan", "tool"} |-> Nothing]
    /\ LET probes == GuiProbes(Reported(desk))
       IN  /\ saved = [targets |-> Detect(probes, <<>>), desk |-> desk,
                       gui |-> TRUE, declared |-> <<>>]
           /\ displays = SaveDisplaySnapshot(<<>>, saved.targets)
           /\ ideal = Rebuild(<<>>, DimsOf(rows), displays, threshold, Images)

\* A scan measures the desktop first: from the window, or from the command
\* line with the displays declared there.
ScanMeasures(gui, sizes) ==
    /\ Counts
    /\ scanning.stage = "none" /\ held["scan"] = Nothing
    /\ gui => sizes = <<>>
    /\ ParseDeclared(sizes).ok
    /\ held' = [held EXCEPT !["scan"] = Measurement(gui, sizes)]
    /\ UNCHANGED <<release, groups, rules, roots, rows, disk, owed, scanning,
                   token, stale, late, desk, displays, ideal, pins, threshold,
                   saved>>

\* The job it begins with: sources, snapshot and, if need be, the rebuild.
ScanStarts ==
    /\ held["scan"] # Nothing
    /\ ScanBegins
    /\ StoreMeasurement("scan")

\* `linwp displays` measures, then stores.
ToolMeasures(sizes) ==
    /\ Counts
    /\ held["tool"] = Nothing
    /\ ParseDeclared(sizes).ok
    /\ held' = [held EXCEPT !["tool"] = Measurement(FALSE, sizes)]
    /\ UNCHANGED <<release, groups, rules, roots, rows, disk, owed, scanning,
                   token, stale, late, desk, displays, ideal, pins, threshold,
                   saved>>

ToolStores ==
    /\ held["tool"] # Nothing
    /\ StoreMeasurement("tool")
    /\ UNCHANGED bookVars

\* The rows a scan stores or moves are judged with them.
ScanStores ==
    /\ ScanEnds
    /\ LET upserted == {f \in DOMAIN rows' : f \in DOMAIN rows => rows'[f] # rows[f]}
       IN  ideal' = Rebuild(ideal, DimsOf(rows'), displays, threshold,
                            {rows'[f].id : f \in upserted})
    /\ UNCHANGED <<desk, displays, pins, threshold, held, saved>>

\* set_pin: in, out, or no pin.
SetPin(f, pin) ==
    /\ Counts
    /\ f \in DOMAIN rows /\ Pin(pins, rows[f].id) # pin
    /\ pins' = IF pin = "none" THEN Restrict(pins, DOMAIN pins \ {rows[f].id})
               ELSE Store(pins, rows[f].id, pin)
    /\ UNCHANGED <<release, groups, rules, roots, rows, disk, owed, scanning,
                   token, stale, late, desk, displays, ideal, threshold, held,
                   saved>>

\* Screens are plugged, switched off or turned, drives mounted or removed.
Replug(d) ==
    /\ Counts
    /\ desk # d
    /\ desk' = d
    /\ UNCHANGED <<release, groups, rules, roots, rows, disk, owed, scanning,
                   token, stale, late, displays, ideal, pins, threshold, held,
                   saved>>

\* The user ticks a proposal of the Sources page and presses Scan.
AddProposed(p) == AddRoot(p.path) /\ UNCHANGED fitVars

\* With the application goes the measurement its scan held.
Reopen(next) ==
    /\ Restart(next)
    /\ held' = [held EXCEPT !["scan"] = Nothing]
    /\ UNCHANGED <<desk, displays, ideal, pins, threshold, saved>>

JNext ==
    \/ BookStep /\ UNCHANGED fitVars
    \/ ScanReadsRules /\ UNCHANGED fitVars
    \/ \E gui \in BOOLEAN, sizes \in Declarations : ScanMeasures(gui, sizes)
    \/ ScanStarts
    \/ ScanStores
    \/ \E sizes \in Declarations : ToolMeasures(sizes)
    \/ ToolStores
    \/ \E f \in Files, pin \in {"in", "out", "none"} : SetPin(f, pin)
    \/ \E d \in Desks : Replug(d)
    \/ \E p \in Proposals(desk, KnownPaths) : AddProposed(p)
    \/ \E next \in DOMAIN Releases : Reopen(next)

Spec == JInit /\ [][JNext]_vars

-----------------------------------------------------------------------------
(* Properties. *)

\* The tables refer to each other as their foreign keys say, whatever was
\* deleted and whichever ids were given again, and no two rows share an id.
TypeOK ==
    /\ \A f \in DOMAIN rows : rows[f].by \in DOMAIN rules \cup {None}
    /\ \A f, g \in DOMAIN rows : rows[f].id = rows[g].id => f = g
    /\ \A id \in DOMAIN rules : /\ rules[id].group \in DOMAIN groups \cup {None}
                                /\ rules[id].root \in DOMAIN roots \cup {None}
    /\ DOMAIN pins \subseteq Images
    /\ DOMAIN ideal \subseteq Images \X DOMAIN displays
    /\ owed \in 0 .. MaxChanges /\ changes \in 0 .. MaxChanges
    /\ scanning.stage \in {"none", "begun", "walking"}

\* What a query should find, said with the verdict in Python for the pixels
\* the rows now have and the displays that are now targets.
Wanted(q, row) ==
    LET targets == Connected(displays)
        verdict(d) == Evaluate(row.dims, displays[d].size, threshold)
        fits(d) == /\ verdict(d).verdict = "ideal"
                   /\ q.exact # "any" => verdict(d).exact = (q.exact = "exact")
        asked == {d \in targets : OnDisplay(q, d)}
        pin == Pin(pins, row.id)
    IN  CASE q.segment = "all" -> TRUE
          [] q.segment = "ideal" ->
                /\ pin # "out"
                /\ \/ q.exact = "any" /\ pin = "in"
                   \/ ~q.every /\ \E d \in asked : fits(d)
                   \/ q.every /\ targets # {} /\ \A d \in targets : fits(d)
          [] q.segment = "near" ->
                /\ pin # "in"
                /\ \E d \in asked : verdict(d).verdict = "near"
                /\ q.display = 0 =>
                       \A d \in targets : verdict(d).verdict # "ideal"

\* Every segment shows exactly the visible images whose stored pixels the
\* rule of the segment, evaluated in Python, accepts for the present targets,
\* and the segment switch counts them so: the table of verdicts is never older
\* than a row, a display or the set of targets, and the SQL that fills it and
\* the SQL that reads it agree with evaluate, which `linwp show` prints
\* (rebuild, _segment, segment_counts, verdicts_for).
SegmentsTell ==
    LET images == ImagesOf(rows)
        wanted(q) == {rows[f].id : f \in {g \in DOMAIN rows :
                        Wanted(q, rows[g]) /\ Filtered(images[rows[g].id], q)}}
        all(q) == [q EXCEPT !.display = 0, !.every = FALSE, !.exact = "any"]
        ofIdeal(q) == [all(q) EXCEPT !.segment = "ideal"]
        counted(q, counts) ==
            /\ counts.all = Cardinality(wanted(q))
            /\ counts.near = Cardinality(wanted([all(q) EXCEPT !.segment = "near"]))
            /\ counts.exact + counts.larger
                 >= Cardinality(wanted(ofIdeal(q)) \ DOMAIN pins)
            /\ counts.every = Cardinality(wanted([ofIdeal(q) EXCEPT !.every = TRUE]))
            /\ \A d \in DOMAIN counts.displays :
                  counts.displays[d]
                    = Cardinality(wanted([ofIdeal(q) EXCEPT !.display = d]))
    IN  \A q \in Queries :
            /\ Query(images, ideal, displays, pins, q) = wanted(q)
            /\ q.segment = "all" =>
                  counted(q, SegmentCounts(images, ideal, displays, pins, q))

\* The whole numbers of GDK still show which side of the screen is longer.
ShapeShows(screen) ==
    LET across == Logical(screen, screen.mode[1])
        down == Logical(screen, screen.mode[2])
    IN  /\ across > 0 /\ down > 0
        /\ across = down => screen.mode[1] = screen.mode[2]

\* A tool can tell how the screens stand: GTK 4's connectors and DRM for the
\* window, when every screen is in its native mode and none nearly square;
\* xrandr for the command line.  Of two connectors of one name (those of two
\* cards), the probes keep the first.
ToolsTell(d, gui) ==
    LET screens == {s \in ToSet(d.screens) : s.on}
    IN  /\ d.session /\ screens # {}
        /\ \A s, t \in ToSet(d.screens) : s.name = t.name => s = t
        /\ \A s \in screens : Plausible(s.mode)
        /\ IF gui THEN d.gtk4 /\ \A s \in screens : s.mode = s.native /\ ShapeShows(s)
           ELSE d.x

\* The targets are the screens, as they stood when the detection stored last
\* was made, and the displays declared then that no screen equals in size,
\* whenever a tool could tell; and exactly one of them is primary (detect,
\* merge_gdk_drm, save_display_snapshot).
TargetsAreTheScreens ==
    LET screens == {s \in ToSet(saved.desk.screens) : s.on}
        real == {<<s.name, Stands(s)>> : s \in screens}
        declared == {<<d.name, d.size>> : d \in
                        {x \in ToSet(saved.declared) :
                            \A s \in screens : Stands(s) # x.size}}
        targets == Connected(displays)
    IN  /\ ToolsTell(saved.desk, saved.gui) =>
              {<<displays[d].name, displays[d].size>> : d \in targets} = real \cup declared
        /\ targets # {} => Cardinality({d \in targets : displays[d].primary}) = 1

\* What the Sources page proposes, said with the mounts as the kernel shows
\* them: the last one mounted over a path holds it, and no walk leaves the
\* mount it starts in.  Each folder pictures are kept in is proposed, or some
\* source or proposal reaches it; each volume is proposed; a path is proposed
\* once and with the volume that holds it; it is on only if it is such a
\* folder and on no network filesystem, and then off only if it is inside
\* another one and proposed as a volume.  Left out: a folder inside another
\* one and a mount of its own (_without_nested drops it, and the walk of the
\* other stops there), and mounts that one above them hides (mount_for still
\* finds them).
ProposalsTell ==
    LET mounts == ParseFindmnt(desk.mounts)
        offered == Proposals(desk, KnownPaths)
        places == KnownPaths \cup {p.path : p \in offered}
        folders == (XdgWanted(desk) \cup SystemWanted) \cap desk.dirs
        holder(path) == Max({0} \cup {i \in DOMAIN mounts :
                                        IsUnder(path, mounts[i].target)})
        remote(path) == holder(path) # 0 /\ mounts[holder(path)].network
        uuid(path) == IF holder(path) = 0 THEN None ELSE mounts[holder(path)].uuid
        open == \A i \in DOMAIN mounts : \A j \in i + 1 .. Len(mounts) :
                    mounts[i].target = mounts[j].target
                    \/ ~IsUnder(mounts[i].target, mounts[j].target)
        walks(place, path) == IsUnder(path, place) /\ holder(place) = holder(path)
    IN  open =>
        /\ \A f \in folders :
              (\A other \in folders : IsUnder(f, other) => walks(other, f))
                  => \E place \in places : walks(place, f)
        /\ \A i \in DOMAIN mounts :
              IsVolumeTarget(mounts[i].target) /\ mounts[i].target \in desk.dirs
                  => mounts[i].target \in places
        /\ \A p \in offered :
              /\ p.on => p.path \in folders /\ ~remote(p.path)
              /\ p.path \in folders /\ ~remote(p.path) /\ ~p.on =>
                    \E other \in folders \ {p.path} : IsUnder(p.path, other)
              /\ p.volume = uuid(p.path)
              /\ \A q \in offered : q.path = p.path => q = p

\* Both things the Sources page announces before the user agrees: the images
\* a rule would hide, and the folders a scan would search.
PageTells == PreviewTells /\ ProposalsTell

=============================================================================
