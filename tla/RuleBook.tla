------------------------------ MODULE RuleBook ------------------------------
(***************************************************************************)
(* The exclusion rules as the application keeps and applies them: the       *)
(* tables `exclusion`, `exclusion_group` and `root`, the flag excluded_by   *)
(* of every catalogued image, the operations of the Sources page, of the    *)
(* command line and of Browse, and a scan that walks by the rules it read   *)
(* when it began (src/catalogue/db.py, src/viewmodels/sources_vm.py,        *)
(* src/viewmodels/browse_vm.py, src/cli/cmd_exclude.py).                    *)
(*                                                                          *)
(* Each operation is one or two jobs of the catalogue writer.  The Sources  *)
(* page and the command line store the change in one job and recompute the  *)
(* flags in a second, so other jobs, a scan's or a crash can come between;  *)
(* Browse does both in one.  How threads queue jobs is in AppSession, how a *)
(* scan meets files that change in Rescans; here a walk is one step.        *)
(***************************************************************************)
EXTENDS ExclusionMatcher, Functions

CONSTANTS Releases,     \* the built-in groups of each release, in order
          Files,        \* the paths images may have
          Disk,         \* the images on disk at first: path -> inode, dims
          Looks,        \* what an image may be edited to (its dims)
          Catalogued,   \* the images catalogued already, some under groups
                        \* that were switched off at the time
          Sources,      \* the source the catalogue begins with
          NewSources,   \* the folders the user may add as sources
          Requests,     \* the rules the user may ask for: kind, value, the
                        \* group and the source named with it, or None
          Begun,        \* rules one of which may have been added before a
                        \* behaviour begins; with the inode, if of a file
          GroupNames,   \* the groups the user may switch
          MaxChanges    \* bound: operations of a behaviour

\* What a rule says: the items of a pattern match names, those of a path are names.
Value(item) ==
    [home : BOOLEAN, rooted : BOOLEAN, slash : BOOLEAN, items : Seq(item \cup {Up})]

RuleText ==
    [kind : {"pattern"}, value : Value({GlobStar} \cup SUBSET Names)]
        \cup [kind : {"folder", "file"}, value : Value(Names)]

\* The built-in groups of a release have keys of their own, and no rule is in
\* two of them (BUILTIN_GROUPS).
IsRelease(gs) ==
    /\ gs \in Seq(ToSet(gs))
    /\ \A i \in DOMAIN gs :
        /\ gs[i].key # None /\ gs[i].locked \in BOOLEAN
        /\ gs[i].rules \in Seq(RuleText) /\ gs[i].exceptions \subseteq Value(Names)
        /\ \A j \in DOMAIN gs \ {i} :
            /\ gs[i].key # gs[j].key
            /\ ToSet(gs[i].rules) \cap ToSet(gs[j].rules) = {}

\* An image is not a folder, an inode is one image, and None is nothing else.
ASSUME BookAssumption ==
    /\ None \notin Nat \cup Seq(Names)
    /\ 1 \in DOMAIN Releases /\ \A n \in DOMAIN Releases : IsRelease(Releases[n])
    /\ Files \subseteq Seq(Names) \ {<<>>}
    /\ DOMAIN Disk \subseteq Files /\ IsFiniteSet(DOMAIN Disk) /\ Catalogued \subseteq DOMAIN Disk
    /\ Disk \in [DOMAIN Disk -> [inode : Nat, dims : {Disk[f].dims : f \in DOMAIN Disk}]]
    /\ \A f \in DOMAIN Disk : \A g \in DOMAIN Disk \ {f} : Disk[f].inode # Disk[g].inode
    /\ Sources \in Seq(Seq(Names) \ Files) /\ NewSources \subseteq Seq(Names) \ Files
    /\ \A r \in Requests \cup Begun : [kind |-> r.kind, value |-> r.value] \in RuleText
    /\ \A r \in Begun : r.inode \in Nat \cup {None}
    /\ MaxChanges \in Nat

VARIABLES release,   \* the running release: its number
          groups,    \* exclusion_group: id -> key, name, builtin, locked, enabled
          rules,     \* exclusion: id -> rule; root is the id of its source
          roots,     \* root: id -> path, enabled
          rows,      \* image: path -> id, by (excluded_by), inode, dims
          disk,      \* the images on disk: path -> inode, dims
          owed,      \* reapply jobs queued or about to be
          scanning,  \* the running scan: its stage, sources and matcher
          token,     \* the rule the undo of Browse's last exclusion names
          stale,     \* history: a change nothing recomputes the flags for
          late,      \* history: the paths a scan stored by old rules, or moved
          changes    \* bound: operations so far

bookVars == <<release, groups, rules, roots, rows, disk, owed, scanning,
              token, stale, late, changes>>

Idle == [stage |-> "none"]

-----------------------------------------------------------------------------
(* The tables. *)

\* An id one above the highest: those of deleted rows are given again.
NextId(table) == IF DOMAIN table = {} THEN 1 ELSE Max(DOMAIN table) + 1

Store(table, id, row) ==
    [i \in DOMAIN table \cup {id} |-> IF i = id THEN row ELSE table[i]]

Insert(table, row) == Store(table, NextId(table), row)

Builtins == Releases[release]

\* The rules and groups as the matcher takes them: the path of the source a
\* rule is scoped to, and the exceptions the running release gives a group.
LoadRules(rs, ts) ==
    [id \in DOMAIN rs |->
        [rs[id] EXCEPT !.root = IF @ = None THEN None ELSE ts[@].path]]

LoadGroups(gs, builtins) ==
    [g \in DOMAIN gs |->
        LET own == {b \in ToSet(builtins) : gs[g].builtin /\ b.key = gs[g].key}
        IN  [builtin |-> gs[g].builtin, locked |-> gs[g].locked,
             enabled |-> gs[g].enabled,
             exceptions |-> {NormalizePath(x, Home) :
                                x \in UNION {b.exceptions : b \in own}}]]

EnabledRoots(ts) == {ts[r].path : r \in {x \in DOMAIN ts : ts[x].enabled}}

\* The matcher of the tables, as every reader of the rules compiles it.
MatcherOf(rs, gs, ts) ==
    Compile(LoadRules(rs, ts), LoadGroups(gs, Builtins), EnabledRoots(ts))

\* Seeding a rule of a built-in group: a stored rule of that value is taken
\* over, and keeps the user's switch unless the group is locked.
SeedRule(rs, gid, locked, wanted) ==
    LET same == {id \in DOMAIN rs : /\ rs[id].kind = wanted.kind
                                    /\ rs[id].value = wanted.value
                                    /\ rs[id].root = None}
    IN  IF same = {}
        THEN Insert(rs, [kind |-> wanted.kind, value |-> wanted.value,
                         group |-> gid, root |-> None, inode |-> None,
                         enabled |-> TRUE, builtin |-> TRUE])
        ELSE [id \in DOMAIN rs |->
                IF id \in same
                THEN [rs[id] EXCEPT !.builtin = TRUE, !.group = gid,
                                    !.enabled = locked \/ @]
                ELSE rs[id]]

\* The rules of a built-in group that its release no longer has.
Dropped(rs, gid, group) ==
    {id \in DOMAIN rs :
        /\ rs[id].builtin /\ rs[id].group = gid
        /\ [kind |-> rs[id].kind, value |-> rs[id].value] \notin ToSet(group.rules)}

\* Seeding a built-in group and its rules.
SeedGroup(tables, group) ==
    LET known == {g \in DOMAIN tables.groups : tables.groups[g].key = group.key}
        gid == IF known = {} THEN NextId(tables.groups) ELSE Min(known)
        row == [key |-> group.key, name |-> group.name, builtin |-> TRUE,
                locked |-> group.locked,
                enabled |-> known = {} \/ group.locked
                            \/ tables.groups[gid].enabled]
        kept == Restrict(tables.rules, DOMAIN tables.rules
                                           \ Dropped(tables.rules, gid, group))
        seeded[i \in 0 .. Len(group.rules)] ==
            IF i = 0 THEN kept
            ELSE SeedRule(seeded[i - 1], gid, group.locked, group.rules[i])
    IN  [groups |-> Store(tables.groups, gid, row),
         rules |-> seeded[Len(group.rules)]]

\* Something of the running release is not as stored.
SeedNeeded(tables, builtins) ==
    \E b \in ToSet(builtins) :
        LET known == {g \in DOMAIN tables.groups :
                        /\ tables.groups[g].builtin
                        /\ tables.groups[g].key = b.key}
            stored == {id \in DOMAIN tables.rules :
                        /\ tables.rules[id].builtin
                        /\ tables.rules[id].group \in known
                        /\ tables.rules[id].root = None}
        IN  \/ known = {}
            \/ \E g \in known : \/ tables.groups[g].name # b.name
                                \/ tables.groups[g].locked # b.locked
                                \/ b.locked /\ ~tables.groups[g].enabled
            \/ {[kind |-> tables.rules[id].kind, value |-> tables.rules[id].value] :
                    id \in stored} # ToSet(b.rules)
            \/ b.locked /\ \E id \in stored : ~tables.rules[id].enabled

SeedBuiltins(tables, builtins) ==
    LET seeded[i \in 0 .. Len(builtins)] ==
            IF i = 0 THEN tables ELSE SeedGroup(seeded[i - 1], builtins[i])
    IN  IF SeedNeeded(tables, builtins) THEN seeded[Len(builtins)] ELSE tables

\* The group of that key or, failing that, of that name.
GroupRow(gs, name) ==
    LET keyed == {g \in DOMAIN gs : gs[g].key = name}
    IN  IF keyed # {} THEN keyed ELSE {g \in DOMAIN gs : gs[g].name = name}

\* add_rule: refused, or the tables with the rule in them and its id.  A rule
\* of the same kind, value and source is not stored twice, switched off or
\* not; the group it was asked for is made all the same.
AddRule(tables, kind, value, group, source, inode) ==
    LET in == {r \in DOMAIN roots : roots[r].path = source}
        root == IF source = None THEN None ELSE Min(in)
        asked == IF group = None THEN {} ELSE GroupRow(tables.groups, group)
        made == group # None /\ asked = {}
        gs == IF made THEN Insert(tables.groups,
                                  [key |-> None, name |-> group, builtin |-> FALSE,
                                   locked |-> FALSE, enabled |-> TRUE])
              ELSE tables.groups
        gid == IF group = None THEN None
               ELSE IF made THEN NextId(tables.groups) ELSE Min(asked)
        same == {id \in DOMAIN tables.rules :
                    /\ tables.rules[id].kind = kind
                    /\ tables.rules[id].value = value
                    /\ tables.rules[id].root = root}
    IN  IF \/ ~ValidateRule(kind, value)
           \/ source # None /\ in = {}
           \/ \E g \in asked : tables.groups[g].locked
        THEN [ok |-> FALSE]
        ELSE [ok |-> TRUE, groups |-> gs,
              id |-> IF same # {} THEN Min(same) ELSE NextId(tables.rules),
              rules |-> IF same # {} THEN tables.rules
                        ELSE Insert(tables.rules,
                               [kind |-> kind, value |-> value, group |-> gid,
                                root |-> root,
                                inode |-> IF kind = "file" THEN inode ELSE None,
                                enabled |-> TRUE, builtin |-> FALSE])]

\* A built-in rule cannot be removed, nor one that is not there.
Removable(id) == id \in DOMAIN rules /\ ~rules[id].builtin

IsLocked(id) == rules[id].group # None /\ groups[rules[id].group].locked

\* Mutant: the flags keep naming them.
StillFlagged(images, ids) == images

\* Deleting rules clears the flags that name them (ON DELETE SET NULL).
Unflagged(images, ids) ==
    [f \in DOMAIN images |->
        IF images[f].by \in ids THEN [images[f] EXCEPT !.by = None] ELSE images[f]]

-----------------------------------------------------------------------------
(* Applying the rules. *)

Prevails(rs, hit, same) ==
    IF same # None /\ (hit = None \/ rs[hit].kind # "file") THEN same ELSE hit

\* The rule that wins for one image: by path, then by inode for a renamed
\* file.
HitFor(m, rs, path, inode) ==
    Prevails(rs, Match(m, path, FALSE), MatchInode(m, inode))

\* Mutant: the inode of a file is not looked at.
PathOnlyApplyExclusions(images, rs, gs, ts) ==
    LET ByPath(m) ==
            [f \in DOMAIN images |-> [images[f] EXCEPT !.by = Match(m, f, FALSE)]]
    IN  ByPath(MatcherOf(rs, gs, ts))

Flagged(images, rs, m) ==
    [f \in DOMAIN images |->
        [images[f] EXCEPT !.by = HitFor(m, rs, f, images[f].inode)]]

\* The flags of all rows against the rules of the tables.
ApplyExclusions(images, rs, gs, ts) == Flagged(images, rs, MatcherOf(rs, gs, ts))

\* The rules with a candidate, which is given an id above all others.
WithCandidate(kind, value) ==
    Insert(rules, [kind |-> kind, value |-> value, group |-> None, root |-> None,
                   inode |-> None, enabled |-> TRUE, builtin |-> FALSE])

\* The rows whose winning rule it would be.
WonBy(id, rs, m) == {f \in DOMAIN rows : HitFor(m, rs, f, rows[f].inode) = id}

\* Mutant: rows that are hidden already are counted too.
PreviewOfAll(kind, value) ==
    WonBy(NextId(rules), WithCandidate(kind, value),
          MatcherOf(WithCandidate(kind, value), groups, roots))

\* What a preview counts: those of them that are visible.
Preview(kind, value) ==
    {f \in WonBy(NextId(rules), WithCandidate(kind, value),
                 MatcherOf(WithCandidate(kind, value), groups, roots)) :
        rows[f].by = None}

\* Mutant: the walker asks about paths only.
MetByPathFrom(m, source, images) ==
    {f \in DOMAIN images :
        /\ IsUnder(f, source) /\ f # source
        /\ \A k \in Len(source) + 1 .. Len(f) :
              Match(m, Prefix(f, k), k < Len(f)) = None}

\* The images the walk of one source meets: it enters the directories no rule
\* prunes, and never those under a pruned one.
WalkedFrom(m, source, images) ==
    {f \in DOMAIN images :
        /\ IsUnder(f, source) /\ f # source
        /\ \A k \in Len(source) + 1 .. Len(f) :
              Match(m, Prefix(f, k), k < Len(f)) = None
        /\ MatchInode(m, images[f].inode) = None}

Walked(m, sources, images) ==
    UNION {WalkedFrom(m, source, images) : source \in sources}

-----------------------------------------------------------------------------
(* The operations. *)

Tables == [rules |-> rules, groups |-> groups]

\* An operation of the user or of the machine: the bound.
Counts == changes < MaxChanges /\ changes' = changes + 1

\* The tables of the first release, as seeded or with one rule of the user.
FirstTables ==
    LET seeded == SeedBuiltins([rules |-> <<>>, groups |-> <<>>], Builtins)
        begun == {AddRule(seeded, r.kind, r.value, r.group, r.source, r.inode) :
                    r \in Begun}
    IN  {seeded} \cup {tables \in begun : tables.ok}

FirstRows ==
    LET ids == SetToSeq(Catalogued)
    IN  [f \in Catalogued |-> [id |-> CHOOSE i \in DOMAIN ids : ids[i] = f,
                               by |-> None, inode |-> Disk[f].inode,
                               dims |-> Disk[f].dims]]

Init ==
    /\ release = 1
    /\ roots = [i \in DOMAIN Sources |-> [path |-> Sources[i], enabled |-> TRUE]]
    /\ \E tables \in FirstTables :
          rules = tables.rules /\ groups = tables.groups
    /\ disk = Disk
    /\ rows = ApplyExclusions(FirstRows, rules, groups, roots)
    /\ owed = 0
    /\ scanning = Idle
    /\ token = None
    /\ stale = FALSE
    /\ late = {}
    /\ changes = 0

\* The first job of Sources' add_rule and of `linwp exclude add`.
StoreRule(kind, value, group, source) ==
    LET added == AddRule(Tables, kind, value, group, source, None)
    IN  /\ Counts
        /\ added.ok
        /\ rules' = added.rules
        /\ groups' = added.groups
        /\ owed' = owed + 1
        /\ UNCHANGED <<release, roots, rows, disk, scanning, token, stale, late>>

\* The first job of Sources' remove_rule and of `linwp exclude remove`.
DeleteRule(id) ==
    /\ Counts
    /\ Removable(id)
    /\ rules' = Restrict(rules, DOMAIN rules \ {id})
    /\ rows' = Unflagged(rows, {id})
    /\ owed' = owed + 1
    /\ UNCHANGED <<release, groups, roots, disk, scanning, token, stale, late>>

\* A rule of a locked group cannot be switched off.  Switching to what is so
\* already only owes a reapply, here and below, and is left out.
SwitchRule(id, on) ==
    /\ Counts
    /\ id \in DOMAIN rules /\ rules[id].enabled # on
    /\ IsLocked(id) => on
    /\ rules' = [rules EXCEPT ![id].enabled = on]
    /\ owed' = owed + 1
    /\ UNCHANGED <<release, groups, roots, rows, disk, scanning, token, stale, late>>

\* Nor can a locked group.
Switchable(name, on) ==
    {g \in GroupRow(groups, name) : ~groups[g].locked /\ groups[g].enabled # on}

SwitchGroup(name, on) ==
    /\ Counts
    /\ \E g \in Switchable(name, on) : groups' = [groups EXCEPT ![g].enabled = on]
    /\ owed' = owed + 1
    /\ UNCHANGED <<release, rules, roots, rows, disk, scanning, token, stale, late>>

\* add_root: a stored source is switched on.  Nothing recomputes the flags of
\* the images a new source lets through.
AddRoot(path) ==
    LET stored == {r \in DOMAIN roots : roots[r].path = path}
    IN  /\ Counts
        /\ roots' = IF stored = {}
                    THEN Insert(roots, [path |-> path, enabled |-> TRUE])
                    ELSE [roots EXCEPT ![Min(stored)].enabled = TRUE]
        /\ stale' = TRUE
        /\ UNCHANGED <<release, groups, rules, rows, disk, owed, scanning,
                       token, late>>

SwitchRoot(r, on) ==
    /\ Counts
    /\ r \in DOMAIN roots /\ roots[r].enabled # on
    /\ roots' = [roots EXCEPT ![r].enabled = on]
    /\ owed' = owed + 1
    /\ UNCHANGED <<release, groups, rules, rows, disk, scanning, token, stale, late>>

\* The rules scoped to a source go with it (ON DELETE CASCADE).
RemoveRoot(r) ==
    LET scoped == {id \in DOMAIN rules : rules[id].root = r}
    IN  /\ Counts
        /\ r \in DOMAIN roots
        /\ roots' = Restrict(roots, DOMAIN roots \ {r})
        /\ rules' = Restrict(rules, DOMAIN rules \ scoped)
        /\ rows' = Unflagged(rows, scoped)
        /\ owed' = owed + 1
        /\ UNCHANGED <<release, groups, disk, scanning, token, stale, late>>

\* The second job of the operations above.
Reapply ==
    /\ owed > 0
    /\ owed' = owed - 1
    /\ rows' = ApplyExclusions(rows, rules, groups, roots)
    /\ stale' = FALSE
    /\ late' = {}
    /\ UNCHANGED <<release, groups, rules, roots, disk, scanning, token, changes>>

AsValue(path) == [home |-> FALSE, rooted |-> TRUE, slash |-> FALSE, items |-> path]

ImageRule(f) == [kind |-> "file", value |-> AsValue(f), inode |-> rows[f].inode]

FolderRule(f) == [kind |-> "folder", value |-> AsValue(Front(f)), inode |-> None]

\* Browse's exclude_image and exclude_folder: one job stores the rule and
\* recomputes the flags; the undo is given the id.
Exclude(rule) ==
    LET added == AddRule(Tables, rule.kind, rule.value, None, None, rule.inode)
    IN  /\ Counts
        /\ added.ok
        /\ rules' = added.rules
        /\ token' = added.id
        /\ rows' = ApplyExclusions(rows, rules', groups, roots)
        /\ stale' = FALSE
        /\ late' = {}
        /\ UNCHANGED <<release, groups, roots, disk, owed, scanning>>

\* undo_exclusion, whatever rule bears the id by then.
UndoExclusion ==
    /\ token # None
    /\ token' = None
    /\ IF Removable(token)
       THEN /\ rules' = Restrict(rules, DOMAIN rules \ {token})
            /\ rows' = ApplyExclusions(rows, rules', groups, roots)
            /\ stale' = FALSE
            /\ late' = {}
       ELSE UNCHANGED <<rules, rows, stale, late>>
    /\ UNCHANGED <<release, groups, roots, disk, owed, scanning, changes>>

\* The job a scan begins with takes the sources that are on.
ScanBegins ==
    /\ scanning.stage = "none"
    /\ scanning' = [stage |-> "begun",
                    sources |-> Restrict(roots, {r \in DOMAIN roots : roots[r].enabled})]
    /\ UNCHANGED <<release, groups, rules, roots, rows, disk, owed, token,
                   stale, late, changes>>

\* The next one takes the rules, once for the whole scan.
ScanReadsRules ==
    /\ scanning.stage = "begun"
    /\ scanning' = [stage |-> "walking", sources |-> scanning.sources,
                    matcher |-> MatcherOf(rules, groups, roots)]
    /\ UNCHANGED <<release, groups, rules, roots, rows, disk, owed, token,
                   stale, late, changes>>

\* The row of the file now at g when it was elsewhere and only moved: the
\* newest row of its inode, not edited since, and gone from where it was.
MovedFrom(g) ==
    LET same == {f \in DOMAIN rows : rows[f].inode = disk[g].inode}
    IN  {f \in same : /\ \A e \in same : rows[e].id <= rows[f].id
                      /\ rows[f].dims = disk[g].dims
                      /\ f \notin DOMAIN disk}

MovedAmong(met) == {g \in met \ DOMAIN rows : MovedFrom(g) # {}}

\* A source was removed meanwhile: its rows have lost their root_id, so all
\* it holds is probed again, and storing that fails on the foreign key.
Orphaned(r, met) == r \notin DOMAIN roots /\ met \ MovedAmong(met) # {}

\* Sources are walked in the order of their ids, and one that fails ends the
\* scan: what the walks before it met is stored.
StoredOf(metAt) ==
    UNION {metAt[r] : r \in {x \in DOMAIN metAt :
        \A y \in DOMAIN metAt : Orphaned(y, metAt[y]) => x < y}}

\* What a scan met becomes rows.  A new one has no flag; one that moved keeps
\* its id and the flag it has, and is not probed; one that was edited is
\* probed again.
StoreMet(met, moved) ==
    LET left == UNION {MovedFrom(g) : g \in moved}
        fresh == met \ (moved \cup DOMAIN rows)
        order == SetToSeq(fresh)
        top == Max({0} \cup {rows[f].id : f \in DOMAIN rows})
        old == scanning.matcher # MatcherOf(rules, groups, roots)
    IN  /\ rows' = [f \in (DOMAIN rows \ left) \cup met |->
                    IF f \in moved THEN rows[CHOOSE x \in MovedFrom(f) : TRUE]
                    ELSE IF f \in fresh
                    THEN [id |-> top + (CHOOSE i \in DOMAIN order : order[i] = f),
                          by |-> None, inode |-> disk[f].inode, dims |-> disk[f].dims]
                    ELSE IF f \in met THEN [rows[f] EXCEPT !.dims = disk[f].dims]
                    ELSE rows[f]]
        /\ late' = (late \ left) \cup moved \cup (IF old THEN fresh ELSE {})

ScanEnds ==
    LET store(met) == StoreMet(met, MovedAmong(met))
    IN  /\ scanning.stage = "walking"
        /\ store(StoredOf([r \in DOMAIN scanning.sources |->
                WalkedFrom(scanning.matcher, scanning.sources[r].path, disk)]))
        /\ scanning' = Idle
        /\ UNCHANGED <<release, groups, rules, roots, disk, owed, token, stale,
                       changes>>

\* The user renames an image: the inode stays.  Not to a path another image
\* is catalogued at: then the scan fails on UNIQUE(path), as Rescans shows.
Rename(f, g) ==
    /\ Counts
    /\ f \in DOMAIN disk /\ g \notin DOMAIN disk
    /\ g \in DOMAIN rows => rows[g].inode = disk[f].inode
    /\ disk' = [x \in (DOMAIN disk \ {f}) \cup {g} |->
                    IF x = g THEN disk[f] ELSE disk[x]]
    /\ UNCHANGED <<release, groups, rules, roots, rows, owed, scanning, token,
                   stale, late>>

\* The user edits an image in place.
Edit(f, dims) ==
    /\ Counts
    /\ f \in DOMAIN disk /\ disk[f].dims # dims
    /\ disk' = [disk EXCEPT ![f].dims = dims]
    /\ UNCHANGED <<release, groups, rules, roots, rows, owed, scanning, token,
                   stale, late>>

\* The application ends or dies and is started again, the same release or the
\* next one, which seeds its built-in groups.  A reapply that was owed is
\* lost, and nothing recomputes the flags for what the seeding changed.
Restart(next) ==
    LET seeded == SeedBuiltins(Tables, Releases[next])
        gone == DOMAIN rules \ DOMAIN seeded.rules
    IN  /\ Counts
        /\ next \in {release, release + 1} \cap DOMAIN Releases
        /\ release' = next
        /\ rules' = seeded.rules
        /\ groups' = seeded.groups
        /\ rows' = Unflagged(rows, gone)
        /\ stale' = (stale \/ owed > 0 \/ next # release)
        /\ owed' = 0
        /\ scanning' = Idle
        /\ token' = None
        /\ UNCHANGED <<roots, disk, late>>

\* The operations that leave the images and their pixels alone.
BookStep ==
    \/ \E r \in Requests : StoreRule(r.kind, r.value, r.group, r.source)
    \/ \E id \in DOMAIN rules : DeleteRule(id)
    \/ \E id \in DOMAIN rules, on \in BOOLEAN : SwitchRule(id, on)
    \/ \E name \in GroupNames, on \in BOOLEAN : SwitchGroup(name, on)
    \/ \E path \in NewSources : AddRoot(path)
    \/ \E r \in DOMAIN roots, on \in BOOLEAN : SwitchRoot(r, on)
    \/ \E r \in DOMAIN roots : RemoveRoot(r)
    \/ Reapply
    \/ \E f \in DOMAIN rows : \E rule \in {ImageRule(f), FolderRule(f)} : Exclude(rule)
    \/ UndoExclusion
    \/ \E f, g \in Files : Rename(f, g)
    \/ \E f \in Files, dims \in Looks : Edit(f, dims)

-----------------------------------------------------------------------------
(* What the rules mean, said without the matcher: the reference the flags    *)
(* and the walk are compared with.                                           *)

\* The items cover the names from the first to the last: a segment one name,
\* "**" any number, but at the end none only when the path is a directory.
Covers(items, names, isDir) ==
    LET After(i, from) ==
            IF items[i] = GlobStar
            THEN {j \in 0 .. Len(names) :
                    \E q \in from : q < j \/ (q = j /\ (i = Len(items) => isDir))}
            ELSE {j \in 1 .. Len(names) : j - 1 \in from /\ names[j] \in items[i]}
        covered[i \in 0 .. Len(items)] ==
            IF i = 0 THEN {0} ELSE After(i, covered[i - 1])
    IN  Len(names) \in covered[Len(items)]

\* A pattern covers an image when it covers it or a directory above it,
\* within the source the pattern is scoped to.
PatternCovers(value, source, path, isDir) ==
    LET scope == IF source = None THEN <<>> ELSE source
        from == IF value.home THEN 0 ELSE Len(scope)
    IN  /\ IsUnder(path, scope)
        /\ \E k \in Len(scope) + 1 .. Len(path) :
              LET dir == k < Len(path) \/ isDir
              IN  /\ value.slash => dir
                  /\ Covers(AnchoredItems(value, Home),
                            SubSeq(path, from + 1, k), dir)

\* The rule keeps the image out.  A folder rule of an unlocked built-in group
\* gives way to a source, or to an exception of such a group, at or beneath
\* its folder; a pattern of one to the deepest of them above the image, when
\* the pattern covers that one too.
KeepsOut(rule, gs, includes, path, inode) ==
    LET soft == IsSoft(rule, gs)
        over == {i \in includes : IsUnder(path, i)}
        deepest == {i \in over : \A j \in over : Len(j) <= Len(i)}
        beneath == \E place \in RulePath(rule) :
                      /\ IsUnder(path, place)
                      /\ soft => \A i \in over : ~IsUnder(i, place)
    IN  CASE rule.kind = "file" ->
                \/ path \in RulePath(rule)
                \/ RulePath(rule) # {} /\ rule.inode = inode
          [] rule.kind = "folder" -> beneath
          [] rule.kind = "pattern" ->
                /\ PatternCovers(rule.value, rule.root, path, FALSE)
                /\ soft => \A i \in deepest :
                              ~PatternCovers(rule.value, rule.root, i, TRUE)

Excluded(path, inode) ==
    LET gs == LoadGroups(groups, Builtins)
        live == Live(LoadRules(rules, roots), gs)
    IN  \E id \in DOMAIN live :
            KeepsOut(live[id], gs, IncludeSet(gs, EnabledRoots(roots)), path, inode)

\* A "~/" pattern scoped to a source that it covers from above: the matcher
\* takes the source for covered or not, as the path it is asked about is
\* judged by itself (a path with an include or a rule) or by its directory.
AskedTwoWays(path) ==
    \E id \in DOMAIN rules :
        /\ rules[id].kind = "pattern" /\ rules[id].root # None
        /\ LET source == roots[rules[id].root].path
           IN  /\ IsUnder(path, source)
               /\ PatternCovers(rules[id].value, None, source, TRUE)

-----------------------------------------------------------------------------
(* Properties. *)

\* Once the jobs of every operation have run, an image is hidden in the
\* catalogue if and only if a rule keeps it out, whatever the order in which
\* rules, groups and sources were added, switched and removed, Browse
\* excluded and took back, and scans stored rows.  Left out: what nothing
\* recomputes the flags for (a source added, a reapply lost with the process,
\* the built-in rules of a new release) until the next operation does, the
\* rows a scan moved, or stored by rules older than the last change, and
\* images the matcher answers two ways about (apply_exclusions, the matcher).
FlagsFollowRules ==
    owed = 0 /\ ~stale =>
        \A f \in {g \in DOMAIN rows \ late : ~AskedTwoWays(g)} :
            (rows[f].by # None) = Excluded(f, rows[f].inode)

\* The enabled sources and the scan agree with the flags: an image on disk is
\* met by a walk if and only if the matcher lets it through, so that no image
\* is hidden by the rules and scanned, or shown and never scanned.  Left out:
\* images whose deepest include is an exception of a built-in group and not
\* a source (the walker never starts at one: nothing calls includes_under).
WalkAgrees ==
    LET m == MatcherOf(rules, groups, roots)
        sources == EnabledRoots(roots)
        deepest(f) == {i \in m.includes : /\ IsUnder(f, i)
                                          /\ \A j \in m.includes :
                                                IsUnder(f, j) => Len(j) <= Len(i)}
    IN  \A f \in DOMAIN disk :
            deepest(f) # {} /\ deepest(f) \subseteq sources =>
                (f \in Walked(m, sources, disk))
                    = (HitFor(m, rules, f, disk[f].inode) = None)

\* What the preview of a rule announces is what the rule then does: the
\* images it counts are the ones that leave Browse when the same value is
\* added and the flags are recomputed.  Left out: a value that is stored
\* already (add_rule hands back that rule, switched off or in another group).
PreviewTells ==
    owed = 0 /\ ~stale /\ late = {} =>
        \A c \in {r \in Requests : r.group = None /\ r.source = None} :
            LET added == AddRule(Tables, c.kind, c.value, None, None, None)
            IN  added.ok /\ added.id \notin DOMAIN rules =>
                    LET then == ApplyExclusions(rows, added.rules, added.groups, roots)
                    IN  Preview(c.kind, c.value)
                            = {f \in DOMAIN rows : rows[f].by = None
                                                   /\ then[f].by # None}

=============================================================================
