-------------------------- MODULE ExclusionMatcher --------------------------
(***************************************************************************)
(* The exclusion rules of src/scanner/exclude.py as operators: a pattern    *)
(* is compiled to a glob, the rules and groups to a matcher, and a path is  *)
(* judged by it, by the path alone or from the verdict of a directory above *)
(* it.                                                                      *)
(*                                                                          *)
(* A path is the sequence of its names, so <<>> is "/".  A pattern segment  *)
(* is the set of the names it matches (a literal matches one, "*" all); the *)
(* matching of a name character by character is not modelled, nor are the   *)
(* limits on lengths, the NUL check and malformed classes.  A value as it   *)
(* is typed or stored is a record: home when it begins with "~/", rooted    *)
(* when it begins with "/", slash when it ends with one, and its items.     *)
(* No caller stores a rule bound to a volume, so every rule here names an   *)
(* ordinary path.                                                           *)
(***************************************************************************)
EXTENDS Integers, FiniteSets, Sequences, SequencesExt, Functions

CONSTANTS Names,         \* the names files and directories have
          GlobStar,      \* the item "**"
          Up,            \* the item ".."
          None,          \* no rule, no group, no root
          Home,          \* the home directory
          ProbeHome,     \* the home directory values are validated with
          Probes,        \* the paths a pattern must not exclude altogether
          MaxGlobstars   \* "**" items a pattern may have

ASSUME MatcherAssumption ==
    /\ \A name \in Names : GlobStar # {name}
    /\ Home \in Seq(Names) /\ ProbeHome \in Seq(Names)
    /\ \A probe \in Probes : probe \in Seq(Names)
    /\ MaxGlobstars \in Nat

-----------------------------------------------------------------------------
(* Paths. *)

\* The first k names of a path: the directory at that depth, or the path.
Prefix(path, k) == SubSeq(path, 1, k)

\* `path` is `ancestor` or lies beneath it.
IsUnder(path, ancestor) == IsPrefix(ancestor, path)

\* ".." is collapsed textually and cannot leave "/".
NormalSegs(base, items) ==
    LET Step(out, item) == IF item # Up THEN Append(out, item)
                           ELSE IF out = <<>> THEN out ELSE Front(out)
        segs[i \in 0 .. Len(items)] ==
            IF i = 0 THEN base ELSE Step(segs[i - 1], items[i])
    IN  segs[Len(items)]

\* A relative value is no path.
IsAbsolute(value) == value.home \/ value.rooted

NormalizePath(value, home) ==
    NormalSegs(IF value.home THEN home ELSE <<>>, value.items)

-----------------------------------------------------------------------------
(* Globs. *)

\* "a/**/**/b" is "a/**/b".
Collapsed(items) ==
    LET again(i) == i > 1 /\ items[i] = GlobStar /\ items[i - 1] = GlobStar
        kept == {i \in DOMAIN items : ~again(i)}
        nth(n) == CHOOSE i \in kept : Cardinality({j \in kept : j <= i}) = n
    IN  [n \in 1 .. Cardinality(kept) |-> items[nth(n)]]

StarOnly(item) == item = GlobStar \/ item = Names

Literals(path) == [i \in DOMAIN path |-> {path[i]}]

\* The runs of segments between the "**" items, the one before the first
\* of them (the head) included.
Runs(items) ==
    LET Step(sofar, item) ==
            IF item = GlobStar THEN Append(sofar, <<>>)
            ELSE [sofar EXCEPT ![Len(sofar)] = Append(@, item)]
        runs[i \in 0 .. Len(items)] ==
            IF i = 0 THEN << <<>> >> ELSE Step(runs[i - 1], items[i])
    IN  runs[Len(items)]

\* "X/**" is X itself, when it is a directory, and everything beneath.
MakeGlob(items, dirOnly) ==
    LET subtree == items # <<>> /\ Last(items) = GlobStar
        runs == Runs(IF subtree THEN Front(items) ELSE items)
    IN  [head |-> Head(runs), floats |-> Tail(runs),
         subtree |-> subtree, dirOnly |-> dirOnly]

\* The items the glob is made of: a "~/" pattern is anchored at home, one
\* that does not begin with "/" matches at any depth.
AnchoredItems(p, home) ==
    LET items == Collapsed(p.items)
    IN  IF p.home THEN Literals(home) \o items
        ELSE IF ~p.rooted /\ Head(items) # GlobStar THEN <<GlobStar>> \o items
        ELSE items

\* Does the run stand at segs[start + 1] onwards?
RunMatches(run, segs, start) ==
    \A i \in DOMAIN run : segs[start + i] \in run[i]

\* No place is left for a run.
Nowhere == -1

\* Mutant: only the first place a run could stand is tried.
GreedyPlace(glob, segs, n, pos, i) ==
    LET run == glob.floats[i]
        last == n - Len(run)
        tail == i = Len(glob.floats) /\ ~glob.subtree
        places == {s \in (IF tail THEN {last} ELSE {pos}) :
                      pos <= s /\ s <= last /\ RunMatches(run, segs, s)}
    IN  IF pos = Nowhere \/ places = {} THEN Nowhere ELSE Min(places) + Len(run)

\* Where the i-th floating run ends, when the one before it ends at pos: it
\* stands at the leftmost place it fits, but the last run of a pattern without
\* a trailing "**" ends the path.
Place(glob, segs, n, pos, i) ==
    LET run == glob.floats[i]
        last == n - Len(run)
        tail == i = Len(glob.floats) /\ ~glob.subtree
        places == {s \in (IF tail THEN {last} ELSE pos .. last) :
                      pos <= s /\ RunMatches(run, segs, s)}
    IN  IF pos = Nowhere \/ places = {} THEN Nowhere ELSE Min(places) + Len(run)

\* Where the last of them ends.
Reached(glob, segs, lo, n) ==
    LET ends[i \in 0 .. Len(glob.floats)] ==
            IF i = 0 THEN lo + Len(glob.head)
            ELSE Place(glob, segs, n, ends[i - 1], i)
    IN  ends[Len(glob.floats)]

Fits(glob, end, n, isDir) ==
    /\ end # Nowhere
    /\ IF glob.subtree THEN end < n \/ isDir ELSE end = n

\* Does the glob match segs[lo + 1 .. n]?  The head stands at the start.
GlobMatch(glob, segs, lo, n, isDir) ==
    /\ glob.dirOnly => isDir
    /\ n - lo >= Len(glob.head)
    /\ RunMatches(glob.head, segs, lo)
    /\ Fits(glob, Reached(glob, segs, lo, n), n, isDir)

\* The path or a directory above it is matched.
HitsAlong(glob, segs, lo, isDir) ==
    \E k \in lo + 1 .. Len(segs) :
        GlobMatch(glob, segs, lo, k, k < Len(segs) \/ isDir)

\* Why a pattern is refused, or "ok".  The order is the code's.
PatternCode(p, home) ==
    LET glob == MakeGlob(AnchoredItems(p, home), p.slash)
        everything ==
            \/ glob.head = <<>> /\ glob.floats = <<>>
            \/ \A probe \in Probes :
                   \E d \in BOOLEAN : HitsAlong(glob, probe, 0, d)
    IN  IF p.items = <<>> /\ ~p.home /\ ~p.rooted THEN "empty"
        ELSE IF \E i \in DOMAIN p.items : p.items[i] = Up THEN "bad_path"
        ELSE IF ~p.home /\ \A i \in DOMAIN p.items : StarOnly(p.items[i])
            THEN "matches_everything"
        ELSE IF Cardinality({i \in DOMAIN p.items : p.items[i] = GlobStar})
                    > MaxGlobstars
            THEN "too_many_globstars"
        ELSE IF everything THEN "matches_everything"
        ELSE "ok"

\* Why the path of a folder or file rule is refused, or "ok".
PathCode(value, home) ==
    IF value.items = <<>> /\ ~IsAbsolute(value) THEN "empty"
    ELSE IF ~IsAbsolute(value) THEN "bad_path"
    ELSE IF NormalizePath(value, home) = <<>> THEN "matches_everything"
    ELSE "ok"

\* validate_rule with the home it is given.
ValueCode(kind, value, home) ==
    IF kind = "pattern" THEN PatternCode(value, home) ELSE PathCode(value, home)

ValidateRule(kind, value) == ValueCode(kind, value, ProbeHome) = "ok"

-----------------------------------------------------------------------------
(* The matcher. *)

\* A rule of a locked group is always on; another one is when neither it nor
\* its group is switched off.
IsActive(rule, groups) ==
    \/ rule.group # None /\ groups[rule.group].locked
    \/ rule.enabled /\ (rule.group = None \/ groups[rule.group].enabled)

\* The rule of an unlocked built-in group: a source may override it.
IsSoft(rule, groups) ==
    /\ rule.group # None
    /\ groups[rule.group].builtin
    /\ ~groups[rule.group].locked

\* The path a folder or file rule stands for: cut to the source it is scoped
\* to, and no path when it can match nothing there.
RulePath(rule) ==
    LET path == NormalizePath(rule.value, Home)
    IN  IF rule.root = None \/ IsUnder(path, rule.root) THEN {path}
        ELSE IF rule.kind = "file" \/ ~IsUnder(rule.root, path) THEN {}
        ELSE {rule.root}

\* The glob of a pattern rule.  A scope is what every path it matches begins
\* with, lo the first names it does not see; "~/" patterns see them all.
CompiledPattern(id, rule, groups) ==
    LET p == rule.value
        scope == IF rule.root = None THEN <<>> ELSE rule.root
    IN  [id |-> id, soft |-> IsSoft(rule, groups), scope |-> scope,
         lo |-> IF p.home THEN 0 ELSE Len(scope),
         glob |-> MakeGlob(AnchoredItems(p, Home), p.slash)]

\* The includes: the enabled sources and the exceptions of the built-in
\* groups that are on.
IncludeSet(groups, sources) ==
    sources \cup UNION {groups[g].exceptions :
        g \in {x \in DOMAIN groups : groups[x].enabled \/ groups[x].locked}}

\* A rule whose value is refused never matches and stops nothing.
Live(rules, groups) ==
    Restrict(rules, {id \in DOMAIN rules :
        /\ IsActive(rules[id], groups)
        /\ ValueCode(rules[id].kind, rules[id].value, Home) = "ok"})

\* The places of the live folder or file rules.
Places(live, groups, kind) ==
    UNION {{[id |-> id, path |-> path, soft |-> IsSoft(live[id], groups),
             inode |-> live[id].inode] : path \in RulePath(live[id])} :
           id \in {x \in DOMAIN live : live[x].kind = kind}}

CompiledPatterns(live, groups) ==
    {CompiledPattern(id, live[id], groups) :
        id \in {x \in DOMAIN live : live[x].kind = "pattern"}}

\* The soft patterns an include suppresses: those that match it or a
\* directory above it.
SuppressedAt(patterns, include) ==
    {p.id : p \in {q \in patterns : /\ q.soft /\ IsUnder(include, q.scope)
                                    /\ HitsAlong(q.glob, include, q.lo, TRUE)}}

Matcher(live, groups, includes, patterns) ==
    [includes |-> includes, patterns |-> patterns,
     folders  |-> Places(live, groups, "folder"),
     files    |-> Places(live, groups, "file"),
     suppress |-> [include \in includes |-> SuppressedAt(patterns, include)]]

CompileLive(live, groups, sources) ==
    Matcher(live, groups, IncludeSet(groups, sources),
            CompiledPatterns(live, groups))

Compile(rules, groups, sources) ==
    CompileLive(Live(rules, groups), groups, sources)

\* The first rule of a set of ids, or None.
LowestId(ids) == IF ids = {} THEN None ELSE Min(ids)

FoldersAt(m, path) == {f \in m.folders : f.path = path}

\* A path of the index: an include, or the place of a folder rule.
IsPoint(m, path) == path \in m.includes \/ FoldersAt(m, path) # {}

\* The includes on the way from depth k of the path down to it.
Included(m, path, k) ==
    {j \in k .. Len(path) : Prefix(path, j) \in m.includes}

\* The folder rule at depth k, if no include below overrides it: the soft ones
\* give way.
FolderHit(m, path, k) ==
    LowestId({f.id : f \in {g \in FoldersAt(m, Prefix(path, k)) :
                                g.soft => Included(m, path, k) = {}}})

\* The folder rule at that depth, or none at 0, and the deepest include met
\* on the way up to it.  "/" itself is not looked at.
FolderAt(m, path, end) ==
    LET over == Included(m, path, Max({1, end}))
    IN  [hit |-> IF end = 0 THEN None ELSE FolderHit(m, path, end),
         end |-> end,
         include |-> IF over = {} THEN {} ELSE {Prefix(path, Max(over))}]

\* Walking up from the path: the deepest folder rule.
Folder(m, path) ==
    FolderAt(m, path, Max({0} \cup {k \in 1 .. Len(path) :
                                        FolderHit(m, path, k) # None}))

\* "**/SEG/**" is looked up by the last name alone, since every directory
\* above was judged before; a pattern of one floating segment likewise.
IsSingle(p) ==
    /\ p.glob.head = <<>> /\ Len(p.glob.floats) = 1
    /\ Len(p.glob.floats[1]) = 1
    /\ p.scope = <<>> /\ ~(p.glob.subtree /\ p.glob.dirOnly)

\* The pattern matches the first n names of path; one of the form "X/**" does
\* not when subtrees is FALSE.
PatternMatches(p, path, n, isDir, subtrees) ==
    IF IsSingle(p)
    THEN /\ path[n] \in p.glob.floats[1][1]
         /\ IF p.glob.subtree THEN subtrees /\ isDir ELSE p.glob.dirOnly => isDir
    ELSE /\ p.glob.subtree => subtrees
         /\ p.scope # <<>> => path # p.scope /\ IsUnder(path, p.scope)
         /\ n > p.lo
         /\ GlobMatch(p.glob, path, p.lo, n, isDir)

\* The first pattern rule that does.
Patterns(m, path, n, isDir, skip, subtrees) ==
    LowestId({p.id : p \in {q \in m.patterns :
                /\ q.id \notin skip
                /\ PatternMatches(q, path, n, isDir, subtrees)}})

Suppressed(m, include) == UNION {m.suppress[i] : i \in include}

\* The verdict of a folder rule, if one hits, or else of the first pattern:
\* patterns[k] is the one that hits at depth k.
Verdict(folder, skip, patterns) ==
    LET depths == {k \in DOMAIN patterns : patterns[k] # None}
    IN  IF folder.hit # None
        THEN [hit |-> folder.hit, at |-> folder.end, skip |-> skip]
        ELSE IF depths = {} THEN [hit |-> None, at |-> 0, skip |-> skip]
        ELSE [hit |-> patterns[Min(depths)], at |-> Min(depths), skip |-> skip]

\* The patterns, from the top down, but for those an include suppresses.
JudgeUnder(m, path, isDir, folder, skip) ==
    Verdict(folder, skip,
            [k \in 1 .. Len(path) |->
                Patterns(m, path, k, k < Len(path) \/ isDir, skip, TRUE)])

JudgeBelow(m, path, isDir, folder) ==
    JudgeUnder(m, path, isDir, folder, Suppressed(m, folder.include))

\* The self-contained decision: the folder rules first, then the patterns.
Judge(m, path, isDir) == JudgeBelow(m, path, isDir, Folder(m, path))

\* What a directory inherits from the one above: its verdict and the
\* suppressed rules; only its own name is tested anew.
InheritUnless(judged, hit, k) ==
    IF judged.hit # None \/ hit = None THEN judged
    ELSE [judged EXCEPT !.hit = hit, !.at = k]

Inherit(m, dir, judged, k) ==
    InheritUnless(judged, Patterns(m, Prefix(dir, k), k, TRUE, judged.skip, TRUE), k)

\* Mutant: a directory with a rule or an include of its own inherits too.
InheritingJudged(m, dir) ==
    LET judged[k \in 0 .. Len(dir)] ==
            IF k = 0 THEN Judge(m, <<>>, TRUE)
            ELSE Inherit(m, dir, judged[k - 1], k)
    IN  judged[Len(dir)]

\* The decision for a directory, derived from that of the nearest one above
\* which is judged by itself: "/", or a path with a rule or an include of
\* its own.  The verdicts on the way are remembered; one that is found there
\* is the one judged[k] has at that depth, so the memory, which threads share
\* and which is emptied when full, is left out.
Judged(m, dir) ==
    LET judged[k \in 0 .. Len(dir)] ==
            IF k = 0 \/ IsPoint(m, Prefix(dir, k))
            THEN Judge(m, Prefix(dir, k), TRUE)
            ELSE Inherit(m, dir, judged[k - 1], k)
    IN  judged[Len(dir)]

\* A file by its exact path first, else the answer of its directory, and then
\* the patterns that reach a file other than through a directory above it.
MatchFile(m, path, parent) ==
    LET exact == {f.id : f \in {g \in m.files : g.path = path}}
    IN  IF exact # {} THEN Min(exact)
        ELSE IF IsPoint(m, path) THEN Judge(m, path, FALSE).hit
        ELSE IF parent.hit # None THEN parent.hit
        ELSE Patterns(m, path, Len(path), FALSE, parent.skip, FALSE)

MatchBy(m, path, dir, judged) ==
    IF dir = path THEN judged.hit ELSE MatchFile(m, path, judged)

MatchUnder(m, path, dir) == MatchBy(m, path, dir, Judged(m, dir))

\* The rule that keeps a path out, if any.
Match(m, path, isDir) ==
    MatchUnder(m, path, IF isDir \/ path = <<>> THEN path ELSE Front(path))

\* File rules by identity: a renamed file stays excluded.
MatchInode(m, inode) ==
    LowestId({f.id : f \in {g \in m.files : g.inode # None /\ g.inode = inode}})

=============================================================================
