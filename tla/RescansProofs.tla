--------------------------- MODULE RescansProofs ---------------------------
(***************************************************************************)
(* Proofs about Rescans for any roots, drives, mount points, files, links  *)
(* and rules, and any number of scans and changes.                         *)
(*                                                                         *)
(* TypeInv is the type invariant with what it needs to be inductive;       *)
(* FreshInv relates the rows, the items on their way and the thumbnail     *)
(* cache to the versions of the files; WalkInv is what a scan nothing has  *)
(* disturbed has established so far.                                       *)
(***************************************************************************)
EXTENDS Rescans, TLAPS, FiniteSetTheorems, WellFoundedInduction

-----------------------------------------------------------------------------
\* Induction, the extremes of a set of numbers and sets as sequences.

\* Induction on the natural numbers, for a set of them: the library's theorems
\* take the induction hypothesis as an operator.

LEMMA LessIsWellFounded ==
    IsWellFoundedOn({x \in Nat \X Nat : x[1] < x[2]}, Nat)
<1>. SUFFICES ASSUME NEW f \in [Nat -> Nat],
                     \A n \in Nat : <<f[n + 1], f[n]>> \in {x \in Nat \X Nat : x[1] < x[2]}
              PROVE FALSE
  BY DEF IsWellFoundedOn
<1>. QED
  BY NatLessThanWellFounded DEF OpToRel, IsWellFoundedOn

\* A set of natural numbers has a least one.
LEMMA LeastNumber ==
    ASSUME NEW T \in SUBSET Nat, T # {}
    PROVE  \E x \in T : \A y \in T : x <= y
<1>. DEFINE R == {x \in Nat \X Nat : x[1] < x[2]}
<1>1. \E x \in T : \A y \in T : <<y, x>> \notin R
  <2>. HIDE DEF R
  <2>1. IsWellFoundedOn(R, Nat)
    BY LessIsWellFounded DEF R
  <2>. QED
    BY <2>1, WFMin
<1>2. PICK x \in T : \A y \in T : <<y, x>> \notin R
  BY <1>1
<1>3. \A y \in T : x <= y
  <2>. TAKE y \in T
  <2>1. x \in Nat /\ y \in Nat
    OBVIOUS
  <2>2. <<y, x>> \notin R
    BY <1>2
  <2>3. ~(y < x)
    BY <2>1, <2>2
  <2>. QED
    BY <2>1, <2>3
<1>. QED
  BY <1>3

\* Induction: a set with 0 and the successor of each of its numbers has all.
LEMMA SetInduction ==
    ASSUME NEW T, 0 \in T, \A n \in Nat : n \in T => n + 1 \in T
    PROVE  Nat \subseteq T
<1>. SUFFICES ASSUME Nat \ T # {} PROVE FALSE
  OBVIOUS
<1>1. PICK x \in Nat \ T : \A y \in Nat \ T : x <= y
  BY LeastNumber
<1>2. x # 0
  OBVIOUS
<1>3. x - 1 \in Nat /\ x - 1 \in T
  BY <1>1, <1>2
<1>. QED
  BY <1>3

\* What a recursive function on 0 .. N is made of exists: the values in S that a
\* step function gives one after the other.
StepsOn(N, S) == [(1 .. N) \X S -> S]
ValuesIn(N, S) == [0 .. N -> S]
Follows(g, N, s, step) == g[0] = s /\ \A n \in 1 .. N : g[n] = step[<<n, g[n - 1]>>]

LEMMA Iterates ==
    ASSUME NEW N \in Nat, NEW S, NEW s \in S, NEW step \in StepsOn(N, S)
    PROVE  \E g \in ValuesIn(N, S) : Follows(g, N, s, step)
<1>. USE DEF StepsOn, ValuesIn, Follows
<1>. DEFINE Good(g, m) == g[0] = s /\ \A n \in 1 .. m : g[n] = step[<<n, g[n - 1]>>]
            T == {m \in Nat : m <= N => \E g \in [0 .. m -> S] : Good(g, m)}
<1>1. 0 \in T
  <2>1. Good([n \in 0 .. 0 |-> s], 0) /\ [n \in 0 .. 0 |-> s] \in [0 .. 0 -> S]
    OBVIOUS
  <2>. QED
    BY <2>1
<1>2. ASSUME NEW m \in Nat, m \in T
      PROVE  m + 1 \in T
  <2>. SUFFICES ASSUME m + 1 <= N PROVE \E g \in [0 .. m + 1 -> S] : Good(g, m + 1)
    OBVIOUS
  <2>1. PICK h \in [0 .. m -> S] : Good(h, m)
    BY <1>2
  <2>. DEFINE g == [n \in 0 .. m + 1 |-> IF n <= m THEN h[n] ELSE step[<<m + 1, h[m]>>]]
  <2>2. step[<<m + 1, h[m]>>] \in S
    OBVIOUS
  <2>3. g \in [0 .. m + 1 -> S]
    BY <2>2
  <2>4. g[0] = s
    BY <2>1
  <2>5. ASSUME NEW n \in 1 .. m + 1 PROVE g[n] = step[<<n, g[n - 1]>>]
    <3>1. n - 1 \in 0 .. m /\ g[n - 1] = h[n - 1]
      OBVIOUS
    <3>2. CASE n <= m
      <4>1. n \in 1 .. m /\ g[n] = h[n]
        BY <3>2
      <4>. QED
        BY <2>1, <3>1, <4>1
    <3>3. CASE n = m + 1
      <4>1. n - 1 = m /\ ~(n <= m)
        BY <3>3
      <4>2. g[n] = step[<<m + 1, h[m]>>] /\ g[n - 1] = h[m]
        BY <3>1, <4>1
      <4>. QED
        BY <3>3, <4>1, <4>2
    <3>. QED
      BY <3>2, <3>3
  <2>6. Good(g, m + 1)
    BY <2>4, <2>5
  <2>. QED
    BY <2>3, <2>6
<1>3. N \in T
  <2>. HIDE DEF T
  <2>. QED
    BY <1>1, <1>2, SetInduction
<1>. QED
  BY <1>3

\* Max and Min of the numbers below a bound.
LEMMA MaxIsIn ==
    ASSUME NEW b \in Nat, NEW T \in SUBSET (0 .. b), T # {}
    PROVE  Max(T) \in T /\ \A x \in T : x <= Max(T)
<1>. DEFINE above == {n \in Nat : \A x \in T : x <= n}
<1>1. b \in above
  OBVIOUS
<1>2. PICK m \in above : \A n \in above : m <= n
  BY <1>1, LeastNumber
<1>3. m \in T
  <2>. SUFFICES ASSUME m \notin T PROVE FALSE
    OBVIOUS
  <2>1. \A x \in T : x \in Nat /\ x <= m /\ x # m
    BY <1>2
  <2>2. m \in Nat /\ m # 0
    <3>1. PICK x \in T : TRUE
      OBVIOUS
    <3>. QED
      BY <2>1, <3>1
  <2>3. m - 1 \in Nat /\ \A x \in T : x <= m - 1
    BY <2>1, <2>2
  <2>4. m - 1 \in above
    BY <2>3
  <2>. QED
    BY <1>2, <2>2, <2>4
<1>4. \E x \in T : \A y \in T : x >= y
  BY <1>2, <1>3
<1>. QED
  BY <1>4 DEF Max

LEMMA MinIsIn ==
    ASSUME NEW T \in SUBSET Nat, T # {}
    PROVE  Min(T) \in T
BY LeastNumber DEF Min

\* A finite set as a sequence.
LEMMA SequenceOfSet ==
    ASSUME NEW S, IsFiniteSet(S)
    PROVE  /\ Cardinality(S) \in Nat
           /\ SetToSeq(S) \in [1 .. Cardinality(S) -> S]
           /\ SetToSeq(S) \in Seq(S)
           /\ DOMAIN SetToSeq(S) = 1 .. Cardinality(S)
           /\ \A i, j \in DOMAIN SetToSeq(S) : SetToSeq(S)[i] = SetToSeq(S)[j] => i = j
           /\ \A x \in S : \E i \in DOMAIN SetToSeq(S) : SetToSeq(S)[i] = x
<1>1. Cardinality(S) \in Nat
  BY FS_CardinalityType
<1>2. \E f : f \in Bijection(1 .. Cardinality(S), S)
  BY FS_NatBijection, FS_CardinalityType DEF ExistsBijection
<1>3. \E f \in [1 .. Cardinality(S) -> S] : IsInjective(f)
  BY <1>2 DEF Bijection, Injection, IsInjective
<1>4. SetToSeq(S) \in [1 .. Cardinality(S) -> S] /\ IsInjective(SetToSeq(S))
  BY <1>3 DEF SetToSeq
<1>. DEFINE f == SetToSeq(S)
            D == 1 .. Cardinality(S)
<1>5. IsFiniteSet(D) /\ Cardinality(D) = Cardinality(S)
  BY <1>1, FS_Interval
<1>6. f \in Injection(D, S)
  BY <1>4 DEF Injection, IsInjective
<1>7. f \in Surjection(D, S)
  <2>. HIDE DEF f, D
  <2>. QED
    BY <1>5, <1>6, FS_Injection
<1>. QED
  BY <1>1, <1>4, <1>7 DEF IsInjective, Surjection

-----------------------------------------------------------------------------
\* The inductive invariants, in parts.

Versions == File \X Stamp
Pictures == [key : Versions, pixels : Versions]
Kinds == {"unchanged", "moved", "candidate", "open", "decoded", "result"}
Items == [kind : Kinds, path : Path, key : Versions, from : Nat,
          shown : {None} \cup Versions, thumb : {None} \cup Versions]

\* The rows a root's pass loaded are still there; rows are only ever added.
KnownInv ==
    /\ known \in Seq(Rows) /\ DOMAIN known \subseteq Ids
    /\ \A i, j \in DOMAIN known : known[i].path = known[j].path => i = j

\* A moved item names a row, a decoded one has pixels, and a candidate nothing yet.
Whole(it) ==
    /\ it.kind = "moved" => it.from \in DOMAIN known
    /\ it.kind = "decoded" => it.shown # None
    /\ it.kind = "candidate" => it.shown = None /\ it.thumb = None

ItemInv == items \subseteq Items /\ \A it \in items : Whole(it)

FlagInv ==
    /\ rule \in BOOLEAN /\ due \in BOOLEAN /\ matcher \in BOOLEAN
    /\ failed \in BOOLEAN /\ quiet \in BOOLEAN /\ settled \in BOOLEAN

CountInv == changes \in Nat /\ changes <= MaxChanges

TypeInv ==
    /\ TypeOK /\ KnownInv /\ ItemInv /\ FlagInv /\ CountInv
    /\ left \subseteq Root /\ offline \subseteq Volume
    /\ pc = "walk" => left # {}
    /\ \A r \in HomeDir : rootPath[r] = r
    /\ thumbs \in Seq(Pictures)

\* What was read of a file is no older than the key it is stored with, and no
\* newer than the file.
Between(x, key, version) ==
    x # None => x[1] = key[1] /\ key[2] <= x[2] /\ x[2] <= version[key[1]]

Fresh(key, shown, thumb, version) ==
    /\ key[2] <= version[key[1]]
    /\ Between(shown, key, version)
    /\ Between(thumb, key, version)

Kept(x, pictures, gone) == x # None => Held(pictures, x) \/ x \in gone

FreshInv ==
    /\ \A f \in File : stamp[f] <= changes
    /\ \A i \in Ids : /\ Fresh(Key(rows[i]), rows[i].shown, rows[i].thumb, stamp)
                      /\ Kept(rows[i].thumb, thumbs, evicted)
    /\ \A it \in items : /\ Fresh(it.key, it.shown, it.thumb, stamp)
                         /\ Kept(it.thumb, thumbs, evicted)
    /\ \A i \in DOMAIN thumbs : thumbs[i].key \notin spoilt => thumbs[i].pixels = thumbs[i].key

\* What every path leads to now.
Places == [p \in Path |-> FileAt(p)]

\* A row is right: it is that version of what is at its path, and not hidden.
Right(row, places, version, hides) ==
    /\ places[row.path] = row.file
    /\ row.stamp = version[row.file]
    /\ ~(hides /\ row.path \in Hidden)

SameFile(row, old) ==
    row.path = old.path /\ row.root = old.root /\ row.file = old.file /\ row.stamp = old.stamp

\* The rows bear the number of the scan only while it walks.
NoneSeen == pc \in {"idle", "reconciled"} => \A i \in Ids : ~rows[i].seen

\* The mounts and the rule are as the scan found them.
SteadyInv ==
    /\ pc # "idle" => /\ offline = Unmounted
                      /\ \A v \in Volume : at[v] # None => rootPath[v] = at[v]
    /\ pc \in {"load", "walk"} => matcher = rule

\* Rows that bear the scan's number are right, and so are the visible ones of
\* the roots that are finished.
DoneInv ==
    \A i \in Ids : rows[i].seen \/ (rows[i].root \in scope \ left /\ Visible(i)) =>
        Right(rows[i], Places, stamp, rule)

\* A row the scan has not met is as it was loaded, and a path only changes when
\* its file was met elsewhere.
LoadedInv ==
    /\ \A i \in DOMAIN known :
        /\ ~rows[i].seen => SameFile(rows[i], known[i])
        /\ rows[i].path # known[i].path => known[i].file \in met
    /\ \A i \in Ids : i \notin DOMAIN known => rows[i].seen

\* An item is the file at its path, in that version and not hidden.
Found(it, places, version, hides) ==
    /\ places[it.path] = it.key[1] /\ it.key[2] = version[it.key[1]]
    /\ ~(hides /\ it.path \in Hidden)

\* The old row of a moved item still names the place where nothing is left.
Left(it, places) ==
    /\ SameFile(rows[it.from], known[it.from])
    /\ Key(known[it.from]) = it.key
    /\ places[known[it.from].path] = None

FoundInv ==
    /\ \A it \in items :
        /\ Found(it, Places, stamp, rule) /\ it.key[1] \in met
        /\ it.kind = "unchanged" =>
             \E k \in DOMAIN known : known[k].path = it.path /\ Key(known[k]) = it.key
        /\ it.kind = "moved" => Left(it, Places)
    /\ \A it, jt \in items : it.key[1] = jt.key[1] => it = jt

QuietInv ==
    quiet => /\ SteadyInv
             /\ pc \in {"load", "walk"} => DoneInv
             /\ pc = "walk" => ~failed /\ LoadedInv /\ FoundInv

WalkInv == NoneSeen /\ QuietInv /\ VisibleIsThere

-----------------------------------------------------------------------------
\* Types of what the actions are built from.

LEMMA FileAtType ==
    ASSUME TypeOK, NEW p \in Path
    PROVE  FileAt(p) \in File \cup {None}
BY DEF FileAt, TypeOK

LEMMA NoFile == None \notin File /\ None \notin Versions /\ None \notin Dir
BY NameAssumption DEF Versions, Dir, Root

LEMMA RowsFacts ==
    ASSUME TypeOK
    PROVE  /\ Len(rows) \in Nat /\ Ids = 1 .. Len(rows)
           /\ rows \in [Ids -> Rows]
           /\ \A f \in [Ids -> Rows] : f \in Seq(Rows) /\ DOMAIN f = Ids
<1>1. rows \in Seq(Rows)
  BY DEF TypeOK
<1>2. Len(rows) \in Nat /\ Ids = 1 .. Len(rows) /\ rows \in [Ids -> Rows]
  BY <1>1 DEF Ids
<1>. QED
  BY <1>2

\* A row that is flagged, moved to another path, or marked, is a row.
LEMMA RowFlags ==
    ASSUME NEW r \in Rows, NEW b \in BOOLEAN
    PROVE  /\ [r EXCEPT !.seen = b] \in Rows
           /\ [r EXCEPT !.missing = b] \in Rows
           /\ [r EXCEPT !.excluded = b] \in Rows
BY DEF Rows

LEMMA RowMoves ==
    ASSUME NEW r \in Rows, NEW p \in Path
    PROVE  /\ [r EXCEPT !.path = p] \in Rows
           /\ [r EXCEPT !.path = p, !.seen = TRUE, !.missing = FALSE] \in Rows
           /\ [r EXCEPT !.seen = TRUE, !.missing = FALSE] \in Rows
<1>1. [r EXCEPT !.path = p] \in Rows
  BY DEF Rows
<1>2. [r EXCEPT !.seen = TRUE, !.missing = FALSE] \in Rows
  BY DEF Rows
<1>3. [r EXCEPT !.path = p, !.seen = TRUE, !.missing = FALSE] \in Rows
  BY DEF Rows
<1>. QED
  BY <1>1, <1>2, <1>3

LEMMA ThisIsLeft ==
    ASSUME left \subseteq Root, left # {}
    PROVE  This \in left /\ This \in Root
<1>. DEFINE T == {i \in DOMAIN RootOrder : RootOrder[i] \in left}
<1>1. DOMAIN RootOrder \subseteq Nat
  BY OrderAssumption
<1>2. T # {}
  BY OrderAssumption
<1>3. Min(T) \in T
  <2>. HIDE DEF T
  <2>1. T \in SUBSET Nat
    BY <1>1 DEF T
  <2>. QED
    BY <2>1, <1>2, MinIsIn
<1>. QED
  BY <1>3 DEF This

LEMMA ByInodeType ==
    ASSUME KnownInv, NEW f \in File
    PROVE  ByInode(f) \in {0} \cup {i \in DOMAIN known : known[i].file = f}
<1>1. Len(known) \in Nat /\ DOMAIN known = 1 .. Len(known)
  BY DEF KnownInv
<1>. DEFINE T == {0} \cup {i \in DOMAIN known : known[i].file = f}
<1>2. T \in SUBSET (0 .. Len(known)) /\ T # {}
  BY <1>1
<1>3. Max(T) \in T
  <2>. HIDE DEF T
  <2>. QED
    BY <1>1, <1>2, MaxIsIn
<1>. QED
  BY <1>3 DEF ByInode

LEMMA MovedFromType ==
    ASSUME KnownInv, NEW f \in File, NEW p
    PROVE  \/ MovedFrom(p, f) = 0
           \/ /\ MovedFrom(p, f) \in DOMAIN known
              /\ Key(known[MovedFrom(p, f)]) = <<f, stamp[f]>>
              /\ FileAt(known[MovedFrom(p, f)].path) = None
<1>1. CASE MovedFrom(p, f) = 0
  BY <1>1
<1>2. CASE MovedFrom(p, f) # 0
  <2>1. MovedFrom(p, f) = ByInode(f) /\ ByInode(f) # 0
    BY <1>2 DEF MovedFrom
  <2>2. ByInode(f) \in DOMAIN known /\ known[ByInode(f)].file = f
    BY <2>1, ByInodeType
  <2>3. known[ByInode(f)].stamp = stamp[f] /\ FileAt(known[ByInode(f)].path) = None
    BY <1>2 DEF MovedFrom
  <2>. QED
    BY <2>1, <2>2, <2>3 DEF Key
<1>. QED
  BY <1>1, <1>2

LEMMA ItemType ==
    ASSUME TypeInv, NEW p \in Path, NEW f \in File
    PROVE  /\ Item(p, f) \in Items
           /\ Item(p, f).path = p /\ Item(p, f).key = <<f, stamp[f]>>
           /\ Item(p, f).shown = None /\ Item(p, f).thumb = None
           /\ Item(p, f).kind \in {"unchanged", "moved", "candidate"}
           /\ Item(p, f).kind = "unchanged" => \E k \in KnownAs(p) : Key(known[k]) = <<f, stamp[f]>>
           /\ Item(p, f).kind = "moved" =>
                /\ Item(p, f).from = MovedFrom(p, f)
                /\ MovedFrom(p, f) # 0
<1>1. <<f, stamp[f]>> \in Versions
  BY DEF TypeInv, TypeOK, Versions
<1>2. MovedFrom(p, f) \in Nat
  <2>1. DOMAIN known \subseteq Nat
    BY DEF TypeInv, KnownInv
  <2>. QED
    BY <2>1, MovedFromType DEF TypeInv
<1>. QED
  BY <1>1, <1>2 DEF Item, Items, Kinds

-----------------------------------------------------------------------------
\* The healing of the tables, root after root.

Tables == [ok : BOOLEAN, paths : [Root -> Dir], rows : [Ids -> Rows]]
Start == [ok |-> TRUE, paths |-> rootPath, rows |-> rows]

\* What is true of the tables whichever roots have been healed.
Sound(st) ==
    /\ st \in Tables
    /\ st.ok => /\ \A i, j \in Ids : st.rows[i].path = st.rows[j].path => i = j
                /\ \A q, r \in Root : st.paths[q] = st.paths[r] => q = r
    /\ \A i \in Ids : \E p \in Path : st.rows[i] = [rows[i] EXCEPT !.path = p]
    /\ \A r \in HomeDir : st.paths[r] = rootPath[r]

Caught(st, r) == r \in Volume /\ at[r] # None => st.paths[r] = at[r]

MovedAlong(st, r) ==
    [i \in Ids |-> IF st.rows[i].root = r /\ st.rows[i].path[1] = st.paths[r]
                   THEN [st.rows[i] EXCEPT !.path = <<at[r], @[2]>>]
                   ELSE st.rows[i]]

LEMMA MovedAlongType ==
    ASSUME TypeOK, NEW st \in Tables, NEW r \in Volume, at[r] # None
    PROVE  /\ at[r] \in Dir
           /\ MovedAlong(st, r) \in [Ids -> Rows]
           /\ \A i \in Ids : \E p \in Path : MovedAlong(st, r)[i] = [st.rows[i] EXCEPT !.path = p]
<1>1. at[r] \in Dir
  BY DEF TypeOK, Dir
<1>2. ASSUME NEW i \in Ids
      PROVE  \E p \in Path : /\ MovedAlong(st, r)[i] = [st.rows[i] EXCEPT !.path = p]
                             /\ MovedAlong(st, r)[i] \in Rows
  <2>1. st.rows[i] \in Rows
    BY DEF Tables
  <2>2. st.rows[i].path \in Path /\ <<at[r], st.rows[i].path[2]>> \in Path
    BY <1>1, <2>1 DEF Rows, Path
  <2>3. st.rows[i] = [st.rows[i] EXCEPT !.path = st.rows[i].path]
    BY <2>1 DEF Rows
  <2>4. CASE st.rows[i].root = r /\ st.rows[i].path[1] = st.paths[r]
    <3>1. MovedAlong(st, r)[i] = [st.rows[i] EXCEPT !.path = <<at[r], st.rows[i].path[2]>>]
      BY <2>1, <2>4 DEF MovedAlong, Rows
    <3>. QED
      BY <2>1, <2>2, <3>1, RowMoves
  <2>5. CASE ~(st.rows[i].root = r /\ st.rows[i].path[1] = st.paths[r])
    <3>1. MovedAlong(st, r)[i] = st.rows[i]
      BY <2>5 DEF MovedAlong
    <3>. QED
      BY <2>1, <2>2, <2>3, <3>1
  <2>. QED
    BY <2>4, <2>5
<1>3. DOMAIN MovedAlong(st, r) = Ids /\ MovedAlong(st, r) \in [Ids -> Rows]
  BY <1>2 DEF MovedAlong
<1>. QED
  BY <1>1, <1>2, <1>3

\* One drive: the tables stay sound, the drive's path becomes where it is, and
\* the paths of the other roots stay.
LEMMA HealStep ==
    ASSUME TypeOK, NEW st, Sound(st), NEW r \in Root
    PROVE  /\ Sound(Heal(st, r))
           /\ Heal(st, r).ok => /\ st.ok
                                /\ Caught(Heal(st, r), r)
                                /\ \A q \in Root \ {r} : Heal(st, r).paths[q] = st.paths[q]
<1>. DEFINE to == at[r]
            new == [ok |-> /\ \A q \in Root \ {r} : st.paths[q] # to
                           /\ \A i, j \in Ids : MovedAlong(st, r)[i].path = MovedAlong(st, r)[j].path => i = j,
                    paths |-> [st.paths EXCEPT ![r] = to], rows |-> MovedAlong(st, r)]
<1>1. st \in Tables /\ st.ok \in BOOLEAN /\ st.paths \in [Root -> Dir] /\ st.rows \in [Ids -> Rows]
  BY DEF Sound, Tables
<1>2. CASE ~st.ok \/ r \notin Volume \/ at[r] \in {None, st.paths[r]}
  <2>1. Heal(st, r) = st
    BY <1>2 DEF Heal
  <2>. QED
    BY <1>2, <2>1 DEF Caught
<1>3. CASE st.ok /\ r \in Volume /\ at[r] \notin {None, st.paths[r]}
  <2>1. Heal(st, r) = new
    BY <1>3 DEF Heal, MovedAlong
  <2>2. /\ to \in Dir /\ new.rows \in [Ids -> Rows]
        /\ \A i \in Ids : \E p \in Path : new.rows[i] = [st.rows[i] EXCEPT !.path = p]
    BY <1>1, <1>3, MovedAlongType
  <2>3. new.paths \in [Root -> Dir] /\ new.paths[r] = to
        /\ \A q \in Root \ {r} : new.paths[q] = st.paths[q]
    BY <1>1, <2>2
  <2>4. new \in Tables
    BY <2>2, <2>3 DEF Tables
  <2>5. new.ok => /\ \A i, j \in Ids : new.rows[i].path = new.rows[j].path => i = j
                  /\ \A q, p \in Root : new.paths[q] = new.paths[p] => q = p
    BY <1>1, <1>3, <2>3 DEF Sound
  <2>6. \A i \in Ids : \E p \in Path : new.rows[i] = [rows[i] EXCEPT !.path = p]
    <3>. TAKE i \in Ids
    <3>1. PICK q \in Path : st.rows[i] = [rows[i] EXCEPT !.path = q]
      BY DEF Sound
    <3>2. PICK p \in Path : new.rows[i] = [st.rows[i] EXCEPT !.path = p]
      BY <2>2
    <3>3. rows[i] \in Rows
      BY RowsFacts
    <3>4. new.rows[i] = [rows[i] EXCEPT !.path = p]
      BY <3>1, <3>2, <3>3 DEF Rows
    <3>. QED
      BY <3>4
  <2>. QED
    <3>1. r \notin HomeDir /\ HomeDir \subseteq Root
      BY <1>3, NameAssumption DEF Root
    <3>2. \A q \in HomeDir : new.paths[q] = rootPath[q]
      BY <2>3, <3>1 DEF Sound
    <3>. QED
      BY <1>3, <2>1, <2>3, <2>4, <2>5, <2>6, <3>2 DEF Sound, Caught
<1>. QED
  BY <1>1, <1>2, <1>3

LEMMA StartIsSound == TypeOK => Sound(Start)
<1>. SUFFICES ASSUME TypeOK PROVE Sound(Start)
  OBVIOUS
<1>1. Start \in Tables
  BY RowsFacts DEF Start, Tables, TypeOK
<1>2. \A i \in Ids : \E p \in Path : rows[i] = [rows[i] EXCEPT !.path = p]
  BY RowsFacts DEF Rows
<1>. QED
  BY <1>1, <1>2 DEF Sound, Start, TypeOK

\* Healing is the function its recursion describes.
LEMMA HealingUnfolds ==
    ASSUME TypeOK
    PROVE  /\ Healing[0] = Start
           /\ \A n \in 1 .. Len(RootOrder) : Healing[n] = Heal(Healing[n - 1], RootOrder[n])
<1>. DEFINE N == Len(RootOrder)
            S == {st \in Tables : Sound(st)}
            step == [x \in (1 .. N) \X S |-> Heal(x[2], RootOrder[x[1]])]
<1>1. N \in Nat /\ \A n \in 1 .. N : RootOrder[n] \in Root
  BY OrderAssumption
<1>2. Start \in S
  BY StartIsSound DEF Sound
<1>3. \A n \in 1 .. N : \A st \in S : Heal(st, RootOrder[n]) \in S
  <2>. TAKE n \in 1 .. N
  <2>. TAKE st \in S
  <2>1. Sound(Heal(st, RootOrder[n]))
    BY <1>1, HealStep
  <2>. QED
    BY <2>1 DEF Sound
<1>4. step \in [(1 .. N) \X S -> S]
  BY <1>3
<1>5. PICK g \in [0 .. N -> S] :
        g[0] = Start /\ \A n \in 1 .. N : g[n] = step[<<n, g[n - 1]>>]
  <2>1. step \in StepsOn(N, S)
    BY <1>4 DEF StepsOn
  <2>2. PICK g \in ValuesIn(N, S) : Follows(g, N, Start, step)
    <3>. HIDE DEF N, S, step
    <3>. QED
      BY <1>1, <1>2, <2>1, Iterates
  <2>. QED
    BY <2>2 DEF ValuesIn, Follows
<1>6. \A n \in 1 .. N : g[n] = Heal(g[n - 1], RootOrder[n])
  <2>. TAKE n \in 1 .. N
  <2>1. n - 1 \in 0 .. N /\ g[n - 1] \in S
    BY <1>1
  <2>2. <<n, g[n - 1]>> \in (1 .. N) \X S
    BY <2>1
  <2>. QED
    BY <1>5, <2>2
<1>7. g = [n \in 0 .. N |-> IF n = 0 THEN Start ELSE Heal(g[n - 1], RootOrder[n])]
  <2>1. \A n \in 0 .. N : g[n] = IF n = 0 THEN Start ELSE Heal(g[n - 1], RootOrder[n])
    BY <1>1, <1>5, <1>6
  <2>. QED
    BY <2>1
<1>8. \E h : h = [n \in 0 .. N |-> IF n = 0 THEN Start ELSE Heal(h[n - 1], RootOrder[n])]
  BY <1>7
<1>9. Healing = [n \in 0 .. N |-> IF n = 0 THEN Start ELSE Heal(Healing[n - 1], RootOrder[n])]
  <2>. HIDE DEF S, step
  <2>. QED
    BY <1>8 DEF Healing, Start
<1>. QED
  BY <1>1, <1>9

\* However many drives have moved and wherever to: when the job succeeds the
\* tables are sound and every mounted drive's root is where the drive is.
LEMMA HealedIsSound ==
    ASSUME TypeOK
    PROVE  /\ Sound(Healed)
           /\ Healed.ok => \A v \in Volume : at[v] # None => Healed.paths[v] = at[v]
<1>. DEFINE N == Len(RootOrder)
            T == {n \in Nat : n <= N => /\ Sound(Healing[n])
                                        /\ Healing[n].ok =>
                                             \A k \in 1 .. n : Caught(Healing[n], RootOrder[k])}
<1>1. N \in Nat /\ \A n \in 1 .. N : RootOrder[n] \in Root
  BY OrderAssumption
<1>2. 0 \in T
  BY HealingUnfolds, StartIsSound
<1>3. ASSUME NEW n \in Nat, n \in T
      PROVE  n + 1 \in T
  <2>. SUFFICES ASSUME n + 1 <= N
                PROVE  /\ Sound(Healing[n + 1])
                       /\ Healing[n + 1].ok =>
                            \A k \in 1 .. n + 1 : Caught(Healing[n + 1], RootOrder[k])
    OBVIOUS
  <2>. DEFINE r == RootOrder[n + 1]
              st == Healing[n]
  <2>1. Sound(st) /\ (st.ok => \A k \in 1 .. n : Caught(st, RootOrder[k]))
    BY <1>1, <1>3
  <2>2. n + 1 \in 1 .. N /\ r \in Root
    BY <1>1
  <2>3. Healing[n + 1] = Heal(st, r)
    <3>1. Healing[n + 1] = Heal(Healing[(n + 1) - 1], r)
      BY <2>2, HealingUnfolds
    <3>. QED
      BY <3>1
  <2>4. Sound(Heal(st, r)) /\ (Heal(st, r).ok =>
          /\ st.ok /\ Caught(Heal(st, r), r)
          /\ \A q \in Root \ {r} : Heal(st, r).paths[q] = st.paths[q])
    <3>. HIDE DEF st, r
    <3>. QED
      BY <2>1, <2>2, HealStep
  <2>5. ASSUME Heal(st, r).ok, NEW k \in 1 .. n + 1
        PROVE  Caught(Heal(st, r), RootOrder[k])
    <3>1. CASE RootOrder[k] = r
      BY <2>4, <2>5, <3>1
    <3>2. CASE RootOrder[k] # r
      <4>1. k \in 1 .. n /\ RootOrder[k] \in Root \ {r}
        BY <1>1, <3>2
      <4>. HIDE DEF st, r
      <4>. QED
        BY <2>1, <2>4, <2>5, <4>1 DEF Caught
    <3>. QED
      BY <3>1, <3>2
  <2>. QED
    BY <2>3, <2>4, <2>5
<1>4. N \in T
  <2>. HIDE DEF T
  <2>. QED
    BY <1>1, <1>2, <1>3, SetInduction
<1>5. Sound(Healed) /\ (Healed.ok => \A k \in 1 .. N : Caught(Healed, RootOrder[k]))
  BY <1>1, <1>4 DEF Healed
<1>6. ASSUME Healed.ok, NEW v \in Volume, at[v] # None
      PROVE  Healed.paths[v] = at[v]
  <2>1. PICK k \in 1 .. N : RootOrder[k] = v
    BY OrderAssumption DEF Root
  <2>. QED
    BY <1>5, <1>6, <2>1 DEF Caught
<1>. QED
  BY <1>5, <1>6

-----------------------------------------------------------------------------
\* At first.

FirstRow(e) ==
    [path |-> <<rootPath[e[1]], e[2]>>, root |-> e[1],
     file |-> FirstTree[e], stamp |-> 0, shown |-> <<FirstTree[e], 0>>,
     thumb |-> ThumbKey(FirstTree[e], 0),
     seen |-> FALSE, missing |-> FALSE, excluded |-> FALSE]
FirstRows == {FirstRow(e) : e \in Scanned}

LEMMA FirstPaths ==
    ASSUME Init
    PROVE  rootPath \in [Root -> Dir] /\ \A q, r \in Root : rootPath[q] = rootPath[r] => q = r
<1>1. \A v \in Volume : FirstMount[v] \in MountPoint /\ FirstMount[v] \notin HomeDir
  BY MountAssumption
<1>2. \A r \in Root : rootPath[r] = IF r \in Volume THEN FirstMount[r] ELSE r
  BY DEF Init
<1>3. \A r \in Root : rootPath[r] \in Dir
  BY <1>1, <1>2 DEF Root, Dir
<1>4. \A q, r \in Root : rootPath[q] = rootPath[r] => q = r
  BY <1>1, <1>2, MountAssumption DEF Root
<1>. QED
  BY <1>3, <1>4 DEF Init

LEMMA FirstRowsFacts ==
    ASSUME Init
    PROVE  /\ IsFiniteSet(FirstRows) /\ FirstRows \subseteq Rows
           /\ \A x, y \in FirstRows : x.path = y.path => x = y
           /\ \A x \in FirstRows : /\ x.stamp = 0 /\ x.shown = <<x.file, 0>>
                                   /\ x.thumb = <<x.file, 0>> /\ ~x.seen
<1>1. 0 \in Stamp
  BY BoundAssumption DEF Stamp
<1>2. ASSUME NEW e \in Scanned
      PROVE  /\ e \in Root \X Name /\ FirstTree[e] \in File /\ FirstRow(e) \in Rows
  <2>1. e \in Root \X Name /\ FirstTree[e] \in File
    BY ScannedAssumption, TreeAssumption
  <2>2. <<rootPath[e[1]], e[2]>> \in Path /\ e[1] \in Root
    BY <2>1, FirstPaths DEF Path
  <2>3. <<FirstTree[e], 0>> \in File \X Stamp
    BY <1>1, <2>1
  <2>. QED
    BY <1>1, <2>1, <2>2, <2>3 DEF FirstRow, Rows, ThumbKey
<1>3. FirstRows \subseteq Rows
  BY <1>2 DEF FirstRows
<1>4. ASSUME NEW d \in Scanned, NEW e \in Scanned, FirstRow(d).path = FirstRow(e).path
      PROVE  d = e
  <2>1. rootPath[d[1]] = rootPath[e[1]] /\ d[2] = e[2]
    BY <1>4 DEF FirstRow
  <2>2. d[1] = e[1]
    BY <1>2, <2>1, FirstPaths
  <2>. QED
    BY <1>2, <2>1, <2>2
<1>5. IsFiniteSet(FirstRows)
  <2>. DEFINE f == [e \in Scanned |-> FirstRow(e)]
  <2>1. f \in Surjection(Scanned, FirstRows)
    BY DEF Surjection, FirstRows
  <2>. HIDE DEF f
  <2>. QED
    BY <2>1, ScannedAssumption, FS_Surjection
<1>6. \A x, y \in FirstRows : x.path = y.path => x = y
  BY <1>4 DEF FirstRows
<1>7. \A x \in FirstRows : /\ x.stamp = 0 /\ x.shown = <<x.file, 0>>
                           /\ x.thumb = <<x.file, 0>> /\ ~x.seen
  BY DEF FirstRows, FirstRow, ThumbKey
<1>. QED
  BY <1>3, <1>5, <1>6, <1>7

LEMMA FirstTables ==
    ASSUME Init
    PROVE  /\ rows \in Seq(Rows) /\ \A i \in Ids : rows[i] \in FirstRows
           /\ \A i, j \in Ids : rows[i].path = rows[j].path => i = j
           /\ thumbs \in Seq(Pictures)
           /\ \A i \in DOMAIN thumbs : thumbs[i].pixels = thumbs[i].key
           /\ \A i \in Ids : Held(thumbs, rows[i].thumb)
<1>1. rows = SetToSeq(FirstRows)
  BY DEF Init, FirstRows, FirstRow
<1>2. rows \in Seq(FirstRows) /\ \A i, j \in Ids : rows[i] = rows[j] => i = j
  BY <1>1, FirstRowsFacts, SequenceOfSet DEF Ids
<1>3. rows \in Seq(Rows) /\ \A i \in Ids : rows[i] \in FirstRows
  BY <1>2, FirstRowsFacts DEF Ids
<1>4. \A i, j \in Ids : rows[i].path = rows[j].path => i = j
  BY <1>2, <1>3, FirstRowsFacts
<1>. DEFINE P == {[key |-> rows[i].thumb, pixels |-> rows[i].thumb] : i \in Ids}
<1>5. IsFiniteSet(P)
  <2>. DEFINE f == [i \in Ids |-> [key |-> rows[i].thumb, pixels |-> rows[i].thumb]]
  <2>1. f \in Surjection(Ids, P)
    BY DEF Surjection
  <2>3. Len(rows) \in Nat /\ Ids = 1 .. Len(rows)
    BY <1>3 DEF Ids
  <2>4. IsFiniteSet(Ids)
    BY <2>3, FS_Interval
  <2>. HIDE DEF P, f
  <2>. QED
    BY <2>1, <2>4, FS_Surjection
<1>6. \A x \in P : x \in Pictures /\ x.pixels = x.key
  <2>1. \A i \in Ids : rows[i].thumb \in Versions
    <3>1. 0 \in Stamp
      BY BoundAssumption DEF Stamp
    <3>2. \A x \in FirstRows : x.file \in File /\ x.thumb = <<x.file, 0>>
      BY FirstRowsFacts DEF Rows
    <3>3. \A x \in FirstRows : x.thumb \in Versions
      BY <3>1, <3>2 DEF Versions
    <3>. QED
      BY <1>3, <3>3
  <2>. QED
    BY <2>1 DEF Pictures
<1>7. /\ thumbs \in Seq(P) /\ DOMAIN thumbs = 1 .. Cardinality(P)
      /\ Cardinality(P) \in Nat /\ \A i \in DOMAIN thumbs : thumbs[i] \in P
      /\ \A x \in P : \E i \in DOMAIN thumbs : thumbs[i] = x
  <2>1. thumbs = SetToSeq(P)
    BY DEF Init
  <2>. HIDE DEF P
  <2>. QED
    BY <1>5, <2>1, SequenceOfSet
<1>8. thumbs \in Seq(Pictures) /\ \A i \in DOMAIN thumbs : thumbs[i].pixels = thumbs[i].key
  BY <1>6, <1>7
<1>9. \A i \in Ids : Held(thumbs, rows[i].thumb)
  <2>. TAKE i \in Ids
  <2>1. PICK k \in DOMAIN thumbs : thumbs[k] = [key |-> rows[i].thumb, pixels |-> rows[i].thumb]
    BY <1>7
  <2>. QED
    BY <2>1 DEF Held
<1>. QED
  BY <1>3, <1>4, <1>8, <1>9

LEMMA InitTypes == Init => TypeInv
<1>. SUFFICES ASSUME Init PROVE TypeInv
  OBVIOUS
<1>1. tree \in [Place -> File \cup {None}]
  BY TreeAssumption DEF Init
<1>2. stamp \in [File -> Stamp] /\ CountInv
  BY BoundAssumption DEF Init, Stamp, CountInv
<1>3. at \in [Volume -> MountPoint \cup {None}]
  BY MountAssumption DEF Init
<1>4. TypeOK
  BY <1>1, <1>2, <1>3, FirstPaths, FirstTables DEF TypeOK, Init
<1>5. KnownInv
  <2>1. known = <<>> /\ known \in Seq(Rows) /\ DOMAIN known = {}
    BY DEF Init
  <2>. QED
    BY <2>1 DEF KnownInv
<1>6. ItemInv /\ FlagInv
  BY DEF Init, ItemInv, FlagInv
<1>7. \A r \in HomeDir : rootPath[r] = r
  BY NameAssumption DEF Init, Root
<1>. QED
  BY <1>2, <1>4, <1>5, <1>6, <1>7, FirstTables DEF TypeInv, Init

LEMMA InitFresh == Init => FreshInv
<1>. SUFFICES ASSUME Init PROVE FreshInv
  OBVIOUS
<1>1. TypeOK
  BY InitTypes DEF TypeInv
<1>2. \A f \in File : stamp[f] = 0 /\ changes = 0
  BY DEF Init
<1>3. ASSUME NEW i \in Ids
      PROVE  /\ Fresh(Key(rows[i]), rows[i].shown, rows[i].thumb, stamp)
             /\ Kept(rows[i].thumb, thumbs, evicted)
  <2>1. rows[i] \in FirstRows /\ rows[i] \in Rows
    BY <1>1, FirstTables, RowsFacts
  <2>2. /\ rows[i].stamp = 0 /\ rows[i].shown = <<rows[i].file, 0>>
        /\ rows[i].thumb = <<rows[i].file, 0>> /\ stamp[rows[i].file] = 0
    BY <1>2, <2>1, FirstRowsFacts DEF Rows
  <2>3. Held(thumbs, rows[i].thumb)
    BY FirstTables
  <2>. QED
    BY <2>2, <2>3 DEF Fresh, Key, Between, Kept
<1>4. \A f \in File : stamp[f] <= changes
  BY <1>2
<1>5. items = {} /\ \A i \in DOMAIN thumbs : thumbs[i].pixels = thumbs[i].key
  BY FirstTables DEF Init
<1>. QED
  BY <1>3, <1>4, <1>5 DEF FreshInv

LEMMA InitWalk == Init => WalkInv
<1>. SUFFICES ASSUME Init PROVE WalkInv
  OBVIOUS
<1>1. \A i \in Ids : ~rows[i].seen
  BY FirstTables, FirstRowsFacts
<1>. QED
  BY <1>1 DEF Init, WalkInv, NoneSeen, QuietInv, VisibleIsThere, Ended

-----------------------------------------------------------------------------
\* Types: every action leaves them.

ScanUnchanged == UNCHANGED <<pc, left, offline, matcher, known, todo, met, failed, items>>

LEMMA KnownStays ==
    ASSUME KnownInv, UNCHANGED known, Ids \subseteq Ids'
    PROVE  KnownInv'
BY DEF KnownInv

LEMMA ItemsStay ==
    ASSUME ItemInv, UNCHANGED <<items, known>>
    PROVE  ItemInv'
BY DEF ItemInv, Items, Versions, Whole

\* The rows are rows, of the same ids, with the same paths.
LEMMA TypesOfFlagged ==
    ASSUME TypeOK, NEW new, new \in [Ids -> Rows],
           \A i \in Ids : new[i].path = rows[i].path
    PROVE  /\ new \in Seq(Rows) /\ DOMAIN new = Ids
           /\ \A i, j \in DOMAIN new : new[i].path = new[j].path => i = j
<1>1. \A f \in [Ids -> Rows] : f \in Seq(Rows) /\ DOMAIN f = Ids
  BY RowsFacts
<1>. QED
  BY <1>1 DEF TypeOK

LEMMA ChangeTypes ==
    ASSUME TypeInv, Change
    PROVE  /\ CountInv' /\ changes' \in Stamp /\ quiet' \in BOOLEAN
           /\ changes' = changes + 1
           /\ ScanUnchanged /\ UNCHANGED <<thumbs, spoilt, evicted>>
<1>1. changes \in Nat /\ changes < MaxChanges /\ changes' = changes + 1
  BY DEF TypeInv, CountInv, Change
<1>2. MaxChanges \in Nat
  BY BoundAssumption
<1>3. CountInv' /\ changes' \in Stamp
  BY <1>1, <1>2 DEF CountInv, Stamp
<1>4. quiet' = FALSE /\ UNCHANGED <<scan, cache>>
  BY DEF Change
<1>5. ScanUnchanged /\ UNCHANGED <<thumbs, spoilt, evicted>>
  BY <1>4 DEF ScanUnchanged, scan, pass, cache
<1>. QED
  BY <1>1, <1>3, <1>4, <1>5

\* The disk, the mounts and the page leave the scan alone.
LEMMA WorldTypes ==
    ASSUME TypeInv, ScanUnchanged, UNCHANGED <<rootPath, rows, thumbs>>, CountInv', FlagInv',
           tree' \in [Place -> File \cup {None}], stamp' \in [File -> Stamp],
           at' \in [Volume -> MountPoint \cup {None}]
    PROVE  TypeInv'
<1>1. TypeOK'
  BY DEF TypeInv, TypeOK, ScanUnchanged, Ids
<1>2. KnownInv' /\ ItemInv'
  BY KnownStays, ItemsStay DEF TypeInv, ScanUnchanged, Ids
<1>. QED
  BY <1>1, <1>2 DEF TypeInv, ScanUnchanged

LEMMA DiskTypes ==
    ASSUME TypeInv
    PROVE  /\ \A e \in Place, f \in File : Create(e, f) => TypeInv'
           /\ \A d, e \in Place : Rename(d, e) \/ HardLink(d, e) => TypeInv'
           /\ \A e \in Place : Delete(e) => TypeInv'
           /\ \A f \in File : Edit(f) => TypeInv'
           /\ \A v \in Volume, m \in MountPoint \cup {None} : Remount(v, m) => TypeInv'
<1>0. /\ tree \in [Place -> File \cup {None}] /\ stamp \in [File -> Stamp]
      /\ at \in [Volume -> MountPoint \cup {None}] /\ FlagInv
  BY DEF TypeInv, TypeOK
<1>1. ASSUME NEW e \in Place, NEW f \in File, Create(e, f) PROVE TypeInv'
  <2>1. Change /\ UNCHANGED <<at, rootPath, rows, rule, due>> /\ settled' \in BOOLEAN
    BY <1>0, <1>1 DEF Create, FlagInv
  <2>2. tree' \in [Place -> File \cup {None}] /\ stamp' \in [File -> Stamp]
    BY <1>0, <1>1, <2>1, ChangeTypes DEF Create
  <2>. QED
    BY <1>0, <2>1, <2>2, ChangeTypes, WorldTypes DEF FlagInv, ScanUnchanged
<1>2. ASSUME NEW d \in Place, NEW e \in Place, Rename(d, e) PROVE TypeInv'
  <2>1. Change /\ UNCHANGED <<stamp, at, rootPath, rows, rule, due>> /\ settled' \in BOOLEAN
    BY <1>0, <1>2 DEF Rename, FlagInv
  <2>2. tree' \in [Place -> File \cup {None}]
    BY <1>0, <1>2 DEF Rename
  <2>. QED
    BY <1>0, <2>1, <2>2, ChangeTypes, WorldTypes DEF FlagInv, ScanUnchanged
<1>3. ASSUME NEW d \in Place, NEW e \in Place, HardLink(d, e) PROVE TypeInv'
  <2>1. Change /\ UNCHANGED <<stamp, at, rootPath, rows, rule, due>> /\ settled' \in BOOLEAN
    BY <1>0, <1>3 DEF HardLink, FlagInv
  <2>2. tree' \in [Place -> File \cup {None}]
    BY <1>0, <1>3 DEF HardLink
  <2>. QED
    BY <1>0, <2>1, <2>2, ChangeTypes, WorldTypes DEF FlagInv, ScanUnchanged
<1>4. ASSUME NEW e \in Place, Delete(e) PROVE TypeInv'
  <2>1. Change /\ UNCHANGED <<stamp, at, rootPath, rows, rule, due>> /\ settled' \in BOOLEAN
    BY <1>0, <1>4 DEF Delete, FlagInv
  <2>2. tree' \in [Place -> File \cup {None}]
    BY <1>0, <1>4 DEF Delete
  <2>. QED
    BY <1>0, <2>1, <2>2, ChangeTypes, WorldTypes DEF FlagInv, ScanUnchanged
<1>5. ASSUME NEW f \in File, Edit(f) PROVE TypeInv'
  <2>1. Change /\ UNCHANGED <<tree, at, rootPath, rows, rule, due>> /\ settled' \in BOOLEAN
    BY <1>0, <1>5 DEF Edit, FlagInv
  <2>2. stamp' \in [File -> Stamp]
    BY <1>0, <1>5, <2>1, ChangeTypes DEF Edit
  <2>. QED
    BY <1>0, <2>1, <2>2, ChangeTypes, WorldTypes DEF FlagInv, ScanUnchanged
<1>6. ASSUME NEW v \in Volume, NEW m \in MountPoint \cup {None}, Remount(v, m) PROVE TypeInv'
  <2>1. CountInv'
    BY <1>6, BoundAssumption DEF Remount, TypeInv, CountInv
  <2>2. at' \in [Volume -> MountPoint \cup {None}]
    BY <1>0, <1>6 DEF Remount
  <2>3. FlagInv' /\ ScanUnchanged /\ UNCHANGED <<tree, stamp, rootPath, rows, thumbs>>
    BY <1>0, <1>6 DEF Remount, FlagInv, ScanUnchanged, scan, pass, cache
  <2>. QED
    BY <1>0, <2>1, <2>2, <2>3, WorldTypes
<1>. QED
  BY <1>1, <1>2, <1>3, <1>4, <1>5, <1>6

\* A step that only flags or marks rows, or moves on in the list of roots.
LEMMA FlagTypes ==
    ASSUME TypeInv, UNCHANGED <<world, rootPath, offline, thumbs>>, CountInv', FlagInv',
           rows' \in [Ids -> Rows], \A i \in Ids : rows'[i].path = rows[i].path,
           UNCHANGED <<known, items>> \/ (known' = <<>> /\ items' = {}),
           left' \subseteq Root, pc' \in {"idle", "reconciled", "load", "walk"},
           pc' = "walk" => left' # {}, todo' \subseteq Name, met' \subseteq File
    PROVE  TypeInv'
<1>1. /\ rows' \in Seq(Rows) /\ DOMAIN rows' = Ids
      /\ \A i, j \in DOMAIN rows' : rows'[i].path = rows'[j].path => i = j
  BY TypesOfFlagged DEF TypeInv
<1>2. Ids' = Ids
  BY <1>1 DEF Ids
<1>3. TypeOK'
  BY <1>1 DEF TypeInv, TypeOK, Ids, world
<1>4. KnownInv' /\ ItemInv'
  <2>1. CASE UNCHANGED <<known, items>>
    BY <1>2, <2>1, KnownStays, ItemsStay DEF TypeInv
  <2>2. CASE known' = <<>> /\ items' = {}
    BY <2>2 DEF KnownInv, ItemInv
  <2>. QED
    BY <2>1, <2>2
<1>. QED
  BY <1>3, <1>4 DEF TypeInv, world

LEMMA FlaggedRows ==
    ASSUME TypeInv, NEW b \in [Ids -> BOOLEAN]
    PROVE  /\ [i \in Ids |-> [rows[i] EXCEPT !.excluded = b[i]]] \in [Ids -> Rows]
           /\ [i \in Ids |-> [rows[i] EXCEPT !.seen = b[i]]] \in [Ids -> Rows]
           /\ \A i \in Ids : /\ [rows[i] EXCEPT !.excluded = b[i]].path = rows[i].path
                             /\ [rows[i] EXCEPT !.seen = b[i]].path = rows[i].path
<1>1. \A i \in Ids : rows[i] \in Rows
  BY RowsFacts DEF TypeInv
<1>. QED
  BY <1>1, RowFlags DEF Rows

LEMMA MarkedRows ==
    ASSUME TypeOK, NEW ids
    PROVE  /\ MarkedMissing(ids) \in [Ids -> Rows]
           /\ \A i \in Ids : /\ MarkedMissing(ids)[i].path = rows[i].path
                             /\ MarkedMissing(ids)[i].root = rows[i].root
                             /\ MarkedMissing(ids)[i].file = rows[i].file
                             /\ MarkedMissing(ids)[i].stamp = rows[i].stamp
                             /\ MarkedMissing(ids)[i].shown = rows[i].shown
                             /\ MarkedMissing(ids)[i].thumb = rows[i].thumb
                             /\ MarkedMissing(ids)[i].seen = rows[i].seen
                             /\ MarkedMissing(ids)[i].excluded = rows[i].excluded
                             /\ (MarkedMissing(ids)[i].missing <=> i \in ids \/ rows[i].missing)
<1>1. \A i \in Ids : rows[i] \in Rows /\ [rows[i] EXCEPT !.missing = TRUE] \in Rows
  BY RowsFacts, RowFlags
<1>2. ASSUME NEW i \in Ids, i \in ids
      PROVE  MarkedMissing(ids)[i] = [rows[i] EXCEPT !.missing = TRUE]
  BY <1>2 DEF MarkedMissing
<1>6. \A r \in Rows : LET m == [r EXCEPT !.missing = TRUE] IN
        /\ m.path = r.path /\ m.root = r.root /\ m.file = r.file
        /\ m.stamp = r.stamp /\ m.shown = r.shown /\ m.thumb = r.thumb
        /\ m.seen = r.seen /\ m.excluded = r.excluded /\ m.missing
  BY DEF Rows
<1>3. ASSUME NEW i \in Ids, i \notin ids
      PROVE  MarkedMissing(ids)[i] = rows[i]
  BY <1>3 DEF MarkedMissing
<1>4. MarkedMissing(ids) \in [Ids -> Rows]
  BY <1>1 DEF MarkedMissing
<1>5. ASSUME NEW i \in Ids
      PROVE  LET m == MarkedMissing(ids)[i] IN
             /\ m.path = rows[i].path /\ m.root = rows[i].root /\ m.file = rows[i].file
             /\ m.stamp = rows[i].stamp /\ m.shown = rows[i].shown /\ m.thumb = rows[i].thumb
             /\ m.seen = rows[i].seen /\ m.excluded = rows[i].excluded
             /\ (m.missing <=> i \in ids \/ rows[i].missing)
  <2>1. CASE i \in ids
    BY <1>1, <1>2, <1>6, <2>1
  <2>2. CASE i \notin ids
    BY <1>1, <1>3, <2>2
  <2>. QED
    BY <2>1, <2>2
<1>. QED
  BY <1>4, <1>5

LEMMA EndScanTypes ==
    ASSUME TypeInv, EndScan
    PROVE  /\ rows' \in [Ids -> Rows] /\ \A i \in Ids : rows'[i].path = rows[i].path
           /\ known' = <<>> /\ items' = {} /\ left' = {} /\ pc' = "idle"
           /\ todo' = {} /\ met' = {} /\ failed' = FALSE /\ matcher' = FALSE
<1>. DEFINE b == [i \in Ids |-> FALSE]
<1>1. b \in [Ids -> BOOLEAN] /\ rows' = [i \in Ids |-> [rows[i] EXCEPT !.seen = b[i]]]
  BY DEF EndScan
<1>2. rows' \in [Ids -> Rows] /\ \A i \in Ids : rows'[i].path = rows[i].path
  <2>. HIDE DEF b
  <2>. QED
    BY <1>1, FlaggedRows
<1>. QED
  BY <1>2 DEF EndScan

LEMMA RuleTypes == ASSUME TypeInv, AddRule \/ RemoveRule \/ Reapply PROVE TypeInv'
<1>0. FlagInv /\ CountInv
  BY DEF TypeInv
<1>1. CASE AddRule
  <2>1. Change /\ UNCHANGED <<world, rootPath, rows, settled>> /\ rule' = TRUE /\ due' = TRUE
    BY <1>1 DEF AddRule
  <2>. QED
    BY <1>0, <2>1, ChangeTypes, WorldTypes DEF FlagInv, ScanUnchanged, world, TypeInv, TypeOK
<1>2. CASE RemoveRule
  <2>. DEFINE b == [i \in Ids |-> FALSE]
  <2>1. /\ Change /\ UNCHANGED <<world, rootPath, settled>> /\ rule' = FALSE /\ due' = TRUE
        /\ b \in [Ids -> BOOLEAN] /\ rows' = [i \in Ids |-> [rows[i] EXCEPT !.excluded = b[i]]]
    BY <1>2 DEF RemoveRule
  <2>2. rows' \in [Ids -> Rows] /\ \A i \in Ids : rows'[i].path = rows[i].path
    <3>. HIDE DEF b
    <3>. QED
      BY <2>1, FlaggedRows
  <2>3. CountInv' /\ FlagInv' /\ ScanUnchanged /\ UNCHANGED thumbs
    BY <1>0, <2>1, ChangeTypes DEF FlagInv, ScanUnchanged
  <2>. QED
    BY <2>1, <2>2, <2>3, FlagTypes DEF ScanUnchanged, TypeInv, TypeOK
<1>3. CASE Reapply
  <2>. DEFINE b == [i \in Ids |-> rule /\ rows[i].path \in Hidden]
  <2>1. b \in [Ids -> BOOLEAN] /\ rows' = [i \in Ids |-> [rows[i] EXCEPT !.excluded = b[i]]]
    BY <1>0, <1>3 DEF Reapply, Flagged, FlagInv
  <2>2. rows' \in [Ids -> Rows] /\ \A i \in Ids : rows'[i].path = rows[i].path
    <3>. HIDE DEF b
    <3>. QED
      BY <2>1, FlaggedRows
  <2>3. CountInv' /\ FlagInv' /\ ScanUnchanged /\ UNCHANGED <<world, rootPath, thumbs>>
    BY <1>0, <1>3 DEF Reapply, FlagInv, CountInv, ScanUnchanged, scan, pass, cache
  <2>. QED
    BY <2>2, <2>3, FlagTypes DEF ScanUnchanged, TypeInv, TypeOK
<1>. QED
  BY <1>1, <1>2, <1>3

\* The job of the volumes moves roots and rows to paths no other has.
LEMMA ReconcileTypes == ASSUME TypeInv, Reconcile PROVE TypeInv'
<1>0. FlagInv /\ CountInv /\ TypeOK
  BY DEF TypeInv
<1>1. CountInv' /\ ItemInv' /\ UNCHANGED <<world, left, thumbs, todo, met, known>>
  BY <1>0, ItemsStay DEF Reconcile, CountInv, pass, cache, TypeInv
<1>2. offline' \subseteq Volume
  BY DEF Reconcile, Unmounted
<1>3. Healed.ok \in BOOLEAN
  BY <1>0, HealedIsSound DEF Sound, Tables
<1>4. FlagInv'
  BY <1>0, <1>3 DEF Reconcile, FlagInv, pass
<1>5. /\ rootPath' \in [Root -> Dir] /\ rows' \in [Ids -> Rows]
      /\ \A i, j \in Ids : rows'[i].path = rows'[j].path => i = j
      /\ \A q, r \in Root : rootPath'[q] = rootPath'[r] => q = r
      /\ pc' \in {"idle", "reconciled"}
      /\ \A r \in HomeDir : rootPath'[r] = r
  <2>1. CASE Healed.ok
    BY <1>0, <2>1, HealedIsSound DEF Reconcile, Sound, Tables, TypeInv
  <2>2. CASE ~Healed.ok
    BY <1>0, <2>2, RowsFacts DEF Reconcile, TypeOK, TypeInv
  <2>. QED
    BY <2>1, <2>2
<1>6. rows' \in Seq(Rows) /\ Ids' = Ids
  BY <1>0, <1>5, RowsFacts DEF Ids
<1>7. KnownInv'
  BY <1>1, <1>6, KnownStays DEF TypeInv
<1>8. TypeOK'
  BY <1>0, <1>1, <1>5, <1>6 DEF TypeOK, world
<1>. QED
  BY <1>1, <1>2, <1>4, <1>5, <1>7, <1>8 DEF TypeInv

LEMMA RootTypes ==
    ASSUME TypeInv
    PROVE  /\ \A wanted \in Requests : Begin(wanted) => TypeInv'
           /\ SkipOffline => TypeInv'
           /\ LoadKnown => TypeInv'
           /\ Sweep => TypeInv'
<1>0. FlagInv /\ CountInv /\ TypeOK /\ left \subseteq Root
      /\ todo \subseteq Name /\ met \subseteq File
  BY DEF TypeInv, TypeOK
<1>1. ASSUME NEW wanted \in Requests, Begin(wanted) PROVE TypeInv'
  <2>1. wanted \subseteq Root
    BY RequestAssumption
  <2>2. /\ CountInv' /\ FlagInv' /\ left' = wanted /\ pc' = "load"
        /\ UNCHANGED <<world, rootPath, rows, offline, thumbs, known, items, todo, met>>
    BY <1>0, <1>1 DEF Begin, CountInv, FlagInv, pass, cache
  <2>3. rows' \in [Ids -> Rows] /\ \A i \in Ids : rows'[i].path = rows[i].path
    BY <1>0, <2>2, RowsFacts
  <2>. QED
    BY <1>0, <2>1, <2>2, <2>3, FlagTypes
<1>2. ASSUME SkipOffline PROVE TypeInv'
  <2>1. /\ CountInv' /\ FlagInv' /\ left' \subseteq left /\ pc' = "load"
        /\ UNCHANGED <<world, rootPath, offline, thumbs, known, items, todo, met>>
    BY <1>0, <1>2 DEF SkipOffline, CountInv, FlagInv, pass, cache
  <2>2. rows' \in [Ids -> Rows] /\ \A i \in Ids : rows'[i].path = rows[i].path
    BY <1>0, <1>2, MarkedRows DEF SkipOffline
  <2>. QED
    BY <1>0, <2>1, <2>2, FlagTypes
<1>3. ASSUME LoadKnown PROVE TypeInv'
  <2>1. /\ CountInv' /\ items' = {} /\ met' = {} /\ pc' = "walk"
        /\ UNCHANGED <<world, rootPath, rows, offline, left, thumbs>> /\ known' = rows
    BY <1>0, <1>3 DEF LoadKnown, CountInv, cache
  <2>2. failed' \in BOOLEAN /\ todo' \subseteq Name /\ left # {}
    BY <1>3 DEF LoadKnown
  <2>3. FlagInv'
    BY <1>0, <1>3, <2>2 DEF LoadKnown, FlagInv
  <2>4. KnownInv' /\ ItemInv'
    BY <1>0, <2>1 DEF KnownInv, ItemInv, TypeOK, Ids
  <2>5. TypeOK'
    BY <1>0, <2>1, <2>2 DEF TypeOK, Ids, world
  <2>. QED
    BY <2>1, <2>2, <2>3, <2>4, <2>5 DEF TypeInv
<1>4. ASSUME Sweep PROVE TypeInv'
  <2>1. /\ CountInv' /\ FlagInv' /\ left' \subseteq left /\ pc' = "load" /\ met' = {}
        /\ UNCHANGED <<world, rootPath, offline, thumbs, todo>> /\ known' = <<>> /\ items' = {}
    BY <1>0, <1>4 DEF Sweep, CountInv, FlagInv, cache
  <2>2. rows' \in [Ids -> Rows] /\ \A i \in Ids : rows'[i].path = rows[i].path
    BY <1>0, <1>4, MarkedRows, RowsFacts DEF Sweep
  <2>. QED
    BY <1>0, <2>1, <2>2, FlagTypes
<1>. QED
  BY <1>1, <1>2, <1>3, <1>4

\* An item that is met, or goes on to its next step.
LEMMA ItemTypes ==
    ASSUME TypeInv, UNCHANGED <<world, rootPath, rows, rule, due, pc, left, offline, matcher,
                                known, failed, changes, quiet, settled>>,
           items' \subseteq Items,
           \A it \in items' : Whole(it),
           todo' \subseteq Name, met' \subseteq File, thumbs' \in Seq(Pictures)
    PROVE  TypeInv'
<1>1. TypeOK'
  BY DEF TypeInv, TypeOK, world, Ids
<1>2. KnownInv' /\ FlagInv' /\ CountInv'
  BY KnownStays DEF TypeInv, FlagInv, CountInv, Ids
<1>3. ItemInv'
  BY DEF ItemInv, Items, Versions, Whole
<1>. QED
  BY <1>1, <1>2, <1>3 DEF TypeInv

LEMMA WalkTypes ==
    ASSUME TypeInv
    PROVE  /\ \A n \in Name : Visit(n) => TypeInv'
           /\ FailDir => TypeInv'
<1>0. /\ todo \subseteq Name /\ met \subseteq File /\ items \subseteq Items
      /\ thumbs \in Seq(Pictures) /\ left \subseteq Root /\ TypeOK /\ KnownInv
      /\ \A it \in items : Whole(it)
  BY DEF TypeInv, TypeOK, ItemInv
<1>1. ASSUME NEW n \in Name, Visit(n) PROVE TypeInv'
  <2>. DEFINE p == <<rootPath[This], n>>
              f == FileAt(p)
  <2>1. left # {} /\ This \in Root
    BY <1>0, <1>1, ThisIsLeft DEF Visit, TypeInv
  <2>2. p \in Path
    BY <1>0, <2>1 DEF Path, TypeOK
  <2>3. f \in File \cup {None}
    BY <1>0, <2>2, FileAtType
  <2>4. f # None => Item(p, f) \in Items /\ Whole(Item(p, f))
    <3>1. SUFFICES ASSUME f # None
                   PROVE  Item(p, f) \in Items /\ Whole(Item(p, f))
      OBVIOUS
    <3>2. f \in File
      BY <2>3, <3>1
    <3>. HIDE DEF f, p
    <3>. QED
      BY <1>0, <2>2, <3>2, ItemType, MovedFromType DEF Whole
  <2>5. \/ /\ f # None /\ met' = met \cup {f} /\ items' = items \cup {Item(p, f)}
        \/ UNCHANGED <<met, items>>
    BY <1>1 DEF Visit
  <2>6. /\ items' \subseteq Items /\ met' \subseteq File
        /\ \A it \in items' : Whole(it)
    <3>. HIDE DEF f, p
    <3>. QED
      BY <1>0, <2>3, <2>4, <2>5
  <2>7. /\ todo' \subseteq Name /\ thumbs' = thumbs
        /\ UNCHANGED <<world, rootPath, rows, rule, due, pc, left, offline, matcher,
                       known, failed, changes, quiet, settled>>
    BY <1>0, <1>1 DEF Visit, cache
  <2>. QED
    BY <1>0, <2>6, <2>7, ItemTypes
<1>2. ASSUME FailDir PROVE TypeInv'
  <2>1. /\ todo' = {} /\ failed' = TRUE /\ quiet' = FALSE
        /\ UNCHANGED <<world, rootPath, rows, rule, due, pc, left, offline, matcher, known,
                       met, items, changes, settled, thumbs>>
    BY <1>2 DEF FailDir, cache
  <2>2. FlagInv' /\ CountInv'
    BY <2>1 DEF TypeInv, FlagInv, CountInv
  <2>3. rows' \in [Ids -> Rows] /\ \A i \in Ids : rows'[i].path = rows[i].path
    BY <1>0, <2>1, RowsFacts
  <2>. QED
    BY <1>0, <2>1, <2>2, <2>3, FlagTypes DEF TypeInv, TypeOK
<1>. QED
  BY <1>1, <1>2

\* The probe of an item keeps its path and where it came from.
LEMMA ProbedTypes ==
    ASSUME TypeInv, NEW it \in items, NEW next \in Items, Probed(it, next),
           next.kind \notin {"moved", "candidate"}, next.kind = "decoded" => next.shown # None,
           thumbs' \in Seq(Pictures)
    PROVE  TypeInv'
<1>1. /\ items' = (items \ {it}) \cup {next}
      /\ UNCHANGED <<world, rootPath, rows, rule, due, pc, left, offline, matcher,
                     known, todo, met, failed, changes, quiet, settled>>
  BY DEF Probed
<1>2. items' \subseteq Items /\ \A jt \in items' : Whole(jt)
  BY <1>1 DEF TypeInv, ItemInv, Whole
<1>. QED
  BY <1>1, <1>2, ItemTypes DEF TypeInv, TypeOK

LEMMA StoredCache ==
    ASSUME thumbs \in Seq(Pictures), NEW key \in Versions, NEW pixels \in Versions
    PROVE  Store(thumbs, key, pixels) \in Seq(Pictures)
<1>1. [key |-> key, pixels |-> pixels] \in Pictures
  BY DEF Pictures
<1>. QED
  BY <1>1 DEF Store

LEMMA EvictedCache ==
    ASSUME thumbs \in Seq(Pictures)
    PROVE  /\ Evict(thumbs) \in Seq(Pictures)
           /\ \A i \in DOMAIN Evict(thumbs) : \E j \in DOMAIN thumbs : Evict(thumbs)[i] = thumbs[j]
<1>. DEFINE kept == (9 * ThumbBudget) \div 10
            m == Len(thumbs) - kept + 1
<1>1. Len(thumbs) \in Nat /\ DOMAIN thumbs = 1 .. Len(thumbs)
      /\ kept \in Int /\ 0 <= kept /\ kept <= ThumbBudget
  BY BudgetAssumption
<1>2. CASE Len(thumbs) <= ThumbBudget
  BY <1>2 DEF Evict
<1>3. CASE ~(Len(thumbs) <= ThumbBudget)
  <2>1. m \in Int /\ 1 <= m
    BY <1>1, <1>3, BudgetAssumption
  <2>2. \A i \in m .. Len(thumbs) : thumbs[i] \in Pictures
    BY <1>1, <2>1
  <2>. DEFINE e == SubSeq(thumbs, m, Len(thumbs))
  <2>3. e \in Seq(Pictures) /\ DOMAIN e = 1 .. Len(thumbs) - m + 1
        /\ \A i \in DOMAIN e : e[i] = thumbs[m + i - 1]
    <3>. HIDE DEF m
    <3>. QED
      BY <1>1, <2>1, <2>2
  <2>4. \A i \in DOMAIN e : m + i - 1 \in DOMAIN thumbs
    <3>. HIDE DEF m, e
    <3>. QED
      BY <1>1, <2>1, <2>3
  <2>5. Evict(thumbs) = e
    BY <1>3 DEF Evict
  <2>. HIDE DEF m, e
  <2>. QED
    BY <2>3, <2>4, <2>5
<1>. QED
  BY <1>2, <1>3

LEMMA ProbeTypes ==
    ASSUME TypeInv, NEW it \in items
    PROVE  ProbeOpens(it) \/ ProbeDecodes(it) \/ ProbeStores(it) \/ ProbeSkips(it) => TypeInv'
<1>0. /\ it \in Items /\ it.path \in Path /\ it.key \in Versions /\ it.shown \in {None} \cup Versions
      /\ thumbs \in Seq(Pictures) /\ TypeOK
      /\ it.key[1] \in File /\ \A f \in File : <<f, stamp[f]>> \in Versions
      /\ (it.kind = "decoded" => it.shown # None)
  BY DEF TypeInv, ItemInv, Items, TypeOK, Versions, Whole
<1>1. ASSUME ProbeOpens(it) PROVE TypeInv'
  <2>. DEFINE f == FileAt(it.path)
              next == IF f = None THEN [it EXCEPT !.kind = "result"]
                      ELSE [it EXCEPT !.kind = "open", !.key = <<f, stamp[f]>>]
  <2>1. f \in File \cup {None}
    BY <1>0, FileAtType
  <2>2. f # None => <<f, stamp[f]>> \in Versions
    <3>. HIDE DEF f
    <3>. QED
      BY <1>0, <2>1
  <2>3. next \in Items /\ next.kind \notin {"moved", "candidate"} /\ (next.kind = "decoded" => next.shown # None)
    <3>. HIDE DEF f
    <3>. QED
      BY <1>0, <2>2 DEF Items, Kinds
  <2>4. Probed(it, next) /\ thumbs' = thumbs
    BY <1>1 DEF ProbeOpens, cache
  <2>. HIDE DEF next
  <2>. QED
    BY <1>0, <2>3, <2>4, ProbedTypes
<1>2. ASSUME ProbeDecodes(it) PROVE TypeInv'
  <2>. DEFINE next == [it EXCEPT !.kind = "decoded", !.shown = <<it.key[1], stamp[it.key[1]]>>]
  <2>1. next \in Items /\ next.kind \notin {"moved", "candidate"} /\ (next.kind = "decoded" => next.shown # None)
    BY <1>0, NoFile DEF Items, Kinds
  <2>2. Probed(it, next) /\ thumbs' = thumbs
    BY <1>2 DEF ProbeDecodes, cache
  <2>. HIDE DEF next
  <2>. QED
    BY <1>0, <2>1, <2>2, ProbedTypes
<1>3. ASSUME ProbeStores(it) PROVE TypeInv'
  <2>. DEFINE key == ThumbKey(it.key[1], stamp[it.key[1]])
              next == [it EXCEPT !.kind = "result", !.thumb = key]
  <2>1. key \in Versions /\ it.shown \in Versions
    BY <1>0, <1>3 DEF ThumbKey, ProbeStores
  <2>2. next \in Items /\ next.kind \notin {"moved", "candidate"} /\ (next.kind = "decoded" => next.shown # None)
    <3>. HIDE DEF key
    <3>. QED
      BY <1>0, <2>1 DEF Items, Kinds
  <2>3. Probed(it, next) /\ thumbs' = Store(thumbs, key, it.shown)
    BY <1>3 DEF ProbeStores
  <2>4. thumbs' \in Seq(Pictures)
    <3>. HIDE DEF key
    <3>. QED
      BY <1>0, <2>1, <2>3, StoredCache
  <2>. HIDE DEF next, key
  <2>. QED
    BY <2>2, <2>3, <2>4, ProbedTypes
<1>4. ASSUME ProbeSkips(it) PROVE TypeInv'
  <2>. DEFINE next == [it EXCEPT !.kind = "result"]
  <2>1. next \in Items /\ next.kind \notin {"moved", "candidate"} /\ (next.kind = "decoded" => next.shown # None)
    BY <1>0 DEF Items, Kinds
  <2>2. Probed(it, next) /\ thumbs' = thumbs
    BY <1>4 DEF ProbeSkips, cache
  <2>. HIDE DEF next
  <2>. QED
    BY <1>0, <2>1, <2>2, ProbedTypes
<1>. QED
  BY <1>1, <1>2, <1>3, <1>4

-----------------------------------------------------------------------------
\* What a batch writes, for each kind of item.

Hit(i, it) == rows[i].root = This /\ rows[i].path = it.path

LEMMA TouchedRows ==
    ASSUME TypeInv, NEW it
    PROVE  /\ Touched(it) \in [Ids -> Rows]
           /\ \A i \in Ids : LET t == Touched(it)[i] IN
                /\ t.path = rows[i].path /\ t.root = rows[i].root /\ t.file = rows[i].file
                /\ t.stamp = rows[i].stamp /\ t.shown = rows[i].shown /\ t.thumb = rows[i].thumb
                /\ t.seen => rows[i].seen \/ Hit(i, it)
                /\ rows[i].seen => t.seen
                /\ ~t.missing /\ ~t.excluded => t.seen \/ (~rows[i].missing /\ ~rows[i].excluded)
           /\ \A i \in Ids : IF Hit(i, it) THEN Touched(it)[i].seen /\ ~Touched(it)[i].missing
                                         ELSE Touched(it)[i] = rows[i]
<1>1. \A i \in Ids : rows[i] \in Rows /\ [rows[i] EXCEPT !.seen = TRUE, !.missing = FALSE] \in Rows
  <2>1. \A i \in Ids : rows[i] \in Rows /\ rows[i].path \in Path
    BY RowsFacts DEF TypeInv, Rows
  <2>. QED
    BY <2>1, RowMoves
<1>2. \A i \in Ids : Hit(i, it) => Touched(it)[i] = [rows[i] EXCEPT !.seen = TRUE, !.missing = FALSE]
  BY DEF Touched, Hit
<1>3. \A i \in Ids : ~Hit(i, it) => Touched(it)[i] = rows[i]
  BY DEF Touched, Hit
<1>4. Touched(it) \in [Ids -> Rows]
  BY <1>1 DEF Touched
<1>5. \A r \in Rows : LET t == [r EXCEPT !.seen = TRUE, !.missing = FALSE] IN
        /\ t.path = r.path /\ t.root = r.root /\ t.file = r.file
        /\ t.stamp = r.stamp /\ t.shown = r.shown /\ t.thumb = r.thumb /\ t.seen /\ ~t.missing
  BY DEF Rows
<1>6. ASSUME NEW i \in Ids
      PROVE  LET t == Touched(it)[i] IN
                /\ t.path = rows[i].path /\ t.root = rows[i].root /\ t.file = rows[i].file
                /\ t.stamp = rows[i].stamp /\ t.shown = rows[i].shown /\ t.thumb = rows[i].thumb
                /\ t.seen => rows[i].seen \/ Hit(i, it)
                /\ rows[i].seen => t.seen
                /\ ~t.missing /\ ~t.excluded => t.seen \/ (~rows[i].missing /\ ~rows[i].excluded)
  <2>1. CASE Hit(i, it)
    BY <1>1, <1>2, <1>5, <2>1
  <2>2. CASE ~Hit(i, it)
    BY <1>3, <2>2
  <2>. QED
    BY <2>1, <2>2
<1>7. \A i \in Ids : IF Hit(i, it) THEN Touched(it)[i].seen /\ ~Touched(it)[i].missing
                             ELSE Touched(it)[i] = rows[i]
  BY <1>1, <1>2, <1>3, <1>5
<1>. QED
  BY <1>4, <1>6, <1>7

LEMMA RenamedRows ==
    ASSUME TypeInv, NEW it \in items, it.from \in Ids
    PROVE  /\ Renamed(it) \in [Ids -> Rows]
           /\ LET r == Renamed(it)[it.from] IN
                /\ r.path = it.path /\ r.root = rows[it.from].root /\ r.file = rows[it.from].file
                /\ r.stamp = rows[it.from].stamp /\ r.shown = rows[it.from].shown
                /\ r.thumb = rows[it.from].thumb /\ r.seen /\ ~r.missing
           /\ \A i \in Ids \ {it.from} : Renamed(it)[i] = rows[i]
<1>1. rows \in [Ids -> Rows] /\ it.path \in Path
  BY RowsFacts DEF TypeInv, ItemInv, Items
<1>. DEFINE r == [rows[it.from] EXCEPT !.path = it.path, !.seen = TRUE, !.missing = FALSE]
<1>2. r \in Rows
  BY <1>1, RowMoves
<1>3. /\ r.path = it.path /\ r.root = rows[it.from].root /\ r.file = rows[it.from].file
      /\ r.stamp = rows[it.from].stamp /\ r.shown = rows[it.from].shown
      /\ r.thumb = rows[it.from].thumb /\ r.seen /\ ~r.missing
  BY <1>1 DEF Rows
<1>4. Renamed(it) = [rows EXCEPT ![it.from] = r]
  BY DEF Renamed
<1>. HIDE DEF r
<1>. QED
  BY <1>1, <1>2, <1>3, <1>4

NewRow(it, flag) ==
    [path |-> it.path, root |-> This, file |-> it.key[1],
     stamp |-> it.key[2], shown |-> it.shown, thumb |-> it.thumb, seen |-> TRUE,
     missing |-> FALSE, excluded |-> flag]

LEMMA UpsertedRows ==
    ASSUME TypeInv, NEW it \in items, pc = "walk"
    PROVE  /\ Upserted(it) \in Seq(Rows) /\ Ids \subseteq DOMAIN Upserted(it)
           /\ \A i \in Ids : rows[i].path # it.path => Upserted(it)[i] = rows[i]
           /\ \A i \in DOMAIN Upserted(it) : (i \notin Ids \/ rows[i].path = it.path) =>
                \E flag \in BOOLEAN : Upserted(it)[i] = NewRow(it, flag)
           /\ \A i \in DOMAIN Upserted(it) :
                i \notin Ids => RowsAt(it.path) = {} /\ i = Len(rows) + 1
<1>1. /\ rows \in Seq(Rows) /\ Len(rows) \in Nat /\ Ids = 1 .. Len(rows)
      /\ \A i \in Ids : rows[i] \in Rows
      /\ \A f \in [Ids -> Rows] : f \in Seq(Rows) /\ DOMAIN f = Ids
  BY RowsFacts DEF TypeInv, TypeOK
<1>2. it \in Items /\ This \in Root
  BY ThisIsLeft DEF TypeInv, ItemInv
<1>3. \A flag \in BOOLEAN : NewRow(it, flag) \in Rows
  <2>1. /\ it.path \in Path /\ it.key[1] \in File /\ it.key[2] \in Stamp
        /\ it.shown \in {None} \cup (File \X Stamp) /\ it.thumb \in {None} \cup (File \X Stamp)
    BY <1>2 DEF Items, Versions
  <2>. QED
    BY <1>2, <2>1 DEF NewRow, Rows
<1>4. CASE RowsAt(it.path) = {}
  <2>1. Upserted(it) = Append(rows, NewRow(it, FALSE)) /\ NewRow(it, FALSE) \in Rows
    BY <1>3, <1>4 DEF Upserted, NewRow
  <2>. DEFINE new == NewRow(it, FALSE)
  <2>2. new \in Rows
    BY <2>1
  <2>3. /\ Append(rows, new) \in Seq(Rows)
        /\ DOMAIN Append(rows, new) = 1 .. Len(rows) + 1
        /\ \A i \in Ids : Append(rows, new)[i] = rows[i]
        /\ Append(rows, new)[Len(rows) + 1] = new
    <3>. HIDE DEF new
    <3>. QED
      BY <1>1, <2>2
  <2>4. \A i \in Ids : rows[i].path # it.path
    BY <1>4 DEF RowsAt
  <2>5. \A i \in 1 .. Len(rows) + 1 : i \notin Ids => i = Len(rows) + 1
    BY <1>1
  <2>6. \E flag \in BOOLEAN : new = NewRow(it, flag)
    OBVIOUS
  <2>7. Upserted(it) = Append(rows, new)
    BY <2>1
  <2>. HIDE DEF new
  <2>. QED
    BY <1>1, <1>4, <2>3, <2>4, <2>5, <2>6, <2>7
<1>5. CASE RowsAt(it.path) # {}
  <2>. DEFINE g == [i \in Ids |-> IF i \in RowsAt(it.path) THEN NewRow(it, rows[i].excluded) ELSE rows[i]]
  <2>1. Upserted(it) = g
    BY <1>5 DEF Upserted, NewRow
  <2>2. \A i \in Ids : rows[i].excluded \in BOOLEAN
    BY <1>1 DEF Rows
  <2>3. g \in [Ids -> Rows]
    BY <1>1, <1>3, <2>2
  <2>4. g \in Seq(Rows) /\ DOMAIN g = Ids
    BY <1>1, <2>3
  <2>5. \A i \in Ids : rows[i].path = it.path => g[i] = NewRow(it, rows[i].excluded)
    BY DEF RowsAt
  <2>6. \A i \in Ids : rows[i].path # it.path => g[i] = rows[i]
    BY DEF RowsAt
  <2>. HIDE DEF g
  <2>. QED
    BY <2>1, <2>2, <2>4, <2>5, <2>6
<1>. QED
  BY <1>4, <1>5

\* A batch adds a row or replaces some; the path it writes no other row has.
LEMMA CommitTypes ==
    ASSUME TypeInv, NEW it \in items, Commit(it)
    PROVE  TypeInv'
<1>0. /\ TypeOK /\ KnownInv /\ FlagInv /\ CountInv /\ it \in Items /\ pc = "walk"
      /\ items \subseteq Items /\ (\A jt \in items : Whole(jt)) /\ DOMAIN known \subseteq Ids
      /\ \A i, j \in Ids : rows[i].path = rows[j].path => i = j
  BY DEF TypeInv, ItemInv, Commit, KnownInv, TypeOK
<1>1. /\ items' = items \ {it}
      /\ UNCHANGED <<world, rootPath, rule, due, pc, left, offline, matcher, known, todo,
                     met, failed, changes, quiet, settled, thumbs>>
  BY DEF Commit, cache
<1>2. /\ rows' \in Seq(Rows) /\ Ids \subseteq DOMAIN rows'
      /\ \A i, j \in DOMAIN rows' : rows'[i].path = rows'[j].path => i = j
  <2>1. CASE it.kind = "unchanged"
    <3>1. rows' = Touched(it)
      BY <2>1 DEF Commit
    <3>. QED
      BY <1>0, <3>1, TouchedRows, TypesOfFlagged
  <2>2. CASE it.kind = "moved"
    <3>1. rows' = Renamed(it) /\ it.from \in Ids
      BY <1>0, <2>2 DEF Commit, Whole
    <3>2. \A i \in Ids : rows[i].path = it.path => i = it.from
      BY <2>2 DEF Commit, Clash, RowsAt
    <3>3. \A f \in [Ids -> Rows] : f \in Seq(Rows) /\ DOMAIN f = Ids
      BY <1>0, RowsFacts
    <3>4. /\ rows' \in [Ids -> Rows] /\ rows'[it.from].path = it.path
          /\ \A i \in Ids \ {it.from} : rows'[i] = rows[i]
      BY <3>1, RenamedRows
    <3>. QED
      BY <1>0, <3>1, <3>2, <3>3, <3>4
  <2>3. CASE it.kind = "result"
    <3>1. rows' = Upserted(it)
      BY <2>3 DEF Commit
    <3>2. /\ \A i \in Ids : rows[i].path # it.path => rows'[i] = rows[i]
          /\ \A i \in DOMAIN rows' : (i \notin Ids \/ rows[i].path = it.path) => rows'[i].path = it.path
          /\ \A i \in DOMAIN rows' : i \notin Ids =>
               i = Len(rows) + 1 /\ \A j \in Ids : rows[j].path # it.path
      BY <1>0, <3>1, UpsertedRows DEF NewRow, RowsAt
    <3>3. ASSUME NEW i \in DOMAIN rows', NEW j \in DOMAIN rows', rows'[i].path = rows'[j].path
          PROVE  i = j
      <4>1. CASE i \in Ids /\ j \in Ids
        <5>1. rows'[i].path = rows[i].path /\ rows'[j].path = rows[j].path
          BY <3>2, <4>1
        <5>. QED
          BY <1>0, <3>3, <4>1, <5>1
      <4>2. CASE i \notin Ids \/ j \notin Ids
        <5>1. \A k \in Ids : rows'[k] = rows[k] /\ rows[k].path # it.path
          BY <3>2, <4>2
        <5>. QED
          BY <3>2, <3>3, <4>2, <5>1
      <4>. QED
        BY <4>1, <4>2
    <3>. QED
      BY <1>0, <3>1, <3>3, UpsertedRows
  <2>. QED
    BY <2>1, <2>2, <2>3 DEF Commit
<1>3. TypeOK'
  BY <1>0, <1>1, <1>2 DEF TypeOK, world, Ids
<1>4. KnownInv'
  BY <1>0, <1>1, <1>2, KnownStays DEF Ids
<1>5. ItemInv'
  BY <1>0, <1>1 DEF ItemInv, Items, Versions, Whole
<1>. QED
  BY <1>0, <1>1, <1>3, <1>4, <1>5 DEF TypeInv, FlagInv, CountInv

LEMMA EndTypes ==
    ASSUME TypeInv
    PROVE  /\ \A it \in items : CommitFails(it) => TypeInv'
           /\ Finish \/ Stop => TypeInv'
<1>0. FlagInv /\ CountInv /\ TypeOK /\ thumbs \in Seq(Pictures)
  BY DEF TypeInv
<1>1. ASSUME EndScan, UNCHANGED <<world, rootPath, rule, due, offline, changes, thumbs>>,
             quiet' \in BOOLEAN, settled' \in BOOLEAN
      PROVE  TypeInv'
  <2>1. FlagInv' /\ CountInv'
    BY <1>0, <1>1 DEF EndScan, FlagInv, CountInv
  <2>2. /\ rows' \in [Ids -> Rows] /\ \A i \in Ids : rows'[i].path = rows[i].path
        /\ known' = <<>> /\ items' = {} /\ left' = {} /\ pc' = "idle" /\ todo' = {} /\ met' = {}
    BY <1>1, EndScanTypes
  <2>. QED
    BY <1>1, <2>1, <2>2, FlagTypes
<1>2. ASSUME NEW it \in items, CommitFails(it) PROVE TypeInv'
  BY <1>0, <1>1, <1>2 DEF CommitFails, cache, FlagInv
<1>3. ASSUME Stop PROVE TypeInv'
  BY <1>0, <1>1, <1>3 DEF Stop, cache, FlagInv
<1>4. ASSUME Finish PROVE TypeInv'
  <2>1. EndScan /\ thumbs' = Evict(thumbs) /\ quiet' = quiet
        /\ UNCHANGED <<world, rootPath, rule, due, offline, changes>>
        /\ settled' = (settled \/ Settles)
    BY <1>4 DEF Finish
  <2>2. quiet' \in BOOLEAN /\ settled' \in BOOLEAN
    BY <1>0, <2>1 DEF FlagInv
  <2>3. thumbs' \in Seq(Pictures)
    BY <1>0, <2>1, EvictedCache
  <2>4. FlagInv' /\ CountInv'
    BY <1>0, <2>1, <2>2 DEF EndScan, FlagInv, CountInv
  <2>5. /\ rows' \in [Ids -> Rows] /\ \A i \in Ids : rows'[i].path = rows[i].path
        /\ known' = <<>> /\ items' = {} /\ left' = {} /\ pc' = "idle" /\ todo' = {} /\ met' = {}
    BY <2>1, EndScanTypes
  <2>6. rows' \in Seq(Rows) /\ Ids' = Ids
        /\ \A i, j \in Ids' : rows'[i].path = rows'[j].path => i = j
    BY <1>0, <2>5, TypesOfFlagged DEF Ids
  <2>7. TypeOK'
    BY <1>0, <2>1, <2>5, <2>6 DEF TypeOK, world
  <2>8. KnownInv' /\ ItemInv'
    BY <2>5 DEF KnownInv, ItemInv
  <2>. QED
    BY <2>1, <2>3, <2>4, <2>5, <2>7, <2>8 DEF TypeInv
<1>. QED
  BY <1>2, <1>3, <1>4

LEMMA StutterTypes == ASSUME TypeInv, UNCHANGED vars PROVE TypeInv'
<1>1. UNCHANGED <<rows, rootPath, rule, due, changes, quiet, settled, thumbs, todo, met,
                  tree, stamp, at, pc, left, offline, matcher, known, failed, items>>
  BY DEF vars, world, scan, pass, cache
<1>2. TypeOK' /\ KnownInv' /\ ItemInv'
  BY <1>1, KnownStays, ItemsStay DEF TypeInv, TypeOK, Ids
<1>. QED
  BY <1>1, <1>2 DEF TypeInv, FlagInv, CountInv

LEMMA NextTypes == TypeInv /\ [Next]_vars => TypeInv'
<1>. SUFFICES ASSUME TypeInv, [Next]_vars PROVE TypeInv'
  OBVIOUS
<1>1. CASE UNCHANGED vars
  BY <1>1, StutterTypes
<1>2. CASE Next
  BY <1>2, DiskTypes, RuleTypes, ReconcileTypes, RootTypes, WalkTypes, ProbeTypes,
     CommitTypes, EndTypes DEF Next
<1>. QED
  BY <1>1, <1>2

\* Type correctness, with UNIQUE(path) of both tables, for any roots, drives and
\* files: no job the code commits breaks it, whatever the drives were found at
\* and whatever was renamed to whatever.
THEOREM TypeCorrect == Spec => []TypeOK
<1>1. TypeInv => TypeOK
  BY DEF TypeInv
<1>. QED
  BY <1>1, InitTypes, NextTypes, PTL DEF Spec

-----------------------------------------------------------------------------
\* What was read of a file.

\* Files only get newer: what was fresh stays so.
LEMMA FreshStays ==
    ASSUME NEW old \in [File -> Stamp], NEW new \in [File -> Stamp],
           \A f \in File : old[f] <= new[f],
           NEW key \in Versions, NEW shown \in {None} \cup Versions, NEW thumb \in {None} \cup Versions,
           Fresh(key, shown, thumb, old)
    PROVE  Fresh(key, shown, thumb, new)
<1>1. Stamp \subseteq Nat
  BY DEF Stamp
<1>2. /\ key[1] \in File /\ key[2] \in Nat /\ old[key[1]] \in Nat /\ new[key[1]] \in Nat
      /\ old[key[1]] <= new[key[1]] /\ key[2] <= old[key[1]]
  BY <1>1 DEF Versions, Fresh
<1>3. ASSUME NEW x \in {None} \cup Versions, Between(x, key, old)
      PROVE  Between(x, key, new)
  <2>1. CASE x = None
    BY <2>1 DEF Between
  <2>2. CASE x \in Versions
    <3>1. x[2] \in Nat
      BY <1>1, <2>2 DEF Versions
    <3>. QED
      BY <1>2, <1>3, <3>1 DEF Between
  <2>. QED
    BY <2>1, <2>2
<1>4. key[2] <= new[key[1]]
  BY <1>2
<1>. QED
  BY <1>3, <1>4 DEF Fresh

LEMMA RowTypes ==
    ASSUME TypeInv, NEW i \in Ids
    PROVE  /\ Key(rows[i]) \in Versions
           /\ rows[i].shown \in {None} \cup Versions /\ rows[i].thumb \in {None} \cup Versions
BY RowsFacts DEF TypeInv, Rows, Key, Versions

LEMMA DiskFresh ==
    ASSUME TypeInv, FreshInv, UNCHANGED <<rows, items, thumbs, spoilt, evicted>>,
           stamp' \in [File -> Stamp],
           \A f \in File : stamp[f] <= stamp'[f] /\ stamp'[f] <= changes'
    PROVE  FreshInv'
<1>0. stamp \in [File -> Stamp] /\ items \subseteq Items
  BY DEF TypeInv, TypeOK, ItemInv
<1>1. \A i \in Ids : Fresh(Key(rows[i]), rows[i].shown, rows[i].thumb, stamp')
  BY <1>0, RowTypes, FreshStays DEF FreshInv
<1>2. \A it \in items : Fresh(it.key, it.shown, it.thumb, stamp')
  <2>1. \A it \in items : /\ it.key \in Versions /\ it.shown \in {None} \cup Versions
                          /\ it.thumb \in {None} \cup Versions
    BY <1>0 DEF Items
  <2>. QED
    BY <1>0, <2>1, FreshStays DEF FreshInv
<1>. QED
  BY <1>1, <1>2 DEF FreshInv, Ids, Key

\* The rows name the same versions, whatever else of them is written.
LEMMA RowsFresh ==
    ASSUME FreshInv, UNCHANGED <<stamp, thumbs, spoilt, evicted>>, changes <= changes',
           changes \in Nat, changes' \in Nat, stamp \in [File -> Stamp],
           Ids' = Ids,
           \A i \in Ids : /\ rows'[i].file = rows[i].file /\ rows'[i].stamp = rows[i].stamp
                          /\ rows'[i].shown = rows[i].shown /\ rows'[i].thumb = rows[i].thumb,
           items' \subseteq items
    PROVE  FreshInv'
<1>1. \A f \in File : stamp[f] <= changes'
  <2>1. \A f \in File : stamp[f] \in Nat
    BY DEF Stamp
  <2>. QED
    BY <2>1 DEF FreshInv
<1>2. \A i \in Ids' : /\ Fresh(Key(rows'[i]), rows'[i].shown, rows'[i].thumb, stamp)
                      /\ Kept(rows'[i].thumb, thumbs, evicted)
  BY DEF FreshInv, Key
<1>. QED
  BY <1>1, <1>2 DEF FreshInv, Key

LEMMA DisksFresh ==
    ASSUME TypeInv, FreshInv
    PROVE  /\ \A e \in Place, f \in File : Create(e, f) => FreshInv'
           /\ \A d, e \in Place : Rename(d, e) \/ HardLink(d, e) => FreshInv'
           /\ \A e \in Place : Delete(e) => FreshInv'
           /\ \A f \in File : Edit(f) => FreshInv'
           /\ \A v \in Volume, m \in MountPoint \cup {None} : Remount(v, m) => FreshInv'
           /\ AddRule => FreshInv'
<1>0. stamp \in [File -> Stamp] /\ changes \in Nat /\ Stamp \subseteq Nat
      /\ \A f \in File : stamp[f] \in Nat /\ stamp[f] <= changes
  BY DEF TypeInv, TypeOK, CountInv, Stamp, FreshInv
<1>1. ASSUME Change, UNCHANGED rows, NEW f \in File, stamp' = [stamp EXCEPT ![f] = changes']
      PROVE  FreshInv'
  <2>1. changes' \in Stamp /\ changes' = changes + 1 /\ ScanUnchanged /\ UNCHANGED <<thumbs, spoilt, evicted>>
    BY <1>1, ChangeTypes
  <2>2. stamp' \in [File -> Stamp] /\ \A g \in File : stamp[g] <= stamp'[g] /\ stamp'[g] <= changes'
    BY <1>0, <1>1, <2>1
  <2>. QED
    BY <1>1, <2>1, <2>2, DiskFresh DEF ScanUnchanged
<1>2. ASSUME UNCHANGED <<rows, stamp, items, thumbs, spoilt, evicted>>, changes' = changes + 1
      PROVE  FreshInv'
  <2>1. \A g \in File : stamp[g] <= stamp'[g] /\ stamp'[g] <= changes'
    BY <1>0, <1>2
  <2>. QED
    BY <1>0, <1>2, <2>1, DiskFresh
<1>3. ASSUME Change, UNCHANGED <<rows, stamp>> PROVE FreshInv'
  BY <1>2, <1>3, ChangeTypes DEF ScanUnchanged
<1>4. \A v \in Volume, m \in MountPoint \cup {None} : Remount(v, m) => FreshInv'
  BY <1>2 DEF Remount, scan, pass, cache
<1>. QED
  BY <1>1, <1>3, <1>4 DEF Create, Rename, HardLink, Delete, Edit, AddRule, world

LEMMA FlagsFresh ==
    ASSUME TypeInv, FreshInv
    PROVE  /\ RemoveRule \/ Reapply => FreshInv'
           /\ Reconcile => FreshInv'
           /\ \A wanted \in Requests : Begin(wanted) => FreshInv'
           /\ SkipOffline \/ LoadKnown \/ FailDir \/ Sweep \/ Stop => FreshInv'
           /\ \A it \in items : CommitFails(it) => FreshInv'
<1>0. stamp \in [File -> Stamp] /\ changes \in Nat /\ rows \in [Ids -> Rows] /\ TypeOK
  BY RowsFacts DEF TypeInv, TypeOK, CountInv
<1>1. \A r \in Rows, b \in BOOLEAN :
        /\ [r EXCEPT !.excluded = b].file = r.file /\ [r EXCEPT !.excluded = b].stamp = r.stamp
        /\ [r EXCEPT !.excluded = b].shown = r.shown /\ [r EXCEPT !.excluded = b].thumb = r.thumb
        /\ [r EXCEPT !.seen = b].file = r.file /\ [r EXCEPT !.seen = b].stamp = r.stamp
        /\ [r EXCEPT !.seen = b].shown = r.shown /\ [r EXCEPT !.seen = b].thumb = r.thumb
  BY DEF Rows
<1>. DEFINE Same(new) == /\ DOMAIN new = Ids
                         /\ \A i \in Ids : /\ new[i].file = rows[i].file /\ new[i].stamp = rows[i].stamp
                                           /\ new[i].shown = rows[i].shown /\ new[i].thumb = rows[i].thumb
<1>2. ASSUME UNCHANGED <<stamp, thumbs, spoilt, evicted>>, changes' \in {changes, changes + 1},
             items' \subseteq items, Same(rows')
      PROVE  FreshInv'
  BY <1>0, <1>2, RowsFresh DEF Ids
<1>3. ASSUME RemoveRule PROVE FreshInv'
  <2>1. Same(rows')
    BY <1>0, <1>1, <1>3 DEF RemoveRule
  <2>. QED
    BY <1>2, <1>3, <2>1, ChangeTypes DEF RemoveRule, world, ScanUnchanged
<1>4. ASSUME Reapply PROVE FreshInv'
  <2>1. \A i \in Ids : (rule /\ rows[i].path \in Hidden) \in BOOLEAN
    BY DEF TypeInv, FlagInv
  <2>2. Same(rows')
    BY <1>0, <1>1, <1>4, <2>1 DEF Reapply, Flagged
  <2>. QED
    BY <1>2, <1>4, <2>2 DEF Reapply, world, scan, pass, cache
<1>5. ASSUME Reconcile PROVE FreshInv'
  <2>1. CASE Healed.ok
    <3>1. rows' = Healed.rows /\ DOMAIN Healed.rows = Ids
          /\ \A i \in Ids : \E p \in Path : Healed.rows[i] = [rows[i] EXCEPT !.path = p]
      BY <1>0, <1>5, <2>1, HealedIsSound DEF Reconcile, Sound, Tables
    <3>2. \A r \in Rows, p \in Path :
            /\ [r EXCEPT !.path = p].file = r.file /\ [r EXCEPT !.path = p].stamp = r.stamp
            /\ [r EXCEPT !.path = p].shown = r.shown /\ [r EXCEPT !.path = p].thumb = r.thumb
      BY DEF Rows
    <3>3. ASSUME NEW i \in Ids
          PROVE  /\ Healed.rows[i].file = rows[i].file /\ Healed.rows[i].stamp = rows[i].stamp
                 /\ Healed.rows[i].shown = rows[i].shown /\ Healed.rows[i].thumb = rows[i].thumb
      <4>1. PICK p \in Path : Healed.rows[i] = [rows[i] EXCEPT !.path = p]
        BY <3>1
      <4>2. rows[i] \in Rows
        BY <1>0
      <4>. QED
        BY <3>2, <4>1, <4>2
    <3>4. Same(rows')
      BY <3>1, <3>3
    <3>. QED
      BY <1>2, <1>5, <3>4 DEF Reconcile, world, pass, cache
  <2>2. CASE ~Healed.ok
    <3>1. Same(rows')
      BY <1>0, <1>5, <2>2 DEF Reconcile
    <3>. QED
      BY <1>2, <1>5, <3>1 DEF Reconcile, world, pass, cache
  <2>. QED
    BY <2>1, <2>2
<1>6. \A wanted \in Requests : Begin(wanted) => FreshInv'
  BY <1>0, <1>2 DEF Begin, world, pass, cache
<1>7. ASSUME SkipOffline PROVE FreshInv'
  <2>1. Same(rows')
    BY <1>0, <1>7, MarkedRows DEF SkipOffline
  <2>. QED
    BY <1>2, <1>7, <2>1 DEF SkipOffline, world, pass, cache
<1>8. ASSUME LoadKnown PROVE FreshInv'
  BY <1>0, <1>2, <1>8 DEF LoadKnown, world, cache
<1>9. ASSUME FailDir PROVE FreshInv'
  BY <1>0, <1>2, <1>9 DEF FailDir, world, cache
<1>10. ASSUME Sweep PROVE FreshInv'
  <2>1. Same(rows')
    BY <1>0, <1>10, MarkedRows DEF Sweep
  <2>. QED
    BY <1>2, <1>10, <2>1 DEF Sweep, world, cache
<1>11. ASSUME EndScan PROVE Same(rows') /\ items' \subseteq items
  BY <1>0, <1>1, <1>11 DEF EndScan
<1>12. ASSUME Stop PROVE FreshInv'
  BY <1>2, <1>11, <1>12 DEF Stop, world, cache
<1>13. ASSUME NEW it \in items, CommitFails(it) PROVE FreshInv'
  BY <1>2, <1>11, <1>13 DEF CommitFails, world, cache
<1>. QED
  BY <1>3, <1>4, <1>5, <1>6, <1>7, <1>8, <1>9, <1>10, <1>12, <1>13

\* One item more, or one in its next step.
LEMMA ItemFresh ==
    ASSUME FreshInv, UNCHANGED <<stamp, rows, changes, thumbs, spoilt, evicted>>, NEW next,
           items' \subseteq items \cup {next},
           Fresh(next.key, next.shown, next.thumb, stamp), Kept(next.thumb, thumbs, evicted)
    PROVE  FreshInv'
BY DEF FreshInv, Ids, Key

LEMMA ProbesFresh ==
    ASSUME TypeInv, FreshInv
    PROVE  /\ \A n \in Name : Visit(n) => FreshInv'
           /\ \A it \in items : ProbeOpens(it) \/ ProbeDecodes(it) \/ ProbeSkips(it) => FreshInv'
<1>0. /\ TypeOK /\ left \subseteq Root /\ items \subseteq Items
      /\ \A f \in File : stamp[f] \in Nat
  BY DEF TypeInv, TypeOK, ItemInv, Stamp
<1>1. \A f \in File : Fresh(<<f, stamp[f]>>, None, None, stamp)
  BY <1>0 DEF Fresh, Between
<1>2. ASSUME NEW n \in Name, Visit(n) PROVE FreshInv'
  <2>. DEFINE p == <<rootPath[This], n>>
              f == FileAt(p)
  <2>1. UNCHANGED <<stamp, rows, changes, thumbs, spoilt, evicted>>
    BY <1>2 DEF Visit, world, cache
  <2>2. CASE UNCHANGED items
    BY <2>1, <2>2 DEF FreshInv, Ids, Key
  <2>3. CASE f # None /\ items' = items \cup {Item(p, f)}
    <3>1. p \in Path
      BY <1>0, <1>2, ThisIsLeft DEF Visit, TypeInv, Path, TypeOK
    <3>2. f \in File
      BY <1>0, <2>3, <3>1, FileAtType
    <3>3. /\ Item(p, f).key = <<f, stamp[f]>>
          /\ Item(p, f).shown = None /\ Item(p, f).thumb = None
      <4>. HIDE DEF f, p
      <4>. QED
        BY <3>1, <3>2, ItemType
    <3>4. /\ Fresh(Item(p, f).key, Item(p, f).shown, Item(p, f).thumb, stamp)
          /\ Kept(Item(p, f).thumb, thumbs, evicted)
      <4>. HIDE DEF f, p
      <4>. QED
        BY <1>1, <3>2, <3>3 DEF Kept
    <3>. HIDE DEF f, p
    <3>. QED
      BY <2>1, <2>3, <3>4, ItemFresh
  <2>. QED
    BY <1>2, <2>2, <2>3 DEF Visit
<1>3. ASSUME NEW it \in items, NEW next, Probed(it, next), UNCHANGED cache,
             Fresh(next.key, next.shown, next.thumb, stamp), Kept(next.thumb, thumbs, evicted)
      PROVE  FreshInv'
  <2>1. items' \subseteq items \cup {next} /\ UNCHANGED <<stamp, rows, changes, thumbs, spoilt, evicted>>
    BY <1>3 DEF Probed, world, cache
  <2>. QED
    BY <1>3, <2>1, ItemFresh
<1>4. ASSUME NEW it \in items
      PROVE  /\ it \in Items /\ it.path \in Path /\ it.key[1] \in File /\ it.key[2] \in Nat
             /\ Fresh(it.key, it.shown, it.thumb, stamp) /\ Kept(it.thumb, thumbs, evicted)
  BY <1>0 DEF FreshInv, Items, Versions, Stamp
<1>5. ASSUME NEW it \in items, ProbeSkips(it) PROVE FreshInv'
  <2>. DEFINE next == [it EXCEPT !.kind = "result"]
  <2>1. next.key = it.key /\ next.shown = it.shown /\ next.thumb = it.thumb
    BY <1>4 DEF Items
  <2>2. Probed(it, next) /\ UNCHANGED cache
    BY <1>5 DEF ProbeSkips
  <2>. HIDE DEF next
  <2>. QED
    BY <1>3, <1>4, <2>1, <2>2
<1>6. ASSUME NEW it \in items, ProbeDecodes(it) PROVE FreshInv'
  <2>. DEFINE now == <<it.key[1], stamp[it.key[1]]>>
              next == [it EXCEPT !.kind = "decoded", !.shown = now]
  <2>1. next.key = it.key /\ next.shown = now /\ next.thumb = it.thumb
    BY <1>4 DEF Items
  <2>2. Between(now, it.key, stamp)
    BY <1>0, <1>4 DEF Between, Fresh
  <2>3. Probed(it, next) /\ UNCHANGED cache
    BY <1>6 DEF ProbeDecodes
  <2>4. Fresh(next.key, next.shown, next.thumb, stamp) /\ Kept(next.thumb, thumbs, evicted)
    <3>. HIDE DEF now, next
    <3>. QED
      BY <1>4, <2>1, <2>2 DEF Fresh
  <2>. HIDE DEF now, next
  <2>. QED
    BY <1>3, <2>3, <2>4
<1>7. ASSUME NEW it \in items, ProbeOpens(it) PROVE FreshInv'
  <2>. DEFINE f == FileAt(it.path)
  <2>1. f \in File \cup {None}
    BY <1>0, <1>4, FileAtType
  <2>2. CASE f = None
    <3>. DEFINE next == [it EXCEPT !.kind = "result"]
    <3>1. next.key = it.key /\ next.shown = it.shown /\ next.thumb = it.thumb
      BY <1>4 DEF Items
    <3>2. Probed(it, next) /\ UNCHANGED cache
      BY <1>7, <2>2 DEF ProbeOpens
    <3>. HIDE DEF next
    <3>. QED
      BY <1>3, <1>4, <3>1, <3>2
  <2>3. CASE f # None
    <3>. DEFINE key == <<f, stamp[f]>>
                next == [it EXCEPT !.kind = "open", !.key = key]
    <3>1. next.key = key /\ next.shown = it.shown /\ next.thumb = it.thumb
      BY <1>4 DEF Items
    <3>2. Probed(it, next) /\ UNCHANGED cache
      BY <1>7, <2>3 DEF ProbeOpens
    <3>3. it.shown = None /\ it.thumb = None
      BY <1>7 DEF ProbeOpens, TypeInv, ItemInv, Whole
    <3>4. Fresh(key, None, None, stamp)
      <4>. HIDE DEF f
      <4>. QED
        BY <1>1, <2>1, <2>3
    <3>5. Fresh(next.key, next.shown, next.thumb, stamp) /\ Kept(next.thumb, thumbs, evicted)
      <4>. HIDE DEF f, key, next
      <4>. QED
        BY <3>1, <3>3, <3>4 DEF Kept
    <3>. HIDE DEF f, key, next
    <3>. QED
      BY <1>3, <3>2, <3>5
  <2>. QED
    BY <2>2, <2>3
<1>. QED
  BY <1>2, <1>5, <1>6, <1>7

\* What is stored under a key is there, and what was there before stays.
LEMMA StoreKeeps ==
    ASSUME thumbs \in Seq(Pictures), NEW key \in Versions, NEW pixels \in Versions
    PROVE  /\ Held(Store(thumbs, key, pixels), key)
           /\ \A x : Held(thumbs, x) => Held(Store(thumbs, key, pixels), x)
           /\ \A i \in DOMAIN Store(thumbs, key, pixels) :
                \/ i \in DOMAIN thumbs /\ Store(thumbs, key, pixels)[i] = thumbs[i]
                \/ /\ ~Held(thumbs, key)
                   /\ Store(thumbs, key, pixels)[i] = [key |-> key, pixels |-> pixels]
<1>. DEFINE new == [key |-> key, pixels |-> pixels]
<1>1. CASE Held(thumbs, key)
  BY <1>1 DEF Store
<1>2. CASE ~Held(thumbs, key)
  <2>1. Store(thumbs, key, pixels) = Append(thumbs, new) /\ new \in Pictures /\ new.key = key
    BY <1>2 DEF Store, Pictures
  <2>2. /\ Len(thumbs) \in Nat /\ DOMAIN thumbs = 1 .. Len(thumbs)
        /\ DOMAIN Append(thumbs, new) = 1 .. Len(thumbs) + 1
        /\ Append(thumbs, new)[Len(thumbs) + 1] = new
        /\ \A i \in 1 .. Len(thumbs) : Append(thumbs, new)[i] = thumbs[i]
    <3>. HIDE DEF new
    <3>. QED
      BY <2>1
  <2>. HIDE DEF new
  <2>3. Held(Append(thumbs, new), key)
    BY <2>1, <2>2 DEF Held
  <2>4. \A x : Held(thumbs, x) => Held(Append(thumbs, new), x)
    BY <2>2 DEF Held
  <2>5. \A i \in DOMAIN Append(thumbs, new) :
          (i \in DOMAIN thumbs /\ Append(thumbs, new)[i] = thumbs[i]) \/ Append(thumbs, new)[i] = new
    <3>1. \A i \in 1 .. Len(thumbs) + 1 : i \in 1 .. Len(thumbs) \/ i = Len(thumbs) + 1
      BY <2>2
    <3>. QED
      BY <2>2, <3>1
  <2>. QED
    BY <1>2, <2>1, <2>3, <2>4, <2>5 DEF new
<1>. QED
  BY <1>1, <1>2

LEMMA StoresFresh ==
    ASSUME TypeInv, FreshInv, NEW it \in items, ProbeStores(it)
    PROVE  FreshInv'
<1>. DEFINE f == it.key[1]
            key == ThumbKey(f, stamp[f])
            next == [it EXCEPT !.kind = "result", !.thumb = key]
<1>0. /\ it \in Items /\ f \in File /\ it.key[2] \in Nat /\ stamp[f] \in Nat
      /\ thumbs \in Seq(Pictures) /\ key \in Versions /\ it.shown \in Versions
      /\ Fresh(it.key, it.shown, it.thumb, stamp)
  <2>1. it \in Items /\ thumbs \in Seq(Pictures) /\ it.kind = "decoded"
    BY DEF TypeInv, ItemInv, ProbeStores
  <2>2. it.key \in Versions /\ it.shown \in {None} \cup Versions /\ it.shown # None
    BY <2>1 DEF Items, TypeInv, ItemInv, Whole
  <2>3. f \in File /\ it.key[2] \in Nat
    BY <2>2 DEF Versions, Stamp
  <2>4. stamp[f] \in Stamp
    BY <2>3 DEF TypeInv, TypeOK
  <2>. QED
    BY <2>1, <2>2, <2>3, <2>4 DEF Versions, Stamp, ThumbKey, FreshInv
<1>1. /\ thumbs' = Store(thumbs, key, it.shown)
      /\ spoilt' = IF ~Held(thumbs, key) /\ it.shown # key THEN spoilt \cup {key} ELSE spoilt
      /\ evicted' = evicted \ {key}
      /\ Probed(it, next)
  BY DEF ProbeStores, ThumbKey
<1>2. next.key = it.key /\ next.shown = it.shown /\ next.thumb = key
  BY <1>0 DEF Items
<1>3. Fresh(next.key, next.shown, next.thumb, stamp)
  <2>1. Between(key, it.key, stamp)
    BY <1>0 DEF Between, Fresh, ThumbKey
  <2>. HIDE DEF key, next
  <2>. QED
    BY <1>0, <1>2, <2>1 DEF Fresh
<1>. HIDE DEF key, next
<1>4. Kept(next.thumb, thumbs', evicted')
  BY <1>0, <1>1, <1>2, StoreKeeps DEF Kept
<1>5. \A x : Kept(x, thumbs, evicted) => Kept(x, thumbs', evicted')
  BY <1>0, <1>1, StoreKeeps DEF Kept
<1>6. \A i \in DOMAIN thumbs' : thumbs'[i].key \notin spoilt' => thumbs'[i].pixels = thumbs'[i].key
  <2>. SUFFICES ASSUME NEW i \in DOMAIN thumbs', thumbs'[i].key \notin spoilt'
                PROVE  thumbs'[i].pixels = thumbs'[i].key
    OBVIOUS
  <2>1. CASE i \in DOMAIN thumbs /\ thumbs'[i] = thumbs[i]
    BY <1>1, <2>1 DEF FreshInv
  <2>2. CASE ~Held(thumbs, key) /\ thumbs'[i] = [key |-> key, pixels |-> it.shown]
    BY <1>1, <2>2
  <2>. QED
    BY <1>0, <1>1, <2>1, <2>2, StoreKeeps
<1>7. UNCHANGED <<stamp, rows, changes>> /\ items' = (items \ {it}) \cup {next}
  BY <1>1 DEF Probed, world
<1>8. \A i \in Ids' : /\ Fresh(Key(rows'[i]), rows'[i].shown, rows'[i].thumb, stamp')
                      /\ Kept(rows'[i].thumb, thumbs', evicted')
  BY <1>5, <1>7 DEF FreshInv, Ids, Key
<1>9. \A jt \in items' : Fresh(jt.key, jt.shown, jt.thumb, stamp') /\ Kept(jt.thumb, thumbs', evicted')
  BY <1>3, <1>4, <1>5, <1>7 DEF FreshInv
<1>. QED
  BY <1>6, <1>7, <1>8, <1>9 DEF FreshInv

LEMMA FinishFresh == ASSUME TypeInv, FreshInv, Finish PROVE FreshInv'
<1>0. rows \in [Ids -> Rows] /\ thumbs \in Seq(Pictures)
  BY RowsFacts DEF TypeInv
<1>1. /\ EndScan /\ thumbs' = Evict(thumbs) /\ UNCHANGED <<stamp, changes, spoilt>>
      /\ evicted' = evicted \cup {t.key : t \in ToSet(thumbs) \ ToSet(thumbs')}
  BY DEF Finish, world
<1>2. \A r \in Rows : LET t == [r EXCEPT !.seen = FALSE] IN
        t.file = r.file /\ t.stamp = r.stamp /\ t.shown = r.shown /\ t.thumb = r.thumb
  BY DEF Rows
<1>3. items' = {} /\ Ids' = Ids
      /\ \A i \in Ids : /\ rows'[i].file = rows[i].file /\ rows'[i].stamp = rows[i].stamp
                        /\ rows'[i].shown = rows[i].shown /\ rows'[i].thumb = rows[i].thumb
  BY <1>0, <1>1, <1>2 DEF EndScan, Ids
<1>4. \A x : Kept(x, thumbs, evicted) => Kept(x, thumbs', evicted')
  <2>. SUFFICES ASSUME NEW x, Held(thumbs, x)
                PROVE  Held(thumbs', x) \/ x \in evicted'
    BY <1>1 DEF Kept
  <2>1. PICK i \in DOMAIN thumbs : thumbs[i].key = x
    BY DEF Held
  <2>2. thumbs[i] \in ToSet(thumbs)
    BY DEF ToSet
  <2>3. CASE thumbs[i] \in ToSet(thumbs')
    BY <2>1, <2>3 DEF ToSet, Held
  <2>4. CASE thumbs[i] \notin ToSet(thumbs')
    BY <1>1, <2>1, <2>2, <2>4
  <2>. QED
    BY <2>3, <2>4
<1>5. \A i \in DOMAIN thumbs' : thumbs'[i].key \notin spoilt' => thumbs'[i].pixels = thumbs'[i].key
  BY <1>0, <1>1, EvictedCache DEF FreshInv
<1>6. \A i \in Ids' : /\ Fresh(Key(rows'[i]), rows'[i].shown, rows'[i].thumb, stamp)
                      /\ Kept(rows'[i].thumb, thumbs', evicted')
  BY <1>3, <1>4 DEF FreshInv, Key
<1>. QED
  BY <1>1, <1>3, <1>5, <1>6 DEF FreshInv, Key

LEMMA CommitFresh == ASSUME TypeInv, FreshInv, NEW it \in items, Commit(it) PROVE FreshInv'
<1>0. /\ rows \in [Ids -> Rows] /\ UNCHANGED <<stamp, changes, thumbs, spoilt, evicted>>
      /\ items' = items \ {it} /\ pc = "walk" /\ stamp \in [File -> Stamp] /\ changes \in Nat
  BY RowsFacts DEF TypeInv, TypeOK, CountInv, Commit, world, cache
<1>1. CASE it.kind = "unchanged"
  <2>1. rows' = Touched(it)
    BY <1>1 DEF Commit
  <2>. QED
    BY <1>0, <2>1, TouchedRows, RowsFresh DEF Ids
<1>2. CASE it.kind = "moved"
  <2>1. rows' = Renamed(it) /\ it.from \in Ids
    BY <1>2 DEF Commit, TypeInv, ItemInv, Whole, KnownInv
  <2>2. rows' \in [Ids -> Rows]
        /\ \A i \in Ids : /\ rows'[i].file = rows[i].file /\ rows'[i].stamp = rows[i].stamp
                          /\ rows'[i].shown = rows[i].shown /\ rows'[i].thumb = rows[i].thumb
    BY <2>1, RenamedRows
  <2>. QED
    BY <1>0, <2>2, RowsFresh DEF Ids
<1>3. CASE it.kind = "result"
  <2>1. rows' = Upserted(it)
    BY <1>3 DEF Commit
  <2>2. Fresh(it.key, it.shown, it.thumb, stamp) /\ Kept(it.thumb, thumbs, evicted)
    BY DEF FreshInv
  <2>3. \A flag \in BOOLEAN : LET r == NewRow(it, flag) IN
          Key(r) = <<it.key[1], it.key[2]>> /\ r.shown = it.shown /\ r.thumb = it.thumb
    BY DEF NewRow, Key
  <2>4. it.key = <<it.key[1], it.key[2]>>
    BY DEF TypeInv, ItemInv, Items, Versions
  <2>5. ASSUME NEW i \in DOMAIN rows'
        PROVE  /\ Fresh(Key(rows'[i]), rows'[i].shown, rows'[i].thumb, stamp)
               /\ Kept(rows'[i].thumb, thumbs, evicted)
    <3>1. CASE i \in Ids /\ rows[i].path # it.path
      BY <1>0, <2>1, <3>1, UpsertedRows DEF FreshInv
    <3>2. CASE i \notin Ids \/ rows[i].path = it.path
      <4>1. PICK flag \in BOOLEAN : rows'[i] = NewRow(it, flag)
        BY <1>0, <2>1, <3>2, UpsertedRows
      <4>. QED
        BY <2>2, <2>3, <2>4, <4>1
    <3>. QED
      BY <3>1, <3>2
  <2>. QED
    BY <1>0, <2>5 DEF FreshInv, Ids, Key
<1>. QED
  BY <1>1, <1>2, <1>3 DEF Commit

LEMMA NextFresh == TypeInv /\ FreshInv /\ [Next]_vars => FreshInv'
<1>. SUFFICES ASSUME TypeInv, FreshInv, [Next]_vars PROVE FreshInv'
  OBVIOUS
<1>1. CASE UNCHANGED vars
  <2>1. UNCHANGED <<rows, stamp, changes, items, thumbs, spoilt, evicted>>
    BY <1>1 DEF vars, world, scan, pass, cache
  <2>. QED
    BY <2>1 DEF FreshInv, Ids, Key
<1>2. CASE Next
  BY <1>2, DisksFresh, FlagsFresh, ProbesFresh, StoresFresh, CommitFresh, FinishFresh DEF Next
<1>. QED
  BY <1>1, <1>2

\* A row that passes for unchanged shows the dimensions and the picture of that
\* very version of its file, but for the keys a probe stored what it had decoded
\* before an edit under; and its thumbnail is in the cache, or was evicted.
THEOREM DataIsFresh == Spec => []FreshData
<1>1. TypeInv /\ FreshInv => FreshData
  <2>. SUFFICES ASSUME TypeInv, FreshInv, NEW i \in Ids
                PROVE  LET version == <<rows[i].file, rows[i].stamp>> IN
                       /\ Current(i) /\ rows[i].shown # None => rows[i].shown = version
                       /\ Current(i) /\ rows[i].thumb \notin spoilt
                             => Read(thumbs, rows[i].thumb) \in {None, version}
                       /\ rows[i].thumb # None
                             => Held(thumbs, rows[i].thumb) \/ rows[i].thumb \in evicted
    BY DEF FreshData
  <2>. DEFINE version == <<rows[i].file, rows[i].stamp>>
  <2>0. /\ Key(rows[i]) = version /\ rows[i].stamp \in Nat
        /\ Fresh(Key(rows[i]), rows[i].shown, rows[i].thumb, stamp)
        /\ Kept(rows[i].thumb, thumbs, evicted)
        /\ thumbs \in Seq(Pictures)
    BY RowsFacts DEF Rows, Stamp, TypeInv, FreshInv, Key
  <2>1. ASSUME Current(i), NEW x \in {None} \cup Versions, Between(x, version, stamp), x # None
        PROVE  x = version
    <3>1. x[1] = rows[i].file /\ rows[i].stamp <= x[2] /\ x[2] <= rows[i].stamp
      BY <2>1 DEF Between, Current
    <3>2. x \in Versions /\ x[2] \in Nat
      BY <2>1 DEF Versions, Stamp
    <3>3. x[2] = rows[i].stamp
      BY <2>0, <3>1, <3>2
    <3>. QED
      BY <3>1, <3>2, <3>3 DEF Versions
  <2>2. /\ rows[i].shown \in {None} \cup Versions /\ rows[i].thumb \in {None} \cup Versions
        /\ Between(rows[i].shown, version, stamp) /\ Between(rows[i].thumb, version, stamp)
    BY <2>0, RowTypes DEF Fresh
  <2>3. ASSUME Current(i), rows[i].thumb \notin spoilt, Held(thumbs, rows[i].thumb)
        PROVE  Read(thumbs, rows[i].thumb) = version
    <3>. DEFINE x == rows[i].thumb
    <3>1. PICK k \in DOMAIN thumbs : thumbs[k].key = x
      BY <2>3 DEF Held
    <3>2. thumbs[k] \in ToSet(thumbs)
      BY DEF ToSet
    <3>3. \A t \in ToSet(thumbs) : t \in Pictures /\ (t.key = x => t.pixels = x)
      BY <2>0, <2>3 DEF ToSet, FreshInv
    <3>4. Read(thumbs, x) = x
      BY <2>3, <3>1, <3>2, <3>3 DEF Read
    <3>5. x # None
      BY <3>1, <3>2, <3>3, NoFile DEF Pictures
    <3>. QED
      BY <2>1, <2>2, <2>3, <3>4, <3>5
  <2>4. ~Held(thumbs, rows[i].thumb) => Read(thumbs, rows[i].thumb) = None
    BY DEF Read
  <2>. QED
    BY <2>0, <2>1, <2>2, <2>3, <2>4 DEF Kept
<1>. QED
  BY <1>1, InitTypes, InitFresh, NextTypes, NextFresh, PTL DEF Spec

-----------------------------------------------------------------------------
\* What an undisturbed scan has established.

LEMMA PlacesStay ==
    ASSUME UNCHANGED world
    PROVE  Places' = Places /\ stamp' = stamp /\ Unmounted' = Unmounted
BY DEF world, Places, FileAt, Mounted, Unmounted, Place

LEMMA PlacesType ==
    ASSUME TypeInv
    PROVE  /\ \A p \in Path : Places[p] = FileAt(p) /\ Places[p] \in File \cup {None}
           /\ \A i \in Ids : rows[i].path \in Path /\ rows[i].file \in File
           /\ \A i \in DOMAIN known : known[i].path \in Path /\ known[i].file \in File
<1>1. \A i \in Ids : rows[i].path \in Path /\ rows[i].file \in File
  BY RowsFacts DEF TypeInv, Rows
<1>2. \A i \in DOMAIN known : known[i].path \in Path /\ known[i].file \in File
  <2>1. \A i \in DOMAIN known : known[i] \in Rows
    BY DEF TypeInv, KnownInv
  <2>. QED
    BY <2>1 DEF Rows
<1>. QED
  BY <1>1, <1>2, FileAtType DEF Places, TypeInv

\* A disturbed scan has nothing to show but that its number is off the rows.
LEMMA Disturbed == ASSUME quiet' = FALSE, NoneSeen' PROVE WalkInv'
BY DEF WalkInv, QuietInv, VisibleIsThere, Ended

LEMMA DisturbedWalk ==
    ASSUME TypeInv, NoneSeen
    PROVE  /\ \A e \in Place, f \in File : Create(e, f) => WalkInv'
           /\ \A d, e \in Place : Rename(d, e) \/ HardLink(d, e) => WalkInv'
           /\ \A e \in Place : Delete(e) => WalkInv'
           /\ \A f \in File : Edit(f) => WalkInv'
           /\ \A v \in Volume, m \in MountPoint \cup {None} : Remount(v, m) => WalkInv'
           /\ AddRule \/ RemoveRule \/ Reapply => WalkInv'
           /\ FailDir \/ Stop => WalkInv'
           /\ \A it \in items : CommitFails(it) => WalkInv'
<1>0. rows \in [Ids -> Rows]
  BY RowsFacts DEF TypeInv
<1>1. ASSUME Change, UNCHANGED rows PROVE WalkInv'
  <2>1. quiet' = FALSE /\ pc' = pc
    BY <1>1 DEF Change, scan
  <2>. QED
    BY <1>1, <2>1, Disturbed DEF NoneSeen, Ids
<1>2. ASSUME UNCHANGED <<pc, rows>>, quiet' = FALSE PROVE WalkInv'
  BY <1>2, Disturbed DEF NoneSeen, Ids
<1>3. \A r \in Rows, b \in BOOLEAN : r.seen => [r EXCEPT !.excluded = b].seen
  BY DEF Rows
<1>4. \A r \in Rows, b \in BOOLEAN : ~r.seen => ~[r EXCEPT !.excluded = b].seen
  BY DEF Rows
<1>5. ASSUME RemoveRule PROVE WalkInv'
  <2>1. quiet' = FALSE /\ pc' = pc /\ rows' = [i \in Ids |-> [rows[i] EXCEPT !.excluded = FALSE]]
    BY <1>5 DEF RemoveRule, Change, scan
  <2>2. NoneSeen'
    BY <1>0, <1>4, <2>1 DEF NoneSeen, Ids
  <2>. QED
    BY <2>1, <2>2, Disturbed
<1>6. ASSUME Reapply PROVE WalkInv'
  <2>1. quiet' = FALSE /\ pc' = pc
        /\ rows' = [i \in Ids |-> [rows[i] EXCEPT !.excluded = rule /\ rows[i].path \in Hidden]]
    BY <1>6 DEF Reapply, Flagged, scan
  <2>2. \A i \in Ids : (rule /\ rows[i].path \in Hidden) \in BOOLEAN
    BY DEF TypeInv, FlagInv
  <2>3. NoneSeen'
    BY <1>0, <1>4, <2>1, <2>2 DEF NoneSeen, Ids
  <2>. QED
    BY <2>1, <2>3, Disturbed
<1>7. ASSUME FailDir PROVE WalkInv'
  BY <1>2, <1>7 DEF FailDir
<1>8. ASSUME EndScan PROVE NoneSeen'
  <2>1. rows' = [i \in Ids |-> [rows[i] EXCEPT !.seen = FALSE]]
    BY <1>8 DEF EndScan
  <2>2. \A r \in Rows : ~[r EXCEPT !.seen = FALSE].seen
    BY DEF Rows
  <2>. QED
    BY <1>0, <2>1, <2>2 DEF NoneSeen, Ids
<1>9. Stop => WalkInv'
  BY <1>8, Disturbed DEF Stop
<1>10. \A it \in items : CommitFails(it) => WalkInv'
  BY <1>8, Disturbed DEF CommitFails
<1>11. \A v \in Volume, m \in MountPoint \cup {None} : Remount(v, m) => WalkInv'
  BY <1>2 DEF Remount, scan
<1>. QED
  BY <1>1, <1>5, <1>6, <1>7, <1>9, <1>10, <1>11 DEF Create, Rename, HardLink, Delete, Edit, AddRule

\* The first job of a scan: every mounted drive's root is where the drive is.
LEMMA ReconcileWalk == ASSUME TypeInv, NoneSeen, Reconcile PROVE WalkInv'
<1>0. TypeOK /\ rows \in [Ids -> Rows]
  BY RowsFacts DEF TypeInv
<1>1. CASE ~Healed.ok
  <2>1. quiet' = FALSE /\ UNCHANGED <<pc, rows>>
    BY <1>0, <1>1, HealedIsSound DEF Reconcile, Sound, Tables
  <2>. QED
    BY <2>1, Disturbed DEF NoneSeen, Ids
<1>2. CASE Healed.ok
  <2>1. /\ rows' = Healed.rows /\ rootPath' = Healed.paths /\ pc' = "reconciled" /\ pc = "idle"
        /\ offline' = Unmounted /\ UNCHANGED world
    BY <1>2 DEF Reconcile
  <2>2. /\ DOMAIN Healed.rows = Ids
        /\ \A i \in Ids : \E p \in Path : Healed.rows[i] = [rows[i] EXCEPT !.path = p]
        /\ \A v \in Volume : at[v] # None => Healed.paths[v] = at[v]
    BY <1>0, <1>2, HealedIsSound DEF Sound, Tables
  <2>3. ASSUME NEW i \in Ids PROVE ~Healed.rows[i].seen
    <3>1. PICK p \in Path : Healed.rows[i] = [rows[i] EXCEPT !.path = p]
      BY <2>2
    <3>2. \A r \in Rows : ~r.seen => ~[r EXCEPT !.path = p].seen
      BY DEF Rows
    <3>. QED
      BY <1>0, <2>1, <3>1, <3>2 DEF NoneSeen
  <2>4. NoneSeen'
    BY <2>1, <2>2, <2>3 DEF NoneSeen, Ids
  <2>5. SteadyInv'
    BY <2>1, <2>2, PlacesStay DEF SteadyInv, world
  <2>. QED
    BY <2>1, <2>4, <2>5 DEF WalkInv, QuietInv, VisibleIsThere, Ended
<1>. QED
  BY <1>1, <1>2

\* The steps between the roots: they are as steady as before.
LEMMA SteadyStays ==
    ASSUME SteadyInv, UNCHANGED <<world, rootPath, rule, offline, matcher>>, pc \in {"load", "walk"}
    PROVE  SteadyInv'
BY PlacesStay DEF SteadyInv, world

LEMMA BeginWalk ==
    ASSUME TypeInv, NoneSeen, QuietInv, NEW wanted \in Requests, Begin(wanted)
    PROVE  WalkInv'
<1>1. /\ pc = "reconciled" /\ pc' = "load" /\ left' = wanted /\ matcher' = rule
      /\ UNCHANGED <<world, rootPath, rows, rule, offline, quiet>>
      /\ scope' = IF quiet THEN wanted ELSE {}
  BY DEF Begin
<1>2. \A i \in Ids : ~rows[i].seen
  BY <1>1 DEF NoneSeen
<1>3. scope' \ left' = {}
  BY <1>1
<1>4. DoneInv'
  BY <1>1, <1>2, <1>3 DEF DoneInv, Ids
<1>5. quiet => SteadyInv'
  BY <1>1, PlacesStay DEF QuietInv, SteadyInv, world
<1>. QED
  BY <1>1, <1>4, <1>5 DEF WalkInv, NoneSeen, QuietInv, VisibleIsThere, Ended

LEMMA SkipOfflineWalk == ASSUME TypeInv, WalkInv, SkipOffline PROVE WalkInv'
<1>. DEFINE ids == {i \in Ids : rows[i].root = This /\ ~rows[i].excluded}
<1>1. /\ pc = "load" /\ pc' = "load" /\ left' = left \ {This} /\ rows' = MarkedMissing(ids)
      /\ UNCHANGED <<world, rootPath, rule, offline, matcher, quiet, scope>>
  BY DEF SkipOffline
<1>2. MarkedMissing(ids) \in [Ids -> Rows] /\ rows \in [Ids -> Rows]
  BY MarkedRows, RowsFacts DEF TypeInv
<1>3. Places' = Places /\ stamp' = stamp
  BY <1>1, PlacesStay
<1>4. ASSUME quiet,
             NEW i \in Ids, rows'[i].seen \/ (rows'[i].root \in scope \ left' /\ ~rows'[i].missing /\ ~rows'[i].excluded)
      PROVE  Right(rows'[i], Places, stamp, rule)
  <2>1. /\ rows'[i].path = rows[i].path /\ rows'[i].root = rows[i].root /\ rows'[i].file = rows[i].file
        /\ rows'[i].stamp = rows[i].stamp /\ (rows'[i].seen <=> rows[i].seen)
        /\ (rows'[i].excluded <=> rows[i].excluded)
        /\ (rows'[i].missing <=> i \in ids \/ rows[i].missing)
    <3>. HIDE DEF ids
    <3>. QED
      BY <1>1, MarkedRows DEF TypeInv
  <2>2. rows[i].seen \/ (rows[i].root \in scope \ left /\ Visible(i))
    BY <1>1, <1>4, <2>1 DEF Visible
  <2>3. Right(rows[i], Places, stamp, rule)
    BY <1>1, <1>4, <2>2 DEF WalkInv, QuietInv, DoneInv
  <2>. QED
    BY <2>1, <2>3 DEF Right
<1>5. quiet => DoneInv'
  <2>. HIDE DEF ids
  <2>. QED
    BY <1>1, <1>2, <1>3, <1>4 DEF DoneInv, Ids, Visible
<1>6. quiet => SteadyInv'
  BY <1>1, SteadyStays DEF WalkInv, QuietInv
<1>. QED
  BY <1>1, <1>5, <1>6 DEF WalkInv, NoneSeen, QuietInv, VisibleIsThere, Ended

\* A root that is not offline can be listed: it is a folder or a mounted drive.
LEMMA LoadKnownWalk == ASSUME TypeInv, WalkInv, LoadKnown PROVE WalkInv'
<1>1. /\ pc = "load" /\ pc' = "walk" /\ left # {} /\ This \notin offline /\ known' = rows
      /\ items' = {} /\ failed' = ~Listable(rootPath[This])
      /\ UNCHANGED <<world, rootPath, rows, rule, left, offline, matcher, quiet, scope>>
  BY DEF LoadKnown
<1>2. This \in Root
  BY <1>1, ThisIsLeft DEF TypeInv
<1>3. ASSUME quiet PROVE /\ DoneInv' /\ LoadedInv' /\ FoundInv'
  <2>1. DoneInv'
    BY <1>1, <1>3, PlacesStay DEF WalkInv, QuietInv, DoneInv, Visible, Ids
  <2>2. LoadedInv'
    BY <1>1 DEF LoadedInv, SameFile, Ids
  <2>3. FoundInv'
    BY <1>1 DEF FoundInv
  <2>. QED
    BY <2>1, <2>2, <2>3
<1>4. ASSUME quiet PROVE ~failed'
  <2>1. SteadyInv
    BY <1>4 DEF WalkInv, QuietInv
  <2>2. CASE This \in Volume
    <3>1. at[This] # None /\ rootPath[This] = at[This]
      BY <1>1, <2>1, <2>2 DEF SteadyInv, Unmounted
    <3>. QED
      BY <1>1, <2>2, <3>1 DEF Listable, Mounted
  <2>3. CASE This \notin Volume
    <3>1. This \in HomeDir
      BY <1>2, <2>3 DEF Root
    <3>2. rootPath[This] = This
      BY <3>1 DEF TypeInv
    <3>. QED
      BY <1>1, <3>1, <3>2 DEF Listable
  <2>. QED
    BY <2>2, <2>3
<1>5. quiet => SteadyInv'
  BY <1>1, SteadyStays DEF WalkInv, QuietInv
<1>. QED
  BY <1>1, <1>3, <1>4, <1>5 DEF WalkInv, NoneSeen, QuietInv, VisibleIsThere, Ended

\* What a step of the walk that writes no row must show.
LEMMA WalkStep ==
    ASSUME WalkInv, pc = "walk",
           UNCHANGED <<world, rootPath, rows, rule, pc, left, offline, matcher, known, failed,
                       quiet, scope>>,
           met \subseteq met', quiet => FoundInv'
    PROVE  WalkInv'
<1>1. Places' = Places /\ stamp' = stamp
  BY PlacesStay
<1>2. quiet => SteadyInv'
  BY SteadyStays DEF WalkInv, QuietInv
<1>3. quiet => DoneInv'
  BY <1>1 DEF WalkInv, QuietInv, DoneInv, Visible, Ids
<1>4. quiet => LoadedInv'
  BY DEF WalkInv, QuietInv, LoadedInv, Ids
<1>. QED
  BY <1>2, <1>3, <1>4 DEF WalkInv, NoneSeen, QuietInv, VisibleIsThere, Ended

\* The old row of a moved file: the file was not met before, so that nothing has
\* moved the row, and nothing is at its path, so that nothing has confirmed it.
LEMMA OldRow ==
    ASSUME TypeInv, DoneInv, LoadedInv, NEW f \in File, f \notin met, NEW k \in DOMAIN known,
           known[k].file = f, Places[known[k].path] = None
    PROVE  SameFile(rows[k], known[k])
<1>1. k \in Ids /\ rows[k].file \in File
  BY PlacesType DEF TypeInv, KnownInv
<1>2. rows[k].path = known[k].path
  BY DEF LoadedInv
<1>3. ~Right(rows[k], Places, stamp, rule)
  BY <1>1, <1>2, NoFile DEF Right
<1>4. ~rows[k].seen
  BY <1>1, <1>3 DEF DoneInv
<1>. QED
  BY <1>4 DEF LoadedInv

LEMMA VisitWalk == ASSUME TypeInv, WalkInv, NEW n \in Name, Visit(n) PROVE WalkInv'
<1>. DEFINE p == <<rootPath[This], n>>
            f == FileAt(p)
            new == Item(p, f)
<1>1. /\ pc = "walk" /\ left # {}
      /\ UNCHANGED <<world, rootPath, rows, rule, pc, left, offline, matcher, known, failed,
                     quiet, scope>>
      /\ met \subseteq met'
  BY DEF Visit, TypeInv
<1>2. p \in Path
  BY <1>1, ThisIsLeft DEF TypeInv, TypeOK, Path
<1>3. Places' = Places /\ stamp' = stamp
  BY <1>1, PlacesStay
<1>4. ASSUME quiet PROVE FoundInv'
  <2>0. SteadyInv /\ DoneInv /\ LoadedInv /\ FoundInv
    BY <1>1, <1>4 DEF WalkInv, QuietInv
  <2>1. CASE UNCHANGED <<items, met>>
    BY <1>1, <1>3, <2>0, <2>1 DEF FoundInv, Left
  <2>2. CASE /\ f # None /\ ~(matcher /\ p \in Hidden) /\ f \notin met
             /\ met' = met \cup {f} /\ items' = items \cup {new}
    <3>1. f \in File /\ Places[p] = f
      BY <1>2, <2>2, FileAtType DEF TypeInv, Places
    <3>2. /\ new.path = p /\ new.key = <<f, stamp[f]>>
          /\ new.kind = "unchanged" => \E k \in KnownAs(p) : Key(known[k]) = <<f, stamp[f]>>
          /\ new.kind = "moved" => new.from = MovedFrom(p, f) /\ MovedFrom(p, f) # 0
      <4>. HIDE DEF p, f
      <4>. QED
        BY <1>2, <3>1, ItemType
    <3>3. Found(new, Places, stamp, rule) /\ new.key[1] = f
      <4>1. matcher = rule
        BY <1>1, <2>0 DEF SteadyInv
      <4>. HIDE DEF p, f, new
      <4>. QED
        BY <2>2, <3>1, <3>2, <4>1 DEF Found
    <3>4. new.kind = "unchanged" =>
            \E k \in DOMAIN known : known[k].path = new.path /\ Key(known[k]) = new.key
      <4>. HIDE DEF p, f, new
      <4>. QED
        BY <3>2 DEF KnownAs
    <3>5. ASSUME new.kind = "moved" PROVE Left(new, Places)
      <4>. DEFINE k == MovedFrom(p, f)
      <4>1. /\ k \in DOMAIN known /\ Key(known[k]) = <<f, stamp[f]>>
            /\ FileAt(known[k].path) = None
        <5>. HIDE DEF p, f, new
        <5>. QED
          BY <3>1, <3>2, <3>5, MovedFromType DEF TypeInv
      <4>2. Places[known[k].path] = None /\ known[k].file = f
        <5>1. known[k].path \in Path
          BY <4>1, PlacesType
        <5>. QED
          BY <4>1, <5>1 DEF Places, Key
      <4>3. SameFile(rows[k], known[k])
        <5>. HIDE DEF p, f, new, k
        <5>. QED
          BY <2>0, <2>2, <3>1, <4>1, <4>2, OldRow
      <4>. HIDE DEF p, f, new, k
      <4>. QED
        BY <3>2, <3>5, <4>1, <4>2, <4>3 DEF Left, k
    <3>. HIDE DEF p, f, new
    <3>6. ASSUME NEW it \in items'
          PROVE  /\ Found(it, Places, stamp, rule) /\ it.key[1] \in met'
                 /\ it.kind = "unchanged" =>
                      \E k \in DOMAIN known : known[k].path = it.path /\ Key(known[k]) = it.key
                 /\ it.kind = "moved" => Left(it, Places)
      <4>1. CASE it \in items
        BY <1>1, <2>0, <4>1 DEF FoundInv
      <4>2. CASE it = new
        BY <2>2, <3>3, <3>4, <3>5, <4>2
      <4>. QED
        BY <2>2, <4>1, <4>2
    <3>7. \A it \in items : it.key[1] # f
      BY <2>0, <2>2 DEF FoundInv
    <3>8. \A it, jt \in items' : it.key[1] = jt.key[1] => it = jt
      BY <2>0, <2>2, <3>3, <3>7 DEF FoundInv
    <3>. QED
      BY <1>1, <1>3, <3>6, <3>8 DEF FoundInv, Left
  <2>. QED
    BY <2>1, <2>2 DEF Visit
<1>. QED
  BY <1>1, <1>4, WalkStep

\* A step of a probe keeps the file and the path of its item.
LEMMA ProbedWalk ==
    ASSUME TypeInv, WalkInv, NEW it \in items, NEW next, Probed(it, next),
           next.kind \notin {"unchanged", "moved"}, next.path = it.path,
           quiet => next.key = it.key
    PROVE  WalkInv'
<1>1. /\ pc = "walk" /\ items' = (items \ {it}) \cup {next} /\ met' = met
      /\ UNCHANGED <<world, rootPath, rows, rule, pc, left, offline, matcher, known, failed,
                     quiet, scope>>
  BY DEF Probed
<1>2. Places' = Places /\ stamp' = stamp
  BY <1>1, PlacesStay
<1>3. ASSUME quiet PROVE FoundInv'
  <2>0. FoundInv
    BY <1>1, <1>3 DEF WalkInv, QuietInv
  <2>1. Found(next, Places, stamp, rule) /\ next.key = it.key /\ it.key[1] \in met
    BY <1>3, <2>0 DEF FoundInv, Found
  <2>2. \A jt, kt \in items' : jt.key[1] = kt.key[1] => jt = kt
    BY <1>1, <2>0, <2>1 DEF FoundInv
  <2>3. ASSUME NEW jt \in items'
        PROVE  /\ Found(jt, Places, stamp, rule) /\ jt.key[1] \in met
               /\ jt.kind = "unchanged" =>
                    \E k \in DOMAIN known : known[k].path = jt.path /\ Key(known[k]) = jt.key
               /\ jt.kind = "moved" => Left(jt, Places)
    BY <1>1, <2>0, <2>1 DEF FoundInv
  <2>. QED
    BY <1>1, <1>2, <2>2, <2>3 DEF FoundInv, Left
<1>. QED
  BY <1>1, <1>3, WalkStep

\* What a probe makes of an item: its key is that of the file it opened, which in an
\* undisturbed scan is the one the walk met.
LEMMA ProbeNext ==
    ASSUME TypeInv, WalkInv, NEW it \in items,
           ProbeOpens(it) \/ ProbeDecodes(it) \/ ProbeStores(it) \/ ProbeSkips(it)
    PROVE  \E next : /\ Probed(it, next)
                     /\ next.kind \notin {"unchanged", "moved"} /\ next.path = it.path
                     /\ quiet => next.key = it.key
                     /\ \/ next.key = it.key
                        \/ FileAt(it.path) # None /\ next.key[1] = FileAt(it.path)
<1>0. it \in Items
  BY DEF TypeInv, ItemInv
<1>1. ASSUME NEW x, NEW y, NEW next,
             \/ next = [it EXCEPT !.kind = "result"]
             \/ next = [it EXCEPT !.kind = "decoded", !.shown = x]
             \/ next = [it EXCEPT !.kind = "result", !.thumb = y]
      PROVE  next.kind \notin {"unchanged", "moved"} /\ next.path = it.path /\ next.key = it.key
  BY <1>0, <1>1 DEF Items
<1>2. CASE ProbeDecodes(it)
  BY <1>1, <1>2 DEF ProbeDecodes
<1>3. CASE ProbeStores(it)
  BY <1>1, <1>3 DEF ProbeStores
<1>4. CASE ProbeSkips(it)
  BY <1>1, <1>4 DEF ProbeSkips
<1>5. CASE ProbeOpens(it)
  <2>. DEFINE f == FileAt(it.path)
              key == <<f, stamp[f]>>
  <2>1. CASE f = None
    BY <1>1, <1>5, <2>1 DEF ProbeOpens
  <2>2. CASE f # None
    <3>. DEFINE next == [it EXCEPT !.kind = "open", !.key = key]
    <3>1. next.kind = "open" /\ next.path = it.path /\ next.key = key /\ key[1] = f
      BY <1>0 DEF Items
    <3>2. Probed(it, next) /\ pc = "walk"
      BY <1>5, <2>2 DEF ProbeOpens, Probed
    <3>3. quiet => key = it.key
      <4>1. SUFFICES ASSUME quiet PROVE key = it.key
        OBVIOUS
      <4>2. Found(it, Places, stamp, rule)
        BY <3>2, <4>1 DEF WalkInv, QuietInv, FoundInv
      <4>3. Places[it.path] = f
        BY <1>0 DEF Items, Places
      <4>4. it.key = <<it.key[1], it.key[2]>>
        BY <1>0 DEF Items, Versions
      <4>. HIDE DEF f
      <4>. QED
        BY <4>2, <4>3, <4>4 DEF Found
    <3>. HIDE DEF next, key
    <3>. QED
      BY <2>2, <3>1, <3>2, <3>3
  <2>. QED
    BY <2>1, <2>2
<1>. QED
  BY <1>2, <1>3, <1>4, <1>5

LEMMA ProbesWalk ==
    ASSUME TypeInv, WalkInv, NEW it \in items,
           ProbeOpens(it) \/ ProbeDecodes(it) \/ ProbeStores(it) \/ ProbeSkips(it)
    PROVE  WalkInv'
<1>1. PICK next : /\ Probed(it, next)
                  /\ next.kind \notin {"unchanged", "moved"} /\ next.path = it.path
                  /\ quiet => next.key = it.key
  BY ProbeNext
<1>. QED
  BY <1>1, ProbedWalk

\* A batch of an undisturbed scan.
LEMMA BatchFacts ==
    ASSUME TypeInv, WalkInv, NEW it \in items, Commit(it), quiet
    PROVE  /\ SteadyInv /\ DoneInv /\ LoadedInv /\ FoundInv
           /\ pc = "walk" /\ items' = items \ {it}
           /\ UNCHANGED <<world, rootPath, rule, pc, left, offline, matcher, known, met, failed,
                          quiet, scope>>
           /\ Places' = Places /\ stamp' = stamp
           /\ it.path \in Path /\ it.key[1] \in File /\ Places[it.path] = it.key[1]
           /\ Found(it, Places, stamp, rule)
           /\ rows \in [Ids -> Rows] /\ DOMAIN known \subseteq Ids
           /\ \A jt \in items : jt.kind = "moved" => jt.from \in DOMAIN known
<1>1. /\ pc = "walk" /\ items' = items \ {it}
      /\ UNCHANGED <<world, rootPath, rule, pc, left, offline, matcher, known, met, failed,
                     quiet, scope>>
  BY DEF Commit
<1>2. SteadyInv /\ DoneInv /\ LoadedInv /\ FoundInv
  BY <1>1 DEF WalkInv, QuietInv
<1>3. it.path \in Path /\ it.key[1] \in File
  BY DEF TypeInv, ItemInv, Items, Versions
<1>4. Found(it, Places, stamp, rule)
  BY <1>2 DEF FoundInv
<1>. QED
  BY <1>1, <1>2, <1>3, <1>4, PlacesStay, RowsFacts DEF Found, TypeInv, ItemInv, Whole, KnownInv

\* A batch leaves alone what the other items rely on.
LEMMA BatchFound ==
    ASSUME TypeInv, WalkInv, NEW it \in items, Commit(it), quiet,
           \A jt \in items \ {it} : jt.kind = "moved" => SameFile(rows'[jt.from], known[jt.from])
    PROVE  FoundInv'
<1>1. FoundInv /\ items' = items \ {it} /\ known' = known /\ met' = met /\ rule' = rule
      /\ Places' = Places /\ stamp' = stamp
  BY BatchFacts
<1>2. ASSUME NEW jt \in items \ {it}
      PROVE  /\ Found(jt, Places, stamp, rule) /\ jt.key[1] \in met
             /\ jt.kind = "unchanged" =>
                  \E k \in DOMAIN known : known[k].path = jt.path /\ Key(known[k]) = jt.key
             /\ jt.kind = "moved" => Left(jt, Places)
  BY <1>1 DEF FoundInv
<1>3. ASSUME NEW jt \in items \ {it}, jt.kind = "moved"
      PROVE  /\ SameFile(rows'[jt.from], known[jt.from])
             /\ Key(known[jt.from]) = jt.key
             /\ Places[known[jt.from].path] = None
  BY <1>2, <1>3 DEF Left
<1>4. \A jt, kt \in items \ {it} : jt.key[1] = kt.key[1] => jt = kt
  BY <1>1 DEF FoundInv
<1>. QED
  BY <1>1, <1>2, <1>3, <1>4 DEF FoundInv, Left

\* A row that is confirmed at its path is right: the item has its key.
LEMMA TouchedWalk ==
    ASSUME TypeInv, WalkInv, NEW it \in items, Commit(it), quiet, it.kind = "unchanged"
    PROVE  DoneInv' /\ LoadedInv' /\ FoundInv'
<1>0. rows' = Touched(it) /\ Ids' = Ids
  BY TouchedRows DEF Commit, Ids
<1>1. \A i \in Ids : LET t == rows'[i] IN
        /\ t.path = rows[i].path /\ t.root = rows[i].root /\ t.file = rows[i].file
        /\ t.stamp = rows[i].stamp
        /\ t.seen => rows[i].seen \/ Hit(i, it)
        /\ rows[i].seen => t.seen
        /\ ~t.missing /\ ~t.excluded => t.seen \/ (~rows[i].missing /\ ~rows[i].excluded)
  BY <1>0, TouchedRows
<1>2. ASSUME NEW i \in Ids, Hit(i, it)
      PROVE  Right(rows[i], Places, stamp, rule)
  <2>1. CASE rows[i].seen
    BY <2>1, BatchFacts DEF DoneInv
  <2>2. CASE ~rows[i].seen
    <3>1. i \in DOMAIN known /\ SameFile(rows[i], known[i])
      BY <2>2, BatchFacts DEF LoadedInv
    <3>2. PICK k \in DOMAIN known : known[k].path = it.path /\ Key(known[k]) = it.key
      BY BatchFacts DEF FoundInv
    <3>3. i = k
      BY <1>2, <3>1, <3>2 DEF Hit, SameFile, TypeInv, KnownInv
    <3>4. rows[i].path = it.path /\ rows[i].file = it.key[1] /\ rows[i].stamp = it.key[2]
      BY <1>2, <3>1, <3>2, <3>3 DEF Hit, SameFile, Key
    <3>. QED
      BY <3>4, BatchFacts DEF Found, Right
  <2>. QED
    BY <2>1, <2>2
<1>3. ASSUME NEW i \in Ids,
             rows'[i].seen \/ (rows'[i].root \in scope \ left /\ ~rows'[i].missing /\ ~rows'[i].excluded)
      PROVE  Right(rows'[i], Places, stamp, rule)
  <2>1. rows[i].seen \/ Hit(i, it) \/ (rows[i].root \in scope \ left /\ Visible(i))
    BY <1>1, <1>3 DEF Visible
  <2>2. Right(rows[i], Places, stamp, rule)
    BY <1>2, <2>1, BatchFacts DEF DoneInv
  <2>. QED
    BY <1>1, <2>2 DEF Right
<1>4. DoneInv'
  BY <1>0, <1>3, BatchFacts DEF DoneInv, Visible, Ids
<1>5. LoadedInv'
  <2>1. ASSUME NEW i \in DOMAIN known
        PROVE  /\ ~rows'[i].seen => SameFile(rows'[i], known[i])
               /\ rows'[i].path # known[i].path => known[i].file \in met
    <3>1. /\ i \in Ids
          /\ ~rows[i].seen => SameFile(rows[i], known[i])
          /\ rows[i].path # known[i].path => known[i].file \in met
      BY BatchFacts DEF LoadedInv
    <3>. QED
      BY <1>1, <3>1 DEF SameFile
  <2>2. ASSUME NEW i \in Ids, i \notin DOMAIN known
        PROVE  rows'[i].seen
    BY <1>1, <2>2, BatchFacts DEF LoadedInv
  <2>. QED
    BY <1>0, <2>1, <2>2, BatchFacts DEF LoadedInv
<1>6. ASSUME NEW jt \in items, jt.kind = "moved"
      PROVE  SameFile(rows'[jt.from], known[jt.from])
  <2>1. Left(jt, Places) /\ jt.from \in Ids
    BY <1>6, BatchFacts DEF FoundInv
  <2>. QED
    BY <1>1, <2>1 DEF Left, SameFile
<1>7. FoundInv'
  BY <1>6, BatchFound
<1>. QED
  BY <1>4, <1>5, <1>7

\* A row that follows its file is right at the new path.
LEMMA RenamedWalk ==
    ASSUME TypeInv, WalkInv, NEW it \in items, Commit(it), quiet, it.kind = "moved"
    PROVE  DoneInv' /\ LoadedInv' /\ FoundInv'
<1>. DEFINE k == it.from
<1>0. /\ rows' = Renamed(it) /\ k \in Ids /\ k \in DOMAIN known
      /\ SameFile(rows[k], known[k]) /\ Key(known[k]) = it.key /\ it.key[1] \in met
  BY BatchFacts DEF Commit, FoundInv, Left
<1>1. /\ Ids' = Ids /\ rows'[k].path = it.path /\ rows'[k].file = rows[k].file
      /\ rows'[k].stamp = rows[k].stamp /\ rows'[k].seen
      /\ \A i \in Ids \ {k} : rows'[i] = rows[i]
  BY <1>0, RenamedRows DEF Ids
<1>2. rows[k].file = it.key[1] /\ rows[k].stamp = it.key[2] /\ known[k].file = it.key[1]
  BY <1>0 DEF SameFile, Key
<1>3. Right(rows'[k], Places, stamp, rule)
  BY <1>1, <1>2, BatchFacts DEF Right, Found
<1>4. DoneInv'
  <2>1. ASSUME NEW i \in Ids \ {k}, rows[i].seen \/ (rows[i].root \in scope \ left /\ Visible(i))
        PROVE  Right(rows[i], Places, stamp, rule)
    BY <2>1, BatchFacts DEF DoneInv
  <2>. QED
    BY <1>1, <1>3, <2>1, BatchFacts DEF DoneInv, Visible, Ids
<1>5. LoadedInv'
  <2>1. \A i \in DOMAIN known : /\ ~rows'[i].seen => SameFile(rows'[i], known[i])
                                /\ rows'[i].path # known[i].path => known[i].file \in met
    BY <1>0, <1>1, <1>2, BatchFacts DEF LoadedInv
  <2>2. \A i \in Ids : i \notin DOMAIN known => rows'[i].seen
    BY <1>0, <1>1, BatchFacts DEF LoadedInv
  <2>. QED
    BY <1>1, <2>1, <2>2, BatchFacts DEF LoadedInv, Ids
<1>6. ASSUME NEW jt \in items \ {it}, jt.kind = "moved"
      PROVE  SameFile(rows'[jt.from], known[jt.from])
  <2>1. Left(jt, Places) /\ jt.key[1] # it.key[1] /\ jt.from \in Ids
    BY <1>6, BatchFacts DEF FoundInv
  <2>2. jt.from # k
    BY <1>0, <2>1 DEF Left
  <2>. QED
    BY <1>1, <2>1, <2>2 DEF Left
<1>7. FoundInv'
  BY <1>6, BatchFound
<1>. QED
  BY <1>4, <1>5, <1>7

\* A row that is written anew is right, and replaces none that is to be moved:
\* there is a file at its path.
LEMMA UpsertedWalk ==
    ASSUME TypeInv, WalkInv, NEW it \in items, Commit(it), quiet, it.kind = "result"
    PROVE  DoneInv' /\ LoadedInv' /\ FoundInv'
<1>0. /\ rows' = Upserted(it) /\ pc = "walk" /\ Ids \subseteq DOMAIN rows'
      /\ \A i \in Ids : rows[i].path # it.path => rows'[i] = rows[i]
  BY BatchFacts, UpsertedRows DEF Commit
<1>1. ASSUME NEW i \in DOMAIN rows', i \notin Ids \/ rows[i].path = it.path
      PROVE  /\ rows'[i].path = it.path /\ rows'[i].seen
             /\ Right(rows'[i], Places, stamp, rule)
  <2>1. PICK flag \in BOOLEAN : rows'[i] = NewRow(it, flag)
    BY <1>0, <1>1, UpsertedRows
  <2>2. /\ rows'[i].path = it.path /\ rows'[i].seen
        /\ rows'[i].file = it.key[1] /\ rows'[i].stamp = it.key[2]
    BY <2>1 DEF NewRow
  <2>. QED
    BY <2>2, BatchFacts DEF Right, Found
<1>2. ASSUME NEW i \in DOMAIN rows',
             rows'[i].seen \/ (rows'[i].root \in scope \ left /\ ~rows'[i].missing /\ ~rows'[i].excluded)
      PROVE  Right(rows'[i], Places, stamp, rule)
  <2>1. CASE i \notin Ids \/ rows[i].path = it.path
    BY <1>1, <2>1
  <2>2. CASE i \in Ids /\ rows[i].path # it.path
    BY <1>0, <1>2, <2>2, BatchFacts DEF DoneInv, Visible
  <2>. QED
    BY <2>1, <2>2
<1>3. DoneInv'
  BY <1>2, BatchFacts DEF DoneInv, Visible, Ids
<1>4. LoadedInv'
  <2>1. ASSUME NEW i \in DOMAIN known
        PROVE  /\ ~rows'[i].seen => SameFile(rows'[i], known[i])
               /\ rows'[i].path # known[i].path => known[i].file \in met
    <3>1. i \in Ids /\ i \in DOMAIN rows'
      BY <1>0, BatchFacts
    <3>2. CASE rows[i].path = it.path
      BY <1>1, <3>1, <3>2, BatchFacts DEF LoadedInv
    <3>3. CASE rows[i].path # it.path
      BY <1>0, <3>1, <3>3, BatchFacts DEF LoadedInv
    <3>. QED
      BY <3>2, <3>3
  <2>2. ASSUME NEW i \in DOMAIN rows', i \notin DOMAIN known
        PROVE  rows'[i].seen
    <3>1. CASE i \notin Ids \/ rows[i].path = it.path
      BY <1>1, <3>1
    <3>2. CASE i \in Ids /\ rows[i].path # it.path
      BY <1>0, <2>2, <3>2, BatchFacts DEF LoadedInv
    <3>. QED
      BY <3>1, <3>2
  <2>. QED
    BY <2>1, <2>2, BatchFacts DEF LoadedInv, Ids
<1>5. ASSUME NEW jt \in items, jt.kind = "moved"
      PROVE  SameFile(rows'[jt.from], known[jt.from])
  <2>1. Left(jt, Places) /\ jt.from \in Ids
    BY <1>5, BatchFacts DEF FoundInv
  <2>2. rows[jt.from].path # it.path
    BY <2>1, BatchFacts, NoFile DEF Left, SameFile
  <2>. QED
    BY <1>0, <2>1, <2>2 DEF Left
<1>6. FoundInv'
  BY <1>5, BatchFound
<1>. QED
  BY <1>3, <1>4, <1>6

LEMMA CommitWalk == ASSUME TypeInv, WalkInv, NEW it \in items, Commit(it) PROVE WalkInv'
<1>1. pc = "walk" /\ pc' = "walk" /\ quiet' = quiet /\ failed' = failed
  BY DEF Commit
<1>2. quiet => DoneInv' /\ LoadedInv' /\ FoundInv'
  BY TouchedWalk, RenamedWalk, UpsertedWalk DEF Commit
<1>3. quiet => SteadyInv'
  BY BatchFacts, SteadyStays
<1>4. quiet => ~failed'
  BY <1>1 DEF WalkInv, QuietInv
<1>. QED
  BY <1>1, <1>2, <1>3, <1>4 DEF WalkInv, NoneSeen, QuietInv, VisibleIsThere, Ended

\* The end of a root: what the scan did not meet there is missing now.
LEMMA SweepWalk == ASSUME TypeInv, WalkInv, Sweep PROVE WalkInv'
<1>1. /\ pc = "walk" /\ pc' = "load" /\ left' = left \ {This}
      /\ rows' = IF failed THEN rows ELSE MarkedMissing(Absent(This))
      /\ UNCHANGED <<world, rootPath, rule, offline, matcher, quiet, scope>>
  BY DEF Sweep
<1>2. Places' = Places /\ stamp' = stamp
  BY <1>1, PlacesStay
<1>3. ASSUME quiet PROVE DoneInv'
  <2>1. DoneInv /\ rows' = MarkedMissing(Absent(This)) /\ MarkedMissing(Absent(This)) \in [Ids -> Rows]
    BY <1>1, <1>3, MarkedRows DEF WalkInv, QuietInv, TypeInv
  <2>2. ASSUME NEW i \in Ids,
               rows'[i].seen \/ (rows'[i].root \in scope \ left' /\ ~rows'[i].missing /\ ~rows'[i].excluded)
        PROVE  Right(rows'[i], Places, stamp, rule)
    <3>1. /\ rows'[i].path = rows[i].path /\ rows'[i].root = rows[i].root /\ rows'[i].file = rows[i].file
          /\ rows'[i].stamp = rows[i].stamp /\ (rows'[i].seen <=> rows[i].seen)
          /\ (rows'[i].excluded <=> rows[i].excluded)
          /\ (rows'[i].missing <=> i \in Absent(This) \/ rows[i].missing)
      BY <2>1, MarkedRows DEF TypeInv
    <3>2. rows[i].seen \/ (rows[i].root \in scope \ left /\ Visible(i))
      BY <1>1, <2>2, <3>1 DEF Visible, Absent
    <3>. QED
      BY <2>1, <3>1, <3>2 DEF DoneInv, Right
  <2>. QED
    BY <1>1, <1>2, <2>1, <2>2 DEF DoneInv, Visible, Ids
<1>4. quiet => SteadyInv'
  BY <1>1, SteadyStays DEF WalkInv, QuietInv
<1>. QED
  BY <1>1, <1>3, <1>4 DEF WalkInv, NoneSeen, QuietInv, VisibleIsThere, Ended

\* The end of the scan.
LEMMA FinishWalk == ASSUME TypeInv, WalkInv, Finish PROVE WalkInv'
<1>1. /\ pc = "load" /\ left = {} /\ pc' = "idle"
      /\ rows' = [i \in Ids |-> [rows[i] EXCEPT !.seen = FALSE]]
      /\ UNCHANGED <<world, rootPath, rule, quiet, scope>>
  BY DEF Finish, EndScan
<1>2. Places' = Places /\ stamp' = stamp
  BY <1>1, PlacesStay
<1>3. rows \in [Ids -> Rows] /\ \A i \in Ids : rows[i] \in Rows /\ rows[i].path \in Path
  BY RowsFacts DEF TypeInv, Rows
<1>4. \A r \in Rows : LET t == [r EXCEPT !.seen = FALSE] IN
        /\ t.path = r.path /\ t.root = r.root /\ t.file = r.file /\ t.stamp = r.stamp
        /\ ~t.seen /\ (t.missing <=> r.missing) /\ (t.excluded <=> r.excluded)
  BY DEF Rows
<1>5. NoneSeen'
  BY <1>1, <1>3, <1>4 DEF NoneSeen, Ids
<1>6. ASSUME quiet, NEW i \in Ids, rows'[i].root \in scope, ~rows'[i].missing, ~rows'[i].excluded
      PROVE  Right(rows'[i], Places, stamp, rule) /\ rows'[i].path \in Path
  <2>1. /\ rows'[i].path = rows[i].path /\ rows'[i].root = rows[i].root /\ rows'[i].file = rows[i].file
        /\ rows'[i].stamp = rows[i].stamp /\ ~rows[i].missing /\ ~rows[i].excluded
    BY <1>1, <1>3, <1>4, <1>6
  <2>2. Right(rows[i], Places, stamp, rule)
    BY <1>1, <1>6, <2>1 DEF WalkInv, QuietInv, DoneInv, Visible
  <2>. QED
    BY <1>3, <2>1, <2>2 DEF Right
<1>7. VisibleIsThere'
  <2>1. Ids' = Ids
    BY <1>1 DEF Ids
  <2>2. quiet => \A i \in Ids : rows'[i].root \in scope /\ ~rows'[i].missing /\ ~rows'[i].excluded =>
                  Right(rows'[i], Places, stamp, rule) /\ rows'[i].path \in Path
    BY <1>6
  <2>3. quiet' => \A i \in Ids' : rows'[i].root \in scope' /\ ~rows'[i].missing /\ ~rows'[i].excluded =>
                   Right(rows'[i], Places', stamp', rule') /\ rows'[i].path \in Path
    BY <1>1, <1>2, <2>1, <2>2
  <2>. QED
    BY <1>1, <2>3 DEF VisibleIsThere, Ended, Visible, Right, Places
<1>. QED
  BY <1>1, <1>5, <1>7 DEF WalkInv, QuietInv, SteadyInv

LEMMA StutterWalk == ASSUME WalkInv, UNCHANGED vars PROVE WalkInv'
<1>1. UNCHANGED <<world, rootPath, rows, rule, pc, left, offline, matcher, known, met, failed, items,
                  quiet, scope>>
  BY DEF vars, scan, pass
<1>2. Places' = Places /\ stamp' = stamp /\ Unmounted' = Unmounted
  BY <1>1, PlacesStay
<1>3. NoneSeen'
  BY <1>1 DEF WalkInv, NoneSeen, Ids
<1>4. QuietInv'
  <2>1. SteadyInv => SteadyInv'
    BY <1>1, <1>2 DEF SteadyInv, world
  <2>2. DoneInv => DoneInv'
    BY <1>1, <1>2 DEF DoneInv, Visible, Ids
  <2>3. LoadedInv => LoadedInv'
    BY <1>1 DEF LoadedInv, Ids
  <2>4. FoundInv => FoundInv'
    BY <1>1, <1>2 DEF FoundInv, Left
  <2>. QED
    BY <1>1, <2>1, <2>2, <2>3, <2>4 DEF WalkInv, QuietInv
<1>5. VisibleIsThere'
  BY <1>1 DEF WalkInv, VisibleIsThere, Ended, Visible, Ids, FileAt, Mounted, Place, world
<1>. QED
  BY <1>3, <1>4, <1>5 DEF WalkInv

LEMMA NextWalk == TypeInv /\ WalkInv /\ [Next]_vars => WalkInv'
<1>. SUFFICES ASSUME TypeInv, WalkInv, [Next]_vars PROVE WalkInv'
  OBVIOUS
<1>0. NoneSeen /\ QuietInv
  BY DEF WalkInv
<1>1. CASE UNCHANGED vars
  BY <1>1, StutterWalk
<1>2. CASE Next
  BY <1>0, <1>2, DisturbedWalk, ReconcileWalk, BeginWalk, SkipOfflineWalk, LoadKnownWalk, VisitWalk,
     ProbesWalk, CommitWalk, SweepWalk, FinishWalk DEF Next
<1>. QED
  BY <1>1, <1>2

\* After a scan that ended well and that nothing disturbed, every visible row of
\* a root it was asked for is that very version of a file that is there and that
\* no rule hides: for any roots and drives, moved files, links and rules.
THEOREM VisibleRowsAreThere == Spec => []VisibleIsThere
<1>1. WalkInv => VisibleIsThere
  BY DEF WalkInv
<1>. QED
  BY <1>1, InitTypes, InitWalk, NextTypes, NextWalk, PTL DEF Spec

-----------------------------------------------------------------------------
\* Which disk the files of a root are on.

\* A drive's root is never a folder of the system disk, so that what is found
\* there is on a drive, though not always on its own.  An item is in the root
\* that is walked.
DiskInv ==
    /\ \A e \in Place : tree[e] # None => DiskOf[tree[e]] = Disk(e[1])
    /\ \A i \in Ids : rows[i].root \in Volume => DiskOf[rows[i].file] \in Volume
    /\ pc # "walk" => items = {}
    /\ \A it \in items : /\ it.path[1] = rootPath[This]
                         /\ This \in Volume => DiskOf[it.key[1]] \in Volume

LEMMA ThisStays == ASSUME left' = left PROVE This' = This
BY DEF This

LEMMA FoundOnDrive ==
    ASSUME TypeInv, DiskInv, NEW v \in Volume, NEW p \in Path, p[1] = rootPath[v], FileAt(p) # None
    PROVE  DiskOf[FileAt(p)] \in Volume
<1>1. p[1] \notin HomeDir
  <2>1. \A r \in HomeDir : rootPath[r] = r /\ r \in Root /\ r # v
    BY NameAssumption DEF TypeInv, Root
  <2>2. v \in Root
    BY DEF Root
  <2>. QED
    BY <2>1, <2>2 DEF TypeInv, TypeOK
<1>2. p[1] \notin Root
  BY <1>1, NameAssumption DEF Path, Dir, Root
<1>3. p \notin Place
  BY <1>2, TreeAssumption
<1>4. Mounted(p[1]) # {}
  BY <1>3 DEF FileAt
<1>5. PICK w \in Mounted(p[1]) : FileAt(p) = tree[<<w, p[2]>>] /\ <<w, p[2]>> \in Place
  BY <1>4 DEF FileAt
<1>6. w \in Volume
  BY <1>5 DEF Mounted
<1>. QED
  BY <1>5, <1>6 DEF DiskInv, Disk

\* A step that leaves the trees, the files of the rows and their roots alone.
LEMMA DiskStays ==
    ASSUME DiskInv, tree' = tree, DOMAIN rows' = Ids,
           \A i \in Ids : rows'[i].root = rows[i].root /\ rows'[i].file = rows[i].file,
           \/ items' = {}
           \/ UNCHANGED <<pc, items, left, rootPath>>
    PROVE  DiskInv'
<1>1. Ids' = Ids
  BY DEF Ids
<1>2. \A i \in Ids' : rows'[i].root \in Volume => DiskOf[rows'[i].file] \in Volume
  BY <1>1 DEF DiskInv
<1>3. \A e \in Place : tree'[e] # None => DiskOf[tree'[e]] = Disk(e[1])
  BY DEF DiskInv
<1>4. CASE items' = {}
  BY <1>2, <1>3, <1>4 DEF DiskInv, Place
<1>5. CASE UNCHANGED <<pc, items, left, rootPath>>
  BY <1>2, <1>3, <1>5, ThisStays DEF DiskInv, Place
<1>. QED
  BY <1>4, <1>5

LEMMA InitDisk == Init => DiskInv
<1>. SUFFICES ASSUME Init PROVE DiskInv
  OBVIOUS
<1>1. tree = FirstTree /\ pc = "idle" /\ items = {}
  BY DEF Init
<1>2. ASSUME NEW i \in Ids PROVE \E e \in Scanned : rows[i].root = e[1] /\ rows[i].file = FirstTree[e]
  <2>1. rows[i] \in FirstRows
    BY FirstTables
  <2>. QED
    BY <2>1 DEF FirstRows, FirstRow
<1>3. \A i \in Ids : rows[i].root \in Volume => DiskOf[rows[i].file] \in Volume
  BY <1>2, ScannedAssumption, TreeAssumption DEF Place
<1>. QED
  BY <1>1, <1>3, TreeAssumption DEF DiskInv, Disk

\* A change of a disk: a file gets a name on its own disk, or loses one.
LEMMA TreeDisk ==
    ASSUME TypeInv, DiskInv
    PROVE  /\ \A e \in Place, f \in File : Create(e, f) => DiskInv'
           /\ \A d, e \in Place : Rename(d, e) \/ HardLink(d, e) => DiskInv'
           /\ \A e \in Place : Delete(e) => DiskInv'
<1>0. tree \in [Place -> File \cup {None}]
  BY DEF TypeInv, TypeOK
<1>1. ASSUME Change, UNCHANGED <<rootPath, rows>>,
             \A e \in Place : tree'[e] # None => DiskOf[tree'[e]] = Disk(e[1])
      PROVE  DiskInv'
  <2>1. UNCHANGED <<pc, items, left>>
    BY <1>1 DEF Change, scan, pass
  <2>. QED
    BY <1>1, <2>1, ThisStays DEF DiskInv, Ids, Place
<1>2. ASSUME NEW e \in Place, NEW f \in File, Create(e, f) PROVE DiskInv'
  <2>1. Change /\ UNCHANGED <<rootPath, rows>> /\ tree' = [tree EXCEPT ![e] = f] /\ DiskOf[f] = Disk(e[1])
    BY <1>2 DEF Create
  <2>2. \A d \in Place : tree'[d] # None => DiskOf[tree'[d]] = Disk(d[1])
    BY <1>0, <2>1 DEF DiskInv
  <2>. QED
    BY <1>1, <2>1, <2>2
<1>3. ASSUME NEW d \in Place, NEW e \in Place, Rename(d, e) PROVE DiskInv'
  <2>1. /\ Change /\ UNCHANGED <<rootPath, rows>> /\ tree' = [tree EXCEPT ![e] = tree[d], ![d] = None]
        /\ Disk(d[1]) = Disk(e[1]) /\ tree[d] # None
    BY <1>3 DEF Rename
  <2>2. \A c \in Place : tree'[c] # None => DiskOf[tree'[c]] = Disk(c[1])
    BY <1>0, <2>1 DEF DiskInv
  <2>. QED
    BY <1>1, <2>1, <2>2
<1>4. ASSUME NEW d \in Place, NEW e \in Place, HardLink(d, e) PROVE DiskInv'
  <2>1. /\ Change /\ UNCHANGED <<rootPath, rows>> /\ tree' = [tree EXCEPT ![e] = tree[d]]
        /\ Disk(d[1]) = Disk(e[1]) /\ tree[d] # None
    BY <1>4 DEF HardLink
  <2>2. \A c \in Place : tree'[c] # None => DiskOf[tree'[c]] = Disk(c[1])
    BY <1>0, <2>1 DEF DiskInv
  <2>. QED
    BY <1>1, <2>1, <2>2
<1>5. ASSUME NEW e \in Place, Delete(e) PROVE DiskInv'
  <2>1. Change /\ UNCHANGED <<rootPath, rows>> /\ tree' = [tree EXCEPT ![e] = None]
    BY <1>5 DEF Delete
  <2>2. \A c \in Place : tree'[c] # None => DiskOf[tree'[c]] = Disk(c[1])
    BY <1>0, <2>1 DEF DiskInv
  <2>. QED
    BY <1>1, <2>1, <2>2
<1>. QED
  BY <1>2, <1>3, <1>4, <1>5

\* The steps that flag, mark or move rows, and those that start a root.
LEMMA RowsDisk ==
    ASSUME TypeInv, DiskInv,
           \/ \E f \in File : Edit(f)
           \/ \E v \in Volume, m \in MountPoint \cup {None} : Remount(v, m)
           \/ AddRule \/ RemoveRule \/ Reapply
           \/ Reconcile
           \/ \E wanted \in Requests : Begin(wanted)
           \/ SkipOffline \/ LoadKnown \/ FailDir \/ Sweep \/ Finish \/ Stop
           \/ \E it \in items : CommitFails(it)
    PROVE  DiskInv'
<1>0. /\ rows \in [Ids -> Rows] /\ TypeOK
      /\ pc # "walk" => items = {}
  BY RowsFacts DEF TypeInv, DiskInv
<1>1. \A i \in Ids : rows[i] \in Rows
  BY <1>0
<1>2. ASSUME UNCHANGED <<tree, rows>>, items' = {} \/ UNCHANGED <<pc, items, left, rootPath>> PROVE DiskInv'
  BY <1>2, DiskStays DEF Ids
<1>3. CASE \/ \E f \in File : Edit(f)
           \/ \E v \in Volume, m \in MountPoint \cup {None} : Remount(v, m)
           \/ AddRule \/ FailDir
  BY <1>2, <1>3 DEF Edit, Remount, AddRule, FailDir, Change, scan, pass, world
<1>4. CASE RemoveRule \/ Reapply
  <2>1. /\ UNCHANGED <<tree, pc, items, left, rootPath>>
        /\ \E b \in [Ids -> BOOLEAN] : rows' = [i \in Ids |-> [rows[i] EXCEPT !.excluded = b[i]]]
    <3>1. CASE RemoveRule
      <4>1. /\ UNCHANGED <<tree, pc, items, left, rootPath>>
            /\ rows' = [i \in Ids |-> [rows[i] EXCEPT !.excluded = FALSE]]
        BY <3>1 DEF RemoveRule, Change, scan, pass, world
      <4>. DEFINE b == [i \in Ids |-> FALSE]
      <4>2. b \in [Ids -> BOOLEAN] /\ rows' = [i \in Ids |-> [rows[i] EXCEPT !.excluded = b[i]]]
        BY <4>1
      <4>. QED
        BY <4>1, <4>2
    <3>2. CASE Reapply
      <4>1. /\ UNCHANGED <<tree, pc, items, left, rootPath>>
            /\ rows' = [i \in Ids |-> [rows[i] EXCEPT !.excluded = rule /\ rows[i].path \in Hidden]]
        BY <3>2 DEF Reapply, Flagged, scan, pass, world
      <4>. DEFINE b == [i \in Ids |-> rule /\ rows[i].path \in Hidden]
      <4>2. b \in [Ids -> BOOLEAN] /\ rows' = [i \in Ids |-> [rows[i] EXCEPT !.excluded = b[i]]]
        BY <4>1 DEF TypeInv, FlagInv
      <4>. QED
        BY <4>1, <4>2
    <3>. QED
      BY <1>4, <3>1, <3>2
  <2>2. PICK b \in [Ids -> BOOLEAN] : rows' = [i \in Ids |-> [rows[i] EXCEPT !.excluded = b[i]]]
    BY <2>1
  <2>3. DOMAIN rows' = Ids /\ \A i \in Ids : rows'[i].root = rows[i].root /\ rows'[i].file = rows[i].file
    BY <1>1, <2>2 DEF Rows
  <2>. QED
    BY <2>1, <2>3, DiskStays
<1>5. CASE Reconcile
  <2>1. items = {} /\ items' = items /\ tree' = tree
    BY <1>0, <1>5 DEF Reconcile, pass, world
  <2>2. /\ DOMAIN Healed.rows = Ids
        /\ \A i \in Ids : \E p \in Path : Healed.rows[i] = [rows[i] EXCEPT !.path = p]
    BY <1>0, HealedIsSound DEF Sound, Tables
  <2>3. \A i \in Ids : Healed.rows[i].root = rows[i].root /\ Healed.rows[i].file = rows[i].file
    BY <1>1, <2>2 DEF Rows
  <2>4. rows' = rows \/ rows' = Healed.rows
    BY <1>5 DEF Reconcile
  <2>5. DOMAIN rows' = Ids /\ \A i \in Ids : rows'[i].root = rows[i].root /\ rows'[i].file = rows[i].file
    BY <2>2, <2>3, <2>4 DEF Ids
  <2>. QED
    BY <2>1, <2>5, DiskStays
<1>6. CASE \/ \E wanted \in Requests : Begin(wanted)
           \/ LoadKnown
  BY <1>0, <1>2, <1>6 DEF Begin, LoadKnown, pass, world
<1>7. CASE SkipOffline \/ Sweep
  <2>1. items' = {} /\ tree' = tree
    BY <1>0, <1>7 DEF SkipOffline, Sweep, pass, world
  <2>2. rows' = rows \/ \E ids : rows' = MarkedMissing(ids)
    BY <1>7 DEF SkipOffline, Sweep
  <2>3. DOMAIN rows' = Ids /\ \A i \in Ids : rows'[i].root = rows[i].root /\ rows'[i].file = rows[i].file
    <3>1. CASE rows' = rows
      BY <3>1 DEF Ids
    <3>2. CASE \E ids : rows' = MarkedMissing(ids)
      BY <1>0, <3>2, MarkedRows
    <3>. QED
      BY <2>2, <3>1, <3>2
  <2>. QED
    BY <2>1, <2>3, DiskStays
<1>8. CASE Finish \/ Stop \/ \E it \in items : CommitFails(it)
  <2>1. items' = {} /\ tree' = tree /\ rows' = [i \in Ids |-> [rows[i] EXCEPT !.seen = FALSE]]
    BY <1>8 DEF Finish, Stop, CommitFails, EndScan, world
  <2>2. DOMAIN rows' = Ids /\ \A i \in Ids : rows'[i].root = rows[i].root /\ rows'[i].file = rows[i].file
    BY <1>1, <2>1 DEF Rows
  <2>. QED
    BY <2>1, <2>2, DiskStays
<1>. QED
  BY <1>3, <1>4, <1>5, <1>6, <1>7, <1>8

\* The steps of the walk: an item is what is at its path in the root.
LEMMA WalkDisk ==
    ASSUME TypeInv, WalkInv, DiskInv
    PROVE  /\ \A n \in Name : Visit(n) => DiskInv'
           /\ \A it \in items : ProbeOpens(it) \/ ProbeDecodes(it) \/ ProbeStores(it) \/ ProbeSkips(it) =>
                DiskInv'
           /\ \A it \in items : Commit(it) => DiskInv'
<1>0. rows \in [Ids -> Rows] /\ items \subseteq Items
  BY RowsFacts DEF TypeInv, ItemInv
<1>1. ASSUME pc = "walk", UNCHANGED <<tree, rows, pc, left, rootPath>>,
             \A jt \in items' : \/ jt \in items
                                \/ /\ jt.path[1] = rootPath[This]
                                   /\ This \in Volume => DiskOf[jt.key[1]] \in Volume
      PROVE  DiskInv'
  <2>1. This' = This
    BY <1>1, ThisStays
  <2>2. \A jt \in items' : /\ jt.path[1] = rootPath[This]
                           /\ This \in Volume => DiskOf[jt.key[1]] \in Volume
    BY <1>1 DEF DiskInv
  <2>. QED
    BY <1>1, <2>1, <2>2 DEF DiskInv, Ids, Place
<1>2. ASSUME NEW n \in Name, Visit(n) PROVE DiskInv'
  <2>. DEFINE p == <<rootPath[This], n>>
              f == FileAt(p)
  <2>1. pc = "walk" /\ UNCHANGED <<tree, rows, pc, left, rootPath>>
    BY <1>2 DEF Visit, world
  <2>2. This \in Root /\ p \in Path /\ p[1] = rootPath[This]
    BY <2>1, ThisIsLeft DEF TypeInv, TypeOK, Path
  <2>3. items' = items \/ (f # None /\ items' = items \cup {Item(p, f)})
    BY <1>2 DEF Visit
  <2>4. ASSUME f # None
        PROVE  /\ Item(p, f).path[1] = rootPath[This]
               /\ This \in Volume => DiskOf[Item(p, f).key[1]] \in Volume
    <3>1. f \in File
      BY <2>2, <2>4, FileAtType DEF TypeInv
    <3>2. Item(p, f).path = p /\ Item(p, f).key[1] = f
      <4>. HIDE DEF p, f
      <4>1. Item(p, f).path = p /\ Item(p, f).key = <<f, stamp[f]>>
        BY <2>2, <3>1, ItemType
      <4>. QED
        BY <4>1
    <3>3. This \in Volume => DiskOf[f] \in Volume
      <4>. HIDE DEF p
      <4>. QED
        BY <2>2, <2>4, FoundOnDrive
    <3>. HIDE DEF p, f
    <3>. QED
      BY <2>2, <3>2, <3>3
  <2>. HIDE DEF p, f
  <2>. QED
    BY <1>1, <2>1, <2>3, <2>4
<1>3. ASSUME NEW it \in items, ProbeOpens(it) \/ ProbeDecodes(it) \/ ProbeStores(it) \/ ProbeSkips(it)
      PROVE  DiskInv'
  <2>1. PICK next : /\ Probed(it, next) /\ next.path = it.path
                    /\ \/ next.key = it.key
                       \/ FileAt(it.path) # None /\ next.key[1] = FileAt(it.path)
    BY <1>3, ProbeNext
  <2>2. pc = "walk" /\ UNCHANGED <<tree, rows, pc, left, rootPath>> /\ items' = (items \ {it}) \cup {next}
    BY <2>1 DEF Probed, world
  <2>3. it.path \in Path /\ it.path[1] = rootPath[This] /\ (This \in Volume => DiskOf[it.key[1]] \in Volume)
    BY <1>0 DEF DiskInv, Items
  <2>4. This \in Volume => DiskOf[next.key[1]] \in Volume
    BY <2>1, <2>3, FoundOnDrive
  <2>. QED
    BY <1>1, <2>1, <2>2, <2>3, <2>4
<1>4. ASSUME NEW it \in items, Commit(it) PROVE DiskInv'
  <2>1. /\ pc = "walk" /\ UNCHANGED <<tree, pc, left, rootPath>> /\ items' = items \ {it}
        /\ it.kind \in {"unchanged", "moved", "result"} /\ DOMAIN known \subseteq Ids
        /\ it.kind = "moved" => it.from \in Ids
    BY <1>4 DEF Commit, world, TypeInv, KnownInv, ItemInv, Whole
  <2>2. This' = This
    BY <2>1, ThisStays
  <2>3. ASSUME NEW i \in DOMAIN rows', rows'[i].root \in Volume PROVE DiskOf[rows'[i].file] \in Volume
    <3>1. CASE it.kind = "unchanged"
      <4>1. rows' = Touched(it) /\ i \in Ids
        BY <1>4, <3>1, TouchedRows DEF Commit
      <4>2. rows'[i].root = rows[i].root /\ rows'[i].file = rows[i].file
        BY <4>1, TouchedRows
      <4>. QED
        BY <2>3, <4>1, <4>2 DEF DiskInv
    <3>2. CASE it.kind = "moved"
      <4>1. rows' = Renamed(it) /\ it.from \in Ids
        BY <1>4, <2>1, <3>2 DEF Commit
      <4>2. /\ i \in Ids
            /\ Renamed(it)[it.from].root = rows[it.from].root /\ Renamed(it)[it.from].file = rows[it.from].file
            /\ \A j \in Ids \ {it.from} : Renamed(it)[j] = rows[j]
        BY <4>1, RenamedRows
      <4>. QED
        BY <2>3, <4>1, <4>2 DEF DiskInv
    <3>3. CASE it.kind = "result"
      <4>1. rows' = Upserted(it)
        BY <1>4, <3>3 DEF Commit
      <4>2. CASE i \notin Ids \/ rows[i].path = it.path
        <5>1. \E flag \in BOOLEAN : rows'[i] = NewRow(it, flag)
          BY <2>1, <4>1, <4>2, UpsertedRows
        <5>2. rows'[i].root = This /\ rows'[i].file = it.key[1]
          BY <5>1 DEF NewRow
        <5>. QED
          BY <2>3, <5>2 DEF DiskInv
      <4>3. CASE i \in Ids /\ rows[i].path # it.path
        <5>1. rows'[i] = rows[i]
          BY <2>1, <4>1, <4>3, UpsertedRows
        <5>. QED
          BY <2>3, <4>3, <5>1 DEF DiskInv
      <4>. QED
        BY <4>2, <4>3
    <3>. QED
      BY <2>1, <3>1, <3>2, <3>3
  <2>. QED
    BY <2>1, <2>2, <2>3 DEF DiskInv, Ids, Place
<1>. QED
  BY <1>2, <1>3, <1>4

LEMMA NextDisk == TypeInv /\ WalkInv /\ DiskInv /\ [Next]_vars => DiskInv'
<1>. SUFFICES ASSUME TypeInv, WalkInv, DiskInv, [Next]_vars PROVE DiskInv'
  OBVIOUS
<1>1. CASE UNCHANGED vars
  <2>1. UNCHANGED <<tree, rows, pc, items, left, rootPath>>
    BY <1>1 DEF vars, world, scan, pass
  <2>. QED
    BY <2>1, DiskStays DEF Ids
<1>2. CASE Next
  BY <1>2, TreeDisk, RowsDisk, WalkDisk DEF Next
<1>. QED
  BY <1>1, <1>2

-----------------------------------------------------------------------------
\* Which rows an undisturbed scan has given to each file.

\* Of a file, one row per folder bears the scan's number, and none does in the
\* roots still to be walked.
OnceInv ==
    /\ \A i, j \in Ids : /\ rows[i].seen /\ rows[j].seen
                         /\ rows[i].file = rows[j].file /\ rows[i].path[1] = rows[j].path[1]
                         => i = j
    /\ \A i \in Ids, r \in left : rows[i].seen /\ rows[i].path[1] = rootPath[r] =>
         pc = "walk" /\ r = This

\* The visible rows of the finished roots bear the scan's number, and those that
\* bear it are not missing, unless their root is a drive's that was skipped.
SweptInv ==
    /\ \A i \in Ids : rows[i].root \in scope \ left /\ Visible(i) => rows[i].seen
    /\ \A i \in Ids : rows[i].seen => ~rows[i].missing \/ rows[i].root \in offline

\* Row i bears the scan's number and gives file f in the folder of root r.
Gives(i, f, r) == rows[i].seen /\ rows[i].file = f /\ rows[i].path[1] = rootPath[r]

\* A walk that is over has given a row to every file it could meet.
WalkedInv ==
    \A r \in Root, f \in File :
        r \in scope \ left /\ r \notin offline /\ OnShow(f, r) => \E i \in Ids : Gives(i, f, r)

\* A file the walk has met is on its way or has its row, and is not both.
MetInv ==
    /\ \A i \in Ids, f \in File : Gives(i, f, This) => f \in met /\ \A it \in items : it.key[1] # f
    /\ \A f \in met : (\E it \in items : it.key[1] = f) \/ \E i \in Ids : Gives(i, f, This)
    /\ \A n \in Name \ todo : LET p == <<rootPath[This], n>> IN
         Places[p] # None /\ ~(rule /\ p \in Hidden) => Places[p] \in met

\* Row k is the one the walk took for unchanged.
Same(k, it) ==
    /\ known[k].path = it.path /\ known[k].root = This /\ known[k].file = it.key[1]
    /\ SameFile(rows[k], known[k])

SameInv == \A it \in items : it.kind = "unchanged" => \E k \in DOMAIN known : Same(k, it)

QuietOnceInv ==
    quiet => /\ pc \in {"load", "walk"} => OnceInv /\ SweptInv /\ WalkedInv
             /\ pc = "walk" => MetInv /\ SameInv

CountedInv == DiskInv /\ QuietOnceInv /\ FilesAppearOnce

LEMMA ShowStays ==
    ASSUME UNCHANGED <<world, rootPath, rule>>
    PROVE  \A f \in File, r \in Root : OnShow(f, r)' <=> OnShow(f, r)
BY DEF world, OnShow, FileAt, Mounted, Place

\* Some name of the root leads to the file.
LEMMA ShowPlaces ==
    ASSUME TypeInv, NEW f, NEW r \in Root
    PROVE  /\ \A n \in Name : <<rootPath[r], n>> \in Path
           /\ OnShow(f, r) <=>
                \E n \in Name : LET p == <<rootPath[r], n>> IN Places[p] = f /\ ~(rule /\ p \in Hidden)
<1>1. \A n \in Name : <<rootPath[r], n>> \in Path
  BY DEF TypeInv, TypeOK, Path
<1>. QED
  BY <1>1 DEF OnShow, Places

LEMMA DisturbedOnce == ASSUME quiet' = FALSE, DiskInv' PROVE CountedInv'
BY DEF CountedInv, QuietOnceInv, FilesAppearOnce, Ended

LEMMA InitOnce == Init => CountedInv
<1>. SUFFICES ASSUME Init PROVE CountedInv
  OBVIOUS
<1>1. ~quiet
  BY DEF Init
<1>. QED
  BY <1>1, InitDisk DEF CountedInv, QuietOnceInv, FilesAppearOnce, Ended

LEMMA BeginOnce ==
    ASSUME TypeInv, WalkInv, QuietOnceInv, NEW wanted \in Requests, Begin(wanted)
    PROVE  QuietOnceInv'
<1>1. /\ pc = "reconciled" /\ pc' = "load" /\ left' = wanted
      /\ UNCHANGED <<rootPath, rows, rule, offline, quiet>>
      /\ scope' = IF quiet THEN wanted ELSE {}
  BY DEF Begin
<1>2. Ids' = Ids /\ \A i \in Ids : ~rows[i].seen
  BY <1>1 DEF WalkInv, NoneSeen, Ids
<1>3. scope' \ left' = {}
  BY <1>1
<1>4. OnceInv'
  BY <1>1, <1>2 DEF OnceInv
<1>5. SweptInv'
  BY <1>1, <1>2, <1>3 DEF SweptInv
<1>6. WalkedInv'
  BY <1>1, <1>3 DEF WalkedInv
<1>. QED
  BY <1>1, <1>4, <1>5, <1>6 DEF QuietOnceInv

\* A root that is skipped is not walked, and its rows are missing.
LEMMA SkipOfflineOnce ==
    ASSUME TypeInv, QuietOnceInv, SkipOffline
    PROVE  QuietOnceInv'
<1>. DEFINE ids == {i \in Ids : rows[i].root = This /\ ~rows[i].excluded}
<1>1. /\ pc = "load" /\ pc' = "load" /\ This \in left /\ This \in offline /\ left' = left \ {This}
      /\ rows' = MarkedMissing(ids)
      /\ UNCHANGED <<world, rootPath, rule, offline, quiet, scope>>
  BY ThisIsLeft DEF SkipOffline, TypeInv
<1>2. /\ Ids' = Ids
      /\ \A i \in Ids : /\ rows'[i].path = rows[i].path /\ rows'[i].root = rows[i].root
                        /\ rows'[i].file = rows[i].file /\ rows'[i].seen = rows[i].seen
                        /\ rows'[i].excluded = rows[i].excluded
                        /\ (rows'[i].missing <=> i \in ids \/ rows[i].missing)
  <2>. HIDE DEF ids
  <2>1. rows' \in [Ids -> Rows]
    BY <1>1, MarkedRows DEF TypeInv
  <2>. QED
    BY <1>1, <2>1, MarkedRows DEF TypeInv, Ids
<1>3. SUFFICES ASSUME quiet PROVE OnceInv' /\ SweptInv' /\ WalkedInv'
  BY <1>1 DEF QuietOnceInv
<1>4. OnceInv /\ SweptInv /\ WalkedInv
  BY <1>1, <1>3 DEF QuietOnceInv
<1>5. OnceInv'
  BY <1>1, <1>2, <1>4 DEF OnceInv
<1>6. SweptInv'
  BY <1>1, <1>2, <1>4 DEF SweptInv, Visible
<1>7. WalkedInv'
  <2>1. ASSUME NEW r \in Root, NEW f \in File, r \in scope \ left', r \notin offline, OnShow(f, r)'
        PROVE  \E i \in Ids : Gives(i, f, r)'
    <3>1. r \in scope \ left /\ OnShow(f, r)
      BY <1>1, <2>1, ShowStays
    <3>2. PICK i \in Ids : Gives(i, f, r)
      BY <1>4, <2>1, <3>1 DEF WalkedInv
    <3>3. Gives(i, f, r)'
      BY <1>1, <1>2, <3>2 DEF Gives
    <3>. QED
      BY <3>3
  <2>. QED
    BY <1>1, <1>2, <2>1 DEF WalkedInv
<1>. QED
  BY <1>5, <1>6, <1>7

\* The walk of a root begins where no row bears the scan's number.
LEMMA LoadKnownOnce ==
    ASSUME TypeInv, WalkInv, QuietOnceInv, LoadKnown
    PROVE  QuietOnceInv'
<1>1. /\ pc = "load" /\ pc' = "walk" /\ This \in left /\ This \in Root
      /\ known' = rows /\ items' = {} /\ met' = {} /\ failed' = ~Listable(rootPath[This])
      /\ todo' = IF Listable(rootPath[This]) THEN Name ELSE {}
      /\ UNCHANGED <<world, rootPath, rows, rule, left, offline, quiet, scope>>
  BY ThisIsLeft DEF LoadKnown, TypeInv
<1>2. SUFFICES ASSUME quiet PROVE OnceInv' /\ SweptInv' /\ WalkedInv' /\ MetInv' /\ SameInv'
  BY <1>1 DEF QuietOnceInv
<1>3. OnceInv /\ SweptInv /\ WalkedInv
  BY <1>1, <1>2 DEF QuietOnceInv
<1>4. ~failed'
  BY <1>1, <1>2, LoadKnownWalk DEF WalkInv, QuietInv
<1>5. Name \ todo' = {}
  BY <1>1, <1>4
<1>6. \A i \in Ids, f \in File : ~Gives(i, f, This)
  BY <1>1, <1>3 DEF OnceInv, Gives
<1>7. Ids' = Ids /\ This' = This
  BY <1>1, ThisStays DEF Ids
<1>8. OnceInv'
  BY <1>1, <1>3, <1>7 DEF OnceInv
<1>9. SweptInv'
  BY <1>1, <1>3, <1>7 DEF SweptInv, Visible
<1>10. WalkedInv'
  BY <1>1, <1>3, <1>7, ShowStays DEF WalkedInv, Gives
<1>11. MetInv'
  <2>1. \A i \in Ids', f \in File : ~Gives(i, f, This)'
    BY <1>1, <1>6, <1>7 DEF Gives
  <2>. QED
    BY <1>1, <1>5, <2>1 DEF MetInv
<1>12. SameInv'
  BY <1>1 DEF SameInv
<1>. QED
  BY <1>8, <1>9, <1>10, <1>11, <1>12

\* A step of the walk that writes no row.
LEMMA WalkStepOnce ==
    ASSUME QuietOnceInv, pc = "walk",
           UNCHANGED <<world, rootPath, rows, rule, pc, left, offline, known, quiet, scope>>,
           quiet => MetInv' /\ SameInv'
    PROVE  QuietOnceInv'
<1>1. SUFFICES ASSUME quiet PROVE OnceInv' /\ SweptInv' /\ WalkedInv'
  BY DEF QuietOnceInv
<1>2. OnceInv /\ SweptInv /\ WalkedInv /\ Ids' = Ids /\ This' = This
  BY <1>1, ThisStays DEF QuietOnceInv, Ids
<1>3. OnceInv' /\ SweptInv'
  BY <1>2 DEF OnceInv, SweptInv, Visible
<1>4. WalkedInv'
  BY <1>2, ShowStays DEF WalkedInv, Gives
<1>. QED
  BY <1>3, <1>4

\* A file that is met is new to the walk: no row of the root gives it, and the row
\* that is taken for it has not changed since it was loaded.
LEMMA VisitOnce ==
    ASSUME TypeInv, WalkInv, QuietOnceInv, NEW n \in Name, Visit(n)
    PROVE  QuietOnceInv'
<1>. DEFINE p == <<rootPath[This], n>>
            f == FileAt(p)
            new == Item(p, f)
            wanted == f # None /\ ~(matcher /\ p \in Hidden) /\ f \notin met
<1>1. /\ pc = "walk" /\ todo' = todo \ {n}
      /\ UNCHANGED <<world, rootPath, rows, rule, pc, left, offline, known, quiet, scope>>
      /\ IF wanted THEN met' = met \cup {f} /\ items' = items \cup {new} ELSE UNCHANGED <<met, items>>
  BY DEF Visit
<1>2. p \in Path /\ p[1] = rootPath[This] /\ This' = This /\ Ids' = Ids /\ Places' = Places
  BY <1>1, ThisIsLeft, ThisStays, PlacesStay DEF TypeInv, TypeOK, Path, Ids
<1>3. Places[p] = f /\ f \in File \cup {None}
  BY <1>2, FileAtType DEF TypeInv, Places
<1>. SUFFICES ASSUME quiet PROVE MetInv' /\ SameInv'
  BY <1>1, WalkStepOnce
<1>4. /\ MetInv /\ SameInv /\ matcher = rule
      /\ DoneInv /\ LoadedInv /\ FoundInv
  BY <1>1 DEF QuietOnceInv, WalkInv, QuietInv, SteadyInv
<1>5. \A i \in Ids, g \in File : Gives(i, g, This)' <=> Gives(i, g, This)
  BY <1>1, <1>2 DEF Gives
<1>6. ASSUME NEW m \in Name \ todo'
      PROVE  LET q == <<rootPath[This], m>> IN Places[q] # None /\ ~(rule /\ q \in Hidden) => Places[q] \in met'
  <2>. DEFINE q == <<rootPath[This], m>>
  <2>1. CASE m = n
    BY <1>1, <1>3, <1>4, <2>1
  <2>2. CASE m # n
    <3>1. Places[q] # None /\ ~(rule /\ q \in Hidden) => Places[q] \in met
      BY <1>1, <1>4, <2>2 DEF MetInv
    <3>2. met \subseteq met'
      <4>. HIDE DEF f, new
      <4>. QED
        BY <1>1
    <3>. QED
      BY <3>1, <3>2
  <2>. QED
    BY <2>1, <2>2
<1>7. CASE ~wanted
  <2>1. UNCHANGED <<met, items>>
    BY <1>1, <1>7
  <2>2. MetInv'
    <3>. HIDE DEF p, f, new, wanted
    <3>1. \A i \in Ids', g \in File : Gives(i, g, This)' => g \in met' /\ \A it \in items' : it.key[1] # g
      BY <1>2, <1>4, <1>5, <2>1 DEF MetInv
    <3>2. \A g \in met' : (\E it \in items' : it.key[1] = g) \/ \E i \in Ids' : Gives(i, g, This)'
      BY <1>2, <1>4, <1>5, <2>1 DEF MetInv, TypeInv, TypeOK
    <3>. QED
      BY <1>1, <1>2, <1>6, <3>1, <3>2 DEF MetInv
  <2>3. SameInv'
    <3>. HIDE DEF p, f, new, wanted
    <3>. QED
      BY <1>1, <1>2, <1>4, <2>1 DEF SameInv, Same
  <2>. QED
    BY <2>2, <2>3
<1>8. CASE wanted
  <2>1. f \in File /\ f \notin met /\ met' = met \cup {f} /\ items' = items \cup {new}
    BY <1>1, <1>3, <1>8
  <2>2. /\ new.path = p /\ new.key = <<f, stamp[f]>>
        /\ new.kind = "unchanged" => \E k \in KnownAs(p) : Key(known[k]) = <<f, stamp[f]>>
    <3>. HIDE DEF p, f
    <3>. QED
      BY <1>2, <2>1, ItemType
  <2>3. new.key[1] = f
    <3>. HIDE DEF f, new
    <3>. QED
      BY <2>2
  <2>. HIDE DEF p, f, new, wanted
  <2>4. \A i \in Ids : ~Gives(i, f, This)
    BY <1>4, <2>1 DEF MetInv
  <2>5. MetInv'
    <3>1. \A i \in Ids', g \in File : Gives(i, g, This)' => g \in met' /\ \A it \in items' : it.key[1] # g
      BY <1>2, <1>4, <1>5, <2>1, <2>3, <2>4 DEF MetInv
    <3>2. \A g \in met' : (\E it \in items' : it.key[1] = g) \/ \E i \in Ids' : Gives(i, g, This)'
      BY <1>2, <1>4, <1>5, <2>1, <2>3 DEF MetInv, TypeInv, TypeOK
    <3>. QED
      BY <1>1, <1>2, <1>6, <3>1, <3>2 DEF MetInv
  <2>6. ASSUME new.kind = "unchanged" PROVE \E k \in DOMAIN known : Same(k, new)
    <3>1. PICK k \in DOMAIN known : known[k].root = This /\ known[k].path = p /\ Key(known[k]) = <<f, stamp[f]>>
      BY <2>2, <2>6 DEF KnownAs
    <3>2. known[k].file = f /\ k \in Ids
      BY <3>1 DEF Key, TypeInv, KnownInv
    <3>3. rows[k].path = p
      BY <1>4, <2>1, <3>1, <3>2 DEF LoadedInv
    <3>4. ~rows[k].seen
      <4>1. SUFFICES ASSUME rows[k].seen PROVE FALSE
        OBVIOUS
      <4>2. rows[k].file = f
        BY <1>3, <1>4, <3>2, <3>3, <4>1 DEF DoneInv, Right
      <4>. QED
        BY <1>2, <2>4, <3>2, <3>3, <4>1, <4>2 DEF Gives
    <3>5. SameFile(rows[k], known[k])
      BY <1>4, <3>4 DEF LoadedInv
    <3>. QED
      BY <2>2, <2>3, <3>1, <3>2, <3>5 DEF Same
  <2>7. SameInv'
    <3>1. \A it \in items' : it.kind = "unchanged" => \E k \in DOMAIN known : Same(k, it)
      BY <1>4, <2>1, <2>6 DEF SameInv
    <3>. QED
      BY <1>1, <1>2, <3>1 DEF SameInv, Same
  <2>. QED
    BY <2>5, <2>7
<1>. QED
  BY <1>7, <1>8

\* A probe keeps the file of its item.
LEMMA ProbesOnce ==
    ASSUME TypeInv, WalkInv, QuietOnceInv, NEW it \in items,
           ProbeOpens(it) \/ ProbeDecodes(it) \/ ProbeStores(it) \/ ProbeSkips(it)
    PROVE  QuietOnceInv'
<1>1. PICK next : /\ Probed(it, next)
                  /\ next.kind \notin {"unchanged", "moved"} /\ (quiet => next.key = it.key)
  BY ProbeNext
<1>2. /\ pc = "walk" /\ items' = (items \ {it}) \cup {next}
      /\ UNCHANGED <<world, rootPath, rows, rule, pc, left, offline, known, todo, met, quiet, scope>>
  BY <1>1 DEF Probed
<1>3. This' = This /\ Ids' = Ids /\ Places' = Places
  BY <1>2, ThisStays, PlacesStay DEF Ids
<1>4. SUFFICES ASSUME quiet PROVE MetInv' /\ SameInv'
  BY <1>2, WalkStepOnce
<1>5. MetInv /\ SameInv /\ next.key = it.key
  BY <1>1, <1>2, <1>4 DEF QuietOnceInv
<1>6. \A i \in Ids, f \in File : Gives(i, f, This)' <=> Gives(i, f, This)
  BY <1>2, <1>3 DEF Gives
<1>7. \A f : (\E jt \in items' : jt.key[1] = f) <=> \E jt \in items : jt.key[1] = f
  BY <1>2, <1>5
<1>8. MetInv'
  BY <1>2, <1>3, <1>5, <1>6, <1>7 DEF MetInv, TypeInv, TypeOK
<1>9. SameInv'
  BY <1>1, <1>2, <1>3, <1>5 DEF SameInv, Same
<1>. QED
  BY <1>8, <1>9

\* A batch writes one row, of the item's file at the item's path.  Row w bears the
\* scan's number from now on; it is new, or it was at that path, or at one where
\* nothing is left.
Written(w, it) ==
    /\ w \in DOMAIN rows' /\ Ids \subseteq DOMAIN rows'
    /\ rows'[w].path = it.path /\ rows'[w].file = it.key[1] /\ rows'[w].seen /\ ~rows'[w].missing
    /\ \A i \in DOMAIN rows' \ {w} : i \in Ids /\ rows'[i] = rows[i]
    /\ w \in Ids => ~rows[w].seen /\ (rows[w].path = it.path \/ Places[rows[w].path] = None)

\* What a batch of an undisturbed scan relies on.
LEMMA BatchOnce ==
    ASSUME TypeInv, WalkInv, DiskInv, QuietOnceInv, NEW it \in items, Commit(it), quiet
    PROVE  /\ OnceInv /\ SweptInv /\ WalkedInv /\ MetInv /\ SameInv
           /\ This \in left /\ This \in Root /\ This' = This /\ it.path[1] = rootPath[This]
           /\ todo' = todo
           /\ \A i \in Ids : rows[i].path = it.path => ~rows[i].seen
<1>1. pc = "walk" /\ todo' = todo /\ left' = left /\ left # {}
  BY BatchFacts DEF Commit, TypeInv
<1>2. OnceInv /\ SweptInv /\ WalkedInv /\ MetInv /\ SameInv
  BY <1>1 DEF QuietOnceInv
<1>3. This \in left /\ This \in Root /\ This' = This /\ it.path[1] = rootPath[This]
  BY <1>1, ThisIsLeft, ThisStays DEF TypeInv, DiskInv
<1>4. ASSUME NEW i \in Ids, rows[i].path = it.path, rows[i].seen PROVE FALSE
  <2>1. rows[i].file = it.key[1] /\ it.key[1] \in File
    BY <1>4, BatchFacts DEF DoneInv, Right
  <2>2. Gives(i, it.key[1], This)
    BY <1>3, <1>4, <2>1 DEF Gives
  <2>. QED
    BY <1>2, <2>1, <2>2 DEF MetInv
<1>. QED
  BY <1>1, <1>2, <1>3, <1>4

LEMMA TouchedOnce ==
    ASSUME TypeInv, WalkInv, DiskInv, QuietOnceInv, NEW it \in items, Commit(it), quiet,
           it.kind = "unchanged"
    PROVE  \E w : Written(w, it)
<1>1. rows' = Touched(it) /\ DOMAIN rows' = Ids
  BY TouchedRows DEF Commit
<1>2. PICK k \in DOMAIN known : Same(k, it)
  BY BatchOnce DEF SameInv
<1>3. k \in Ids /\ rows[k].path = it.path /\ rows[k].root = This /\ rows[k].file = it.key[1]
  BY <1>2 DEF Same, SameFile, TypeInv, KnownInv
<1>4. Hit(k, it) /\ \A i \in Ids : Hit(i, it) => i = k
  BY <1>3 DEF Hit, TypeInv, TypeOK
<1>5. /\ rows'[k].path = rows[k].path /\ rows'[k].file = rows[k].file
      /\ rows'[k].seen /\ ~rows'[k].missing
  BY <1>1, <1>3, <1>4, TouchedRows
<1>6. \A i \in Ids \ {k} : rows'[i] = rows[i]
  BY <1>1, <1>4, TouchedRows
<1>7. ~rows[k].seen
  BY <1>3, BatchOnce
<1>. QED
  BY <1>1, <1>3, <1>5, <1>6, <1>7 DEF Written

LEMMA RenamedOnce ==
    ASSUME TypeInv, WalkInv, DiskInv, QuietOnceInv, NEW it \in items, Commit(it), quiet,
           it.kind = "moved"
    PROVE  \E w : Written(w, it)
<1>. DEFINE k == it.from
<1>0. /\ rows' = Renamed(it) /\ k \in Ids
      /\ SameFile(rows[k], known[k]) /\ Key(known[k]) = it.key /\ Places[known[k].path] = None
  BY BatchFacts DEF Commit, FoundInv, Left
<1>1. /\ DOMAIN rows' = Ids /\ rows'[k].path = it.path /\ rows'[k].file = rows[k].file
      /\ rows'[k].seen /\ ~rows'[k].missing
      /\ \A i \in Ids \ {k} : rows'[i] = rows[i]
  BY <1>0, RenamedRows
<1>2. rows[k].file = it.key[1] /\ Places[rows[k].path] = None
  BY <1>0 DEF SameFile, Key
<1>3. ~rows[k].seen
  <2>1. rows[k].file # None
    BY <1>0, PlacesType, NoFile
  <2>2. ~Right(rows[k], Places, stamp, rule)
    BY <1>2, <2>1 DEF Right
  <2>3. DoneInv
    BY BatchFacts
  <2>. QED
    BY <1>0, <2>2, <2>3 DEF DoneInv
<1>. QED
  BY <1>0, <1>1, <1>2, <1>3 DEF Written

LEMMA UpsertedOnce ==
    ASSUME TypeInv, WalkInv, DiskInv, QuietOnceInv, NEW it \in items, Commit(it), quiet,
           it.kind = "result"
    PROVE  \E w : Written(w, it)
<1>0. /\ rows' = Upserted(it) /\ pc = "walk" /\ Ids \subseteq DOMAIN rows'
      /\ \A i \in Ids : rows[i].path # it.path => rows'[i] = rows[i]
      /\ \A i \in DOMAIN rows' : i \notin Ids => RowsAt(it.path) = {} /\ i = Len(rows) + 1
  BY BatchFacts, UpsertedRows DEF Commit
<1>1. ASSUME NEW i \in DOMAIN rows', i \notin Ids \/ rows[i].path = it.path
      PROVE  /\ rows'[i].path = it.path /\ rows'[i].file = it.key[1]
             /\ rows'[i].seen /\ ~rows'[i].missing
  <2>1. PICK flag \in BOOLEAN : rows'[i] = NewRow(it, flag)
    BY <1>0, <1>1, UpsertedRows
  <2>. QED
    BY <2>1 DEF NewRow
<1>2. ASSUME RowsAt(it.path) # {} PROVE \E w : Written(w, it)
  <2>1. PICK w \in Ids : rows[w].path = it.path
    BY <1>2 DEF RowsAt
  <2>2. \A i \in DOMAIN rows' \ {w} : i \in Ids /\ rows'[i] = rows[i]
    BY <1>0, <1>2, <2>1 DEF TypeInv, TypeOK
  <2>3. ~rows[w].seen
    BY <2>1, BatchOnce
  <2>. QED
    BY <1>0, <1>1, <2>1, <2>2, <2>3 DEF Written
<1>3. ASSUME RowsAt(it.path) = {} PROVE \E w : Written(w, it)
  <2>. DEFINE w == Len(rows) + 1
  <2>1. \A i \in Ids : rows[i].path # it.path
    BY <1>3 DEF RowsAt
  <2>2. rows' = Append(rows, NewRow(it, FALSE))
    BY <1>0, <1>3 DEF Upserted, NewRow
  <2>3. w \in DOMAIN rows' /\ w \notin Ids
    BY <2>2, RowsFacts DEF TypeInv
  <2>4. \A i \in DOMAIN rows' \ {w} : i \in Ids /\ rows'[i] = rows[i]
    BY <1>0, <2>1
  <2>. HIDE DEF w
  <2>. QED
    BY <1>0, <1>1, <2>3, <2>4 DEF Written
<1>. QED
  BY <1>2, <1>3

LEMMA CommitOnce ==
    ASSUME TypeInv, WalkInv, DiskInv, QuietOnceInv, NEW it \in items, Commit(it)
    PROVE  QuietOnceInv'
<1>1. pc = "walk" /\ pc' = pc /\ quiet' = quiet /\ it.kind \in {"unchanged", "moved", "result"}
  BY DEF Commit
<1>2. SUFFICES ASSUME quiet PROVE OnceInv' /\ SweptInv' /\ WalkedInv' /\ MetInv' /\ SameInv'
  BY <1>1 DEF QuietOnceInv
<1>3. PICK w : Written(w, it)
  BY <1>1, <1>2, TouchedOnce, RenamedOnce, UpsertedOnce
<1>4. /\ OnceInv /\ SweptInv /\ WalkedInv /\ MetInv /\ SameInv
      /\ This \in left /\ This \in Root /\ This' = This /\ it.path[1] = rootPath[This]
  BY <1>2, BatchOnce
<1>5. /\ DoneInv /\ LoadedInv /\ FoundInv /\ items' = items \ {it}
      /\ UNCHANGED <<world, rootPath, rule, left, offline, known, met, scope>>
      /\ Places' = Places /\ it.path \in Path /\ it.key[1] \in File /\ Places[it.path] = it.key[1]
      /\ DOMAIN known \subseteq Ids
  BY <1>2, BatchFacts
<1>6. /\ w \in DOMAIN rows' /\ Ids' = DOMAIN rows' /\ Ids \subseteq Ids'
      /\ rows'[w].path[1] = rootPath[This] /\ rows'[w].file = it.key[1]
      /\ rows'[w].seen /\ ~rows'[w].missing
      /\ \A i \in Ids' \ {w} : i \in Ids /\ rows'[i] = rows[i]
      /\ w \in Ids => ~rows[w].seen /\ (rows[w].path = it.path \/ Places[rows[w].path] = None)
  BY <1>3, <1>4 DEF Written, Ids
<1>7. ASSUME NEW i \in Ids, NEW f \in File, NEW r \in Root, Gives(i, f, r)
      PROVE  i \in Ids' /\ i # w /\ Gives(i, f, r)'
  BY <1>5, <1>6, <1>7 DEF Gives
<1>8. Gives(w, it.key[1], This)'
  BY <1>4, <1>5, <1>6 DEF Gives
<1>9. ASSUME NEW i \in Ids' \ {w}, NEW f \in File, NEW r \in Root, Gives(i, f, r)'
      PROVE  i \in Ids /\ Gives(i, f, r)
  BY <1>5, <1>6, <1>9 DEF Gives
<1>10. \A i \in Ids : rows[i].file \in File
  BY PlacesType
<1>11. OnceInv'
  <2>1. ASSUME NEW i \in Ids', rows'[i].seen, rows'[i].file = it.key[1], rows'[i].path[1] = rootPath[This]
        PROVE  i = w
    <3>1. SUFFICES ASSUME i # w PROVE FALSE
      OBVIOUS
    <3>2. i \in Ids /\ Gives(i, it.key[1], This)
      BY <1>6, <2>1, <3>1 DEF Gives
    <3>. QED
      BY <1>4, <1>5, <3>2 DEF MetInv
  <2>2. \A i, j \in Ids' : /\ rows'[i].seen /\ rows'[j].seen
                           /\ rows'[i].file = rows'[j].file /\ rows'[i].path[1] = rows'[j].path[1]
                           => i = j
    BY <1>4, <1>6, <2>1 DEF OnceInv
  <2>3. ASSUME NEW i \in Ids', NEW r \in left, rows'[i].seen, rows'[i].path[1] = rootPath[r]
        PROVE  r = This
    <3>1. CASE i = w
      <4>1. rootPath[r] = rootPath[This] /\ r \in Root
        BY <1>6, <2>3, <3>1 DEF TypeInv
      <4>. QED
        BY <1>4, <4>1 DEF TypeInv, TypeOK
    <3>2. CASE i # w
      BY <1>4, <1>6, <2>3, <3>2 DEF OnceInv
    <3>. QED
      BY <3>1, <3>2
  <2>. QED
    BY <1>1, <1>4, <1>5, <2>2, <2>3 DEF OnceInv
<1>12. SweptInv'
  BY <1>4, <1>5, <1>6 DEF SweptInv, Visible
<1>13. WalkedInv'
  <2>1. ASSUME NEW r \in Root, NEW f \in File, r \in scope \ left, r \notin offline, OnShow(f, r)'
        PROVE  \E i \in Ids' : Gives(i, f, r)'
    <3>1. OnShow(f, r)
      BY <1>5, <2>1, ShowStays
    <3>2. PICK i \in Ids : Gives(i, f, r)
      BY <1>4, <2>1, <3>1 DEF WalkedInv
    <3>. QED
      BY <1>7, <3>2
  <2>. QED
    BY <1>5, <2>1 DEF WalkedInv
<1>14. MetInv'
  <2>1. ASSUME NEW i \in Ids', NEW f \in File, Gives(i, f, This)'
        PROVE  f \in met /\ \A jt \in items' : jt.key[1] # f
    <3>1. CASE i = w
      <4>1. f = it.key[1]
        BY <1>6, <2>1, <3>1 DEF Gives
      <4>. QED
        BY <1>5, <4>1 DEF FoundInv
    <3>2. CASE i # w
      <4>1. i \in Ids /\ Gives(i, f, This)
        BY <1>4, <1>9, <2>1, <3>2
      <4>. QED
        BY <1>4, <1>5, <4>1 DEF MetInv
    <3>. QED
      BY <3>1, <3>2
  <2>2. ASSUME NEW f \in met
        PROVE  (\E jt \in items' : jt.key[1] = f) \/ \E i \in Ids' : Gives(i, f, This)'
    <3>1. CASE f = it.key[1]
      BY <1>6, <1>8, <3>1
    <3>2. CASE f # it.key[1]
      <4>1. CASE \E jt \in items : jt.key[1] = f
        BY <1>5, <3>2, <4>1
      <4>2. CASE \E i \in Ids : Gives(i, f, This)
        <5>1. f \in File
          BY DEF TypeInv, TypeOK
        <5>. QED
          BY <1>4, <1>7, <4>2, <5>1
      <4>. QED
        BY <1>4, <4>1, <4>2 DEF MetInv
    <3>. QED
      BY <3>1, <3>2
  <2>3. todo' = todo
    BY <1>2, BatchOnce
  <2>. QED
    BY <1>4, <1>5, <2>1, <2>2, <2>3 DEF MetInv
<1>15. SameInv'
  <2>1. ASSUME NEW jt \in items', jt.kind = "unchanged"
        PROVE  \E k \in DOMAIN known : Same(k, jt)'
    <3>1. PICK k \in DOMAIN known : Same(k, jt)
      BY <1>4, <1>5, <2>1 DEF SameInv
    <3>2. Places[jt.path] = jt.key[1] /\ jt \in items /\ jt # it /\ jt.key[1] \in met /\ jt.key[1] \in File
      BY <1>5, <2>1 DEF FoundInv, Found, TypeInv, TypeOK
    <3>3. k \in Ids /\ rows[k].path = jt.path
      BY <1>5, <3>1 DEF Same, SameFile
    <3>4. k # w
      <4>1. Places[rows[k].path] # None
        BY <3>2, <3>3, NoFile
      <4>2. jt.path # it.path
        BY <1>5, <3>2 DEF FoundInv
      <4>. QED
        BY <1>6, <3>3, <4>1, <4>2
    <3>5. rows'[k] = rows[k]
      BY <1>6, <3>3, <3>4
    <3>. QED
      BY <1>4, <1>5, <3>1, <3>5 DEF Same
  <2>. QED
    BY <1>5, <2>1 DEF SameInv
<1>. QED
  BY <1>11, <1>12, <1>13, <1>14, <1>15

\* The end of a root: all it holds has been met, and all that was met has its row.
LEMMA SweepOnce ==
    ASSUME TypeInv, WalkInv, QuietOnceInv, Sweep
    PROVE  QuietOnceInv'
<1>1. /\ pc = "walk" /\ pc' = "load" /\ This \in left /\ This \in Root /\ left' = left \ {This}
      /\ todo = {} /\ items = {}
      /\ rows' = IF failed THEN rows ELSE MarkedMissing(Absent(This))
      /\ UNCHANGED <<world, rootPath, rule, offline, quiet, scope>>
  BY ThisIsLeft DEF Sweep, TypeInv
<1>2. SUFFICES ASSUME quiet PROVE OnceInv' /\ SweptInv' /\ WalkedInv'
  BY <1>1 DEF QuietOnceInv
<1>3. OnceInv /\ SweptInv /\ WalkedInv /\ MetInv /\ ~failed
  BY <1>1, <1>2 DEF QuietOnceInv, WalkInv, QuietInv
<1>4. /\ Ids' = Ids
      /\ \A i \in Ids : /\ rows'[i].path = rows[i].path /\ rows'[i].root = rows[i].root
                        /\ rows'[i].file = rows[i].file /\ rows'[i].seen = rows[i].seen
                        /\ rows'[i].excluded = rows[i].excluded
                        /\ (rows'[i].missing <=> i \in Absent(This) \/ rows[i].missing)
  <2>1. rows' = MarkedMissing(Absent(This)) /\ rows' \in [Ids -> Rows]
    BY <1>1, <1>3, MarkedRows DEF TypeInv
  <2>. QED
    BY <2>1, MarkedRows DEF TypeInv, Ids
<1>5. OnceInv'
  BY <1>1, <1>3, <1>4 DEF OnceInv
<1>6. SweptInv'
  BY <1>1, <1>3, <1>4 DEF SweptInv, Visible, Absent
<1>7. WalkedInv'
  <2>1. ASSUME NEW r \in Root, NEW f \in File, r \in scope \ left', r \notin offline, OnShow(f, r)'
        PROVE  \E i \in Ids : Gives(i, f, r)
    <3>1. OnShow(f, r)
      BY <1>1, <2>1, ShowStays
    <3>2. CASE r = This
      <4>1. f \in met
        <5>1. PICK n \in Name : LET p == <<rootPath[This], n>> IN Places[p] = f /\ ~(rule /\ p \in Hidden)
          BY <3>1, <3>2, ShowPlaces
        <5>2. n \in Name \ todo
          BY <1>1
        <5>. QED
          BY <1>3, <5>1, <5>2, NoFile DEF MetInv
      <4>. QED
        BY <1>1, <1>3, <3>2, <4>1 DEF MetInv
    <3>3. CASE r # This
      BY <1>1, <1>3, <2>1, <3>1, <3>3 DEF WalkedInv
    <3>. QED
      BY <3>2, <3>3
  <2>2. \A i \in Ids, f \in File, r \in Root : Gives(i, f, r) => Gives(i, f, r)'
    BY <1>1, <1>4 DEF Gives
  <2>. QED
    BY <1>1, <1>4, <2>1, <2>2 DEF WalkedInv
<1>. QED
  BY <1>5, <1>6, <1>7

\* A file that is in a root is on no drive that is unplugged.
LEMMA OnShowIsPlugged ==
    ASSUME TypeInv, DiskInv, SteadyInv, pc # "idle", NEW f \in File, NEW r \in Root, OnShow(f, r)
    PROVE  DiskOf[f] \notin offline
<1>1. PICK n \in Name : FileAt(<<rootPath[r], n>>) = f
  BY DEF OnShow
<1>. DEFINE p == <<rootPath[r], n>>
<1>2. p \in Path /\ f # None /\ rootPath[r] \notin Volume /\ Home \notin Volume
  BY NoFile, NameAssumption DEF TypeInv, TypeOK, Path, Dir, Root
<1>3. CASE Mounted(rootPath[r]) = {}
  <2>1. p \in Place /\ tree[p] = f
    BY <1>1, <1>2, <1>3 DEF FileAt
  <2>2. DiskOf[f] = Home
    BY <1>2, <2>1 DEF DiskInv, Disk
  <2>. QED
    BY <1>2, <2>2 DEF TypeInv
<1>4. CASE Mounted(rootPath[r]) # {}
  <2>1. PICK v \in Mounted(rootPath[r]) : <<v, n>> \in Place /\ tree[<<v, n>>] = f
    BY <1>1, <1>2, <1>4 DEF FileAt
  <2>2. v \in Volume /\ at[v] = rootPath[r]
    BY <2>1 DEF Mounted
  <2>3. DiskOf[f] = v
    BY <1>2, <2>1, <2>2 DEF DiskInv, Disk
  <2>4. at[v] # None
    BY <2>2, NoFile DEF TypeInv, TypeOK
  <2>. QED
    BY <2>3, <2>4 DEF SteadyInv, Unmounted
<1>. QED
  BY <1>3, <1>4

\* The end of the scan.
LEMMA FinishOnce ==
    ASSUME TypeInv, WalkInv, DiskInv, QuietOnceInv, Finish
    PROVE  QuietOnceInv' /\ FilesAppearOnce'
<1>1. /\ pc = "load" /\ left = {} /\ pc' = "idle"
      /\ rows' = [i \in Ids |-> [rows[i] EXCEPT !.seen = FALSE]]
      /\ UNCHANGED <<world, rootPath, rule, offline, quiet, scope>>
  BY DEF Finish, EndScan
<1>2. \A i \in Ids : rows[i] \in Rows
  BY RowsFacts DEF TypeInv
<1>3. /\ Ids' = Ids
      /\ \A i \in Ids : /\ rows'[i].path = rows[i].path /\ rows'[i].root = rows[i].root
                        /\ rows'[i].file = rows[i].file /\ rows'[i].missing = rows[i].missing
                        /\ rows'[i].excluded = rows[i].excluded
  BY <1>1, <1>2 DEF Ids, Rows
<1>4. QuietOnceInv'
  BY <1>1 DEF QuietOnceInv
<1>5. ASSUME quiet PROVE FilesAppearOnce'
  <2>0. SteadyInv /\ DoneInv /\ OnceInv /\ SweptInv /\ WalkedInv
    BY <1>1, <1>5 DEF WalkInv, QuietInv, QuietOnceInv
  <2>1. ASSUME NEW f \in File, NEW r \in Root, r \in scope, ~(r \in Volume /\ r \in offline), OnShow(f, r)
        PROVE  \E i \in Ids : /\ rows[i].file = f /\ rows[i].path[1] = rootPath[r]
                              /\ ~(rule /\ rows[i].path \in Hidden)
                              /\ \/ ~rows[i].missing
                                 \/ rows[i].root \in offline /\ DiskOf[f] \in Volume \ {rows[i].root}
    <3>1. PICK i \in Ids : Gives(i, f, r)
      BY <1>1, <2>0, <2>1 DEF WalkedInv, TypeInv
    <3>2. rows[i].seen /\ rows[i].file = f /\ rows[i].path[1] = rootPath[r]
      BY <3>1 DEF Gives
    <3>3. ~(rule /\ rows[i].path \in Hidden)
      BY <2>0, <3>2 DEF DoneInv, Right
    <3>4. CASE rows[i].root \in offline
      <4>1. DiskOf[f] \in Volume
        BY <3>2, <3>4 DEF DiskInv, TypeInv
      <4>2. DiskOf[f] \notin offline
        BY <1>1, <2>0, <2>1, OnShowIsPlugged
      <4>. QED
        BY <3>2, <3>3, <3>4, <4>1, <4>2
    <3>. QED
      BY <2>0, <3>2, <3>3, <3>4 DEF SweptInv
  <2>2. ASSUME NEW i \in Ids, NEW j \in Ids, rows[i].file = rows[j].file, rows[i].path[1] = rows[j].path[1],
               rows[i].root \in scope, rows[j].root \in scope, Visible(i), Visible(j)
        PROVE  i = j
    BY <1>1, <2>0, <2>2 DEF OnceInv, SweptInv
  <2>3. \A f \in File, r \in Root : OnShow(f, r)' <=> OnShow(f, r)
    BY <1>1, ShowStays
  <2>4. ASSUME NEW f \in File, NEW r \in Root, r \in scope', ~(r \in Volume /\ r \in offline'), OnShow(f, r)'
        PROVE  \E i \in Ids' : /\ rows'[i].file = f /\ rows'[i].path[1] = rootPath'[r]
                               /\ ~(rule' /\ rows'[i].path \in Hidden)
                               /\ \/ ~rows'[i].missing
                                  \/ rows'[i].root \in offline' /\ DiskOf[f] \in Volume \ {rows'[i].root}
    <3>1. r \in scope /\ ~(r \in Volume /\ r \in offline) /\ OnShow(f, r)
      BY <1>1, <2>3, <2>4
    <3>2. PICK i \in Ids : /\ rows[i].file = f /\ rows[i].path[1] = rootPath[r]
                           /\ ~(rule /\ rows[i].path \in Hidden)
                           /\ \/ ~rows[i].missing
                              \/ rows[i].root \in offline /\ DiskOf[f] \in Volume \ {rows[i].root}
      BY <2>1, <3>1
    <3>3. /\ i \in Ids' /\ rows'[i].path = rows[i].path /\ rows'[i].root = rows[i].root
          /\ rows'[i].file = rows[i].file /\ rows'[i].missing = rows[i].missing
          /\ rootPath'[r] = rootPath[r] /\ rule' = rule /\ offline' = offline
      BY <1>1, <1>3
    <3>. QED
      BY <3>2, <3>3
  <2>5. ASSUME NEW i \in Ids', NEW j \in Ids', rows'[i].file = rows'[j].file,
               rows'[i].path[1] = rows'[j].path[1],
               rows'[i].root \in scope', rows'[j].root \in scope', Visible(i)', Visible(j)'
        PROVE  i = j
    <3>1. Visible(i) /\ Visible(j)
      BY <1>3, <2>5 DEF Visible
    <3>. QED
      BY <1>1, <1>3, <2>2, <2>5, <3>1
  <2>. QED
    BY <2>4, <2>5 DEF FilesAppearOnce, Covered
<1>. QED
  BY <1>1, <1>4, <1>5 DEF FilesAppearOnce, Ended

LEMMA StutterOnce == ASSUME CountedInv, UNCHANGED vars, DiskInv' PROVE CountedInv'
<1>1. /\ UNCHANGED <<world, rootPath, rows, rule, pc, left, offline, known, todo, met, items, quiet, scope>>
      /\ Ids' = Ids
  BY DEF vars, scan, pass, Ids
<1>2. Places' = Places /\ This' = This
  BY <1>1, PlacesStay, ThisStays
<1>3. \A f \in File, r \in Root : OnShow(f, r)' <=> OnShow(f, r)
  BY <1>1, ShowStays
<1>4. OnceInv => OnceInv'
  BY <1>1, <1>2 DEF OnceInv
<1>5. SweptInv => SweptInv'
  BY <1>1 DEF SweptInv, Visible
<1>6. WalkedInv => WalkedInv'
  BY <1>1, <1>3 DEF WalkedInv, Gives
<1>7. MetInv => MetInv'
  BY <1>1, <1>2 DEF MetInv, Gives
<1>8. SameInv => SameInv'
  BY <1>1, <1>2 DEF SameInv, Same
<1>9. FilesAppearOnce'
  BY <1>1, <1>3 DEF CountedInv, FilesAppearOnce, Ended, Covered, Visible
<1>. QED
  BY <1>1, <1>4, <1>5, <1>6, <1>7, <1>8, <1>9 DEF CountedInv, QuietOnceInv

LEMMA NextOnce == TypeInv /\ WalkInv /\ CountedInv /\ [Next]_vars => CountedInv'
<1>. SUFFICES ASSUME TypeInv, WalkInv, CountedInv, [Next]_vars PROVE CountedInv'
  OBVIOUS
<1>0. DiskInv /\ QuietOnceInv /\ DiskInv'
  BY NextDisk DEF CountedInv
<1>1. CASE UNCHANGED vars
  BY <1>0, <1>1, StutterOnce
<1>2. ASSUME pc' # "idle", QuietOnceInv' PROVE CountedInv'
  BY <1>0, <1>2 DEF CountedInv, FilesAppearOnce, Ended
<1>3. CASE \/ \E e \in Place, f \in File : Create(e, f)
           \/ \E d, e \in Place : Rename(d, e) \/ HardLink(d, e)
           \/ \E e \in Place : Delete(e)
           \/ \E f \in File : Edit(f)
           \/ \E v \in Volume, m \in MountPoint \cup {None} : Remount(v, m)
           \/ AddRule \/ RemoveRule \/ Reapply \/ FailDir \/ Stop
           \/ \E it \in items : CommitFails(it)
  <2>1. quiet' = FALSE
    BY <1>3 DEF Create, Rename, HardLink, Delete, Edit, Remount, AddRule, RemoveRule, Reapply, FailDir,
       Stop, CommitFails, Change
  <2>. QED
    BY <1>0, <2>1, DisturbedOnce
<1>4. CASE Reconcile
  <2>1. quiet' = FALSE \/ pc' = "reconciled"
    BY <1>4, HealedIsSound DEF Reconcile, TypeInv, Sound, Tables
  <2>. QED
    BY <1>0, <1>2, <2>1, DisturbedOnce DEF QuietOnceInv
<1>5. CASE \E wanted \in Requests : Begin(wanted)
  BY <1>0, <1>2, <1>5, BeginOnce DEF Begin
<1>6. CASE SkipOffline
  BY <1>0, <1>2, <1>6, SkipOfflineOnce DEF SkipOffline
<1>7. CASE LoadKnown
  BY <1>0, <1>2, <1>7, LoadKnownOnce DEF LoadKnown
<1>8. CASE \E n \in Name : Visit(n)
  BY <1>0, <1>2, <1>8, VisitOnce DEF Visit
<1>9. CASE \E it \in items : ProbeOpens(it) \/ ProbeDecodes(it) \/ ProbeStores(it) \/ ProbeSkips(it)
  BY <1>0, <1>2, <1>9, ProbesOnce DEF ProbeOpens, ProbeDecodes, ProbeStores, ProbeSkips, Probed
<1>10. CASE \E it \in items : Commit(it)
  BY <1>0, <1>2, <1>10, CommitOnce DEF Commit
<1>11. CASE Sweep
  BY <1>0, <1>2, <1>11, SweepOnce DEF Sweep
<1>12. CASE Finish
  BY <1>0, <1>12, FinishOnce DEF CountedInv
<1>. QED
  BY <1>1, <1>3, <1>4, <1>5, <1>6, <1>7, <1>8, <1>9, <1>10, <1>11, <1>12 DEF Next

\* After such a scan every file that is in a root it walked, where no rule hides
\* it, has its row there, which is not missing, and no file has two visible rows
\* in a root: for any drives, links, moves and rules, before the scan or after.
THEOREM FilesAreCountedOnce == Spec => []FilesAppearOnce
<1>1. CountedInv => FilesAppearOnce
  BY DEF CountedInv
<1>. QED
  BY <1>1, InitTypes, InitWalk, InitOnce, NextTypes, NextWalk, NextOnce, PTL DEF Spec

-----------------------------------------------------------------------------
\* The rows of a drive that is mounted elsewhere.

\* Every file has a row at each place it is in, under a root of its own disk.
Housed(paths, table) ==
    \A e \in Place : tree[e] # None =>
        \E i \in Ids : /\ table[i].path = <<paths[e[1]], e[2]>>
                       /\ Disk(table[i].root) = Disk(e[1])

\* While no file moved and no drive was mounted elsewhere during a scan, every file
\* is housed, a drive is at its root's path or nowhere, and what a scan has on its
\* way has a row at its path.
BackInv ==
    settled => /\ Housed(rootPath, rows)
               /\ pc # "idle" => \A v \in Volume : at[v] \in {None, rootPath[v]}
               /\ \A it \in items : RowsAt(it.path) # {}

\* Healing the paths of a drive takes its housed files along.
LEMMA HealHouses ==
    ASSUME TypeOK, NEW st, Sound(st), NEW r \in Root, Heal(st, r).ok,
           Housed(st.paths, st.rows)
    PROVE  Housed(Heal(st, r).paths, Heal(st, r).rows)
<1>1. /\ st.paths \in [Root -> Dir] /\ st.rows \in [Ids -> Rows] /\ st \in Tables
  BY DEF Sound, Tables
<1>2. CASE ~st.ok \/ r \notin Volume \/ at[r] \in {None, st.paths[r]}
  <2>1. Heal(st, r) = st
    BY <1>2 DEF Heal
  <2>. QED
    BY <2>1
<1>3. CASE st.ok /\ r \in Volume /\ at[r] \notin {None, st.paths[r]}
  <2>1. /\ Heal(st, r).paths = [st.paths EXCEPT ![r] = at[r]]
        /\ Heal(st, r).rows = MovedAlong(st, r)
    BY <1>3 DEF Heal, MovedAlong
  <2>2. ASSUME NEW e \in Place, tree[e] # None
        PROVE  \E i \in Ids : /\ MovedAlong(st, r)[i].path = <<[st.paths EXCEPT ![r] = at[r]][e[1]], e[2]>>
                              /\ Disk(MovedAlong(st, r)[i].root) = Disk(e[1])
    <3>1. PICK i \in Ids : st.rows[i].path = <<st.paths[e[1]], e[2]>> /\ Disk(st.rows[i].root) = Disk(e[1])
      BY <2>2 DEF Housed
    <3>2. e[1] \in Root /\ st.rows[i] \in Rows
      BY <1>1, TreeAssumption
    <3>3. CASE e[1] = r
      <4>1. st.rows[i].root = r /\ st.rows[i].path[1] = st.paths[r] /\ st.rows[i].path[2] = e[2]
        BY <1>3, <3>1, <3>3, NameAssumption DEF Disk
      <4>2. MovedAlong(st, r)[i] = [st.rows[i] EXCEPT !.path = <<at[r], e[2]>>]
        BY <3>2, <4>1 DEF MovedAlong, Rows
      <4>3. MovedAlong(st, r)[i].path = <<at[r], e[2]>> /\ MovedAlong(st, r)[i].root = st.rows[i].root
        BY <3>2, <4>2 DEF Rows
      <4>4. [st.paths EXCEPT ![r] = at[r]][e[1]] = at[r]
        BY <1>1, <3>3
      <4>. QED
        BY <3>1, <4>3, <4>4
    <3>4. CASE e[1] # r
      <4>1. st.rows[i].root # r
        BY <1>3, <3>1, <3>4, NameAssumption DEF Disk
      <4>2. MovedAlong(st, r)[i] = st.rows[i]
        BY <4>1 DEF MovedAlong
      <4>3. [st.paths EXCEPT ![r] = at[r]][e[1]] = st.paths[e[1]]
        BY <1>1, <3>2, <3>4
      <4>. QED
        BY <3>1, <4>2, <4>3
    <3>. QED
      BY <3>3, <3>4
  <2>. QED
    BY <2>1, <2>2 DEF Housed
<1>. QED
  BY <1>2, <1>3

LEMMA HealedHouses ==
    ASSUME TypeOK, Healed.ok, Housed(rootPath, rows)
    PROVE  Housed(Healed.paths, Healed.rows)
<1>. DEFINE N == Len(RootOrder)
            Good(st) == Sound(st) /\ (st.ok => Housed(st.paths, st.rows))
            T == {n \in Nat : n <= N => Good(Healing[n])}
<1>1. N \in Nat /\ \A n \in 1 .. N : RootOrder[n] \in Root
  BY OrderAssumption
<1>2. 0 \in T
  <2>1. Good(Start)
    BY StartIsSound DEF Start
  <2>. QED
    BY <2>1, HealingUnfolds
<1>3. ASSUME NEW n \in Nat, n \in T PROVE n + 1 \in T
  <2>. SUFFICES ASSUME n + 1 <= N PROVE Good(Healing[n + 1])
    OBVIOUS
  <2>. DEFINE r == RootOrder[n + 1]
              st == Healing[n]
  <2>1. Good(st)
    BY <1>1, <1>3
  <2>2. n + 1 \in 1 .. N /\ r \in Root
    BY <1>1
  <2>3. Healing[n + 1] = Heal(st, r)
    <3>1. Healing[n + 1] = Heal(Healing[(n + 1) - 1], r)
      BY <2>2, HealingUnfolds
    <3>. QED
      BY <3>1
  <2>4. Good(Heal(st, r))
    <3>. HIDE DEF st, r
    <3>1. Sound(Heal(st, r)) /\ (Heal(st, r).ok => st.ok)
      BY <2>1, <2>2, HealStep
    <3>2. ASSUME Heal(st, r).ok PROVE Housed(Heal(st, r).paths, Heal(st, r).rows)
      BY <2>1, <2>2, <3>1, <3>2, HealHouses
    <3>. QED
      BY <3>1, <3>2
  <2>. QED
    BY <2>3, <2>4
<1>4. N \in T
  <2>. HIDE DEF T
  <2>. QED
    BY <1>1, <1>2, <1>3, SetInduction
<1>. QED
  BY <1>1, <1>4 DEF Healed

\* A file the scan finds in the folder of a root is in that root.
LEMMA FoundAtHome ==
    ASSUME TypeInv, NEW r \in Root, NEW n \in Name,
           \A v \in Volume : at[v] \in {None, rootPath[v]},
           FileAt(<<rootPath[r], n>>) # None
    PROVE  <<r, n>> \in Place /\ tree[<<r, n>>] = FileAt(<<rootPath[r], n>>)
<1>1. rootPath[r] \in Dir /\ (r \notin Volume => rootPath[r] = r)
  BY DEF TypeInv, TypeOK, Root
<1>2. CASE Mounted(rootPath[r]) = {}
  <2>1. <<rootPath[r], n>> \in Place /\ FileAt(<<rootPath[r], n>>) = tree[<<rootPath[r], n>>]
    BY <1>2 DEF FileAt
  <2>2. rootPath[r] \in Root /\ rootPath[r] \notin Volume
    BY <1>1, <2>1, TreeAssumption, NameAssumption DEF Dir
  <2>3. rootPath[rootPath[r]] = rootPath[r]
    BY <2>2 DEF TypeInv, Root
  <2>4. rootPath[r] = r
    BY <2>2, <2>3 DEF TypeInv, TypeOK
  <2>. QED
    BY <2>1, <2>4
<1>3. CASE Mounted(rootPath[r]) # {}
  <2>1. PICK v \in Mounted(rootPath[r]) :
           <<v, n>> \in Place /\ FileAt(<<rootPath[r], n>>) = tree[<<v, n>>]
    BY <1>3 DEF FileAt
  <2>2. v \in Volume /\ at[v] = rootPath[r] /\ at[v] # None
    BY <1>1, <2>1, NoFile DEF Mounted
  <2>3. rootPath[v] = rootPath[r] /\ v \in Root
    BY <2>2 DEF Root
  <2>4. v = r
    BY <2>3 DEF TypeInv, TypeOK
  <2>. QED
    BY <2>1, <2>4
<1>. QED
  BY <1>2, <1>3

\* A step that moves no row.
LEMMA HousedStays ==
    ASSUME Housed(rootPath, rows), rootPath' = rootPath, Ids \subseteq Ids',
           \A e \in Place : tree'[e] = None \/ tree'[e] = tree[e],
           \A i \in Ids : rows'[i].path = rows[i].path /\ Disk(rows'[i].root) = Disk(rows[i].root)
    PROVE  Housed(rootPath, rows)'
<1>1. ASSUME NEW e \in Place, tree'[e] # None
      PROVE  \E i \in Ids' : /\ rows'[i].path = <<rootPath'[e[1]], e[2]>>
                             /\ Disk(rows'[i].root) = Disk(e[1])
  <2>1. PICK i \in Ids : rows[i].path = <<rootPath[e[1]], e[2]>> /\ Disk(rows[i].root) = Disk(e[1])
    BY <1>1 DEF Housed
  <2>. QED
    BY <2>1
<1>. QED
  BY <1>1 DEF Housed, Place, Disk

LEMMA BackStays ==
    ASSUME BackInv, settled' => settled, rootPath' = rootPath, Ids \subseteq Ids',
           \A e \in Place : tree'[e] = None \/ tree'[e] = tree[e],
           \A i \in Ids : rows'[i].path = rows[i].path /\ rows'[i].root = rows[i].root,
           settled' /\ pc' # "idle" => \A v \in Volume : at'[v] \in {None, rootPath[v]},
           \A it \in items' : \E jt \in items : jt.path = it.path
    PROVE  BackInv'
<1>. SUFFICES ASSUME settled' PROVE BackInv'
  BY DEF BackInv
<1>1. Housed(rootPath, rows) /\ \A jt \in items : RowsAt(jt.path) # {}
  BY DEF BackInv
<1>2. Housed(rootPath, rows)'
  BY <1>1, HousedStays
<1>3. \A it \in items' : RowsAt(it.path)' # {}
  <2>. TAKE it \in items'
  <2>1. PICK jt \in items : jt.path = it.path
    OBVIOUS
  <2>. QED
    BY <1>1, <2>1 DEF RowsAt
<1>. QED
  BY <1>2, <1>3 DEF BackInv

\* The steps of the disk, the drives and the rules, and those that begin, skip,
\* end or break off a root or the scan.
LEMMA AroundBack ==
    ASSUME TypeInv, DiskInv, BackInv,
           \/ \E e \in Place, f \in File : Create(e, f)
           \/ \E d, e \in Place : Rename(d, e) \/ HardLink(d, e)
           \/ \E e \in Place : Delete(e)
           \/ \E f \in File : Edit(f)
           \/ \E v \in Volume, m \in MountPoint \cup {None} : Remount(v, m)
           \/ AddRule \/ RemoveRule \/ Reapply
           \/ \E wanted \in Requests : Begin(wanted)
           \/ SkipOffline \/ LoadKnown \/ FailDir \/ Sweep \/ Stop
           \/ \E it \in items : CommitFails(it)
    PROVE  BackInv' /\ Len(rows') = Len(rows)
<1>0. /\ TypeOK /\ \A i \in Ids : rows[i] \in Rows
      /\ tree \in [Place -> File \cup {None}]
      /\ pc # "walk" => items = {}
  BY RowsFacts DEF TypeInv, TypeOK, DiskInv
<1>1. ASSUME settled' => settled, rootPath' = rootPath, rows' \in [Ids -> Rows],
             \A e \in Place : tree'[e] = None \/ tree'[e] = tree[e],
             \A i \in Ids : rows'[i].path = rows[i].path /\ rows'[i].root = rows[i].root,
             at' = at, pc' = "idle" \/ pc # "idle",
             items' = {} \/ items' = items
      PROVE  BackInv' /\ Len(rows') = Len(rows)
  <2>1. Ids' = Ids
    BY <1>1 DEF Ids
  <2>2. settled' /\ pc' # "idle" => \A v \in Volume : at'[v] \in {None, rootPath[v]}
    BY <1>1 DEF BackInv
  <2>3. \A it \in items' : \E jt \in items : jt.path = it.path
    BY <1>1
  <2>4. BackInv'
    BY <1>1, <2>1, <2>2, <2>3, BackStays
  <2>5. Len(rows') = Len(rows)
    BY <1>0, <1>1, RowsFacts
  <2>. QED
    BY <2>4, <2>5
<1>2. rows \in [Ids -> Rows]
  BY RowsFacts DEF TypeInv
<1>3. CASE \/ \E e \in Place, f \in File : Create(e, f)
           \/ \E d, e \in Place : Rename(d, e) \/ HardLink(d, e)
  <2>1. settled' = FALSE /\ rows' = rows
    BY <1>3 DEF Create, Rename, HardLink
  <2>. QED
    BY <2>1 DEF BackInv
<1>4. CASE \E e \in Place : Delete(e)
  <2>1. PICK e \in Place : Delete(e)
    BY <1>4
  <2>2. /\ UNCHANGED <<at, rootPath, rows, settled, pc, items>>
        /\ tree' = [tree EXCEPT ![e] = None]
    BY <2>1 DEF Delete, Change, scan, pass
  <2>3. \A d \in Place : tree'[d] = None \/ tree'[d] = tree[d]
    BY <1>0, <2>2
  <2>. QED
    BY <1>1, <1>2, <2>2, <2>3
<1>5. CASE \/ \E f \in File : Edit(f)
           \/ AddRule \/ FailDir
           \/ \E wanted \in Requests : Begin(wanted)
           \/ LoadKnown
  <2>1. /\ UNCHANGED <<tree, at, rootPath, rows, settled>>
        /\ pc' = "idle" \/ pc # "idle"
        /\ items' = {} \/ items' = items
    BY <1>5 DEF Edit, AddRule, FailDir, Begin, LoadKnown, Change, scan, pass, world
  <2>. QED
    BY <1>1, <1>2, <2>1
<1>6. CASE \E v \in Volume, m \in MountPoint \cup {None} : Remount(v, m)
  <2>1. PICK v \in Volume, m \in MountPoint \cup {None} : Remount(v, m)
    BY <1>6
  <2>2. /\ UNCHANGED <<tree, rootPath, rows, pc, items>> /\ Ids' = Ids
        /\ at' = [at EXCEPT ![v] = m]
        /\ settled' = (settled /\ (pc = "idle" \/ m \in {None, rootPath[v]}))
    BY <2>1 DEF Remount, scan, pass, Ids
  <2>3. settled' /\ pc' # "idle" => \A w \in Volume : at'[w] \in {None, rootPath[w]}
    BY <1>0, <2>2 DEF BackInv, TypeOK
  <2>. QED
    BY <2>2, <2>3, BackStays
<1>7. CASE RemoveRule \/ Reapply
  <2>1. /\ UNCHANGED <<tree, at, rootPath, settled, pc, items>>
        /\ \E b \in [Ids -> BOOLEAN] : rows' = [i \in Ids |-> [rows[i] EXCEPT !.excluded = b[i]]]
    <3>1. CASE RemoveRule
      <4>1. /\ UNCHANGED <<tree, at, rootPath, settled, pc, items>>
            /\ rows' = [i \in Ids |-> [rows[i] EXCEPT !.excluded = FALSE]]
        BY <3>1 DEF RemoveRule, Change, scan, pass, world
      <4>. DEFINE b == [i \in Ids |-> FALSE]
      <4>2. b \in [Ids -> BOOLEAN] /\ rows' = [i \in Ids |-> [rows[i] EXCEPT !.excluded = b[i]]]
        BY <4>1
      <4>. QED
        BY <4>1, <4>2
    <3>2. CASE Reapply
      <4>1. /\ UNCHANGED <<tree, at, rootPath, settled, pc, items>>
            /\ rows' = [i \in Ids |-> [rows[i] EXCEPT !.excluded = rule /\ rows[i].path \in Hidden]]
        BY <3>2 DEF Reapply, Flagged, scan, pass, world
      <4>. DEFINE b == [i \in Ids |-> rule /\ rows[i].path \in Hidden]
      <4>2. b \in [Ids -> BOOLEAN] /\ rows' = [i \in Ids |-> [rows[i] EXCEPT !.excluded = b[i]]]
        BY <4>1 DEF TypeInv, FlagInv
      <4>. QED
        BY <4>1, <4>2
    <3>. QED
      BY <1>7, <3>1, <3>2
  <2>2. PICK b \in [Ids -> BOOLEAN] : rows' = [i \in Ids |-> [rows[i] EXCEPT !.excluded = b[i]]]
    BY <2>1
  <2>3. rows' \in [Ids -> Rows] /\ \A i \in Ids : rows'[i].path = rows[i].path /\ rows'[i].root = rows[i].root
    BY <1>0, <2>2 DEF Rows
  <2>. QED
    BY <1>1, <1>2, <2>1, <2>3
<1>8. CASE SkipOffline \/ Sweep
  <2>1. UNCHANGED <<tree, at, rootPath, settled>> /\ pc # "idle" /\ items' = items
    BY <1>8 DEF SkipOffline, Sweep, pass, world
  <2>2. rows' = rows \/ \E ids : rows' = MarkedMissing(ids)
    BY <1>8 DEF SkipOffline, Sweep
  <2>3. rows' \in [Ids -> Rows] /\ \A i \in Ids : rows'[i].path = rows[i].path /\ rows'[i].root = rows[i].root
    <3>1. CASE rows' = rows
      BY <1>2, <3>1
    <3>2. CASE \E ids : rows' = MarkedMissing(ids)
      BY <1>0, <3>2, MarkedRows
    <3>. QED
      BY <2>2, <3>1, <3>2
  <2>. QED
    BY <1>1, <2>1, <2>3
<1>9. CASE Stop \/ \E it \in items : CommitFails(it)
  <2>1. /\ UNCHANGED <<tree, at, rootPath, settled>> /\ pc' = "idle" /\ items' = {}
        /\ rows' = [i \in Ids |-> [rows[i] EXCEPT !.seen = FALSE]]
    BY <1>9 DEF Stop, CommitFails, EndScan, world
  <2>2. rows' \in [Ids -> Rows] /\ \A i \in Ids : rows'[i].path = rows[i].path /\ rows'[i].root = rows[i].root
    BY <1>0, <2>1 DEF Rows
  <2>. QED
    BY <1>1, <2>1, <2>2
<1>. QED
  BY <1>3, <1>4, <1>5, <1>6, <1>7, <1>8, <1>9

LEMMA ReconcileBack ==
    ASSUME TypeInv, DiskInv, BackInv, Reconcile
    PROVE  BackInv' /\ Len(rows') = Len(rows)
<1>1. /\ UNCHANGED <<tree, at, settled, items>> /\ pc = "idle" /\ items = {}
      /\ IF Healed.ok THEN rootPath' = Healed.paths /\ rows' = Healed.rows
                      ELSE UNCHANGED <<pc, rootPath, rows>>
  BY DEF Reconcile, DiskInv, pass, world
<1>2. CASE ~Healed.ok
  <2>1. UNCHANGED <<tree, at, settled, items, pc, rootPath, rows>> /\ Ids' = Ids
    BY <1>1, <1>2 DEF Ids
  <2>. QED
    BY <1>1, <2>1, BackStays
<1>3. CASE Healed.ok
  <2>1. /\ Healed.rows \in [Ids -> Rows]
        /\ \A v \in Volume : at[v] # None => Healed.paths[v] = at[v]
    BY <1>3, HealedIsSound DEF TypeInv, Sound, Tables
  <2>2. rows' \in [Ids -> Rows] /\ Ids' = Ids
    BY <1>1, <1>3, <2>1 DEF Ids
  <2>3. Len(rows') = Len(rows)
    BY <2>2, RowsFacts DEF TypeInv
  <2>4. settled => Housed(Healed.paths, Healed.rows)
    BY <1>3, HealedHouses DEF BackInv, TypeInv
  <2>5. settled => Housed(rootPath, rows)'
    BY <1>1, <1>3, <2>2, <2>4 DEF Housed, Place, Disk
  <2>6. \A v \in Volume : at'[v] \in {None, rootPath'[v]}
    BY <1>1, <1>3, <2>1
  <2>. QED
    BY <1>1, <2>3, <2>5, <2>6 DEF BackInv
<1>. QED
  BY <1>2, <1>3

\* What a walk meets is at its place, and has a row there.
LEMMA VisitBack ==
    ASSUME TypeInv, BackInv, NEW n \in Name, Visit(n)
    PROVE  BackInv' /\ Len(rows') = Len(rows)
<1>. DEFINE p == <<rootPath[This], n>>
            f == FileAt(p)
<1>1. /\ pc = "walk" /\ UNCHANGED <<tree, at, rootPath, rows, settled, pc>>
      /\ items' = items \/ (f # None /\ items' = items \cup {Item(p, f)})
  BY DEF Visit, world
<1>2. This \in Root /\ p \in Path
  BY <1>1, ThisIsLeft DEF TypeInv, TypeOK, Path
<1>. SUFFICES ASSUME settled PROVE BackInv'
  BY <1>1 DEF BackInv
<1>3. /\ Housed(rootPath, rows) /\ \A v \in Volume : at[v] \in {None, rootPath[v]}
      /\ \A it \in items : RowsAt(it.path) # {}
  BY <1>1 DEF BackInv
<1>4. ASSUME f # None PROVE RowsAt(Item(p, f).path) # {}
  <2>1. f \in File
    BY <1>2, <1>4, FileAtType DEF TypeInv
  <2>2. Item(p, f).path = p
    <3>. HIDE DEF p, f
    <3>1. Item(p, f).path = p /\ Item(p, f).key = <<f, stamp[f]>>
      BY <1>2, <2>1, ItemType
    <3>. QED
      BY <3>1
  <2>3. <<This, n>> \in Place /\ tree[<<This, n>>] = f
    BY <1>2, <1>3, <1>4, FoundAtHome
  <2>4. \E i \in Ids : rows[i].path = <<rootPath[<<This, n>>[1]], <<This, n>>[2]>>
    BY <1>3, <1>4, <2>3 DEF Housed
  <2>5. RowsAt(p) # {}
    BY <2>4 DEF RowsAt
  <2>. HIDE DEF p, f
  <2>. QED
    BY <2>2, <2>5
<1>5. \A it \in items' : RowsAt(it.path) # {}
  <2>. HIDE DEF p, f
  <2>. QED
    BY <1>1, <1>3, <1>4
<1>. QED
  BY <1>1, <1>3, <1>5 DEF BackInv, Housed, RowsAt, Ids, Place, Disk

LEMMA ProbesBack ==
    ASSUME TypeInv, WalkInv, BackInv, NEW it \in items,
           ProbeOpens(it) \/ ProbeDecodes(it) \/ ProbeStores(it) \/ ProbeSkips(it)
    PROVE  BackInv' /\ Len(rows') = Len(rows)
<1>1. PICK next : Probed(it, next) /\ next.path = it.path
  BY ProbeNext
<1>2. /\ pc = "walk" /\ UNCHANGED <<tree, at, rootPath, rows, settled, pc>>
      /\ items' = (items \ {it}) \cup {next} /\ Ids' = Ids
  BY <1>1 DEF Probed, world, Ids
<1>3. \A jt \in items' : \E kt \in items : kt.path = jt.path
  BY <1>1, <1>2
<1>4. settled' /\ pc' # "idle" => \A v \in Volume : at'[v] \in {None, rootPath[v]}
  BY <1>2 DEF BackInv
<1>. QED
  BY <1>2, <1>3, <1>4, BackStays

\* A batch: its row is there, so that none is added and no path changes.
LEMMA CommitBack ==
    ASSUME TypeInv, DiskInv, BackInv, NEW it \in items, Commit(it)
    PROVE  BackInv' /\ (settled => Len(rows') = Len(rows))
<1>1. /\ pc = "walk" /\ UNCHANGED <<tree, at, rootPath, settled, pc>> /\ items' \subseteq items
      /\ it.kind \in {"unchanged", "moved", "result"} /\ ~Clash(it)
      /\ it.kind = "moved" => it.from \in Ids
      /\ it \in Items /\ This \in Root
  BY ThisIsLeft DEF Commit, world, TypeInv, KnownInv, ItemInv, Whole
<1>. SUFFICES ASSUME settled PROVE BackInv' /\ Len(rows') = Len(rows)
  BY <1>1 DEF BackInv
<1>2. /\ Housed(rootPath, rows) /\ \A v \in Volume : at[v] \in {None, rootPath[v]}
      /\ RowsAt(it.path) # {} /\ it.path \in Path /\ it.path[1] = rootPath[This]
  BY <1>1 DEF BackInv, DiskInv, Items
<1>3. ASSUME rows' \in [Ids -> Rows], Housed(rootPath, rows)',
             \A i \in Ids : rows'[i].path = rows[i].path
      PROVE  BackInv' /\ Len(rows') = Len(rows)
  <2>1. Ids' = Ids
    BY <1>3 DEF Ids
  <2>2. Len(rows') = Len(rows)
    BY <1>3, RowsFacts DEF TypeInv
  <2>3. \A jt \in items' : RowsAt(jt.path)' # {}
    <3>. TAKE jt \in items'
    <3>1. RowsAt(jt.path) # {}
      BY <1>1 DEF BackInv
    <3>. QED
      BY <1>3, <2>1, <3>1 DEF RowsAt
  <2>. QED
    BY <1>1, <1>2, <1>3, <2>2, <2>3 DEF BackInv
<1>4. ASSUME rows' \in [Ids -> Rows],
             \A i \in Ids : rows'[i].path = rows[i].path /\ rows'[i].root = rows[i].root
      PROVE  BackInv' /\ Len(rows') = Len(rows)
  <2>1. Ids' = Ids
    BY <1>4 DEF Ids
  <2>2. Housed(rootPath, rows)'
    BY <1>1, <1>2, <1>4, <2>1, HousedStays
  <2>. QED
    BY <1>3, <1>4, <2>2
<1>5. CASE it.kind = "unchanged"
  <2>1. rows' = Touched(it)
    BY <1>5 DEF Commit
  <2>. QED
    BY <1>4, <2>1, TouchedRows
<1>6. CASE it.kind = "moved"
  <2>1. rows' = Renamed(it) /\ it.from \in Ids
    BY <1>1, <1>6 DEF Commit
  <2>2. rows[it.from].path = it.path
    BY <1>1, <1>2, <1>6 DEF Clash, RowsAt
  <2>3. /\ Renamed(it) \in [Ids -> Rows]
        /\ Renamed(it)[it.from].path = it.path /\ Renamed(it)[it.from].root = rows[it.from].root
        /\ \A i \in Ids \ {it.from} : Renamed(it)[i] = rows[i]
    BY <2>1, RenamedRows
  <2>. QED
    BY <1>4, <2>1, <2>2, <2>3
<1>7. CASE it.kind = "result"
  <2>1. rows' = Upserted(it)
    BY <1>7 DEF Commit
  <2>2. /\ rows' \in Seq(Rows) /\ Ids \subseteq DOMAIN rows'
        /\ \A i \in Ids : rows[i].path # it.path => rows'[i] = rows[i]
        /\ \A i \in DOMAIN rows' : (i \notin Ids \/ rows[i].path = it.path) =>
             \E flag \in BOOLEAN : rows'[i] = NewRow(it, flag)
        /\ \A i \in DOMAIN rows' : i \notin Ids => RowsAt(it.path) = {}
    BY <1>1, <2>1, UpsertedRows
  <2>3. DOMAIN rows' = Ids /\ Ids' = Ids /\ rows' \in [Ids -> Rows]
    <3>1. DOMAIN rows' = Ids
      BY <1>2, <2>2
    <3>2. rows' \in [DOMAIN rows' -> Rows]
      BY <2>2
    <3>. QED
      BY <3>1, <3>2 DEF Ids
  <2>4. ASSUME NEW i \in Ids, rows[i].path = it.path
        PROVE  rows'[i].path = it.path /\ rows'[i].root = This
    BY <2>2, <2>3, <2>4 DEF NewRow
  <2>5. \A i \in Ids : rows'[i].path = rows[i].path
    BY <2>2, <2>4
  <2>6. ASSUME NEW e \in Place, tree'[e] # None
        PROVE  \E i \in Ids : /\ rows'[i].path = <<rootPath[e[1]], e[2]>>
                              /\ Disk(rows'[i].root) = Disk(e[1])
    <3>1. PICK i \in Ids : rows[i].path = <<rootPath[e[1]], e[2]>> /\ Disk(rows[i].root) = Disk(e[1])
      BY <1>1, <1>2, <2>6 DEF Housed
    <3>2. CASE rows[i].path = it.path
      <4>1. e[1] \in Root /\ rootPath[e[1]] = rootPath[This]
        BY <1>2, <3>1, <3>2, TreeAssumption
      <4>2. e[1] = This
        BY <1>1, <4>1 DEF TypeInv, TypeOK
      <4>. QED
        BY <2>4, <3>1, <3>2, <4>2
    <3>3. CASE rows[i].path # it.path
      BY <2>2, <3>1, <3>3
    <3>. QED
      BY <3>2, <3>3
  <2>7. Housed(rootPath, rows)'
    BY <1>1, <2>3, <2>6 DEF Housed, Place, Disk
  <2>. QED
    BY <1>3, <2>3, <2>5, <2>7
<1>. QED
  BY <1>1, <1>5, <1>6, <1>7

\* A scan of everything that nothing disturbed has housed every file.
LEMMA QuietHouses ==
    ASSUME TypeInv, WalkInv, CountedInv, pc = "load", left = {}, Settles
    PROVE  Housed(rootPath, rows)
<1>1. /\ quiet /\ scope = Root /\ offline = {} /\ ~rule
      /\ \A d, e \in Place : tree[d] = tree[e] /\ tree[d] # None => d = e
      /\ \A i \in Ids : ~rows[i].missing /\ DiskOf[rows[i].file] \in Volume
            => rows[i].root = DiskOf[rows[i].file]
  BY DEF Settles
<1>2. /\ SteadyInv /\ DoneInv /\ SweptInv /\ WalkedInv /\ DiskInv
      /\ \A i \in Ids : rows[i] \in Rows
  BY <1>1, RowsFacts DEF WalkInv, QuietInv, CountedInv, QuietOnceInv, TypeInv
<1>3. \A v \in Volume : at[v] = rootPath[v] /\ at[v] # None
  BY <1>1, <1>2 DEF SteadyInv, Unmounted
<1>4. ASSUME NEW e \in Place, tree[e] # None
      PROVE  \E i \in Ids : /\ rows[i].path = <<rootPath[e[1]], e[2]>>
                            /\ Disk(rows[i].root) = Disk(e[1])
  <2>. DEFINE r == e[1]
              n == e[2]
              f == tree[e]
  <2>1. r \in Root /\ n \in Name /\ e = <<r, n>> /\ f \in File /\ DiskOf[f] = Disk(r)
    BY <1>2, <1>4, TreeAssumption DEF TypeInv, TypeOK, DiskInv
  <2>2. ASSUME NEW m \in Name
        PROVE  FileAt(<<rootPath[r], m>>) = IF <<r, m>> \in Place THEN tree[<<r, m>>] ELSE None
    <3>1. CASE r \in Volume
      <4>1. Mounted(rootPath[r]) = {r}
        BY <1>3, <2>1, <3>1 DEF Mounted, TypeInv, TypeOK, Root
      <4>. QED
        BY <4>1 DEF FileAt
    <3>2. CASE r \notin Volume
      <4>1. rootPath[r] = r
        BY <2>1, <3>2 DEF TypeInv, Root
      <4>2. Mounted(rootPath[r]) = {}
        BY <1>3, <2>1, <3>2, <4>1 DEF Mounted, TypeInv, TypeOK, Root
      <4>. QED
        BY <4>1, <4>2 DEF FileAt
    <3>. QED
      BY <3>1, <3>2
  <2>3. OnShow(f, r)
    BY <1>1, <2>1, <2>2 DEF OnShow
  <2>4. PICK i \in Ids : rows[i].seen /\ rows[i].file = f /\ rows[i].path[1] = rootPath[r]
    BY <1>1, <1>2, <2>1, <2>3 DEF WalkedInv, Gives
  <2>5. rows[i].path \in Path /\ rows[i].path = <<rootPath[r], rows[i].path[2]>> /\ rows[i].path[2] \in Name
    BY <1>2, <2>4 DEF Rows, Path
  <2>6. FileAt(rows[i].path) = f
    BY <1>2, <2>4, <2>5 DEF DoneInv, Right, Places
  <2>7. rows[i].path[2] = n
    <3>. DEFINE m == rows[i].path[2]
    <3>1. FileAt(<<rootPath[r], m>>) = f /\ m \in Name
      BY <2>5, <2>6
    <3>2. <<r, m>> \in Place /\ tree[<<r, m>>] = tree[e]
      BY <1>4, <2>2, <3>1
    <3>. QED
      BY <1>1, <1>4, <2>1, <3>2
  <2>8. ~rows[i].missing
    BY <1>1, <1>2, <2>4 DEF SweptInv
  <2>9. Disk(rows[i].root) = Disk(r)
    <3>1. CASE r \in Volume
      BY <1>1, <2>1, <2>4, <2>8, <3>1 DEF Disk
    <3>2. CASE r \notin Volume
      <4>1. DiskOf[f] \notin Volume
        BY <2>1, <3>2, NameAssumption DEF Disk, Root
      <4>. QED
        BY <1>2, <2>4, <3>2, <4>1 DEF DiskInv, Disk
    <3>. QED
      BY <3>1, <3>2
  <2>. QED
    BY <2>5, <2>7, <2>9
<1>. QED
  BY <1>4 DEF Housed

LEMMA FinishBack ==
    ASSUME TypeInv, WalkInv, CountedInv, BackInv, Finish
    PROVE  BackInv' /\ Len(rows') = Len(rows)
<1>1. /\ pc = "load" /\ left = {} /\ pc' = "idle" /\ items' = {} /\ UNCHANGED <<tree, rootPath>>
      /\ rows' = [i \in Ids |-> [rows[i] EXCEPT !.seen = FALSE]]
      /\ settled' = (settled \/ Settles)
  BY DEF Finish, EndScan, world
<1>2. \A i \in Ids : rows[i] \in Rows
  BY RowsFacts DEF TypeInv
<1>3. /\ rows' \in [Ids -> Rows] /\ Ids' = Ids
      /\ \A i \in Ids : rows'[i].path = rows[i].path /\ rows'[i].root = rows[i].root
  BY <1>1, <1>2 DEF Ids, Rows
<1>4. Len(rows') = Len(rows)
  BY <1>3, RowsFacts DEF TypeInv
<1>5. settled' => Housed(rootPath, rows)
  BY <1>1, QuietHouses DEF BackInv
<1>6. settled' => Housed(rootPath, rows)'
  BY <1>1, <1>3, <1>5, HousedStays
<1>. QED
  BY <1>1, <1>4, <1>6 DEF BackInv

LEMMA NextBack ==
    TypeInv /\ WalkInv /\ CountedInv /\ BackInv /\ [Next]_vars =>
        BackInv' /\ [settled => Len(rows') = Len(rows)]_vars
<1>. SUFFICES ASSUME TypeInv, WalkInv, CountedInv, BackInv, [Next]_vars
              PROVE  BackInv' /\ [settled => Len(rows') = Len(rows)]_vars
  OBVIOUS
<1>0. DiskInv
  BY DEF CountedInv
<1>1. CASE UNCHANGED vars
  <2>1. UNCHANGED <<tree, at, rootPath, rows, settled, pc, items>> /\ Ids' = Ids
    BY <1>1 DEF vars, world, scan, pass, Ids
  <2>2. settled' /\ pc' # "idle" => \A v \in Volume : at'[v] \in {None, rootPath[v]}
    BY <2>1 DEF BackInv
  <2>3. BackInv'
    BY <2>1, <2>2, BackStays
  <2>. QED
    BY <1>1, <2>3
<1>2. CASE \E it \in items : Commit(it)
  BY <1>0, <1>2, CommitBack
<1>3. CASE Next /\ ~\E it \in items : Commit(it)
  <2>. SUFFICES BackInv' /\ Len(rows') = Len(rows)
    OBVIOUS
  <2>1. CASE Reconcile
    BY <1>0, <2>1, ReconcileBack
  <2>2. CASE \E n \in Name : Visit(n)
    BY <2>2, VisitBack
  <2>3. CASE \E it \in items : ProbeOpens(it) \/ ProbeDecodes(it) \/ ProbeStores(it) \/ ProbeSkips(it)
    BY <2>3, ProbesBack
  <2>4. CASE Finish
    BY <2>4, FinishBack
  <2>. QED
    BY <1>0, <1>3, <2>1, <2>2, <2>3, <2>4, AroundBack DEF Next
<1>. QED
  BY <1>1, <1>2, <1>3

LEMMA InitBack == Init => BackInv
BY DEF Init, BackInv

\* Once a scan of everything has given each file its row, no scan adds another
\* while files are edited or deleted, rules come and go, and drives are unplugged
\* and mounted elsewhere between the scans: for any number of drives and scans,
\* whatever inode numbers their file systems keep.
THEOREM RowsComeBack == Spec => DrivesComeBack
<1>. DEFINE Inv == TypeInv /\ WalkInv /\ CountedInv /\ BackInv
<1>1. Init => Inv
  BY InitTypes, InitWalk, InitOnce, InitBack
<1>2. Inv /\ [Next]_vars => Inv'
  BY NextTypes, NextWalk, NextOnce, NextBack
<1>3. Inv /\ [Next]_vars => [settled => Len(rows') = Len(rows)]_vars
  BY NextBack
<1>4. Spec => []Inv
  BY <1>1, <1>2, PTL DEF Spec
<1>. QED
  BY <1>3, <1>4, PTL DEF Spec, DrivesComeBack

=============================================================================
