----------------------------- MODULE ScanRoots -----------------------------
(***************************************************************************)
(* Where a walk may start: the folders the Sources page proposes            *)
(* (src/scanner/roots.py and SourcesVM._proposals), from the mounts that    *)
(* `findmnt` lists, the file user-dirs.dirs and the directories there are.  *)
(*                                                                          *)
(* A path is the sequence of its names, as in ExclusionMatcher.  A node of  *)
(* findmnt's tree is a record: target, <<>> for "/" and None when it is no  *)
(* absolute path; fstype, or None; netdev, its option _netdev; uuid, or     *)
(* None; children.  JSON, encodings, labels and the order of the list on    *)
(* the page are not modelled, hence sets of proposals; a source that raises *)
(* is not either: each of these catches the OSError it can meet.            *)
(***************************************************************************)
EXTENDS ExclusionMatcher

CONSTANTS MountLimit,   \* mounts read at most
          DepthLimit    \* depth to which the tree is read

ASSUME RootsAssumption == MountLimit \in Nat /\ DepthLimit \in Nat

LocalFilesystems ==
    {"ext4", "btrfs", "xfs", "vfat", "exfat", "ntfs3", "ntfs", "fuseblk", "f2fs"}

\* Those named one by one, with nfs* and the helpers of fuse.* in use.
NetworkFilesystems ==
    {"cifs", "smb3", "smbfs", "sshfs", "fuse", "9p", "ceph", "glusterfs", "afs",
     "davfs", "ncpfs", "lustre", "nfs", "nfs4", "fuse.sshfs", "fuse.rclone"}

-----------------------------------------------------------------------------
(* The mounts. *)

IsNetworkFstype(fstype, netdev) == fstype \in NetworkFilesystems \/ netdev

\* A node without a usable target or type is no mount; its children are read.
MountFrom(node) ==
    IF node.target = None \/ node.fstype = None THEN <<>>
    ELSE << [target |-> node.target, fstype |-> node.fstype, uuid |-> node.uuid,
             network |-> IsNetworkFstype(node.fstype, node.netdev)] >>

\* The nodes of the tree down to DepthLimit, each followed by its children.
DepthFirst(tree) ==
    LET alone(node) == <<[node EXCEPT !.children = <<>>]>>
        Opened(nodes) ==
            FlattenSeq([i \in DOMAIN nodes |-> alone(nodes[i]) \o nodes[i].children])
        opened[depth \in 0 .. DepthLimit] ==
            IF depth = 0 THEN tree ELSE Opened(opened[depth - 1])
    IN  opened[DepthLimit]

\* The first MountLimit mounts of the tree; of no output, none.
ParseFindmnt(tree) ==
    LET nodes == DepthFirst(tree)
        all == FlattenSeq([i \in DOMAIN nodes |-> MountFrom(nodes[i])])
    IN  SubSeq(all, 1, Min({Len(all), MountLimit}))

\* Mutant: a later mount of the same target does not win.
FirstMountFor(mounts, path) ==
    LET over == {i \in DOMAIN mounts : IsUnder(path, mounts[i].target)}
        deepest == {i \in over : \A j \in over : Len(mounts[j].target)
                                                 <= Len(mounts[i].target)}
    IN  IF over = {} THEN None ELSE mounts[Min(deepest)]

\* The mount holding the path: of the deepest target above it, the last one.
MountFor(mounts, path) ==
    LET over == {i \in DOMAIN mounts : IsUnder(path, mounts[i].target)}
        deepest == {i \in over : \A j \in over : Len(mounts[j].target)
                                                 <= Len(mounts[i].target)}
    IN  IF over = {} THEN None ELSE mounts[Max(deepest)]

OffReason(mounts, path) ==
    LET mount == MountFor(mounts, path)
    IN  IF mount # None /\ mount.network THEN "network" ELSE None

-----------------------------------------------------------------------------
(* The sources.  A machine m: m.mounts the tree findmnt prints, m.dirs the   *)
(* directories there are, m.pictures the values user-dirs.dirs assigns to    *)
(* XDG_PICTURES_DIR, in order.                                               *)

\* The last assignment counts: an absolute path other than the home itself.
ParseUserDirs(lines) ==
    LET path == NormalizePath(Last(lines), Home)
    IN  IF lines = <<>> \/ ~IsAbsolute(Last(lines)) \/ path = Home THEN None
        ELSE path

Pictures(m) ==
    LET named == ParseUserDirs(m.pictures)
    IN  IF named = None THEN Home \o <<"Pictures">> ELSE named

Usable(m, paths) == paths \cap m.dirs

\* Those within another one are left to its walk.
WithoutNested(paths) ==
    {p \in paths : ~\E other \in paths \ {p} : IsUnder(p, other)}

Proposal(path, kind, mounts) ==
    LET mount == MountFor(mounts, path)
        reason == OffReason(mounts, path)
    IN  [path |-> path, kind |-> kind, reason |-> reason, on |-> reason = None,
         volume |-> IF mount = None THEN None ELSE mount.uuid]

Folders(m, kind, wanted) ==
    {Proposal(p, kind, ParseFindmnt(m.mounts)) : p \in WithoutNested(Usable(m, wanted))}

XdgWanted(m) ==
    {Pictures(m), Home \o <<"Wallpapers">>, Home \o <<"Pictures", "wallpapers">>}

SystemWanted ==
    {<<"usr", "share", "backgrounds">>, <<"usr", "share", "wallpapers">>,
     Home \o <<".local", "share", "backgrounds">>}

\* /data, /mnt/*, /media/*, /media/*/* and /run/media/*/*.
IsVolumeTarget(t) ==
    \/ t = <<"data">>
    \/ Len(t) = 2 /\ t[1] = "mnt"
    \/ Len(t) \in {2, 3} /\ t[1] = "media"
    \/ Len(t) = 4 /\ Prefix(t, 2) = <<"run", "media">>

VolumeReason(mount) ==
    IF mount.network THEN "network"
    ELSE IF mount.fstype \notin LocalFilesystems THEN "not local" ELSE None

\* A volume another mount hides is not proposed, and none is on by default.
Volumes(m) ==
    LET mounts == ParseFindmnt(m.mounts)
    IN  {[path |-> mount.target, kind |-> "volume", reason |-> VolumeReason(mount),
          on |-> FALSE, volume |-> mount.uuid] :
            mount \in {x \in ToSet(mounts) : /\ IsVolumeTarget(x.target)
                                             /\ MountFor(mounts, x.target) = x
                                             /\ x.target \in m.dirs}}

DefaultSources(m) ==
    << Folders(m, "xdg", XdgWanted(m)), Folders(m, "system", SystemWanted), Volumes(m) >>

\* Mutant: the last source wins for a path.
LastProposeAll(sources) ==
    UNION {{p \in sources[i] : ~\E j \in DOMAIN sources :
                j > i /\ \E q \in sources[j] : q.path = p.path} : i \in DOMAIN sources}

\* Every path once: the first source wins.
ProposeAll(sources) ==
    UNION {{p \in sources[i] : ~\E j \in DOMAIN sources :
                j < i /\ \E q \in sources[j] : q.path = p.path} : i \in DOMAIN sources}

\* What the page proposes: no folder that is a source already.
Proposals(m, known) == {p \in ProposeAll(DefaultSources(m)) : p.path \notin known}

=============================================================================
