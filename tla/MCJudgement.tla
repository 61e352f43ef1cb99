---------------------------- MODULE MCJudgement ----------------------------
(* A home with pictures, a cache and two configuration folders; a laptop    *)
(* with a scaled monitor beside it, and images about as large as the panel. *)
EXTENDS Judgement

V(home, rooted, items, slash) ==
    [home |-> home, rooted |-> rooted, items |-> items, slash |-> slash]
Rule(kind, value) == [kind |-> kind, value |-> value]

MCNames == {"h", "pics", "cache", "cfg", "walls", "sys", "a", "b", "u", "z",
            "Pictures", "Wallpapers", "wallpapers", "usr", "share",
            "backgrounds", "data", "media", "mnt", "usb", "nas", "iso"}
MCHome == <<"h">>
MCProbeHome == <<"u">>
MCProbes == {<<"z">>, <<"u", "pics", "b">>}

SysRule == Rule("folder", V(FALSE, TRUE, <<"sys">>, FALSE))
CfgRule == Rule("folder", V(TRUE, FALSE, <<"cfg">>, FALSE))
CacheRule == Rule("pattern", V(FALSE, FALSE, <<GlobStar, {"cache"}, GlobStar>>, FALSE))
CacheFile == Rule("pattern", V(FALSE, FALSE, <<GlobStar, {"cache"}, {"a", "b"}>>, FALSE))

Group(key, name, locked, rs, exceptions) ==
    [key |-> key, name |-> name, locked |-> locked, rules |-> rs,
     exceptions |-> exceptions]
MCReleases ==
    << << Group("system", "System", TRUE, <<SysRule>>, {}),
          Group("caches", "Caches", FALSE, <<CacheRule>>, {}),
          Group("app", "Apps", FALSE, <<CfgRule>>,
                {V(TRUE, FALSE, <<"cfg", "walls">>, FALSE)}) >>,
       << Group("system", "System", TRUE, <<SysRule>>, {}),
          Group("caches", "Caches", FALSE, <<CacheFile>>, {}),
          Group("app", "Apps", FALSE, <<CfgRule>>, {}) >> >>

PicsA == <<"h", "pics", "a">>
PicsB == <<"h", "pics", "b">>
CacheB == <<"h", "pics", "cache", "b">>
CfgA == <<"h", "cfg", "a">>
WallsA == <<"h", "cfg", "walls", "a">>
MCFiles == {PicsA, PicsB, CacheB, CfgA, WallsA}

Dims(w, h, usable, plain) == [size |-> <<w, h>>, usable |-> usable, plain |-> plain]
MCDisk == (PicsA :> [inode |-> 1, dims |-> Dims(10, 6, TRUE, TRUE)])
       @@ (CacheB :> [inode |-> 2, dims |-> Dims(28, 12, TRUE, TRUE)])
       @@ (CfgA :> [inode |-> 3, dims |-> Dims(9, 6, TRUE, TRUE)])
       @@ (WallsA :> [inode |-> 4, dims |-> Dims(18, 30, TRUE, TRUE)])
MCCatalogued == {PicsA, CacheB, CfgA}
\* larger with a narrow crop, animated, unreadable
MCLooks == {Dims(20, 10, TRUE, TRUE), Dims(10, 6, TRUE, FALSE), Dims(0, 0, FALSE, TRUE)}

MCSources == << <<"h">> >>
MCNewSources == {<<"h", "pics", "cache">>, <<"h", "cfg", "walls">>}
Request(rule, group, source) ==
    [kind |-> rule.kind, value |-> rule.value, group |-> group, source |-> source]
MCUserRules ==
    { Request(Rule("folder", V(TRUE, FALSE, <<"pics", Up, "pics">>, FALSE)), None, None),
      Request(Rule("folder", V(TRUE, FALSE, <<"pics">>, FALSE)), "Mine", <<"h">>),
      Request(Rule("pattern", V(TRUE, FALSE, <<{"pics", "cache"}>>, FALSE)), None, None),
      Request(Rule("pattern", V(FALSE, TRUE,
        <<{"h"}, GlobStar, {"cfg", "walls"}, GlobStar, {"a"}>>, FALSE)), None, None),
      Request(Rule("pattern", V(FALSE, FALSE, <<{"cache", "b"}>>, TRUE)), None, None) }
\* the last two are refused
MCRequests ==
    MCUserRules \cup
    { Request(Rule("folder", V(TRUE, FALSE, <<"cfg">>, FALSE)), "system", None),
      Request(Rule("pattern", V(FALSE, FALSE, <<MCNames>>, FALSE)), None, None) }
\* the last one excluded an image which was then renamed
MCBegun ==
    { [kind |-> r.kind, value |-> r.value, group |-> r.group, source |-> r.source,
       inode |-> None] : r \in MCUserRules }
    \cup { [kind |-> "file", value |-> V(FALSE, TRUE, PicsB, FALSE), group |-> None,
            source |-> None, inode |-> 1] }
MCGroupNames == {"system", "caches", "Apps"}

Screen(name, model, mode, native, sideways, scale, per, panel, on) ==
    [name |-> name, model |-> model, mode |-> mode, native |-> native,
     sideways |-> sideways, scale |-> scale, per |-> per, panel |-> panel, on |-> on]
Panel == Screen("eDP-1", "Panel", <<10, 6>>, <<10, 6>>, FALSE, 1, 1, TRUE, TRUE)
\* at three halves, turned
Tall == Screen("DP-1", "Tall", <<15, 9>>, <<15, 9>>, TRUE, 3, 2, FALSE, TRUE)
Mount(target, fstype, uuid, children) ==
    [target |-> target, fstype |-> fstype, netdev |-> FALSE, uuid |-> uuid,
     children |-> children]
System(children) == << Mount(<<>>, "ext4", "sys", children) >>
Usb == Mount(<<"media", "u", "usb">>, "vfat", "usb", <<>>)
\* a disk, a share mounted over another disk, an image, a drive listed beneath
\* a node of unknown type
Drives == << Mount(<<"data">>, "btrfs", "data", <<>>),
             Mount(<<"mnt", "nas">>, "ext4", "old", <<>>),
             Mount(<<"mnt", "nas">>, "nfs4", None, <<>>),
             Mount(<<"mnt", "iso">>, "iso9660", None, <<>>),
             Mount(<<"media">>, None, None, <<Usb>>) >>
HomePictures == {<<"h", "Pictures">>, <<"h", "Pictures", "wallpapers">>}
Backgrounds == <<"usr", "share", "backgrounds">>

Desk(screens, session, x, mounts, dirs, pictures) ==
    [screens |-> screens, session |-> session, x |-> x, gtk4 |-> TRUE,
     mounts |-> mounts, dirs |-> dirs, pictures |-> pictures]
Laptop == Desk(<<Panel>>, TRUE, TRUE, System(<<>>), HomePictures \cup {Backgrounds}, <<>>)
\* the pictures are on the data disk
Docked == Desk(<<Tall, Panel>>, TRUE, TRUE, System(Drives),
               HomePictures \cup {<<"data">>, Usb.target, <<"mnt", "nas">>, <<"mnt", "iso">>},
               << V(TRUE, FALSE, <<"Photos">>, FALSE), V(FALSE, TRUE, <<"data">>, FALSE) >>)
\* the home is on the network, the drive is gone, its directory is not, and
\* the pictures folder is set to the home, which means none
Closed == Desk(<<Tall, [Panel EXCEPT !.on = FALSE]>>, TRUE, FALSE,
               System(<< Mount(<<"h">>, "nfs4", None, <<>>) >>),
               {<<"h", "Pictures">>, <<"h", "Wallpapers">>, Usb.target},
               << V(FALSE, TRUE, <<"data">>, FALSE), V(TRUE, FALSE, <<>>, FALSE) >>)
\* findmnt fails
MCDesks == {Laptop, Docked, Closed,
            Desk(<<Panel>>, FALSE, FALSE, <<>>, HomePictures, <<>>)}
MCDeclarations == {<<>>, << <<10, 6>>, <<18, 30>> >>}
MCDeclaredNames == <<"declared-1", "declared-2">>

Ask(segment, display, every, exact) ==
    [segment |-> segment, display |-> display, every |-> every, exact |-> exact,
     excluded |-> FALSE, unusable |-> FALSE, edge |-> 0]
MCQueries ==
    { Ask("all", 0, FALSE, "any"), [Ask("all", 0, FALSE, "any") EXCEPT !.edge = 10],
      [Ask("all", 0, FALSE, "any") EXCEPT !.excluded = TRUE, !.unusable = TRUE] }
    \cup { Ask("ideal", d, FALSE, e) : d \in {0, 2}, e \in {"any", "exact", "larger"} }
    \cup { Ask("ideal", 0, TRUE, "any"), Ask("ideal", 0, TRUE, "larger"),
           Ask("near", 0, FALSE, "any"), Ask("near", 1, FALSE, "any") }
=============================================================================
