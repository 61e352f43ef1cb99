-------------------------- MODULE DisplayDetection --------------------------
(***************************************************************************)
(* How the displays of the desktop are measured: the probes of              *)
(* src/scanner/displays.py and src/viewmodels/gdk_displays.py, the chain    *)
(* that tries them, the reconciliation of GDK's sizes with DRM's, and the   *)
(* displays a user declares.                                                *)
(*                                                                          *)
(* What sysfs, xrandr and GDK say arrives as a sequence of records; lines,  *)
(* regular expressions, time limits, an unreadable file and the evidence    *)
(* kept for messages are not modelled: a probe that fails reports nothing.  *)
(* A size is a pair <<width, height>>, and <<>> when there is none.         *)
(***************************************************************************)
EXTENDS Integers, FiniteSets, Sequences, SequencesExt

CONSTANTS ProbedMax,       \* a longer side than this is a garbage line
          DeclaredMin,     \* the sides a declared display may have
          DeclaredMax,
          DeclaredLimit,   \* declared displays there may be
          DeclaredNames    \* "declared-1", ...

ASSUME DetectionAssumption ==
    /\ ProbedMax \in Nat /\ DeclaredMin \in Nat \ {0} /\ DeclaredMax \in Nat
    /\ DeclaredLimit \in Nat /\ DeclaredLimit <= Len(DeclaredNames)
    /\ DeclaredNames \in Seq(STRING)
    /\ \A i, j \in DOMAIN DeclaredNames : DeclaredNames[i] = DeclaredNames[j] => i = j

Turned(size) == <<size[2], size[1]>>

Plausible(size) == \A i \in {1, 2} : 0 < size[i] /\ size[i] <= ProbedMax

Display(name, size, primary, source) ==
    [name |-> name, size |-> size, primary |-> primary, source |-> source]

\* The elements of a sequence at the given places, in their order.
KeptAt(seq, places) ==
    LET nth(n) == CHOOSE i \in places : Cardinality({j \in places : j <= i}) = n
    IN  [n \in 1 .. Cardinality(places) |-> seq[nth(n)]]

\* The first display of each name.
UniqueNames(displays) ==
    KeptAt(displays, {i \in DOMAIN displays :
        \A j \in 1 .. i - 1 : displays[j].name # displays[i].name})

-----------------------------------------------------------------------------
(* The probes. *)

\* A connector counts when it is connected and has a preferred mode.
DrmConnector(c) ==
    ~c.writeback /\ c.connected /\ c.mode # <<>> /\ Plausible(c.mode)

\* If any of the connectors that count is enabled, only those that are do.
\* DRM knows no primary display: the built-in panel is taken, or the first.
DrmProbe(connectors) ==
    LET counted == {i \in DOMAIN connectors : DrmConnector(connectors[i])}
        read == UniqueNames(KeptAt(connectors, counted))
        enabled == KeptAt(read, {i \in DOMAIN read : read[i].enabled})
        found == IF enabled = <<>> THEN read ELSE enabled
        panels == {i \in DOMAIN found : found[i].panel}
        primary == IF panels = {} THEN 1 ELSE CHOOSE i \in panels :
                                                 \A j \in panels : i <= j
    IN  [i \in DOMAIN found |->
            Display(found[i].name, found[i].mode, i = primary, "drm")]

\* The geometry of an output is its size as it stands; the current mode is
\* when the framebuffer is scaled.
OutputSize(o) ==
    IF o.current = <<>> THEN o.geometry
    ELSE IF o.sideways THEN Turned(o.current) ELSE o.current

\* An output without geometry is connected but off.
XrandrProbe(outputs) ==
    LET on(o) == o.geometry # <<>> /\ Plausible(OutputSize(o))
        named == UniqueNames(KeptAt(outputs, {i \in DOMAIN outputs : on(outputs[i])}))
    IN  [i \in DOMAIN named |->
            Display(named[i].name, OutputSize(named[i]), named[i].primary, "xrandr")]

\* A monitor is its geometry times the integer scale factor; GTK 4 names the
\* connector, GTK 3 only the model.  For a monitor of which neither is known, the
\* model stands for the name made of its place ("monitor-0").
MonitorName(m) == IF m.connector # "" THEN m.connector ELSE m.model

GdkProbe(monitors) ==
    LET size(m) == <<m.geometry[1] * m.scale, m.geometry[2] * m.scale>>
        shown == KeptAt(monitors, {i \in DOMAIN monitors :
                            size(monitors[i])[1] > 0 /\ size(monitors[i])[2] > 0})
    IN  [i \in DOMAIN shown |->
            Display(MonitorName(shown[i]), size(shown[i]), shown[i].primary, "gdk")]

\* The sizes a user declares: refused, or displays, one of each size.
ParseDeclared(sizes) ==
    LET bad(size) == \E i \in {1, 2} : size[i] < DeclaredMin \/ size[i] > DeclaredMax
        first(i) == \A j \in 1 .. i - 1 : sizes[j] # sizes[i]
        each == KeptAt(sizes, {i \in DOMAIN sizes : first(i)})
    IN  IF Len(each) > DeclaredLimit \/ \E i \in DOMAIN sizes : bad(sizes[i])
        THEN [ok |-> FALSE, displays |-> <<>>]
        ELSE [ok |-> TRUE,
              displays |-> [i \in DOMAIN each |->
                Display(DeclaredNames[i], each[i], FALSE, "declared")]]

-----------------------------------------------------------------------------
(* The chain. *)

\* Mutant: DRM's size as it is, whichever way the display stands.
UnturnedMergeGdkDrm(gdk, drm) ==
    LET named(d) == {i \in DOMAIN drm : drm[i].name = d.name}
    IN  [i \in DOMAIN gdk |->
            IF named(gdk[i]) = {} THEN gdk[i]
            ELSE [gdk[i] EXCEPT !.size =
                    drm[CHOOSE j \in named(gdk[i]) : TRUE].size]]

\* A display both GDK and DRM name has DRM's pixels in GDK's orientation.  One
\* that DRM does not name stays, one that GDK does not show is not added.
MergeGdkDrm(gdk, drm) ==
    LET upright(size) == size[2] > size[1]
        named(d) == {i \in DOMAIN drm : drm[i].name = d.name}
        pixels(d) == drm[CHOOSE i \in named(d) : \A j \in named(d) : i <= j].size
        turn(d) == /\ upright(d.size) # upright(pixels(d))
                   /\ d.size[1] # d.size[2]
    IN  [i \in DOMAIN gdk |->
            IF named(gdk[i]) = {} THEN gdk[i]
            ELSE [gdk[i] EXCEPT !.size = IF turn(gdk[i]) THEN Turned(pixels(gdk[i]))
                                         ELSE pixels(gdk[i])]]

\* The service's chain, and the window's with its own probe before it.  xrandr
\* is asked inside a session and reports nothing without an X display.
ServiceProbes(desk) ==
    LET drm == [source |-> "drm", displays |-> DrmProbe(desk.drm)]
        xrandr == [source |-> "xrandr", displays |-> XrandrProbe(desk.xrandr)]
    IN  IF desk.session THEN <<xrandr, drm>> ELSE <<drm>>

GuiProbes(desk) ==
    <<[source |-> "gdk", displays |-> GdkProbe(desk.gdk)]>> \o ServiceProbes(desk)

\* The first probe that finds a display wins; the declared displays follow,
\* except one that equals a target in size or name.
Targets(probes, declared) ==
    LET found == {i \in DOMAIN probes : probes[i].displays # <<>>}
        first == CHOOSE i \in found : \A j \in found : i <= j
        after == {i \in DOMAIN probes : i > first /\ probes[i].source = "drm"}
        drm == probes[CHOOSE i \in after : \A j \in after : i <= j].displays
        winner == UniqueNames(probes[first].displays)
        detected == IF found = {} THEN <<>>
                    ELSE IF probes[first].source = "gdk" /\ after # {}
                    THEN MergeGdkDrm(winner, drm) ELSE winner
        Joined(out, d) ==
            IF \E i \in DOMAIN out : out[i].size = d.size \/ out[i].name = d.name
            THEN out ELSE Append(out, d)
        targets[i \in 0 .. Len(declared)] ==
            IF i = 0 THEN detected ELSE Joined(targets[i - 1], declared[i])
    IN  targets[Len(declared)]

\* Exactly one display is primary: the first one flagged, else the first.
Detect(probes, declared) ==
    LET targets == Targets(probes, declared)
        flagged == {i \in DOMAIN targets : targets[i].primary}
        primary == IF flagged = {} THEN 1
                   ELSE CHOOSE i \in flagged : \A j \in flagged : i <= j
    IN  [i \in DOMAIN targets |-> [targets[i] EXCEPT !.primary = i = primary]]

=============================================================================
