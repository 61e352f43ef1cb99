--------------------------- MODULE JudgementProofs ---------------------------
(***************************************************************************)
(* Proofs about the catalogue as Browse asks it, for any releases, rules,  *)
(* images, sources, desktops and number of operations.                     *)
(***************************************************************************)
EXTENDS Judgement, RuleBookProofs

-----------------------------------------------------------------------------
\* The elements of a sequence kept at some places.
LEMMA KeptAtIs ==
  ASSUME NEW S, NEW seq \in Seq(S), NEW P \in SUBSET DOMAIN seq
  PROVE  /\ KeptAt(seq, P) \in Seq(S) /\ Len(KeptAt(seq, P)) = Cardinality(P)
         /\ DOMAIN KeptAt(seq, P) = 1 .. Cardinality(P) /\ Cardinality(P) \in Nat
         /\ \A i \in P : \E n \in DOMAIN KeptAt(seq, P) : KeptAt(seq, P)[n] = seq[i]
         /\ \A n \in DOMAIN KeptAt(seq, P) :
                \E i \in P : Rank(P, i) = n /\ KeptAt(seq, P)[n] = seq[i]
<1>1. Len(seq) \in Nat /\ DOMAIN seq = 1 .. Len(seq) /\ \A i \in DOMAIN seq : seq[i] \in S
  OBVIOUS
<1>2. PICK b \in Nat : P \in SUBSET (1 .. b)
  BY <1>1
<1>3. /\ Cardinality(P) \in Nat /\ \A i \in P : Rank(P, i) \in 1 .. Cardinality(P)
      /\ \A i, j \in P : i < j => Rank(P, i) < Rank(P, j)
      /\ \A n \in 1 .. Cardinality(P) : \E i \in P : Rank(P, i) = n
  BY <1>2, RanksAre
<1>. DEFINE nth(n) == CHOOSE i \in P : Rank(P, i) = n
<1>4. \A n \in 1 .. Cardinality(P) : nth(n) \in P /\ Rank(P, nth(n)) = n
  BY <1>3
<1>5. \A i \in P : nth(Rank(P, i)) = i
  <2>. TAKE i \in P
  <2>1. nth(Rank(P, i)) \in P /\ Rank(P, nth(Rank(P, i))) = Rank(P, i)
    BY <1>3, <1>4
  <2>2. ~(i < nth(Rank(P, i))) /\ ~(nth(Rank(P, i)) < i)
    <3>. HIDE DEF nth
    <3>. QED
      BY <1>3, <2>1
  <2>. QED
    BY <1>2, <2>1, <2>2
<1>6. KeptAt(seq, P) = [n \in 1 .. Cardinality(P) |-> seq[nth(n)]]
  BY DEF KeptAt, Rank
<1>7. \A n \in 1 .. Cardinality(P) : seq[nth(n)] \in S
  BY <1>1, <1>4
<1>. HIDE DEF nth
<1>8. KeptAt(seq, P) \in [1 .. Cardinality(P) -> S]
  BY <1>6, <1>7
<1>9. KeptAt(seq, P) \in Seq(S) /\ Len(KeptAt(seq, P)) = Cardinality(P)
  BY <1>3, <1>8
<1>10. \A i \in P : \E n \in DOMAIN KeptAt(seq, P) : KeptAt(seq, P)[n] = seq[i]
  BY <1>3, <1>5, <1>6
<1>11. \A n \in DOMAIN KeptAt(seq, P) :
          \E i \in P : Rank(P, i) = n /\ KeptAt(seq, P)[n] = seq[i]
  BY <1>4, <1>6
<1>. QED
  BY <1>3, <1>6, <1>9, <1>10, <1>11
-----------------------------------------------------------------------------
\* What the detection of the displays returns.

Sizes == Nat \X Nat
Texts == STRING \cup {"", "gdk", "drm", "xrandr", "declared"}
Found == [name : Texts, size : Sizes, primary : BOOLEAN, source : Texts]
Probe == [source : Texts, displays : Seq(Found)]

LEMMA SizesAre ==
  ASSUME NEW s \in Sizes
  PROVE  /\ Turned(s) \in Sizes /\ s[1] \in Nat /\ s[2] \in Nat /\ s # <<>>
BY DEF Turned, Sizes

LEMMA UniqueNamesIs ==
  ASSUME NEW S, NEW seq \in Seq(S)
  PROVE  UniqueNames(seq) \in Seq(S)
BY KeptAtIs DEF UniqueNames

\* A sequence made of another one, place by place.
LEMMA EachOf ==
  ASSUME NEW S, NEW T, NEW seq \in Seq(S), NEW f \in [DOMAIN seq -> T]
  PROVE  f \in Seq(T) /\ Len(f) = Len(seq) /\ DOMAIN f = 1 .. Len(seq)
<1>1. Len(seq) \in Nat /\ DOMAIN seq = 1 .. Len(seq)
  OBVIOUS
<1>2. f \in [1 .. Len(seq) -> T]
  BY <1>1
<1>. QED
  BY <1>1, <1>2

Outputs == [name : STRING, geometry : Sizes, current : Sizes, sideways : BOOLEAN,
            primary : BOOLEAN]
Connectors == [name : STRING, writeback : BOOLEAN, connected : BOOLEAN, mode : Sizes,
               enabled : BOOLEAN, panel : BOOLEAN]
Monitors == [connector : Texts, model : Texts, geometry : Sizes, scale : Nat,
             primary : BOOLEAN]

LEMMA ScreenIs ==
  ASSUME NEW s \in Screens
  PROVE  /\ s.name \in STRING \ {""} /\ s.model \in STRING /\ s.mode \in Sizes /\ s.native \in Sizes
         /\ s.sideways \in BOOLEAN /\ s.scale \in Nat \ {0} /\ s.per \in Nat \ {0}
         /\ s.panel \in BOOLEAN /\ s.on \in BOOLEAN /\ Stands(s) \in Sizes
<1>1. /\ s.name \in STRING \ {""} /\ s.model \in STRING /\ s.mode \in Sizes /\ s.native \in Sizes
      /\ s.sideways \in BOOLEAN /\ s.scale \in Nat \ {0} /\ s.per \in Nat \ {0}
      /\ s.panel \in BOOLEAN /\ s.on \in BOOLEAN
  BY DEF Screens, Sizes
<1>2. Stands(s) \in Sizes
  BY <1>1, SizesAre DEF Stands
<1>. QED
  BY <1>1, <1>2

LEMMA ReportedIs ==
  ASSUME NEW d \in Desks
  PROVE  /\ Reported(d).drm \in Seq(Connectors) /\ Reported(d).xrandr \in Seq(Outputs)
         /\ Reported(d).gdk \in Seq(Monitors) /\ Reported(d).session \in BOOLEAN
<1>1. d.screens \in Seq(Screens) /\ {d.session, d.x, d.gtk4} \subseteq BOOLEAN
  BY DesktopAssumption
<1>. DEFINE lit == KeptAt(d.screens, {i \in DOMAIN d.screens : d.screens[i].on})
            connector(s) == [name |-> s.name, writeback |-> FALSE, connected |-> TRUE,
                             mode |-> s.native, enabled |-> s.on, panel |-> s.panel]
            output(i) == [name |-> lit[i].name, geometry |-> Stands(lit[i]),
                          current |-> lit[i].mode, sideways |-> lit[i].sideways,
                          primary |-> i = 1]
            monitor(s) == [connector |-> IF d.gtk4 THEN s.name ELSE "", model |-> s.model,
                 geometry |-> <<Logical(s, Stands(s)[1]), Logical(s, Stands(s)[2])>>,
                 scale |-> (s.scale + s.per - 1) \div s.per, primary |-> FALSE]
<1>2. lit \in Seq(Screens)
  BY <1>1, KeptAtIs
<1>3. /\ \A i \in DOMAIN d.screens : d.screens[i] \in Screens
      /\ \A i \in DOMAIN lit : lit[i] \in Screens
  <2>1. \A i \in DOMAIN d.screens : d.screens[i] \in Screens
    BY <1>1
  <2>2. \A i \in DOMAIN lit : lit[i] \in Screens
    <3>. HIDE DEF lit
    <3>. QED
      BY <1>2
  <2>. QED
    BY <2>1, <2>2
<1>. HIDE DEF lit
<1>4. \A s \in Screens : connector(s) \in Connectors
  BY ScreenIs DEF Connectors
<1>5. \A i \in DOMAIN lit : output(i) \in Outputs
  BY <1>3, ScreenIs DEF Outputs
<1>6. \A s \in Screens : monitor(s) \in Monitors
  <2>. TAKE s \in Screens
  <2>1. \A n \in Nat : Logical(s, n) \in Nat
    BY ScreenIs, NaturalArithmetic DEF Logical
  <2>2. s.scale + s.per - 1 \in Nat /\ s.per \in Nat /\ s.per # 0
    <3>1. s.scale \in Nat \ {0} /\ s.per \in Nat \ {0}
      BY ScreenIs
    <3>. QED
      BY <3>1
  <2>3. (s.scale + s.per - 1) \div s.per \in Nat
    BY <2>2, NaturalArithmetic
  <2>4. Stands(s)[1] \in Nat /\ Stands(s)[2] \in Nat
    BY ScreenIs, SizesAre
  <2>5. <<Logical(s, Stands(s)[1]), Logical(s, Stands(s)[2])>> \in Sizes
    BY <2>1, <2>4 DEF Sizes
  <2>6. (IF d.gtk4 THEN s.name ELSE "") \in Texts /\ s.model \in Texts
    BY ScreenIs DEF Texts
  <2>. QED
    BY <2>3, <2>5, <2>6 DEF Monitors
<1>7. [i \in DOMAIN d.screens |-> connector(d.screens[i])] \in Seq(Connectors)
  <2>1. [i \in DOMAIN d.screens |-> connector(d.screens[i])] \in [DOMAIN d.screens -> Connectors]
    BY <1>3, <1>4
  <2>. HIDE DEF connector
  <2>. QED
    BY <1>1, <2>1, EachOf
<1>8. [i \in DOMAIN lit |-> output(i)] \in Seq(Outputs)
  <2>1. [i \in DOMAIN lit |-> output(i)] \in [DOMAIN lit -> Outputs]
    BY <1>5
  <2>. HIDE DEF output
  <2>. QED
    BY <1>2, <2>1, EachOf
<1>9. [i \in DOMAIN lit |-> monitor(lit[i])] \in Seq(Monitors)
  <2>1. [i \in DOMAIN lit |-> monitor(lit[i])] \in [DOMAIN lit -> Monitors]
    BY <1>3, <1>6
  <2>. HIDE DEF monitor
  <2>. QED
    BY <1>2, <2>1, EachOf
<1>10. /\ Reported(d).drm = [i \in DOMAIN d.screens |-> connector(d.screens[i])]
       /\ Reported(d).xrandr = IF ~d.x THEN <<>> ELSE [i \in DOMAIN lit |-> output(i)]
       /\ Reported(d).gdk = IF ~d.session THEN <<>> ELSE [i \in DOMAIN lit |-> monitor(lit[i])]
       /\ Reported(d).session = d.session
  BY DEF Reported, lit
<1>. HIDE DEF connector, output, monitor
<1>11. <<>> \in Seq(Outputs) /\ <<>> \in Seq(Monitors)
  OBVIOUS
<1>. QED
  BY <1>1, <1>7, <1>8, <1>9, <1>10, <1>11

LEMMA FoundIs ==
  ASSUME NEW n \in Texts, NEW s \in Sizes, NEW p \in BOOLEAN, NEW source \in Texts
  PROVE  Display(n, s, p, source) \in Found
BY Zenon DEF Display, Found

LEMMA DrmProbeIs ==
  ASSUME NEW connectors \in Seq(Connectors)
  PROVE  DrmProbe(connectors) \in Seq(Found)
<1>. DEFINE read == UniqueNames(KeptAt(connectors,
                        {i \in DOMAIN connectors : DrmConnector(connectors[i])}))
            enabled == KeptAt(read, {i \in DOMAIN read : read[i].enabled})
            found == IF enabled = <<>> THEN read ELSE enabled
            panels == {i \in DOMAIN found : found[i].panel}
            primary == IF panels = {} THEN 1 ELSE CHOOSE i \in panels :
                                                     \A j \in panels : i <= j
            shown == [i \in DOMAIN found |->
                        Display(found[i].name, found[i].mode, i = primary, "drm")]
<1>1. read \in Seq(Connectors)
  BY KeptAtIs, UniqueNamesIs
<1>. HIDE DEF read
<1>2. enabled \in Seq(Connectors)
  BY <1>1, KeptAtIs
<1>. HIDE DEF enabled
<1>3. found \in Seq(Connectors)
  BY <1>1, <1>2
<1>. HIDE DEF found
<1>4. \A i \in DOMAIN found : found[i] \in Connectors
  BY <1>3
<1>. HIDE DEF primary
<1>5. \A i \in DOMAIN found :
          Display(found[i].name, found[i].mode, i = primary, "drm") \in Found
  <2>. TAKE i \in DOMAIN found
  <2>1. found[i].name \in Texts /\ found[i].mode \in Sizes
    BY <1>4 DEF Connectors, Texts
  <2>. QED
    BY <2>1, FoundIs DEF Texts
<1>6. shown \in [DOMAIN found -> Found]
  BY <1>5
<1>. HIDE DEF shown
<1>7. shown \in Seq(Found)
  BY <1>3, <1>6, EachOf
<1>. QED
  BY <1>7 DEF DrmProbe, shown, primary, panels, found, enabled, read

LEMMA XrandrProbeIs ==
  ASSUME NEW outputs \in Seq(Outputs)
  PROVE  XrandrProbe(outputs) \in Seq(Found)
<1>. DEFINE on(o) == o.geometry # <<>> /\ Plausible(OutputSize(o))
            named == UniqueNames(KeptAt(outputs, {i \in DOMAIN outputs : on(outputs[i])}))
            shown == [i \in DOMAIN named |-> Display(named[i].name, OutputSize(named[i]),
                                                     named[i].primary, "xrandr")]
<1>1. named \in Seq(Outputs)
  BY KeptAtIs, UniqueNamesIs
<1>. HIDE DEF named
<1>2. \A i \in DOMAIN named : named[i] \in Outputs
  BY <1>1
<1>3. \A o \in Outputs : /\ OutputSize(o) \in Sizes /\ o.name \in Texts
                         /\ o.primary \in BOOLEAN
  BY SizesAre DEF OutputSize, Outputs, Texts
<1>4. \A i \in DOMAIN named : shown[i] \in Found
  BY <1>2, <1>3, FoundIs DEF Texts
<1>5. shown \in [DOMAIN named -> Found]
  BY Zenon, <1>4
<1>. HIDE DEF shown
<1>6. shown \in Seq(Found)
  BY <1>1, <1>5, EachOf
<1>. QED
  BY <1>6 DEF XrandrProbe, shown, named

LEMMA GdkProbeIs ==
  ASSUME NEW monitors \in Seq(Monitors)
  PROVE  GdkProbe(monitors) \in Seq(Found)
<1>. DEFINE size(m) == <<m.geometry[1] * m.scale, m.geometry[2] * m.scale>>
            kept == KeptAt(monitors, {i \in DOMAIN monitors :
                            size(monitors[i])[1] > 0 /\ size(monitors[i])[2] > 0})
            shown == [i \in DOMAIN kept |->
                        Display(MonitorName(kept[i]), size(kept[i]), kept[i].primary, "gdk")]
<1>1. kept \in Seq(Monitors)
  BY KeptAtIs
<1>. HIDE DEF kept
<1>2. \A i \in DOMAIN kept : kept[i] \in Monitors
  BY <1>1
<1>3. \A o \in Monitors : size(o) \in Sizes /\ MonitorName(o) \in Texts /\ o.primary \in BOOLEAN
  <2>. TAKE o \in Monitors
  <2>1. o.geometry \in Sizes /\ o.scale \in Nat
    BY DEF Monitors
  <2>2. o.geometry[1] * o.scale \in Nat /\ o.geometry[2] * o.scale \in Nat
    BY <2>1, SizesAre, NaturalArithmetic
  <2>3. size(o) \in Sizes
    BY <2>2 DEF Sizes
  <2>4. MonitorName(o) \in Texts /\ o.primary \in BOOLEAN
    BY DEF MonitorName, Monitors
  <2>. QED
    BY <2>3, <2>4
<1>4. \A i \in DOMAIN kept :
          Display(MonitorName(kept[i]), size(kept[i]), kept[i].primary, "gdk") \in Found
  <2>. HIDE DEF size
  <2>. QED
    BY <1>2, <1>3, FoundIs DEF Texts
<1>5. shown \in [DOMAIN kept -> Found]
  BY Zenon, <1>4
<1>6. shown \in Seq(Found)
  <2>. HIDE DEF shown
  <2>. QED
    BY <1>1, <1>5, EachOf
<1>. QED
  BY <1>6 DEF GdkProbe, kept

LEMMA MergeIs ==
  ASSUME NEW gdk \in Seq(Found), NEW drm \in Seq(Found)
  PROVE  MergeGdkDrm(gdk, drm) \in Seq(Found)
<1>. DEFINE upright(size) == size[2] > size[1]
            named(d) == {i \in DOMAIN drm : drm[i].name = d.name}
            pixels(d) == drm[CHOOSE i \in named(d) : \A j \in named(d) : i <= j].size
            turn(d) == /\ upright(d.size) # upright(pixels(d))
                       /\ d.size[1] # d.size[2]
            merged(d) == [d EXCEPT !.size = IF turn(d) THEN Turned(pixels(d)) ELSE pixels(d)]
            out == [i \in DOMAIN gdk |->
                      IF named(gdk[i]) = {} THEN gdk[i] ELSE merged(gdk[i])]
<1>1. \A d : named(d) # {} => pixels(d) \in Sizes
  <2>. SUFFICES ASSUME NEW d, named(d) # {} PROVE pixels(d) \in Sizes
    OBVIOUS
  <2>. DEFINE first == CHOOSE i \in named(d) : \A j \in named(d) : i <= j
  <2>1. named(d) \in SUBSET Nat /\ \A i \in named(d) : drm[i] \in Found
    OBVIOUS
  <2>. HIDE DEF named
  <2>2. first \in named(d)
    BY <2>1, FirstIs
  <2>3. drm[first] \in Found
    BY <2>1, <2>2
  <2>. HIDE DEF first
  <2>4. drm[first].size \in Sizes
    BY <2>3 DEF Found
  <2>. QED
    BY <2>4 DEF first
<1>2. \A d \in Found : named(d) # {} => merged(d) \in Found
  <2>. HIDE DEF turn, pixels, named
  <2>. QED
    BY <1>1, SizesAre DEF Found
<1>. HIDE DEF merged, named
<1>3. \A i \in DOMAIN gdk : gdk[i] \in Found
  OBVIOUS
<1>4. out \in [DOMAIN gdk -> Found]
  BY <1>2, <1>3
<1>5. out \in Seq(Found)
  <2>. HIDE DEF out
  <2>. QED
    BY <1>4, EachOf
<1>. QED
  BY <1>5 DEF MergeGdkDrm, merged, named

LEMMA ProbesAre ==
  ASSUME NEW d \in Desks
  PROVE  /\ ServiceProbes(Reported(d)) \in Seq(Probe)
         /\ GuiProbes(Reported(d)) \in Seq(Probe)
<1>. DEFINE r == Reported(d)
            drm == [source |-> "drm", displays |-> DrmProbe(r.drm)]
            xrandr == [source |-> "xrandr", displays |-> XrandrProbe(r.xrandr)]
            gdk == [source |-> "gdk", displays |-> GdkProbe(r.gdk)]
<1>1. DrmProbe(r.drm) \in Seq(Found) /\ XrandrProbe(r.xrandr) \in Seq(Found)
      /\ GdkProbe(r.gdk) \in Seq(Found)
  BY ReportedIs, DrmProbeIs, XrandrProbeIs, GdkProbeIs
<1>. HIDE DEF r
<1>2. drm \in Probe /\ xrandr \in Probe /\ gdk \in Probe
  BY <1>1 DEF Probe, Texts
<1>. HIDE DEF drm, xrandr, gdk
<1>3. ServiceProbes(r) = IF r.session THEN <<xrandr, drm>> ELSE <<drm>>
  BY DEF ServiceProbes, drm, xrandr
<1>4. ServiceProbes(r) \in Seq(Probe)
  BY <1>2, <1>3
<1>5. GuiProbes(r) = <<gdk>> \o ServiceProbes(r)
  BY DEF GuiProbes, gdk
<1>6. <<gdk>> \in Seq(Probe)
  BY <1>2
<1>7. GuiProbes(r) \in Seq(Probe)
  <2>. HIDE DEF r
  <2>. QED
    BY <1>4, <1>5, <1>6, ConcatProperties
<1>. QED
  BY <1>4, <1>7 DEF r
LEMMA ParseDeclaredIs ==
  ASSUME NEW sizes \in Seq(Sizes)
  PROVE  ParseDeclared(sizes).displays \in Seq(Found)
<1>. DEFINE first(i) == \A j \in 1 .. i - 1 : sizes[j] # sizes[i]
            each == KeptAt(sizes, {i \in DOMAIN sizes : first(i)})
            shown == [i \in DOMAIN each |->
                        Display(DeclaredNames[i], each[i], FALSE, "declared")]
            bad(size) == \E i \in {1, 2} : size[i] < DeclaredMin \/ size[i] > DeclaredMax
            refused == Len(each) > DeclaredLimit \/ \E i \in DOMAIN sizes : bad(sizes[i])
<1>1. each \in Seq(Sizes)
  BY KeptAtIs
<1>2. ParseDeclared(sizes) = IF refused THEN [ok |-> FALSE, displays |-> <<>>]
                             ELSE [ok |-> TRUE, displays |-> shown]
  BY DEF ParseDeclared
<1>. HIDE DEF each
<1>3. ASSUME ~refused PROVE shown \in Seq(Found)
  <2>1. \A i \in DOMAIN each : each[i] \in Sizes
    BY <1>1
  <2>2. Len(each) \in Nat /\ Len(each) <= DeclaredLimit /\ DOMAIN each = 1 .. Len(each)
    BY <1>1, <1>3, DetectionAssumption
  <2>3. \A i \in DOMAIN each : DeclaredNames[i] \in Texts
    <3>1. \A i \in DOMAIN each : i \in 1 .. Len(DeclaredNames)
      BY <2>2, DetectionAssumption
    <3>2. \A i \in 1 .. Len(DeclaredNames) : DeclaredNames[i] \in STRING
      BY DetectionAssumption, ElementOfSeq
    <3>. QED
      BY <3>1, <3>2 DEF Texts
  <2>4. \A i \in DOMAIN each : shown[i] \in Found
    BY <2>1, <2>3, FoundIs DEF Texts
  <2>5. shown \in [DOMAIN each -> Found]
    BY <2>4
  <2>. HIDE DEF shown
  <2>. QED
    BY <1>1, <2>5, EachOf
<1>4. <<>> \in Seq(Found)
  OBVIOUS
<1>. QED
  <2>. HIDE DEF refused, shown
  <2>. QED
    BY <1>2, <1>3, <1>4

\* The parts of the chain: the first probe that finds a display, those of DRM
\* after it, what is detected, and what a declared display adds.
FoundBy(probes) == {i \in DOMAIN probes : probes[i].displays # <<>>}

FirstFound(probes) == CHOOSE i \in FoundBy(probes) : \A j \in FoundBy(probes) : i <= j

AfterFirst(probes) ==
    {i \in DOMAIN probes : i > FirstFound(probes) /\ probes[i].source = "drm"}

DrmAfter(probes) ==
    probes[CHOOSE i \in AfterFirst(probes) : \A j \in AfterFirst(probes) : i <= j].displays

Winner(probes) == UniqueNames(probes[FirstFound(probes)].displays)

Detected(probes) ==
    IF FoundBy(probes) = {} THEN <<>>
    ELSE IF probes[FirstFound(probes)].source = "gdk" /\ AfterFirst(probes) # {}
    THEN MergeGdkDrm(Winner(probes), DrmAfter(probes)) ELSE Winner(probes)

Joins(out, d) ==
    IF \E i \in DOMAIN out : out[i].size = d.size \/ out[i].name = d.name
    THEN out ELSE Append(out, d)

\* The targets are what is detected, with the declared displays joined to it
\* one after the other.
LEMMA TargetsUnroll ==
  ASSUME NEW probes \in Seq(Probe), NEW declared \in Seq(Found)
  PROVE  /\ Detected(probes) \in Seq(Found)
         /\ FoundBy(probes) # {} => Winner(probes) \in Seq(Found)
         /\ \E g \in [0 .. Len(declared) -> Seq(Found)] :
              /\ g[0] = Detected(probes) /\ Targets(probes, declared) = g[Len(declared)]
              /\ \A n \in 1 .. Len(declared) : g[n] = Joins(g[n - 1], declared[n])
<1>. DEFINE found == FoundBy(probes)
            first == FirstFound(probes)
            after == AfterFirst(probes)
            detected == Detected(probes)
            targets[i \in 0 .. Len(declared)] ==
                IF i = 0 THEN detected ELSE Joins(targets[i - 1], declared[i])
            N == Len(declared)
            S == Seq(Found)
            step == [x \in (1 .. N) \X S |-> Joins(x[2], declared[x[1]])]
<1>1. \A i \in DOMAIN probes : probes[i].displays \in Seq(Found)
  <2>1. \A i \in DOMAIN probes : probes[i] \in Probe
    OBVIOUS
  <2>. QED
    BY <2>1 DEF Probe
<1>2. found # {} => first \in found /\ first \in DOMAIN probes
  <2>1. found \in SUBSET Nat /\ found \subseteq DOMAIN probes
    BY DEF FoundBy
  <2>2. found # {} => (CHOOSE i \in found : \A j \in found : i <= j) \in found
    <3>. HIDE DEF found
    <3>. QED
      BY <2>1, FirstIs
  <2>. QED
    BY <2>1, <2>2 DEF FirstFound
<1>3. after # {} => DrmAfter(probes) \in Seq(Found)
  <2>. DEFINE next == CHOOSE i \in after : \A j \in after : i <= j
  <2>1. after \in SUBSET Nat /\ after \subseteq DOMAIN probes
    BY DEF AfterFirst
  <2>. HIDE DEF after
  <2>2. after # {} => next \in after
    BY <2>1, FirstIs
  <2>3. after # {} => next \in DOMAIN probes
    BY <2>1, <2>2
  <2>. HIDE DEF next
  <2>4. after # {} => probes[next].displays \in Seq(Found)
    BY <1>1, <2>3
  <2>. QED
    BY <2>4 DEF next, DrmAfter, after
<1>4. found # {} => Winner(probes) \in Seq(Found)
  <2>1. found # {} => probes[first].displays \in Seq(Found)
    BY <1>1, <1>2
  <2>. QED
    BY <2>1, UniqueNamesIs DEF Winner
<1>5. detected \in Seq(Found)
  <2>1. <<>> \in Seq(Found)
    OBVIOUS
  <2>. QED
    BY <1>3, <1>4, <2>1, MergeIs DEF Detected
<1>. HIDE DEF detected
<1>6. N \in Nat /\ \A n \in 1 .. N : declared[n] \in Found
  OBVIOUS
<1>7. \A n \in 1 .. N : \A out \in S : Joins(out, declared[n]) \in S
  BY <1>6 DEF Joins
<1>8. step \in StepsOn(N, S)
  <2>. HIDE DEF N, S
  <2>. QED
    BY <1>7 DEF StepsOn
<1>9. PICK g \in ValuesIn(N, S) : Unrolls(g, N, detected, step)
  <2>1. detected \in S
    BY <1>5
  <2>. HIDE DEF step, N, S
  <2>. QED
    BY <2>1, <1>6, <1>8, Repeats
<1>10. g = [n \in 0 .. N |-> IF n = 0 THEN detected ELSE Joins(g[n - 1], declared[n])]
  <2>1. ASSUME NEW n \in 1 .. N PROVE g[n] = Joins(g[n - 1], declared[n])
    <3>1. n - 1 \in 0 .. N
      BY <1>6
    <3>2. g[n - 1] \in S
      BY <1>9, <3>1 DEF ValuesIn
    <3>3. <<n, g[n - 1]>> \in (1 .. N) \X S
      BY <3>2
    <3>4. n \in 0 .. N /\ n # 0
      BY <1>6
    <3>5. g[n] = step[<<n, g[n - 1]>>]
      <4>. HIDE DEF step, S
      <4>. QED
        BY <1>9, <3>4 DEF Unrolls
    <3>. QED
      BY <3>3, <3>5
  <2>2. g[0] = detected /\ \A n \in 0 .. N : n = 0 \/ n \in 1 .. N
    <3>. HIDE DEF step, S
    <3>. QED
      BY <1>6, <1>9 DEF Unrolls
  <2>3. \A n \in 0 .. N :
            g[n] = IF n = 0 THEN detected ELSE Joins(g[n - 1], declared[n])
    BY <2>1, <2>2
  <2>. HIDE DEF N, S
  <2>4. g \in [0 .. N -> S]
    BY <1>9 DEF ValuesIn
  <2>. QED
    BY <2>3, <2>4
<1>11. targets = [n \in 0 .. N |-> IF n = 0 THEN detected
                                   ELSE Joins(targets[n - 1], declared[n])]
  <2>1. \E h : h = [n \in 0 .. N |-> IF n = 0 THEN detected ELSE Joins(h[n - 1], declared[n])]
    BY <1>10
  <2>. QED
    BY <2>1
<1>12. \A n \in 0 .. N : targets[n] \in S
  <2>. HIDE DEF targets, S, N
  <2>1. targets[0] \in S /\ \A n \in 1 .. N : targets[n] = Joins(targets[n - 1], declared[n])
    <3>1. 0 \in 0 .. N /\ \A n \in 1 .. N : n \in 0 .. N /\ n # 0
      BY <1>6
    <3>. QED
      BY <1>5, <1>11, <3>1 DEF S
  <2>2. \A n \in 1 .. N : targets[n - 1] \in S => targets[n] \in S
    BY <1>7, <2>1
  <2>. QED
    BY <1>6, <2>1, <2>2, StaysIn
<1>13. N \in 0 .. N /\ \A n \in 1 .. N : n \in 0 .. N /\ n # 0
  BY <1>6
<1>14. Targets(probes, declared) = targets[N]
  BY DEF Targets, detected, Detected, Winner, DrmAfter, AfterFirst, FirstFound, FoundBy, Joins
<1>. HIDE DEF targets
<1>15. /\ targets[0] = detected
       /\ \A n \in 1 .. N : targets[n] = Joins(targets[n - 1], declared[n])
  BY <1>11, <1>13
<1>16. targets \in [0 .. N -> S]
  BY <1>11, <1>12
<1>. QED
  BY <1>4, <1>5, <1>14, <1>15, <1>16 DEF detected

LEMMA TargetsAre ==
  ASSUME NEW probes \in Seq(Probe), NEW declared \in Seq(Found)
  PROVE  Targets(probes, declared) \in Seq(Found)
<1>1. PICK g \in [0 .. Len(declared) -> Seq(Found)] :
          Targets(probes, declared) = g[Len(declared)]
  BY TargetsUnroll
<1>2. Len(declared) \in 0 .. Len(declared)
  OBVIOUS
<1>. QED
  BY <1>1, <1>2

LEMMA DetectIs ==
  ASSUME NEW probes \in Seq(Probe), NEW declared \in Seq(Found)
  PROVE  Detect(probes, declared) \in Seq(Found)
<1>. DEFINE targets == Targets(probes, declared)
            flagged == {i \in DOMAIN targets : targets[i].primary}
            primary == IF flagged = {} THEN 1
                       ELSE CHOOSE i \in flagged : \A j \in flagged : i <= j
            out == [i \in DOMAIN targets |-> [targets[i] EXCEPT !.primary = i = primary]]
<1>1. targets \in Seq(Found)
  BY TargetsAre
<1>. HIDE DEF targets, primary
<1>2. \A i \in DOMAIN targets : targets[i] \in Found
  BY <1>1
<1>3. \A i \in DOMAIN targets : [targets[i] EXCEPT !.primary = i = primary] \in Found
  BY <1>2 DEF Found
<1>4. out \in [DOMAIN targets -> Found]
  BY <1>3
<1>. HIDE DEF out
<1>5. out \in Seq(Found)
  BY <1>1, <1>4, EachOf
<1>. QED
  BY <1>5 DEF Detect, out, primary, targets

-----------------------------------------------------------------------------
\* The table of displays.

DisplayRows == [name : Texts, size : Sizes, primary : BOOLEAN, source : Texts,
                connected : BOOLEAN]

\* What storing a detection leaves of the table before it: a display keeps its
\* id, name and size, and one that is new is connected.
Grown(table, t) ==
    /\ t \in Table(DisplayRows) /\ DOMAIN table \subseteq DOMAIN t
    /\ \A i \in DOMAIN table : t[i].name = table[i].name /\ t[i].size = table[i].size
    /\ \A i \in DOMAIN t \ DOMAIN table : t[i].connected

LEMMA SaveDisplayIs ==
  ASSUME NEW table, NEW t, Grown(table, t), NEW d \in Found
  PROVE  Grown(table, SaveDisplay(t, d))
<1>. DEFINE same == {i \in DOMAIN t : t[i].name = d.name /\ t[i].size = d.size}
            row == [name |-> d.name, size |-> d.size, primary |-> d.primary,
                    source |-> d.source, connected |-> TRUE]
            met(r) == [r EXCEPT !.primary = d.primary, !.source = d.source,
                                !.connected = TRUE]
            u == [i \in DOMAIN t |-> IF i \in same THEN met(t[i]) ELSE t[i]]
<1>1. /\ Bounded(DOMAIN t) /\ t \in [DOMAIN t -> DisplayRows] /\ t \in Table(DisplayRows)
  BY TableIs DEF Grown
<1>2. row \in DisplayRows
  BY DEF Found, DisplayRows
<1>3. \A r \in DisplayRows : /\ met(r) \in DisplayRows /\ met(r).connected
                             /\ met(r).name = r.name /\ met(r).size = r.size
  BY DEF Found, DisplayRows
<1>. HIDE DEF met, row
<1>4. CASE same = {}
  <2>1. SaveDisplay(t, d) = Insert(t, row)
    BY <1>4 DEF SaveDisplay, row
  <2>2. /\ DOMAIN Insert(t, row) = DOMAIN t \cup {NextId(t)}
        /\ Insert(t, row)[NextId(t)] = row
        /\ \A x \in DOMAIN t : Insert(t, row)[x] = t[x]
        /\ Insert(t, row) \in Table(DisplayRows)
    BY <1>1, <1>2, InsertIs
  <2>3. row.connected
    BY DEF row
  <2>. QED
    BY <2>1, <2>2, <2>3 DEF Grown
<1>5. CASE same # {}
  <2>1. SaveDisplay(t, d) = u
    BY <1>5 DEF SaveDisplay, met
  <2>. HIDE DEF same
  <2>2. /\ DOMAIN u = DOMAIN t
        /\ \A i \in DOMAIN t : /\ u[i] \in DisplayRows
                               /\ u[i].name = t[i].name /\ u[i].size = t[i].size
                               /\ t[i].connected => u[i].connected
    BY <1>1, <1>3
  <2>3. u \in Table(DisplayRows)
    <3>1. u \in [DOMAIN u -> DisplayRows]
      BY <2>2
    <3>. HIDE DEF u
    <3>. QED
      BY <1>1, <2>2, <3>1, TableIs
  <2>. HIDE DEF u
  <2>. QED
    BY <2>1, <2>2, <2>3 DEF Grown
<1>. QED
  BY <1>4, <1>5

Unplugged(table) == [d \in DOMAIN table |-> [table[d] EXCEPT !.connected = FALSE]]

\* The targets are stored one after the other, in a table of none.
LEMMA SnapshotUnrolls ==
  ASSUME NEW table \in Table(DisplayRows), NEW targets \in Seq(Found)
  PROVE  \E g \in [0 .. Len(targets) -> Table(DisplayRows)] :
           /\ g[0] = Unplugged(table)
           /\ \A n \in 1 .. Len(targets) : g[n] = SaveDisplay(g[n - 1], targets[n])
           /\ SaveDisplaySnapshot(table, targets) = g[Len(targets)]
           /\ Grown(table, g[Len(targets)])
<1>. DEFINE s == [d \in DOMAIN table |-> [table[d] EXCEPT !.connected = FALSE]]
            stored[i \in 0 .. Len(targets)] ==
                IF i = 0 THEN [d \in DOMAIN table |-> [table[d] EXCEPT !.connected = FALSE]]
                ELSE SaveDisplay(stored[i - 1], targets[i])
            N == Len(targets)
            S == {t \in Table(DisplayRows) : Grown(table, t)}
            step == [x \in (1 .. N) \X S |-> SaveDisplay(x[2], targets[x[1]])]
<1>1. N \in Nat /\ \A n \in 1 .. N : targets[n] \in Found
  OBVIOUS
<1>2. s \in S
  <2>1. Bounded(DOMAIN table) /\ table \in [DOMAIN table -> DisplayRows]
    BY TableIs
  <2>2. /\ DOMAIN s = DOMAIN table
        /\ \A d \in DOMAIN s : /\ s[d] \in DisplayRows
                               /\ s[d].name = table[d].name /\ s[d].size = table[d].size
    BY <2>1 DEF DisplayRows
  <2>3. s \in [DOMAIN s -> DisplayRows]
    BY <2>2
  <2>. HIDE DEF s
  <2>4. s \in Table(DisplayRows)
    BY <2>1, <2>2, <2>3, TableIs
  <2>. QED
    BY <2>2, <2>4 DEF Grown
<1>. HIDE DEF s
<1>3. \A n \in 1 .. N : \A t \in S : SaveDisplay(t, targets[n]) \in S
  <2>. TAKE n \in 1 .. N
  <2>. TAKE t \in S
  <2>1. Grown(table, SaveDisplay(t, targets[n]))
    BY <1>1, SaveDisplayIs
  <2>. QED
    BY <2>1 DEF Grown
<1>. HIDE DEF S
<1>4. step \in StepsOn(N, S)
  <2>. HIDE DEF N
  <2>. QED
    BY <1>3 DEF StepsOn
<1>5. PICK g \in ValuesIn(N, S) : Unrolls(g, N, s, step)
  <2>. HIDE DEF step, N
  <2>. QED
    BY <1>1, <1>2, <1>4, Repeats
<1>6. g \in [0 .. N -> S]
  BY <1>5 DEF ValuesIn
<1>7. \A n \in 0 .. N : g[n] = IF n = 0 THEN s ELSE SaveDisplay(g[n - 1], targets[n])
  <2>. TAKE n \in 0 .. N
  <2>1. g[n] = IF n = 0 THEN s ELSE step[<<n, g[n - 1]>>]
    <3>. HIDE DEF step, N
    <3>. QED
      BY <1>5 DEF Unrolls
  <2>2. n # 0 => n - 1 \in 0 .. N /\ n \in 1 .. N
    BY <1>1
  <2>. HIDE DEF N
  <2>3. n # 0 => <<n, g[n - 1]>> \in (1 .. N) \X S
    BY <1>6, <2>2
  <2>. QED
    BY <2>1, <2>3
<1>8. g = [n \in 0 .. N |-> IF n = 0 THEN s ELSE SaveDisplay(g[n - 1], targets[n])]
  <2>. HIDE DEF N
  <2>. QED
    BY <1>6, <1>7
<1>9. stored = [n \in 0 .. N |-> IF n = 0 THEN s ELSE SaveDisplay(stored[n - 1], targets[n])]
  <2>1. \E h : h = [n \in 0 .. N |-> IF n = 0 THEN s ELSE SaveDisplay(h[n - 1], targets[n])]
    BY <1>8
  <2>. QED
    BY <2>1 DEF s
<1>10. \A n \in 0 .. N : stored[n] \in S
  <2>. HIDE DEF stored, N
  <2>1. stored[0] \in S
    BY <1>1, <1>2, <1>9
  <2>2. \A n \in 1 .. N : stored[n] = SaveDisplay(stored[n - 1], targets[n])
    BY <1>1, <1>9
  <2>3. \A n \in 1 .. N : stored[n - 1] \in S => stored[n] \in S
    BY <1>3, <2>2
  <2>. QED
    BY <1>1, <2>1, <2>3, StaysIn
<1>11. N \in 0 .. N /\ \A n \in 1 .. N : n \in 0 .. N /\ n # 0
  BY <1>1
<1>12. SaveDisplaySnapshot(table, targets) = stored[N]
  BY DEF SaveDisplaySnapshot
<1>. HIDE DEF stored
<1>13. /\ stored[0] = s
       /\ \A n \in 1 .. N : stored[n] = SaveDisplay(stored[n - 1], targets[n])
  BY <1>9, <1>11
<1>14. stored \in [0 .. N -> Table(DisplayRows)] /\ Grown(table, stored[N])
  BY <1>9, <1>10, <1>11 DEF S
<1>15. s = Unplugged(table)
  BY DEF s, Unplugged
<1>. QED
  BY <1>12, <1>13, <1>14, <1>15

LEMMA SnapshotIs ==
  ASSUME NEW table \in Table(DisplayRows), NEW targets \in Seq(Found)
  PROVE  Grown(table, SaveDisplaySnapshot(table, targets))
BY SnapshotUnrolls

LEMMA MeasurementIs ==
  ASSUME desk \in Desks, NEW gui \in BOOLEAN, NEW sizes \in Declarations
  PROVE  Measurement(gui, sizes).targets \in Seq(Found)
<1>1. ServiceProbes(Reported(desk)) \in Seq(Probe) /\ GuiProbes(Reported(desk)) \in Seq(Probe)
  BY ProbesAre
<1>2. sizes \in Seq(Sizes)
  BY DesktopAssumption DEF Sizes
<1>3. ParseDeclared(sizes).displays \in Seq(Found)
  BY <1>2, ParseDeclaredIs
<1>. DEFINE probes == IF gui THEN GuiProbes(Reported(desk)) ELSE ServiceProbes(Reported(desk))
<1>4. probes \in Seq(Probe)
  BY <1>1
<1>5. Measurement(gui, sizes).targets = Detect(probes, ParseDeclared(sizes).displays)
  BY DEF Measurement
<1>. HIDE DEF probes
<1>. QED
  BY <1>3, <1>4, <1>5, DetectIs

-----------------------------------------------------------------------------
\* The images: their rows, and what was judged of them.

ImageRows == [id : Nat, by : Ids, inode : Nat, dims : Measures]
DiskRows == [inode : Nat, dims : Measures]

IdsIn(rs) == {rs[f].id : f \in DOMAIN rs}

\* Rows with ids of their own, flagged by some of the rules.
RowsRight(rs, ruleIds) ==
    /\ DOMAIN rs \subseteq Files /\ IsFiniteSet(DOMAIN rs)
    /\ rs \in [DOMAIN rs -> ImageRows]
    /\ \A f \in DOMAIN rs : rs[f].by \in ruleIds \cup {None}
    /\ \A f, g \in DOMAIN rs : rs[f].id = rs[g].id => f = g
    /\ \E b \in Nat : IdsIn(rs) \subseteq 0 .. b

\* Rows that differ in their flags at most.
SameImages(rs, ss) ==
    /\ DOMAIN ss = DOMAIN rs
    /\ \A f \in DOMAIN rs : /\ ss[f].id = rs[f].id /\ ss[f].inode = rs[f].inode
                            /\ ss[f].dims = rs[f].dims

\* What an image measures against a display is in the table of verdicts.
Fresh(table, image, screens, d) ==
    /\ <<image.id, d>> \in DOMAIN table
           <=> IsJudged(image.dims, screens[d].size, threshold)
    /\ <<image.id, d>> \in DOMAIN table =>
           table[<<image.id, d>>] = JudgedRow(image.dims, screens[d].size, threshold)

AllFresh(table, rs, screens) ==
    /\ DOMAIN table \subseteq IdsIn(rs) \X DOMAIN screens
    /\ \A f \in DOMAIN rs : \A d \in Connected(screens) : Fresh(table, rs[f], screens, d)

\* Changing flags only.
LEMMA Reflagged ==
  ASSUME NEW ids, NEW more, NEW rs, RowsRight(rs, more), NEW by \in [DOMAIN rs -> ids \cup {None}],
         ids \subseteq Nat, NEW ss,
         ss = [f \in DOMAIN rs |-> [rs[f] EXCEPT !.by = by[f]]]
  PROVE  RowsRight(ss, ids) /\ SameImages(rs, ss)
<1>1. rs \in [DOMAIN rs -> ImageRows]
  BY DEF RowsRight
<1>2. /\ DOMAIN ss = DOMAIN rs
      /\ \A f \in DOMAIN rs : /\ ss[f] \in ImageRows /\ ss[f].by = by[f]
                              /\ ss[f].id = rs[f].id /\ ss[f].inode = rs[f].inode
                              /\ ss[f].dims = rs[f].dims
  <2>. DEFINE with(r, x) == [r EXCEPT !.by = x]
  <2>1. \A r \in ImageRows : \A x \in Ids :
            /\ with(r, x) \in ImageRows /\ with(r, x).by = x /\ with(r, x).id = r.id
            /\ with(r, x).inode = r.inode /\ with(r, x).dims = r.dims
    BY DEF ImageRows
  <2>2. \A f \in DOMAIN rs : rs[f] \in ImageRows /\ by[f] \in Ids
    BY <1>1 DEF Ids
  <2>3. ss = [f \in DOMAIN rs |-> with(rs[f], by[f])]
    OBVIOUS
  <2>. HIDE DEF with
  <2>4. DOMAIN ss = DOMAIN rs /\ \A f \in DOMAIN rs : ss[f] = with(rs[f], by[f])
    BY <2>3
  <2>5. ASSUME NEW f \in DOMAIN rs
        PROVE  /\ ss[f] \in ImageRows /\ ss[f].by = by[f]
               /\ ss[f].id = rs[f].id /\ ss[f].inode = rs[f].inode
               /\ ss[f].dims = rs[f].dims
    <3>1. ss[f] = with(rs[f], by[f]) /\ rs[f] \in ImageRows /\ by[f] \in Ids
      BY <2>2, <2>4
    <3>. QED
      BY <2>1, <3>1
  <2>. QED
    BY <2>4, <2>5
<1>3. ss \in [DOMAIN ss -> ImageRows]
  <2>1. ss = [f \in DOMAIN ss |-> ss[f]]
    OBVIOUS
  <2>. QED
    BY <1>2, <2>1
<1>4. IdsIn(ss) = IdsIn(rs)
  BY <1>2 DEF IdsIn
<1>5. \A f, g \in DOMAIN ss : ss[f].id = ss[g].id => f = g
  BY <1>2 DEF RowsRight
<1>6. \A f \in DOMAIN ss : ss[f].by \in ids \cup {None}
  BY <1>2
<1>7. /\ DOMAIN rs \subseteq Files /\ IsFiniteSet(DOMAIN rs)
      /\ \E b \in Nat : IdsIn(rs) \subseteq 0 .. b
  BY DEF RowsRight
<1>8. RowsRight(ss, ids)
  BY <1>2, <1>3, <1>4, <1>5, <1>6, <1>7 DEF RowsRight
<1>9. SameImages(rs, ss)
  BY <1>2 DEF SameImages
<1>. QED
  BY <1>8, <1>9

LEMMA UnflaggedIs ==
  ASSUME NEW ids, ids \subseteq Nat, NEW rs, RowsRight(rs, ids), NEW gone
  PROVE  RowsRight(Unflagged(rs, gone), ids \ gone) /\ SameImages(rs, Unflagged(rs, gone))
<1>. DEFINE by == [f \in DOMAIN rs |-> IF rs[f].by \in gone THEN None ELSE rs[f].by]
            ss == [f \in DOMAIN rs |-> [rs[f] EXCEPT !.by = by[f]]]
<1>1. by \in [DOMAIN rs -> (ids \ gone) \cup {None}]
  BY DEF RowsRight
<1>2. \A f \in DOMAIN rs : ss[f] = IF rs[f].by \in gone THEN [rs[f] EXCEPT !.by = None]
                                   ELSE rs[f]
  <2>. TAKE f \in DOMAIN rs
  <2>1. rs[f] \in ImageRows
    BY DEF RowsRight
  <2>2. [rs[f] EXCEPT !.by = rs[f].by] = rs[f]
    BY <2>1 DEF ImageRows
  <2>. QED
    BY <2>2
<1>3. Unflagged(rs, gone) = ss
  BY <1>2 DEF Unflagged
<1>. HIDE DEF by
<1>4. RowsRight(ss, ids \ gone) /\ SameImages(rs, ss)
  <2>1. ids \ gone \subseteq Nat
    OBVIOUS
  <2>. QED
    BY <1>1, <2>1, Reflagged
<1>. QED
  BY <1>3, <1>4

LEMMA FlaggedIs ==
  ASSUME NEW rules_, NEW rs, DOMAIN rs \subseteq Nat, NEW images, RowsRight(images, rules_),
         NEW gs, NEW ts
  PROVE  /\ RowsRight(ApplyExclusions(images, rs, gs, ts), DOMAIN rs)
         /\ SameImages(images, ApplyExclusions(images, rs, gs, ts))
<1>. DEFINE m == MatcherOf(rs, gs, ts)
            by == [f \in DOMAIN images |-> HitFor(m, rs, f, images[f].inode)]
            ss == [f \in DOMAIN images |-> [images[f] EXCEPT !.by = by[f]]]
<1>1. IsMatcher(m, DOMAIN rs)
  BY MatcherOfIs
<1>. HIDE DEF m
<1>2. by \in [DOMAIN images -> DOMAIN rs \cup {None}]
  <2>1. \A f \in DOMAIN images : f \in Path
    BY BookAssumption DEF RowsRight, Path
  <2>2. \A f \in DOMAIN images : HitFor(m, rs, f, images[f].inode) \in DOMAIN rs \cup {None}
    BY <1>1, <2>1, HitForIs
  <2>. QED
    BY <2>2
<1>3. ApplyExclusions(images, rs, gs, ts) = ss
  BY DEF ApplyExclusions, Flagged, m
<1>. HIDE DEF by
<1>4. RowsRight(ss, DOMAIN rs) /\ SameImages(images, ss)
  BY <1>2, Reflagged
<1>. QED
  BY <1>3, <1>4

LEMMA SameIsFresh ==
  ASSUME NEW table, NEW rs, NEW ss, NEW screens, SameImages(rs, ss), AllFresh(table, rs, screens)
  PROVE  AllFresh(table, ss, screens) /\ IdsIn(ss) = IdsIn(rs)
<1>1. IdsIn(ss) = IdsIn(rs)
  BY DEF SameImages, IdsIn
<1>2. \A f \in DOMAIN rs : \A d : Fresh(table, rs[f], screens, d) <=> Fresh(table, ss[f], screens, d)
  BY DEF SameImages, Fresh
<1>. QED
  BY <1>1, <1>2 DEF AllFresh, SameImages

\* The judgement takes each image from the one row that has its id.
LEMMA ImagesAre ==
  ASSUME NEW rs, NEW ids, RowsRight(rs, ids)
  PROVE  /\ DOMAIN ImagesOf(rs) = IdsIn(rs) /\ DOMAIN DimsOf(rs) = IdsIn(rs)
         /\ \A f \in DOMAIN rs :
              /\ ImagesOf(rs)[rs[f].id] = [dims |-> rs[f].dims, visible |-> rs[f].by = None]
              /\ DimsOf(rs)[rs[f].id] = rs[f].dims
<1>1. \A f \in DOMAIN rs : (CHOOSE g \in DOMAIN rs : rs[g].id = rs[f].id) = f
  BY DEF RowsRight
<1>2. DOMAIN ImagesOf(rs) = IdsIn(rs)
  BY DEF ImagesOf, IdsIn
<1>3. \A f \in DOMAIN rs :
         ImagesOf(rs)[rs[f].id] = [dims |-> rs[f].dims, visible |-> rs[f].by = None]
  <2>. TAKE f \in DOMAIN rs
  <2>1. rs[f].id \in {rs[g].id : g \in DOMAIN rs}
    OBVIOUS
  <2>2. ImagesOf(rs)[rs[f].id] =
            LET row == rs[CHOOSE g \in DOMAIN rs : rs[g].id = rs[f].id]
            IN  [dims |-> row.dims, visible |-> row.by = None]
    BY <2>1 DEF ImagesOf
  <2>. QED
    BY <1>1, <2>2
<1>4. DOMAIN DimsOf(rs) = IdsIn(rs)
  BY <1>2 DEF DimsOf
<1>5. \A f \in DOMAIN rs : DimsOf(rs)[rs[f].id] = rs[f].dims
  <2>. TAKE f \in DOMAIN rs
  <2>1. rs[f].id \in DOMAIN ImagesOf(rs)
    BY <1>2 DEF IdsIn
  <2>2. DimsOf(rs)[rs[f].id] = ImagesOf(rs)[rs[f].id].dims
    BY <2>1 DEF DimsOf
  <2>3. ImagesOf(rs)[rs[f].id].dims = rs[f].dims
    <3>. DEFINE shown == rs[f].by = None
    <3>1. ImagesOf(rs)[rs[f].id] = [dims |-> rs[f].dims, visible |-> shown]
      BY <1>3
    <3>. HIDE DEF shown
    <3>. QED
      BY <3>1
  <2>. QED
    BY <2>2, <2>3
<1>. QED
  BY <1>2, <1>3, <1>4, <1>5

\* A rebuild makes the images it is for fresh, and leaves the rest alone.
LEMMA RebuildIs ==
  ASSUME NEW table, NEW rs, NEW ids, RowsRight(rs, ids), NEW screens, NEW S,
         DOMAIN table \subseteq (IdsIn(rs) \cup S) \X DOMAIN screens,
         \A f \in DOMAIN rs : \A d \in Connected(screens) :
            rs[f].id \notin S => Fresh(table, rs[f], screens, d)
  PROVE  AllFresh(Rebuild(table, DimsOf(rs), screens, threshold, S), rs, screens)
<1>. DEFINE dims == DimsOf(rs)
            kept == {x \in DOMAIN table : x[1] \notin S}
            judged == {x \in (S \cap DOMAIN dims) \X Connected(screens) :
                          IsJudged(dims[x[1]], screens[x[2]].size, threshold)}
            new == [x \in kept \cup judged |->
                      IF x \in judged THEN JudgedRow(dims[x[1]], screens[x[2]].size, threshold)
                      ELSE table[x]]
<1>1. Rebuild(table, dims, screens, threshold, S) = new
  BY DEF Rebuild
<1>2. DOMAIN dims = IdsIn(rs) /\ \A f \in DOMAIN rs : dims[rs[f].id] = rs[f].dims
  BY ImagesAre
<1>. HIDE DEF dims
<1>3. DOMAIN new \subseteq IdsIn(rs) \X DOMAIN screens
  BY <1>2 DEF Connected
<1>4. ASSUME NEW f \in DOMAIN rs, NEW d \in Connected(screens)
      PROVE  Fresh(new, rs[f], screens, d)
  <2>. DEFINE x == <<rs[f].id, d>>
  <2>1. x[1] = rs[f].id /\ x[2] = d /\ rs[f].id \in IdsIn(rs)
    BY DEF IdsIn
  <2>2. CASE rs[f].id \in S
    <3>1. x \in judged <=> IsJudged(rs[f].dims, screens[d].size, threshold)
      BY <1>2, <2>1, <2>2
    <3>2. x \notin kept
      BY <2>1, <2>2
    <3>3. x \in judged => new[x] = JudgedRow(rs[f].dims, screens[d].size, threshold)
      BY <1>2, <2>1
    <3>4. x \in DOMAIN new <=> x \in judged
      BY <3>2
    <3>. HIDE DEF new, judged, kept
    <3>. QED
      BY <3>1, <3>3, <3>4 DEF Fresh
  <2>3. CASE rs[f].id \notin S
    <3>1. x \notin judged
      BY <2>1, <2>3
    <3>2. x \in DOMAIN new <=> x \in DOMAIN table
      BY <2>1, <2>3, <3>1
    <3>3. x \in DOMAIN new => new[x] = table[x]
      BY <3>1
    <3>4. Fresh(table, rs[f], screens, d)
      BY <2>3
    <3>. HIDE DEF new, judged, kept
    <3>. QED
      BY <3>2, <3>3, <3>4 DEF Fresh
  <2>. QED
    BY <2>2, <2>3
<1>. HIDE DEF new
<1>. QED
  BY <1>1, <1>3, <1>4 DEF AllFresh, dims
-----------------------------------------------------------------------------
\* The inductive invariant.

CountsRight == changes \in 0 .. MaxChanges /\ owed \in 0 .. changes

BookRight ==
    /\ release \in DOMAIN Releases /\ token \in Ids
    /\ roots \in Table(RootRows) /\ Keyed(Tables, DOMAIN roots)
    /\ scanning.stage \in {"none", "begun", "walking"}

DiskRight ==
    /\ DOMAIN disk \subseteq Files /\ IsFiniteSet(DOMAIN disk)
    /\ disk \in [DOMAIN disk -> DiskRows]
    /\ \A f, g \in DOMAIN disk : disk[f].inode = disk[g].inode => f = g

CatalogueRight == RowsRight(rows, DOMAIN rules)

HeldRight ==
    /\ held = [who \in {"scan", "tool"} |-> held[who]]
    /\ \A who \in {"scan", "tool"} : held[who].targets \in Seq(Found)

FitRight ==
    /\ desk \in Desks /\ threshold \in Thresholds /\ displays \in Table(DisplayRows)
    /\ HeldRight
    /\ DOMAIN pins \subseteq IdsIn(rows)
    /\ AllFresh(ideal, rows, displays)

BookInv == CountsRight /\ BookRight /\ DiskRight /\ CatalogueRight

IInv == BookInv /\ FitRight

LEMMA TablesAre ==
  ASSUME NEW rs, NEW gs, NEW R
  PROVE  /\ Keyed([rules |-> rs, groups |-> gs], R)
             <=> gs \in Table(GroupRows) /\ rs \in Table(RulesOver(DOMAIN gs, R))
         /\ [rules |-> rs, groups |-> gs].rules = rs
         /\ [rules |-> rs, groups |-> gs].groups = gs
BY DEF Keyed

LEMMA RuleIdsAre ==
  ASSUME BookRight
  PROVE  /\ rules \in Table(RulesOver(DOMAIN groups, DOMAIN roots))
         /\ groups \in Table(GroupRows)
         /\ DOMAIN rules \subseteq Nat \ {0} /\ DOMAIN groups \subseteq Nat \ {0}
         /\ DOMAIN roots \subseteq Nat \ {0}
         /\ rules \in [DOMAIN rules -> RulesOver(DOMAIN groups, DOMAIN roots)]
         /\ groups \in [DOMAIN groups -> GroupRows] /\ roots \in [DOMAIN roots -> RootRows]
         /\ Bounded(DOMAIN rules) /\ Bounded(DOMAIN groups) /\ Bounded(DOMAIN roots)
<1>1. rules \in Table(RulesOver(DOMAIN groups, DOMAIN roots)) /\ groups \in Table(GroupRows)
  BY TablesAre DEF BookRight, Tables
<1>2. roots \in Table(RootRows)
  BY DEF BookRight
<1>3. /\ Bounded(DOMAIN rules) /\ Bounded(DOMAIN groups) /\ Bounded(DOMAIN roots)
      /\ rules \in [DOMAIN rules -> RulesOver(DOMAIN groups, DOMAIN roots)]
      /\ groups \in [DOMAIN groups -> GroupRows] /\ roots \in [DOMAIN roots -> RootRows]
  BY <1>1, <1>2, TableIs
<1>. QED
  BY <1>1, <1>2, <1>3, IdsOf

LEMMA RowsMore ==
  ASSUME NEW A, NEW B, A \subseteq B, NEW rs, RowsRight(rs, A)
  PROVE  RowsRight(rs, B)
BY DEF RowsRight

LEMMA NothingMoves ==
  ASSUME NEW rs
  PROVE  SameImages(rs, rs)
BY DEF SameImages

LEMMA FitKept ==
  ASSUME FitRight, SameImages(rows, rows'), UNCHANGED <<displays, ideal, threshold>>,
         desk' \in Desks, DOMAIN pins' \subseteq IdsIn(rows), HeldRight'
  PROVE  FitRight'
<1>1. AllFresh(ideal, rows', displays) /\ IdsIn(rows') = IdsIn(rows)
  BY SameIsFresh DEF FitRight
<1>2. AllFresh(ideal, rows, displays)'
  BY <1>1 DEF AllFresh, Fresh
<1>. QED
  BY <1>1, <1>2 DEF FitRight

-----------------------------------------------------------------------------
\* One step of the Sources page, of `linwp exclude` or of Browse.

Kept == BookInv' /\ SameImages(rows, rows')

LEMMA StoreRuleStep ==
  ASSUME BookInv, NEW r \in Requests, StoreRule(r.kind, r.value, r.group, r.source)
  PROVE  Kept
<1>. DEFINE added == AddRule(Tables, r.kind, r.value, r.group, r.source, None)
<1>1. /\ added.ok /\ rules' = added.rules /\ groups' = added.groups
      /\ owed' = owed + 1 /\ Counts
      /\ UNCHANGED <<release, roots, rows, disk, scanning, token, stale, late>>
  BY DEF StoreRule
<1>2. /\ roots \in Table(RootRows) /\ Keyed(Tables, DOMAIN roots)
      /\ [kind |-> r.kind, value |-> r.value] \in RuleText
      /\ r.group \in NameSet \cup {None} /\ None \in Ids
  <2>1. r.group \in {x.group : x \in Requests \cup Begun}
    OBVIOUS
  <2>2. r.group \in NameSet
    BY <2>1 DEF NameSet
  <2>3. [kind |-> r.kind, value |-> r.value] \in RuleText
    BY BookAssumption
  <2>. QED
    BY <2>2, <2>3 DEF BookInv, BookRight, Ids
<1>3. /\ Keyed([rules |-> added.rules, groups |-> added.groups], DOMAIN roots)
      /\ DOMAIN Tables.rules \subseteq DOMAIN added.rules
  BY <1>1, <1>2, AddRuleIs
<1>. HIDE DEF added
<1>4. Keyed(Tables, DOMAIN roots)' /\ DOMAIN rules \subseteq DOMAIN rules'
  BY <1>1, <1>3 DEF Tables
<1>5. BookRight'
  BY <1>1, <1>4 DEF BookInv, BookRight
<1>6. CountsRight'
  BY <1>1, BookAssumption DEF BookInv, CountsRight, Counts
<1>7. DiskRight' /\ CatalogueRight'
  BY <1>1, <1>4, RowsMore DEF BookInv, DiskRight, CatalogueRight
<1>. QED
  BY <1>1, <1>5, <1>6, <1>7, NothingMoves DEF Kept, BookInv

LEMMA DeleteRuleStep ==
  ASSUME BookInv, NEW id \in DOMAIN rules, DeleteRule(id)
  PROVE  Kept
<1>1. /\ rules' = Restrict(rules, DOMAIN rules \ {id}) /\ rows' = Unflagged(rows, {id})
      /\ owed' = owed + 1 /\ Counts
      /\ UNCHANGED <<release, groups, roots, disk, scanning, token, stale, late>>
  BY DEF DeleteRule
<1>2. /\ rules' \in Table(RulesOver(DOMAIN groups, DOMAIN roots))
      /\ DOMAIN rules' = DOMAIN rules \ {id}
  BY <1>1, RuleIdsAre, RestrictIs DEF BookInv
<1>3. Keyed(Tables, DOMAIN roots)'
  BY <1>1, <1>2, RuleIdsAre, TablesAre DEF Tables, BookInv
<1>4. BookRight'
  BY <1>1, <1>3 DEF BookInv, BookRight
<1>5. CountsRight'
  BY <1>1, BookAssumption DEF BookInv, CountsRight, Counts
<1>6. RowsRight(rows', DOMAIN rules \ {id}) /\ SameImages(rows, rows')
  <2>1. DOMAIN rules \subseteq Nat
    BY RuleIdsAre DEF BookInv
  <2>. QED
    BY <1>1, <2>1, UnflaggedIs DEF BookInv, CatalogueRight
<1>7. DiskRight' /\ CatalogueRight'
  BY <1>1, <1>2, <1>6 DEF BookInv, DiskRight, CatalogueRight
<1>. QED
  BY <1>4, <1>5, <1>6, <1>7 DEF Kept, BookInv

\* Switching a row of a table on or off.
LEMMA SwitchedIs ==
  ASSUME NEW Row, NEW t \in Table(Row), NEW id \in DOMAIN t, NEW on,
         [t[id] EXCEPT !.enabled = on] \in Row
  PROVE  /\ [t EXCEPT ![id].enabled = on] \in Table(Row)
         /\ DOMAIN [t EXCEPT ![id].enabled = on] = DOMAIN t
<1>1. Bounded(DOMAIN t) /\ t \in [DOMAIN t -> Row]
  BY TableIs
<1>. DEFINE u == [t EXCEPT ![id].enabled = on]
<1>2. u \in [DOMAIN u -> Row] /\ DOMAIN u = DOMAIN t
  BY <1>1
<1>. HIDE DEF u
<1>3. u \in Table(Row)
  BY <1>1, <1>2, TableIs
<1>. QED
  BY <1>2, <1>3 DEF u

LEMMA SwitchRuleStep ==
  ASSUME BookInv, NEW id \in DOMAIN rules, NEW on \in BOOLEAN, SwitchRule(id, on)
  PROVE  Kept
<1>1. /\ rules' = [rules EXCEPT ![id].enabled = on]
      /\ owed' = owed + 1 /\ Counts
      /\ UNCHANGED <<release, groups, roots, rows, disk, scanning, token, stale, late>>
  BY DEF SwitchRule
<1>2. [rules[id] EXCEPT !.enabled = on] \in RulesOver(DOMAIN groups, DOMAIN roots)
  <2>1. rules[id] \in RulesOver(DOMAIN groups, DOMAIN roots)
    BY RuleIdsAre DEF BookInv
  <2>. QED
    BY <2>1 DEF RulesOver, RuleRows
<1>3. /\ rules' \in Table(RulesOver(DOMAIN groups, DOMAIN roots))
      /\ DOMAIN rules' = DOMAIN rules
  BY <1>1, <1>2, RuleIdsAre, SwitchedIs DEF BookInv
<1>4. Keyed(Tables, DOMAIN roots)'
  BY <1>1, <1>3, RuleIdsAre, TablesAre DEF Tables, BookInv
<1>5. BookRight'
  BY <1>1, <1>4 DEF BookInv, BookRight
<1>6. CountsRight'
  BY <1>1, BookAssumption DEF BookInv, CountsRight, Counts
<1>7. DiskRight' /\ CatalogueRight'
  BY <1>1, <1>3 DEF BookInv, DiskRight, CatalogueRight
<1>. QED
  BY <1>1, <1>5, <1>6, <1>7, NothingMoves DEF Kept, BookInv

LEMMA SwitchGroupStep ==
  ASSUME BookInv, NEW name, NEW on \in BOOLEAN, SwitchGroup(name, on)
  PROVE  Kept
<1>1. PICK g \in Switchable(name, on) : groups' = [groups EXCEPT ![g].enabled = on]
  BY DEF SwitchGroup
<1>2. /\ owed' = owed + 1 /\ Counts
      /\ UNCHANGED <<release, rules, roots, rows, disk, scanning, token, stale, late>>
  BY DEF SwitchGroup
<1>3. g \in DOMAIN groups
  BY DEF Switchable, GroupRow
<1>4. groups' \in Table(GroupRows) /\ DOMAIN groups' = DOMAIN groups
  <2>1. [groups[g] EXCEPT !.enabled = on] \in GroupRows
    BY <1>3, RuleIdsAre DEF GroupRows, BookInv
  <2>. QED
    BY <1>1, <1>3, <2>1, RuleIdsAre, SwitchedIs DEF BookInv
<1>5. Keyed(Tables, DOMAIN roots)'
  BY <1>2, <1>4, RuleIdsAre, TablesAre DEF Tables, BookInv
<1>6. BookRight'
  BY <1>2, <1>5 DEF BookInv, BookRight
<1>7. CountsRight'
  BY <1>2, BookAssumption DEF BookInv, CountsRight, Counts
<1>8. DiskRight' /\ CatalogueRight'
  BY <1>2 DEF BookInv, DiskRight, CatalogueRight
<1>. QED
  BY <1>2, <1>6, <1>7, <1>8, NothingMoves DEF Kept, BookInv
\* A source named, switched on when it is stored already.
LEMMA AddRootStep ==
  ASSUME BookInv, NEW path \in Seq(Names) \ Files, AddRoot(path)
  PROVE  Kept
<1>. DEFINE stored == {r \in DOMAIN roots : roots[r].path = path}
            row == [path |-> path, enabled |-> TRUE]
<1>1. /\ roots' = IF stored = {} THEN Insert(roots, row)
                  ELSE [roots EXCEPT ![Min(stored)].enabled = TRUE]
      /\ Counts
      /\ UNCHANGED <<release, groups, rules, rows, disk, owed, scanning, token, late>>
  BY DEF AddRoot
<1>2. roots' \in Table(RootRows) /\ DOMAIN roots \subseteq DOMAIN roots'
  <2>1. CASE stored = {}
    <3>1. row \in RootRows
      BY DEF RootRows
    <3>. HIDE DEF row
    <3>2. roots \in Table(RootRows) /\ Bounded(DOMAIN roots)
      BY RuleIdsAre DEF BookInv, BookRight
    <3>3. /\ Insert(roots, row) \in Table(RootRows)
          /\ DOMAIN Insert(roots, row) = DOMAIN roots \cup {NextId(roots)}
      BY <3>1, <3>2, InsertIs
    <3>. QED
      BY <1>1, <2>1, <3>3
  <2>2. CASE stored # {}
    <3>1. Bounded(stored)
      BY RuleIdsAre, BoundedSubset DEF BookInv
    <3>2. Min(stored) \in DOMAIN roots
      <4>. HIDE DEF stored
      <4>1. Min(stored) \in stored
        BY <2>2, <3>1, IdsOf
      <4>. QED
        BY <4>1 DEF stored
    <3>3. roots \in Table(RootRows) /\ roots[Min(stored)] \in RootRows
      BY <3>2, RuleIdsAre DEF BookInv, BookRight
    <3>. HIDE DEF stored
    <3>4. [roots[Min(stored)] EXCEPT !.enabled = TRUE] \in RootRows
      BY <3>3 DEF RootRows
    <3>. QED
      BY <1>1, <2>2, <3>2, <3>3, <3>4, SwitchedIs
  <2>. QED
    BY <2>1, <2>2
<1>3. Keyed(Tables, DOMAIN roots)'
  <2>1. RulesOver(DOMAIN groups, DOMAIN roots) \subseteq RulesOver(DOMAIN groups, DOMAIN roots')
    BY <1>2 DEF RulesOver
  <2>2. /\ rules \in [DOMAIN rules -> RulesOver(DOMAIN groups, DOMAIN roots)]
        /\ Bounded(DOMAIN rules)
    BY RuleIdsAre DEF BookInv
  <2>3. rules \in [DOMAIN rules -> RulesOver(DOMAIN groups, DOMAIN roots')]
    BY <2>1, <2>2
  <2>4. rules \in Table(RulesOver(DOMAIN groups, DOMAIN roots'))
    BY <2>2, <2>3, TableIs
  <2>. QED
    BY <1>1, <2>4, RuleIdsAre, TablesAre DEF Tables, BookInv
<1>4. BookRight'
  BY <1>1, <1>2, <1>3 DEF BookInv, BookRight
<1>5. CountsRight'
  BY <1>1, BookAssumption DEF BookInv, CountsRight, Counts
<1>6. DiskRight' /\ CatalogueRight'
  BY <1>1 DEF BookInv, DiskRight, CatalogueRight
<1>. QED
  BY <1>1, <1>4, <1>5, <1>6, NothingMoves DEF Kept, BookInv

LEMMA SwitchRootStep ==
  ASSUME BookInv, NEW r \in DOMAIN roots, NEW on \in BOOLEAN, SwitchRoot(r, on)
  PROVE  Kept
<1>1. /\ roots' = [roots EXCEPT ![r].enabled = on]
      /\ owed' = owed + 1 /\ Counts
      /\ UNCHANGED <<release, groups, rules, rows, disk, scanning, token, stale, late>>
  BY DEF SwitchRoot
<1>2. roots' \in Table(RootRows) /\ DOMAIN roots' = DOMAIN roots
  <2>1. [roots[r] EXCEPT !.enabled = on] \in RootRows
    BY RuleIdsAre DEF RootRows, BookInv
  <2>. QED
    BY <1>1, <2>1, SwitchedIs DEF BookInv, BookRight
<1>3. Keyed(Tables, DOMAIN roots)'
  BY <1>1, <1>2, RuleIdsAre, TablesAre DEF Tables, BookInv
<1>4. BookRight'
  BY <1>1, <1>2, <1>3 DEF BookInv, BookRight
<1>5. CountsRight'
  BY <1>1, BookAssumption DEF BookInv, CountsRight, Counts
<1>6. DiskRight' /\ CatalogueRight'
  BY <1>1 DEF BookInv, DiskRight, CatalogueRight
<1>. QED
  BY <1>1, <1>4, <1>5, <1>6, NothingMoves DEF Kept, BookInv

\* With a source go the rules scoped to it, and the flags that name them.
LEMMA RemoveRootStep ==
  ASSUME BookInv, NEW r \in DOMAIN roots, RemoveRoot(r)
  PROVE  Kept
<1>. DEFINE scoped == {id \in DOMAIN rules : rules[id].root = r}
<1>1. /\ roots' = Restrict(roots, DOMAIN roots \ {r})
      /\ rules' = Restrict(rules, DOMAIN rules \ scoped)
      /\ rows' = Unflagged(rows, scoped)
      /\ owed' = owed + 1 /\ Counts
      /\ UNCHANGED <<release, groups, disk, scanning, token, stale, late>>
  BY DEF RemoveRoot
<1>2. roots' \in Table(RootRows) /\ DOMAIN roots' = DOMAIN roots \ {r}
  BY <1>1, RestrictIs DEF BookInv, BookRight
<1>3. /\ rules \in Table(RulesOver(DOMAIN groups, DOMAIN roots))
      /\ rules \in [DOMAIN rules -> RulesOver(DOMAIN groups, DOMAIN roots)]
      /\ DOMAIN rules \subseteq Nat
  BY RuleIdsAre DEF BookInv
<1>4. DOMAIN rules' = DOMAIN rules \ scoped /\ Bounded(DOMAIN rules')
      /\ \A id \in DOMAIN rules' : rules'[id] = rules[id]
  <2>1. DOMAIN rules \ scoped \in SUBSET DOMAIN rules
    OBVIOUS
  <2>. HIDE DEF scoped
  <2>. DEFINE X == RulesOver(DOMAIN groups, DOMAIN roots)
  <2>2. rules \in Table(X)
    BY <1>3
  <2>. HIDE DEF X
  <2>3. /\ rules' \in Table(X) /\ DOMAIN rules' = DOMAIN rules \ scoped
        /\ \A id \in DOMAIN rules' : rules'[id] = rules[id]
    BY <1>1, <2>1, <2>2, RestrictIs
  <2>. QED
    BY <2>3, TableIs
<1>5. \A id \in DOMAIN rules' : rules'[id] \in RulesOver(DOMAIN groups, DOMAIN roots \ {r})
  <2>. TAKE id \in DOMAIN rules'
  <2>1. rules[id] \in RulesOver(DOMAIN groups, DOMAIN roots) /\ rules[id].root # r
    BY <1>3, <1>4
  <2>. QED
    BY <1>4, <2>1 DEF RulesOver
<1>6. rules' \in Table(RulesOver(DOMAIN groups, DOMAIN roots'))
  <2>1. rules' = [id \in DOMAIN rules' |-> rules'[id]]
    <3>. HIDE DEF scoped
    <3>. QED
      BY <1>1 DEF Restrict
  <2>2. rules' \in [DOMAIN rules' -> RulesOver(DOMAIN groups, DOMAIN roots')]
    BY <1>2, <1>5, <2>1
  <2>. QED
    BY <1>4, <2>2, TableIs
<1>7. Keyed(Tables, DOMAIN roots)'
  BY <1>1, <1>6, RuleIdsAre, TablesAre DEF Tables, BookInv
<1>8. BookRight'
  BY <1>1, <1>2, <1>7 DEF BookInv, BookRight
<1>9. CountsRight'
  BY <1>1, BookAssumption DEF BookInv, CountsRight, Counts
<1>10. RowsRight(rows', DOMAIN rules \ scoped) /\ SameImages(rows, rows')
  BY <1>1, <1>3, UnflaggedIs DEF BookInv, CatalogueRight
<1>11. DiskRight' /\ CatalogueRight'
  BY <1>1, <1>4, <1>10 DEF BookInv, DiskRight, CatalogueRight
<1>. QED
  BY <1>8, <1>9, <1>10, <1>11 DEF Kept, BookInv

LEMMA ReapplyStep ==
  ASSUME BookInv, Reapply
  PROVE  Kept
<1>1. /\ owed > 0 /\ owed' = owed - 1
      /\ rows' = ApplyExclusions(rows, rules, groups, roots)
      /\ UNCHANGED <<release, groups, rules, roots, disk, scanning, token, changes>>
  BY DEF Reapply
<1>2. RowsRight(rows', DOMAIN rules) /\ SameImages(rows, rows')
  <2>1. DOMAIN rules \subseteq Nat
    BY RuleIdsAre DEF BookInv
  <2>. QED
    BY <1>1, <2>1, FlaggedIs DEF BookInv, CatalogueRight
<1>3. BookRight'
  BY <1>1 DEF BookInv, BookRight, Tables
<1>4. CountsRight'
  BY <1>1, BookAssumption DEF BookInv, CountsRight
<1>5. DiskRight' /\ CatalogueRight'
  BY <1>1, <1>2 DEF BookInv, DiskRight, CatalogueRight
<1>. QED
  BY <1>2, <1>3, <1>4, <1>5 DEF Kept, BookInv

\* The rules Browse makes of an image.
LEMMA BrowseRuleIs ==
  ASSUME BookInv, NEW f \in DOMAIN rows, NEW rule \in {ImageRule(f), FolderRule(f)}
  PROVE  [kind |-> rule.kind, value |-> rule.value] \in RuleText /\ rule.inode \in Ids
<1>1. f \in Path /\ f # <<>> /\ Front(f) \in Path
  BY BookAssumption, FrontIs DEF BookInv, CatalogueRight, RowsRight, Path
<1>2. \A p \in Path : AsValue(p) \in Value(Names)
  <2>. TAKE p \in Path
  <2>1. p \in Seq(Names \cup {Up})
    BY DEF Path
  <2>. QED
    BY <2>1 DEF AsValue, Value
<1>3. rows[f].inode \in Nat
  BY DEF BookInv, CatalogueRight, RowsRight, ImageRows
<1>4. CASE rule = ImageRule(f)
  BY <1>1, <1>2, <1>3, <1>4 DEF ImageRule, RuleText, Ids
<1>5. CASE rule = FolderRule(f)
  BY <1>1, <1>2, <1>5 DEF FolderRule, RuleText, Ids
<1>. QED
  BY <1>4, <1>5

LEMMA ExcludeStep ==
  ASSUME BookInv, NEW f \in DOMAIN rows, NEW rule \in {ImageRule(f), FolderRule(f)},
         Exclude(rule)
  PROVE  Kept
<1>. DEFINE added == AddRule(Tables, rule.kind, rule.value, None, None, rule.inode)
<1>1. /\ added.ok /\ rules' = added.rules /\ token' = added.id /\ Counts
      /\ rows' = ApplyExclusions(rows, rules', groups, roots)
      /\ UNCHANGED <<release, groups, roots, disk, owed, scanning>>
  BY DEF Exclude
<1>2. /\ roots \in Table(RootRows) /\ Keyed(Tables, DOMAIN roots)
      /\ [kind |-> rule.kind, value |-> rule.value] \in RuleText /\ rule.inode \in Ids
      /\ None \in NameSet \cup {None}
  BY BrowseRuleIs DEF BookInv, BookRight
<1>3. /\ Keyed([rules |-> added.rules, groups |-> added.groups], DOMAIN roots)
      /\ added.groups = Tables.groups /\ added.id \in DOMAIN added.rules
  BY <1>1, <1>2, AddRuleIs
<1>. HIDE DEF added
<1>4. Keyed(Tables, DOMAIN roots)'
  BY <1>1, <1>3 DEF Tables
<1>5. token' \in Ids /\ DOMAIN rules' \subseteq Nat
  <2>1. Keyed([rules |-> rules', groups |-> groups], DOMAIN roots)
    BY <1>1, <1>3 DEF Tables
  <2>2. rules' \in Table(RulesOver(DOMAIN groups, DOMAIN roots))
    BY <2>1, TablesAre
  <2>3. Bounded(DOMAIN rules')
    BY <2>2, TableIs
  <2>4. DOMAIN rules' \subseteq Nat \ {0}
    BY <2>3, IdsOf
  <2>. QED
    BY <1>1, <1>3, <2>4 DEF Ids
<1>6. RowsRight(rows', DOMAIN rules') /\ SameImages(rows, rows')
  BY <1>1, <1>5, FlaggedIs DEF BookInv, CatalogueRight
<1>7. BookRight'
  BY <1>1, <1>4, <1>5 DEF BookInv, BookRight
<1>8. CountsRight'
  BY <1>1, BookAssumption DEF BookInv, CountsRight, Counts
<1>9. DiskRight' /\ CatalogueRight'
  BY <1>1, <1>6 DEF BookInv, DiskRight, CatalogueRight
<1>. QED
  BY <1>6, <1>7, <1>8, <1>9 DEF Kept, BookInv
LEMMA UndoExclusionStep ==
  ASSUME BookInv, UndoExclusion
  PROVE  Kept
<1>1. /\ token' = None
      /\ IF Removable(token)
         THEN /\ rules' = Restrict(rules, DOMAIN rules \ {token})
              /\ rows' = ApplyExclusions(rows, rules', groups, roots)
         ELSE UNCHANGED <<rules, rows>>
      /\ UNCHANGED <<release, groups, roots, disk, owed, scanning, changes>>
  BY DEF UndoExclusion
<1>2. DOMAIN rules \subseteq Nat
  BY RuleIdsAre DEF BookInv
<1>3. rules' \in Table(RulesOver(DOMAIN groups, DOMAIN roots)) /\ DOMAIN rules' \subseteq DOMAIN rules
  BY <1>1, RuleIdsAre, RestrictIs DEF BookInv
<1>4. Keyed(Tables, DOMAIN roots)'
  BY <1>1, <1>3, RuleIdsAre, TablesAre DEF Tables, BookInv
<1>5. BookRight'
  BY <1>1, <1>4 DEF BookInv, BookRight, Ids
<1>6. RowsRight(rows', DOMAIN rules') /\ SameImages(rows, rows')
  <2>1. CASE Removable(token)
    <3>1. rows' = ApplyExclusions(rows, rules', groups, roots) /\ DOMAIN rules' \subseteq Nat
      BY <1>1, <1>2, <1>3, <2>1
    <3>. QED
      BY <3>1, FlaggedIs DEF BookInv, CatalogueRight
  <2>2. CASE ~Removable(token)
    <3>1. rules' = rules /\ rows' = rows
      BY <1>1, <2>2
    <3>. QED
      BY <3>1, NothingMoves DEF BookInv, CatalogueRight
  <2>. QED
    BY <2>1, <2>2
<1>7. CountsRight' /\ DiskRight' /\ CatalogueRight'
  BY <1>1, <1>6 DEF BookInv, DiskRight, CatalogueRight, CountsRight
<1>. QED
  BY <1>5, <1>6, <1>7 DEF Kept, BookInv

LEMMA RenameStep ==
  ASSUME BookInv, NEW f \in Files, NEW g \in Files, Rename(f, g)
  PROVE  Kept
<1>1. /\ f \in DOMAIN disk /\ g \notin DOMAIN disk /\ Counts
      /\ disk' = [x \in (DOMAIN disk \ {f}) \cup {g} |-> IF x = g THEN disk[f] ELSE disk[x]]
      /\ UNCHANGED <<release, groups, rules, roots, rows, owed, scanning, token, stale, late>>
  BY DEF Rename
<1>2. DiskRight'
  <2>1. IsFiniteSet((DOMAIN disk \ {f}) \cup {g})
    BY FS_Subset, FS_Singleton, FS_Union DEF BookInv, DiskRight
  <2>2. DOMAIN disk' \subseteq Files /\ disk' \in [DOMAIN disk' -> DiskRows]
    BY <1>1 DEF BookInv, DiskRight
  <2>3. \A x, y \in DOMAIN disk' : disk'[x].inode = disk'[y].inode => x = y
    BY <1>1 DEF BookInv, DiskRight
  <2>4. DOMAIN disk' = (DOMAIN disk \ {f}) \cup {g}
    BY <1>1
  <2>. QED
    BY <2>1, <2>2, <2>3, <2>4 DEF DiskRight
<1>3. CountsRight'
  BY <1>1, BookAssumption DEF BookInv, CountsRight, Counts
<1>4. BookRight' /\ CatalogueRight'
  BY <1>1 DEF BookInv, BookRight, CatalogueRight, Tables
<1>. QED
  BY <1>1, <1>2, <1>3, <1>4, NothingMoves DEF Kept, BookInv

LEMMA EditStep ==
  ASSUME BookInv, NEW f \in Files, NEW dims \in Looks, Edit(f, dims)
  PROVE  Kept
<1>1. /\ f \in DOMAIN disk /\ Counts
      /\ disk' = [disk EXCEPT ![f].dims = dims]
      /\ UNCHANGED <<release, groups, rules, roots, rows, owed, scanning, token, stale, late>>
  BY DEF Edit
<1>2. DiskRight'
  <2>. DEFINE edited(x) == IF x = f THEN [disk[x] EXCEPT !.dims = dims] ELSE disk[x]
  <2>1. disk \in [DOMAIN disk -> DiskRows] /\ dims \in Measures
    BY DesktopAssumption DEF BookInv, DiskRight
  <2>2. \A x \in DOMAIN disk : edited(x) \in DiskRows /\ edited(x).inode = disk[x].inode
    BY <2>1 DEF DiskRows
  <2>3. disk' = [x \in DOMAIN disk |-> edited(x)]
    BY <1>1, <2>1
  <2>. HIDE DEF edited
  <2>4. /\ DOMAIN disk' = DOMAIN disk /\ disk' \in [DOMAIN disk' -> DiskRows]
        /\ \A x \in DOMAIN disk : disk'[x].inode = disk[x].inode
    BY <2>2, <2>3
  <2>. QED
    BY <2>4 DEF BookInv, DiskRight
<1>3. CountsRight'
  BY <1>1, BookAssumption DEF BookInv, CountsRight, Counts
<1>4. BookRight' /\ CatalogueRight'
  BY <1>1 DEF BookInv, BookRight, CatalogueRight, Tables
<1>. QED
  BY <1>1, <1>2, <1>3, <1>4, NothingMoves DEF Kept, BookInv

LEMMA BookStepIs ==
  ASSUME BookInv, BookStep
  PROVE  Kept
<1>1. CASE \E r \in Requests : StoreRule(r.kind, r.value, r.group, r.source)
  BY <1>1, StoreRuleStep
<1>2. CASE \E id \in DOMAIN rules : DeleteRule(id)
  BY <1>2, DeleteRuleStep
<1>3. CASE \E id \in DOMAIN rules, on \in BOOLEAN : SwitchRule(id, on)
  BY <1>3, SwitchRuleStep
<1>4. CASE \E name \in GroupNames, on \in BOOLEAN : SwitchGroup(name, on)
  BY <1>4, SwitchGroupStep
<1>5. CASE \E path \in NewSources : AddRoot(path)
  BY <1>5, AddRootStep, BookAssumption
<1>6. CASE \E r \in DOMAIN roots, on \in BOOLEAN : SwitchRoot(r, on)
  BY <1>6, SwitchRootStep
<1>7. CASE \E r \in DOMAIN roots : RemoveRoot(r)
  BY <1>7, RemoveRootStep
<1>8. CASE Reapply
  BY <1>8, ReapplyStep
<1>9. CASE \E f \in DOMAIN rows : \E rule \in {ImageRule(f), FolderRule(f)} : Exclude(rule)
  BY <1>9, ExcludeStep
<1>10. CASE UndoExclusion
  BY <1>10, UndoExclusionStep
<1>11. CASE \E f, g \in Files : Rename(f, g)
  BY <1>11, RenameStep
<1>12. CASE \E f \in Files, dims \in Looks : Edit(f, dims)
  BY <1>12, EditStep
<1>. QED
  BY <1>1, <1>2, <1>3, <1>4, <1>5, <1>6, <1>7, <1>8, <1>9, <1>10, <1>11, <1>12 DEF BookStep

\* The application starts again, and its release seeds its groups.
LEMMA RestartStep ==
  ASSUME BookInv, NEW next \in DOMAIN Releases, Restart(next)
  PROVE  Kept
<1>. DEFINE seeded == SeedBuiltins(Tables, Releases[next])
            gone == DOMAIN rules \ DOMAIN seeded.rules
<1>1. /\ Counts /\ release' = next /\ rules' = seeded.rules /\ groups' = seeded.groups
      /\ rows' = Unflagged(rows, gone) /\ owed' = 0 /\ scanning' = Idle /\ token' = None
      /\ UNCHANGED <<roots, disk, late>>
  BY DEF Restart
<1>2. Keyed(seeded, DOMAIN roots)
  <2>1. Keyed(Tables, DOMAIN roots) /\ DOMAIN roots \in SUBSET Nat
    BY RuleIdsAre DEF BookInv, BookRight
  <2>. QED
    BY <2>1, SeedBuiltinsIs
<1>. HIDE DEF seeded
<1>3. Keyed(Tables, DOMAIN roots)'
  BY <1>1, <1>2 DEF Tables, Keyed
<1>4. BookRight'
  BY <1>1, <1>3 DEF BookInv, BookRight, Ids, Idle
<1>5. CountsRight'
  BY <1>1, BookAssumption DEF BookInv, CountsRight, Counts
<1>6. RowsRight(rows', DOMAIN rules \ gone) /\ SameImages(rows, rows')
  <2>1. DOMAIN rules \subseteq Nat
    BY RuleIdsAre DEF BookInv
  <2>. QED
    BY <1>1, <2>1, UnflaggedIs DEF BookInv, CatalogueRight
<1>7. RowsRight(rows', DOMAIN rules')
  BY <1>1, <1>6, RowsMore
<1>8. DiskRight' /\ CatalogueRight'
  BY <1>1, <1>7 DEF BookInv, DiskRight, CatalogueRight
<1>. QED
  BY <1>4, <1>5, <1>6, <1>8 DEF Kept, BookInv

LEMMA ScanBeginsStep ==
  ASSUME BookInv, ScanBegins \/ ScanReadsRules
  PROVE  Kept /\ UNCHANGED rows
<1>1. /\ UNCHANGED <<release, groups, rules, roots, rows, disk, owed, token, stale, late, changes>>
      /\ scanning'.stage \in {"begun", "walking"}
  BY DEF ScanBegins, ScanReadsRules
<1>2. BookRight'
  BY <1>1 DEF BookInv, BookRight, Tables
<1>3. CountsRight' /\ DiskRight' /\ CatalogueRight'
  BY <1>1 DEF BookInv, CountsRight, DiskRight, CatalogueRight
<1>. QED
  BY <1>1, <1>2, <1>3, NothingMoves DEF Kept, BookInv
\* An image that moved was in one place, which it has left for one place.
LEMMA MovedIs ==
  ASSUME BookInv
  PROVE  /\ \A g \in DOMAIN disk : \A f \in MovedFrom(g) :
                f \in DOMAIN rows /\ f \notin DOMAIN disk /\ rows[f].inode = disk[g].inode
         /\ \A g \in DOMAIN disk : \A f, h \in MovedFrom(g) : f = h
         /\ \A g, k \in DOMAIN disk : \A f \in MovedFrom(g) \cap MovedFrom(k) : g = k
<1>1. ASSUME NEW g \in DOMAIN disk, NEW f \in MovedFrom(g)
      PROVE  f \in DOMAIN rows /\ f \notin DOMAIN disk /\ rows[f].inode = disk[g].inode
  BY DEF MovedFrom
<1>2. ASSUME NEW g \in DOMAIN disk, NEW f \in MovedFrom(g), NEW h \in MovedFrom(g)
      PROVE  f = h
  <2>1. rows[f].id <= rows[h].id /\ rows[h].id <= rows[f].id /\ f \in DOMAIN rows /\ h \in DOMAIN rows
    BY DEF MovedFrom
  <2>2. rows[f].id \in Nat /\ rows[h].id \in Nat
    BY <2>1 DEF BookInv, CatalogueRight, RowsRight, ImageRows
  <2>3. rows[f].id = rows[h].id
    BY <2>1, <2>2
  <2>. QED
    BY <2>1, <2>3 DEF BookInv, CatalogueRight, RowsRight
<1>3. ASSUME NEW g \in DOMAIN disk, NEW k \in DOMAIN disk, NEW f \in MovedFrom(g) \cap MovedFrom(k)
      PROVE  g = k
  BY <1>1 DEF BookInv, DiskRight
<1>. QED
  BY <1>1, <1>2, <1>3

\* What a scan met keeps the ids apart and loses none.
LEMMA StoreMetIs ==
  ASSUME BookInv, NEW met \in SUBSET DOMAIN disk, StoreMet(met, MovedAmong(met))
  PROVE  RowsRight(rows', DOMAIN rules) /\ IdsIn(rows) \subseteq IdsIn(rows')
<1>. DEFINE moved == MovedAmong(met)
            left == UNION {MovedFrom(g) : g \in moved}
            fresh == met \ (moved \cup DOMAIN rows)
            order == SetToSeq(fresh)
            top == Max({0} \cup {rows[f].id : f \in DOMAIN rows})
            old(f) == CHOOSE x \in MovedFrom(f) : TRUE
            place(f) == CHOOSE i \in DOMAIN order : order[i] = f
            orig(f) == IF f \in moved THEN old(f) ELSE f
            D == (DOMAIN rows \ left) \cup met
<1>1. rows' = [f \in D |->
                 IF f \in moved THEN rows[old(f)]
                 ELSE IF f \in fresh
                 THEN [id |-> top + place(f), by |-> None, inode |-> disk[f].inode,
                       dims |-> disk[f].dims]
                 ELSE IF f \in met THEN [rows[f] EXCEPT !.dims = disk[f].dims]
                 ELSE rows[f]]
  BY DEF StoreMet
<1>2. /\ moved \subseteq met \ DOMAIN rows /\ \A g \in moved : old(g) \in MovedFrom(g)
      /\ \A f \in left : \E g \in moved : f \in MovedFrom(g)
      /\ \A g \in moved : MovedFrom(g) \subseteq left
  BY DEF MovedAmong
<1>3. /\ rows \in [DOMAIN rows -> ImageRows] /\ DOMAIN rows \subseteq Files
      /\ IsFiniteSet(DOMAIN rows) /\ disk \in [DOMAIN disk -> DiskRows]
      /\ DOMAIN disk \subseteq Files /\ IsFiniteSet(DOMAIN disk)
      /\ \A f, g \in DOMAIN rows : rows[f].id = rows[g].id => f = g
      /\ \A f \in DOMAIN rows : rows[f].by \in DOMAIN rules \cup {None}
  BY DEF BookInv, CatalogueRight, RowsRight, DiskRight
<1>4. top \in Nat /\ \A f \in DOMAIN rows : rows[f].id <= top
  <2>. DEFINE T == {0} \cup {rows[f].id : f \in DOMAIN rows}
  <2>1. PICK b \in Nat : IdsIn(rows) \subseteq 0 .. b
    BY DEF BookInv, CatalogueRight, RowsRight
  <2>2. T \in SUBSET (0 .. b) /\ T # {} /\ \A f \in DOMAIN rows : rows[f].id \in T
    BY <2>1 DEF IdsIn
  <2>. HIDE DEF T
  <2>3. Max(T) \in T /\ \A x \in T : x <= Max(T)
    BY <2>1, <2>2, MaxIsIn
  <2>4. top = Max(T)
    BY DEF T
  <2>. HIDE DEF top
  <2>5. top \in Nat
    <3>1. top \in T /\ T \subseteq 0 .. b
      BY <2>2, <2>3, <2>4
    <3>2. top \in 0 .. b
      BY <3>1
    <3>. QED
      BY <2>1, <3>2
  <2>6. \A f \in DOMAIN rows : rows[f].id <= top
    BY <2>2, <2>3, <2>4
  <2>. QED
    BY <2>5, <2>6
<1>5. IsFiniteSet(fresh) /\ fresh \subseteq met /\ fresh \cap DOMAIN rows = {}
  BY <1>3, FS_Subset
<1>. DEFINE n == Cardinality(fresh)
<1>6. /\ n \in Nat
      /\ \A f \in fresh : place(f) \in 1 .. n
      /\ \A f, g \in fresh : place(f) = place(g) => f = g
  <2>. HIDE DEF fresh
  <2>1. /\ n \in Nat /\ DOMAIN order = 1 .. n
        /\ \A x \in fresh : \E i \in DOMAIN order : order[i] = x
    BY <1>5, SequenceOfSet
  <2>2. \A f \in fresh : place(f) \in DOMAIN order /\ order[place(f)] = f
    BY <2>1
  <2>. QED
    BY <2>1, <2>2
<1>. HIDE DEF moved, left, order, top, place, old, n
<1>7. ASSUME NEW f \in D \ fresh
      PROVE  /\ orig(f) \in DOMAIN rows /\ rows'[f].id = rows[orig(f)].id
             /\ rows'[f].by = rows[orig(f)].by
             /\ rows'[f] \in ImageRows
  <2>1. CASE f \in moved
    <3>1. orig(f) = old(f) /\ old(f) \in DOMAIN rows
      BY <1>2, <2>1, MovedIs
    <3>2. rows'[f] = rows[old(f)]
      BY <1>1, <2>1
    <3>. QED
      BY <1>3, <3>1, <3>2
  <2>2. CASE f \notin moved
    <3>1. f \in DOMAIN rows /\ orig(f) = f
      BY <2>2
    <3>2. rows'[f] = IF f \in met THEN [rows[f] EXCEPT !.dims = disk[f].dims] ELSE rows[f]
      BY <1>1, <2>2
    <3>3. rows[f] \in ImageRows /\ (f \in met => disk[f].dims \in Measures)
      BY <1>3, <3>1 DEF DiskRows
    <3>. QED
      BY <3>1, <3>2, <3>3 DEF ImageRows
  <2>. QED
    BY <2>1, <2>2
<1>8. ASSUME NEW f \in fresh
      PROVE  /\ rows'[f] \in ImageRows /\ rows'[f].id = top + place(f) /\ rows'[f].by = None
  <2>1. rows'[f] = [id |-> top + place(f), by |-> None, inode |-> disk[f].inode,
                    dims |-> disk[f].dims]
    <3>1. f \notin moved /\ f \in D
      BY <1>5
    <3>. QED
      BY <1>1, <3>1
  <2>2. f \in DOMAIN disk
    BY <1>5
  <2>3. disk[f].inode \in Nat /\ disk[f].dims \in Measures
    BY <1>3, <2>2 DEF DiskRows
  <2>4. top + place(f) \in Nat
    BY <1>4, <1>6
  <2>. QED
    BY <2>1, <2>3, <2>4 DEF ImageRows, Ids
<1>9. ASSUME NEW f \in D \ fresh, NEW g \in D \ fresh, orig(f) = orig(g)
      PROVE  f = g
  <2>1. CASE f \in moved /\ g \in moved
    BY <1>2, <1>9, <2>1, MovedIs
  <2>2. ASSUME NEW x \in moved, NEW y \in D, y \notin moved, old(x) = y PROVE FALSE
    <3>1. y \in MovedFrom(x) /\ y \in left /\ x \in DOMAIN disk
      BY <1>2, <2>2
    <3>2. y \notin DOMAIN disk
      BY <3>1, MovedIs
    <3>. QED
      BY <3>1, <3>2
  <2>3. CASE f \in moved /\ g \notin moved
    BY <1>9, <2>2, <2>3
  <2>4. CASE f \notin moved /\ g \in moved
    BY <1>9, <2>2, <2>4
  <2>5. CASE f \notin moved /\ g \notin moved
    BY <1>9, <2>5
  <2>. QED
    BY <2>1, <2>3, <2>4, <2>5
<1>10. DOMAIN rows' = D
  BY <1>1
<1>. HIDE DEF fresh
<1>11. \A f, g \in D : rows'[f].id = rows'[g].id => f = g
  <2>1. ASSUME NEW f \in D \ fresh, NEW g \in D \ fresh, rows'[f].id = rows'[g].id PROVE f = g
    BY <1>3, <1>7, <1>9, <2>1
  <2>2. ASSUME NEW f \in fresh, NEW g \in fresh, rows'[f].id = rows'[g].id PROVE f = g
    <3>1. top + place(f) = top + place(g)
      BY <1>8, <2>2
    <3>2. place(f) = place(g)
      BY <1>4, <1>6, <3>1
    <3>. QED
      BY <1>6, <3>2
  <2>3. ASSUME NEW f \in fresh, NEW g \in D \ fresh PROVE rows'[f].id # rows'[g].id
    <3>1. rows[orig(g)].id <= top /\ rows'[g].id = rows[orig(g)].id /\ rows[orig(g)].id \in Nat
      BY <1>3, <1>4, <1>7 DEF ImageRows
    <3>2. top < top + place(f)
      BY <1>4, <1>6
    <3>. QED
      BY <1>4, <1>6, <1>8, <3>1, <3>2
  <2>. QED
    BY <2>1, <2>2, <2>3
<1>12. D \subseteq Files /\ IsFiniteSet(D)
  <2>1. IsFiniteSet(DOMAIN rows \ left) /\ IsFiniteSet(met)
    BY <1>3, FS_Subset
  <2>. QED
    BY <1>3, <2>1, FS_Union
<1>13. rows' \in [D -> ImageRows]
  <2>1. \A f \in D : rows'[f] \in ImageRows
    BY <1>7, <1>8
  <2>2. rows' = [f \in D |-> rows'[f]]
    <3>. HIDE DEF D
    <3>. QED
      BY <1>1
  <2>. HIDE DEF D
  <2>. QED
    BY <2>1, <2>2
<1>14. \A f \in D : rows'[f].by \in DOMAIN rules \cup {None}
  BY <1>3, <1>7, <1>8
<1>15. IdsIn(rows') \subseteq 0 .. top + n /\ top + n \in Nat
  <2>1. \A f \in D : rows'[f].id \in Nat /\ rows'[f].id <= top + n
    <3>. TAKE f \in D
    <3>1. CASE f \in fresh
      BY <1>4, <1>6, <1>8, <3>1
    <3>2. CASE f \notin fresh
      <4>1. rows[orig(f)].id <= top /\ rows'[f].id = rows[orig(f)].id /\ rows[orig(f)].id \in Nat
        BY <1>3, <1>4, <1>7, <3>2 DEF ImageRows
      <4>. QED
        BY <1>4, <1>6, <4>1
    <3>. QED
      BY <3>1, <3>2
  <2>. HIDE DEF D
  <2>2. top + n \in Nat
    BY <1>4, <1>6
  <2>. QED
    BY <1>10, <2>1, <2>2 DEF IdsIn
<1>16. IdsIn(rows) \subseteq IdsIn(rows')
  <2>. SUFFICES ASSUME NEW x \in DOMAIN rows PROVE rows[x].id \in IdsIn(rows')
    BY DEF IdsIn
  <2>1. CASE x \in left
    <3>1. PICK g \in moved : x \in MovedFrom(g)
      BY <1>2, <2>1
    <3>2. old(g) = x
      BY <1>2, <3>1, MovedIs
    <3>3. g \in D /\ rows'[g] = rows[x]
      BY <1>1, <1>2, <3>2
    <3>. QED
      BY <1>10, <3>3 DEF IdsIn
  <2>2. CASE x \notin left
    <3>1. x \in D \ fresh /\ orig(x) = x
      BY <1>2, <1>5, <2>2
    <3>2. rows'[x].id = rows[x].id
      BY <1>7, <3>1
    <3>. QED
      BY <1>10, <3>1, <3>2 DEF IdsIn
  <2>. QED
    BY <2>1, <2>2
<1>. QED
  BY <1>10, <1>11, <1>12, <1>13, <1>14, <1>15, <1>16 DEF RowsRight
\* What the walks of a scan meet are images on disk.
LEMMA StoredIs ==
  ASSUME NEW m, NEW sources
  PROVE  StoredOf([r \in DOMAIN sources |-> WalkedFrom(m, sources[r].path, disk)])
            \in SUBSET DOMAIN disk
<1>. DEFINE metAt == [r \in DOMAIN sources |-> WalkedFrom(m, sources[r].path, disk)]
<1>1. \A r \in DOMAIN metAt : metAt[r] \subseteq DOMAIN disk
  BY DEF WalkedFrom
<1>. HIDE DEF metAt
<1>2. StoredOf(metAt) \subseteq DOMAIN disk
  BY <1>1 DEF StoredOf
<1>. QED
  BY <1>2 DEF metAt

LEMMA ScanStoresStep ==
  ASSUME IInv, ScanStores
  PROVE  IInv'
<1>. DEFINE sources == scanning.sources
            met == StoredOf([r \in DOMAIN sources |->
                        WalkedFrom(scanning.matcher, sources[r].path, disk)])
            upserted == {f \in DOMAIN rows' : f \in DOMAIN rows => rows'[f] # rows[f]}
            S == {rows'[f].id : f \in upserted}
<1>1. /\ StoreMet(met, MovedAmong(met)) /\ scanning' = Idle
      /\ UNCHANGED <<release, groups, rules, roots, disk, owed, token, stale, changes>>
      /\ ideal' = Rebuild(ideal, DimsOf(rows'), displays, threshold, S)
      /\ UNCHANGED <<desk, displays, pins, threshold, held, saved>>
  BY DEF ScanStores, ScanEnds
<1>2. BookInv /\ FitRight
  BY DEF IInv
<1>3. RowsRight(rows', DOMAIN rules) /\ IdsIn(rows) \subseteq IdsIn(rows')
  <2>1. met \in SUBSET DOMAIN disk
    BY StoredIs
  <2>. HIDE DEF met
  <2>. QED
    BY <1>1, <1>2, <2>1, StoreMetIs
<1>. HIDE DEF met
<1>4. BookRight'
  BY <1>1, <1>2 DEF BookInv, BookRight, Idle, Tables
<1>5. CountsRight' /\ DiskRight' /\ CatalogueRight'
  BY <1>1, <1>2, <1>3 DEF BookInv, CountsRight, DiskRight, CatalogueRight
<1>6. AllFresh(ideal, rows, displays)
  BY <1>2 DEF FitRight
<1>7. \A f \in DOMAIN rows' : \A d \in Connected(displays) :
        rows'[f].id \notin S => Fresh(ideal, rows'[f], displays, d)
  <2>. TAKE f \in DOMAIN rows'
  <2>. TAKE d \in Connected(displays)
  <2>. SUFFICES ASSUME rows'[f].id \notin S PROVE Fresh(ideal, rows'[f], displays, d)
    OBVIOUS
  <2>1. f \notin upserted
    OBVIOUS
  <2>2. f \in DOMAIN rows /\ rows'[f] = rows[f]
    BY <2>1
  <2>3. Fresh(ideal, rows[f], displays, d)
    BY <1>6, <2>2 DEF AllFresh
  <2>. QED
    BY <2>2, <2>3
<1>8. DOMAIN ideal \subseteq (IdsIn(rows') \cup S) \X DOMAIN displays
  BY <1>3, <1>6 DEF AllFresh
<1>. HIDE DEF S
<1>9. AllFresh(ideal', rows', displays)
  BY <1>1, <1>3, <1>7, <1>8, RebuildIs
<1>10. AllFresh(ideal, rows, displays)'
  BY <1>1, <1>9 DEF AllFresh, Fresh
<1>11. FitRight'
  BY <1>1, <1>2, <1>3, <1>10 DEF FitRight, HeldRight
<1>. QED
  BY <1>4, <1>5, <1>11 DEF IInv, BookInv

\* A detection becomes the displays; the images are judged anew unless the
\* connected ones are those there were.
LEMMA StoreMeasurementStep ==
  ASSUME IInv, NEW who \in {"scan", "tool"}, StoreMeasurement(who), UNCHANGED rows
  PROVE  FitRight'
<1>. DEFINE targets == held[who].targets
            table == SaveDisplaySnapshot(displays, targets)
<1>1. /\ displays' = table /\ ideal' = RebuildIfChanged(table)
      /\ held' = [held EXCEPT ![who] = Nothing] /\ UNCHANGED <<desk, pins, threshold>>
  BY DEF StoreMeasurement
<1>2. FitRight /\ RowsRight(rows, DOMAIN rules)
  BY DEF IInv, BookInv, CatalogueRight
<1>3. Grown(displays, table)
  BY <1>2, SnapshotIs DEF FitRight, HeldRight
<1>. HIDE DEF table
<1>4. table \in Table(DisplayRows) /\ DOMAIN displays \subseteq DOMAIN table
  BY <1>3 DEF Grown
<1>5. AllFresh(ideal, rows, displays)
  BY <1>2 DEF FitRight
<1>6. DOMAIN ideal \subseteq (IdsIn(rows) \cup Images) \X DOMAIN table
  BY <1>4, <1>5 DEF AllFresh
<1>7. AllFresh(ideal', rows, table)
  <2>1. CASE Connected(table) = Connected(displays)
    <3>1. ideal' = ideal
      BY <1>1, <2>1 DEF RebuildIfChanged
    <3>2. \A d \in Connected(table) : d \in DOMAIN displays /\ table[d].size = displays[d].size
      BY <1>3, <2>1 DEF Connected, Grown
    <3>3. AllFresh(ideal, rows, table)
      BY <1>4, <1>5, <2>1, <3>2 DEF AllFresh, Fresh
    <3>. QED
      BY <3>1, <3>3
  <2>2. CASE Connected(table) # Connected(displays)
    <3>1. ideal' = Rebuild(ideal, DimsOf(rows), table, threshold, Images)
      BY <1>1, <2>2 DEF RebuildIfChanged
    <3>2. \A f \in DOMAIN rows : rows[f].id \in Images
      BY DEF Images
    <3>3. \A f \in DOMAIN rows : \A d \in Connected(table) :
            rows[f].id \notin Images => Fresh(ideal, rows[f], table, d)
      BY <3>2
    <3>. HIDE DEF Images
    <3>. QED
      BY <1>2, <1>6, <3>1, <3>3, RebuildIs
  <2>. QED
    BY <2>1, <2>2
<1>8. AllFresh(ideal, rows, displays)'
  BY <1>1, <1>7 DEF AllFresh, Fresh
<1>9. \A w \in {"scan", "tool"} : held'[w].targets \in Seq(Found)
  <2>1. Nothing.targets \in Seq(Found)
    BY DEF Nothing
  <2>. QED
    BY <1>1, <1>2, <2>1 DEF FitRight, HeldRight
<1>10. held' = [w \in {"scan", "tool"} |-> held'[w]]
  BY <1>1, <1>2 DEF FitRight, HeldRight
<1>11. HeldRight'
  BY <1>9, <1>10 DEF HeldRight
<1>. QED
  BY <1>1, <1>2, <1>4, <1>8, <1>11 DEF FitRight
-----------------------------------------------------------------------------
\* The beginning.

LEMMA FirstRowsAre == RowsRight(FirstRows, {})
<1>. DEFINE ids == SetToSeq(Catalogued)
            place(f) == CHOOSE i \in DOMAIN ids : ids[i] = f
            n == Cardinality(Catalogued)
<1>1. /\ Catalogued \subseteq DOMAIN Disk /\ DOMAIN Disk \subseteq Files
      /\ IsFiniteSet(DOMAIN Disk)
      /\ \A f \in DOMAIN Disk : Disk[f].inode \in Nat /\ Disk[f].dims \in Measures
  BY BookAssumption, DesktopAssumption
<1>2. IsFiniteSet(Catalogued)
  BY <1>1, FS_Subset
<1>3. /\ n \in Nat /\ \A f \in Catalogued : place(f) \in 1 .. n
      /\ \A f, g \in Catalogued : place(f) = place(g) => f = g
  <2>1. /\ n \in Nat /\ DOMAIN ids = 1 .. n
        /\ \A x \in Catalogued : \E i \in DOMAIN ids : ids[i] = x
    BY <1>2, SequenceOfSet
  <2>. HIDE DEF ids
  <2>2. \A f \in Catalogued : place(f) \in DOMAIN ids /\ ids[place(f)] = f
    BY <2>1
  <2>. QED
    BY <2>1, <2>2
<1>4. FirstRows = [f \in Catalogued |-> [id |-> place(f), by |-> None,
                                         inode |-> Disk[f].inode, dims |-> Disk[f].dims]]
  BY DEF FirstRows
<1>. HIDE DEF place, n
<1>5. \A f \in Catalogued : [id |-> place(f), by |-> None, inode |-> Disk[f].inode,
                             dims |-> Disk[f].dims] \in ImageRows
  BY <1>1, <1>3 DEF ImageRows, Ids
<1>6. /\ DOMAIN FirstRows = Catalogued /\ FirstRows \in [Catalogued -> ImageRows]
      /\ \A f \in Catalogued : FirstRows[f].by = None /\ FirstRows[f].id = place(f)
  BY <1>4, <1>5
<1>7. IdsIn(FirstRows) \subseteq 0 .. n
  BY <1>3, <1>6 DEF IdsIn
<1>. QED
  BY <1>1, <1>2, <1>3, <1>6, <1>7 DEF RowsRight

LEMMA NoRows ==
  ASSUME NEW Row
  PROVE  <<>> \in Table(Row) /\ DOMAIN <<>> = {}
<1>1. DOMAIN <<>> = {} /\ <<>> \in [{} -> Row]
  OBVIOUS
<1>2. {} \subseteq 1 .. 0
  OBVIOUS
<1>. QED
  BY <1>1, <1>2, TableIs DEF Bounded

LEMMA InitIsRight == JInit => IInv
<1>. SUFFICES ASSUME JInit PROVE IInv
  OBVIOUS
<1>1. Init
  BY DEF JInit
<1>2. roots \in Table(RootRows)
  <2>1. roots = [i \in DOMAIN Sources |-> [path |-> Sources[i], enabled |-> TRUE]]
    BY <1>1 DEF Init
  <2>2. Sources \in Seq(Seq(Names) \ Files)
    BY BookAssumption
  <2>3. DOMAIN Sources = 1 .. Len(Sources) /\ Len(Sources) \in Nat
    BY <2>2
  <2>4. \A i \in DOMAIN Sources : Sources[i] \in Seq(Names) \ Files
    BY <2>2
  <2>5. roots \in [DOMAIN Sources -> RootRows] /\ DOMAIN roots = DOMAIN Sources
    BY <2>1, <2>4 DEF RootRows
  <2>. QED
    BY <2>3, <2>5, TableIs DEF Bounded
<1>3. DOMAIN roots \in SUBSET Nat
  <2>1. Bounded(DOMAIN roots)
    BY <1>2, TableIs
  <2>. QED
    BY <2>1, IdsOf
<1>. DEFINE none == [rules |-> <<>>, groups |-> <<>>]
            seeded == SeedBuiltins(none, Builtins)
<1>4. Keyed(none, DOMAIN roots)
  BY NoRows, TablesAre
<1>5. 1 \in DOMAIN Releases /\ Builtins = Releases[1] /\ release = 1
  BY <1>1, BookAssumption DEF Init, Builtins
<1>. HIDE DEF none
<1>6. Keyed(seeded, DOMAIN roots)
  BY <1>3, <1>4, <1>5, SeedBuiltinsIs
<1>7. \E tables \in FirstTables : rules = tables.rules /\ groups = tables.groups
  BY <1>1 DEF Init
<1>8. \A tables \in FirstTables : Keyed([rules |-> tables.rules, groups |-> tables.groups], DOMAIN roots)
  <2>. TAKE tables \in FirstTables
  <2>. DEFINE begun == {AddRule(seeded, r.kind, r.value, r.group, r.source, r.inode) : r \in Begun}
  <2>1. tables = seeded \/ (tables \in begun /\ tables.ok)
    BY DEF FirstTables, none
  <2>2. CASE tables = seeded
    BY <1>6, <2>2 DEF Keyed
  <2>3. CASE tables \in begun /\ tables.ok
    <3>1. PICK r \in Begun : tables = AddRule(seeded, r.kind, r.value, r.group, r.source, r.inode)
      BY <2>3
    <3>2. r.group \in {x.group : x \in Requests \cup Begun}
      OBVIOUS
    <3>3. r.group \in NameSet \cup {None}
      BY <3>2 DEF NameSet
    <3>4. [kind |-> r.kind, value |-> r.value] \in RuleText /\ r.inode \in Ids
      BY BookAssumption DEF Ids
    <3>5. AddRule(seeded, r.kind, r.value, r.group, r.source, r.inode).ok
      BY <2>3, <3>1
    <3>. HIDE DEF seeded
    <3>. QED
      BY <1>2, <1>6, <3>1, <3>3, <3>4, <3>5, AddRuleIs
  <2>. QED
    BY <2>1, <2>2, <2>3
<1>9. Keyed(Tables, DOMAIN roots)
  BY <1>7, <1>8 DEF Tables
<1>10. BookRight
  BY <1>1, <1>2, <1>5, <1>9 DEF BookRight, Init, Ids, Idle
<1>11. CountsRight
  BY <1>1, BookAssumption DEF CountsRight, Init
<1>12. DiskRight
  <2>1. {Disk[f].dims : f \in DOMAIN Disk} \subseteq Measures
    BY DesktopAssumption
  <2>2. Disk \in [DOMAIN Disk -> DiskRows]
    BY <2>1, BookAssumption DEF DiskRows
  <2>3. \A f, g \in DOMAIN Disk : Disk[f].inode = Disk[g].inode => f = g
    BY BookAssumption
  <2>4. disk = Disk /\ DOMAIN Disk \subseteq Files /\ IsFiniteSet(DOMAIN Disk)
    BY <1>1, BookAssumption DEF Init
  <2>. QED
    BY <2>2, <2>3, <2>4 DEF DiskRight
<1>13. RowsRight(rows, DOMAIN rules)
  <2>1. rows = ApplyExclusions(FirstRows, rules, groups, roots) /\ DOMAIN rules \subseteq Nat
    BY <1>1, <1>10, RuleIdsAre DEF Init
  <2>. QED
    BY <2>1, FirstRowsAre, FlaggedIs
<1>14. BookInv
  BY <1>10, <1>11, <1>12, <1>13 DEF BookInv, CatalogueRight
<1>15. desk \in Desks /\ threshold \in Thresholds
  BY DesktopAssumption DEF JInit
<1>16. saved.targets \in Seq(Found)
  <2>. DEFINE probes == GuiProbes(Reported(desk))
  <2>1. probes \in Seq(Probe)
    BY <1>15, ProbesAre
  <2>2. <<>> \in Seq(Found)
    OBVIOUS
  <2>3. saved.targets = Detect(probes, <<>>)
    BY DEF JInit
  <2>. HIDE DEF probes
  <2>. QED
    BY <2>1, <2>2, <2>3, DetectIs
<1>17. displays \in Table(DisplayRows)
  <2>1. displays = SaveDisplaySnapshot(<<>>, saved.targets)
    BY DEF JInit
  <2>. QED
    BY <1>16, <2>1, NoRows, SnapshotIs DEF Grown
<1>18. AllFresh(ideal, rows, displays)
  <2>1. ideal = Rebuild(<<>>, DimsOf(rows), displays, threshold, Images)
    BY DEF JInit
  <2>2. \A f \in DOMAIN rows : rows[f].id \in Images
    BY DEF Images
  <2>3. \A f \in DOMAIN rows : \A d \in Connected(displays) :
          rows[f].id \notin Images => Fresh(<<>>, rows[f], displays, d)
    BY <2>2
  <2>4. DOMAIN <<>> \subseteq (IdsIn(rows) \cup Images) \X DOMAIN displays
    BY NoRows
  <2>. HIDE DEF Images
  <2>. QED
    BY <1>13, <2>1, <2>3, <2>4, RebuildIs
<1>19. HeldRight /\ DOMAIN pins \subseteq IdsIn(rows)
  <2>1. held = [who \in {"scan", "tool"} |-> Nothing] /\ pins = <<>>
    BY DEF JInit
  <2>2. Nothing.targets = <<>> /\ <<>> \in Seq(Found)
    BY DEF Nothing
  <2>3. HeldRight
    BY <2>1, <2>2 DEF HeldRight
  <2>. QED
    BY <2>1, <2>3, NoRows
<1>. QED
  BY <1>14, <1>15, <1>17, <1>18, <1>19 DEF IInv, FitRight
-----------------------------------------------------------------------------
\* The steps.

\* A measurement is kept until it is stored.
LEMMA MeasuresStep ==
  ASSUME IInv, NEW who \in {"scan", "tool"}, NEW gui \in BOOLEAN, NEW sizes \in Declarations,
         Counts, held' = [held EXCEPT ![who] = Measurement(gui, sizes)],
         UNCHANGED <<release, groups, rules, roots, rows, disk, owed, scanning, token, stale,
                     late, desk, displays, ideal, pins, threshold, saved>>
  PROVE  IInv'
<1>1. BookInv /\ FitRight
  BY DEF IInv
<1>2. BookInv'
  <2>1. CountsRight'
    BY <1>1, BookAssumption DEF BookInv, CountsRight, Counts
  <2>. QED
    BY <1>1, <2>1 DEF BookInv, BookRight, DiskRight, CatalogueRight, Tables
<1>3. Measurement(gui, sizes).targets \in Seq(Found)
  BY <1>1, MeasurementIs DEF FitRight
<1>4. HeldRight'
  <2>. DEFINE m == Measurement(gui, sizes)
  <2>1. m.targets \in Seq(Found)
    BY <1>3
  <2>. HIDE DEF m
  <2>2. held' = [held EXCEPT ![who] = m]
    BY DEF m
  <2>. QED
    BY <1>1, <2>1, <2>2 DEF FitRight, HeldRight
<1>. QED
  BY <1>1, <1>2, <1>4, NothingMoves, FitKept DEF IInv, FitRight

LEMMA SetPinStep ==
  ASSUME IInv, NEW f \in Files, NEW pin, SetPin(f, pin)
  PROVE  IInv'
<1>1. BookInv /\ FitRight
  BY DEF IInv
<1>2. /\ Counts /\ f \in DOMAIN rows
      /\ pins' = IF pin = "none" THEN Restrict(pins, DOMAIN pins \ {rows[f].id})
                 ELSE Store(pins, rows[f].id, pin)
      /\ UNCHANGED <<release, groups, rules, roots, rows, disk, owed, scanning,
                     token, stale, late, desk, displays, ideal, threshold, held, saved>>
  BY DEF SetPin
<1>3. BookInv'
  <2>1. CountsRight'
    BY <1>1, <1>2, BookAssumption DEF BookInv, CountsRight, Counts
  <2>. QED
    BY <1>1, <1>2, <2>1 DEF BookInv, BookRight, DiskRight, CatalogueRight, Tables
<1>4. DOMAIN pins' \subseteq IdsIn(rows)
  <2>1. rows[f].id \in IdsIn(rows)
    BY <1>2 DEF IdsIn
  <2>. QED
    BY <1>1, <1>2, <2>1 DEF FitRight, Restrict, Store
<1>5. HeldRight'
  BY <1>1, <1>2 DEF FitRight, HeldRight
<1>. QED
  BY <1>1, <1>2, <1>3, <1>4, <1>5, NothingMoves, FitKept DEF IInv, FitRight

\* What the Sources page proposes are directories.
LEMMA ProposalsAre ==
  ASSUME desk \in Desks, NEW known, NEW p \in Proposals(desk, known)
  PROVE  p.path \in Seq(Names) \ Files
<1>1. desk.dirs \subseteq Seq(Names) \ Files
  BY DesktopAssumption
<1>2. \A kind, wanted : \A q \in Folders(desk, kind, wanted) : q.path \in desk.dirs
  BY DEF Folders, Proposal, WithoutNested, Usable
<1>3. \A q \in Volumes(desk) : q.path \in desk.dirs
  BY DEF Volumes
<1>4. \A i \in DOMAIN DefaultSources(desk) : \A q \in DefaultSources(desk)[i] : q.path \in desk.dirs
  BY <1>2, <1>3 DEF DefaultSources
<1>5. PICK i \in DOMAIN DefaultSources(desk) : p \in DefaultSources(desk)[i]
  BY DEF Proposals, ProposeAll
<1>. QED
  BY <1>1, <1>4, <1>5

LEMMA InvariantKept == IInv /\ [JNext]_vars => IInv'
<1>. SUFFICES ASSUME IInv, [JNext]_vars PROVE IInv'
  OBVIOUS
<1>1. BookInv /\ FitRight
  BY DEF IInv
<1>2. ASSUME Kept, UNCHANGED fitVars PROVE IInv'
  <2>1. BookInv' /\ SameImages(rows, rows')
    BY <1>2 DEF Kept
  <2>2. UNCHANGED <<desk, displays, ideal, pins, threshold, held, saved>>
    BY <1>2 DEF fitVars
  <2>3. FitRight'
    BY <1>1, <2>1, <2>2, FitKept DEF FitRight, HeldRight
  <2>. QED
    BY <2>1, <2>3 DEF IInv
<1>3. CASE BookStep /\ UNCHANGED fitVars
  BY <1>1, <1>2, <1>3, BookStepIs
<1>4. CASE ScanReadsRules /\ UNCHANGED fitVars
  BY <1>1, <1>2, <1>4, ScanBeginsStep
<1>5. CASE \E gui \in BOOLEAN, sizes \in Declarations : ScanMeasures(gui, sizes)
  BY <1>5, MeasuresStep DEF ScanMeasures
<1>6. CASE ScanStarts
  <2>1. ScanBegins /\ StoreMeasurement("scan")
    BY <1>6 DEF ScanStarts
  <2>2. Kept /\ UNCHANGED rows
    BY <1>1, <2>1, ScanBeginsStep
  <2>3. FitRight'
    BY <2>1, <2>2, StoreMeasurementStep
  <2>. QED
    BY <2>2, <2>3 DEF IInv, Kept
<1>7. CASE ScanStores
  BY <1>7, ScanStoresStep
<1>8. CASE \E sizes \in Declarations : ToolMeasures(sizes)
  BY <1>8, MeasuresStep DEF ToolMeasures
<1>9. CASE ToolStores
  <2>1. StoreMeasurement("tool") /\ UNCHANGED bookVars
    BY <1>9 DEF ToolStores
  <2>2. BookInv' /\ UNCHANGED rows
    BY <1>1, <2>1 DEF bookVars, BookInv, CountsRight, BookRight, DiskRight, CatalogueRight, Tables
  <2>3. FitRight'
    BY <2>1, <2>2, StoreMeasurementStep
  <2>. QED
    BY <2>2, <2>3 DEF IInv
<1>10. CASE \E f \in Files, pin \in {"in", "out", "none"} : SetPin(f, pin)
  BY <1>10, SetPinStep
<1>11. CASE \E d \in Desks : Replug(d)
  <2>1. PICK d \in Desks : Replug(d)
    BY <1>11
  <2>2. /\ Counts /\ desk' \in Desks
        /\ UNCHANGED <<release, groups, rules, roots, rows, disk, owed, scanning,
                       token, stale, late, displays, ideal, pins, threshold, held, saved>>
    BY <2>1 DEF Replug
  <2>3. CountsRight'
    BY <1>1, <2>2, BookAssumption DEF BookInv, CountsRight, Counts
  <2>4. BookInv'
    BY <1>1, <2>2, <2>3 DEF BookInv, BookRight, DiskRight, CatalogueRight, Tables
  <2>5. FitRight'
    BY <1>1, <2>2, NothingMoves, FitKept DEF FitRight, HeldRight
  <2>. QED
    BY <2>4, <2>5 DEF IInv
<1>12. CASE \E p \in Proposals(desk, KnownPaths) : AddProposed(p)
  <2>1. PICK p \in Proposals(desk, KnownPaths) : AddRoot(p.path) /\ UNCHANGED fitVars
    BY <1>12 DEF AddProposed
  <2>2. p.path \in Seq(Names) \ Files
    BY <1>1, ProposalsAre DEF FitRight
  <2>. QED
    BY <1>1, <1>2, <2>1, <2>2, AddRootStep
<1>13. CASE \E next \in DOMAIN Releases : Reopen(next)
  <2>1. PICK next \in DOMAIN Releases : Reopen(next)
    BY <1>13
  <2>2. /\ Restart(next) /\ held' = [held EXCEPT !["scan"] = Nothing]
        /\ UNCHANGED <<desk, displays, ideal, pins, threshold, saved>>
    BY <2>1 DEF Reopen
  <2>3. BookInv' /\ SameImages(rows, rows')
    BY <1>1, <2>2, RestartStep DEF Kept
  <2>4. HeldRight'
    <3>1. Nothing.targets \in Seq(Found)
      BY DEF Nothing
    <3>. QED
      BY <1>1, <2>2, <3>1 DEF FitRight, HeldRight
  <2>5. FitRight'
    BY <1>1, <2>2, <2>3, <2>4, FitKept DEF FitRight
  <2>. QED
    BY <2>3, <2>5 DEF IInv
<1>14. CASE UNCHANGED vars
  BY <1>14 DEF vars, IInv, BookInv, CountsRight, BookRight, DiskRight, CatalogueRight, Tables,
               FitRight, HeldRight, AllFresh, Fresh
<1>. QED
  BY <1>3, <1>4, <1>5, <1>6, <1>7, <1>8, <1>9, <1>10, <1>11, <1>12, <1>13, <1>14 DEF JNext

LEMMA IInvAlways == Spec => []IInv
BY InitIsRight, InvariantKept, PTL DEF Spec

LEMMA IInvGivesType == IInv => TypeOK
<1>. SUFFICES ASSUME IInv PROVE TypeOK
  OBVIOUS
<1>1. /\ \A f \in DOMAIN rows : rows[f].by \in DOMAIN rules \cup {None}
      /\ \A f, g \in DOMAIN rows : rows[f].id = rows[g].id => f = g
  BY DEF IInv, BookInv, CatalogueRight, RowsRight
<1>2. \A id \in DOMAIN rules : /\ rules[id].group \in DOMAIN groups \cup {None}
                               /\ rules[id].root \in DOMAIN roots \cup {None}
  BY RuleIdsAre DEF IInv, BookInv, RulesOver
<1>3. Images = IdsIn(rows)
  BY DEF Images, IdsIn
<1>4. DOMAIN pins \subseteq Images /\ DOMAIN ideal \subseteq Images \X DOMAIN displays
  BY <1>3 DEF IInv, FitRight, AllFresh
<1>5. owed \in 0 .. MaxChanges /\ changes \in 0 .. MaxChanges
  BY BookAssumption DEF IInv, BookInv, CountsRight
<1>6. scanning.stage \in {"none", "begun", "walking"}
  BY DEF IInv, BookInv, BookRight
<1>. QED
  BY <1>1, <1>2, <1>4, <1>5, <1>6 DEF TypeOK

\* The foreign keys of the catalogue hold, and ids are given once, whatever
\* was deleted, seeded, moved or stored in between.
THEOREM TypeCorrect == Spec => []TypeOK
BY IInvAlways, IInvGivesType, PTL
-----------------------------------------------------------------------------
\* The segments.

\* The SQL writes a row exactly for the images evaluate does not refuse, and
\* the row says what evaluate says.
LEMMA EvaluateIs ==
  ASSUME NEW dims \in Measures, NEW big \in Sizes, NEW th
  PROVE  /\ IsJudged(dims, big, th) <=> Evaluate(dims, big, th).verdict # "no"
         /\ Evaluate(dims, big, th).verdict \in {"ideal", "near", "no"}
         /\ IsJudged(dims, big, th) =>
              /\ JudgedRow(dims, big, th).verdict = Evaluate(dims, big, th).verdict
              /\ JudgedRow(dims, big, th).exact = Evaluate(dims, big, th).exact
         /\ Evaluate(dims, big, th).exact \in BOOLEAN
<1>. DEFINE covers == dims.size[1] >= big[1] /\ dims.size[2] >= big[2]
            all == Covers100(dims.size, big, 100)
            nearly == Covers100(dims.size, big, NearCoverPct)
            crop == Keeps(dims.size, big, th)
            narrow == Keeps(dims.size, big, NearCropPct)
            oriented == ~Crosswise(dims.size, big)
            sane == Sane(dims.size)
            same == dims.size = big
            sound == dims.usable /\ dims.plain
            fit == covers /\ crop /\ oriented /\ sound
            near == sound /\ oriented /\ nearly /\ narrow
            e == Evaluate(dims, big, th)
            row == JudgedRow(dims, big, th)
            judged == IsJudged(dims, big, th)
<1>1. /\ dims.size[1] \in Nat /\ dims.size[2] \in Nat /\ big[1] \in Nat /\ big[2] \in Nat
      /\ NearCoverPct \in 0 .. 100
  BY JudgementAssumption DEF Measures, Sizes
<1>2. (all <=> covers) /\ (all => nearly)
  BY <1>1, PercentIs DEF Covers100
<1>3. e = IF ~sane THEN [verdict |-> "no", exact |-> FALSE]
          ELSE [verdict |-> IF fit THEN "ideal" ELSE IF near THEN "near" ELSE "no",
                exact |-> same]
  BY DEF Evaluate
<1>4. row = [verdict |-> IF all /\ crop THEN "ideal" ELSE "near", exact |-> same]
  BY DEF JudgedRow
<1>5. judged <=> sound /\ sane /\ oriented /\ nearly /\ (narrow \/ (all /\ crop))
  BY DEF IsJudged
<1>6. same \in BOOLEAN
  OBVIOUS
<1>. HIDE DEF covers, all, nearly, crop, narrow, oriented, sane, same, sound, e, row, judged
<1>7. sane => /\ e.exact = same
              /\ e.verdict = IF fit THEN "ideal" ELSE IF near THEN "near" ELSE "no"
  BY <1>3
<1>8. ~sane => e.verdict = "no" /\ e.exact = FALSE
  BY <1>3
<1>9. row.exact = same /\ row.verdict = IF all /\ crop THEN "ideal" ELSE "near"
  BY <1>4
<1>10. judged <=> e.verdict # "no"
  BY <1>2, <1>5, <1>7, <1>8
<1>11. judged => row.verdict = e.verdict /\ row.exact = e.exact
  BY <1>2, <1>5, <1>7, <1>9
<1>12. e.verdict \in {"ideal", "near", "no"} /\ e.exact \in BOOLEAN
  BY <1>6, <1>7, <1>8
<1>. QED
  BY <1>10, <1>11, <1>12 DEF e, row, judged

\* What evaluate says of a row and a display.
Judges(row, d) == Evaluate(row.dims, displays[d].size, threshold)

\* The table of verdicts holds what evaluate says.
LEMMA TableTells ==
  ASSUME IInv, NEW f \in DOMAIN rows, NEW d \in Connected(displays)
  PROVE  /\ <<rows[f].id, d>> \in DOMAIN ideal <=> Judges(rows[f], d).verdict # "no"
         /\ Judges(rows[f], d).verdict \in {"ideal", "near", "no"}
         /\ <<rows[f].id, d>> \in DOMAIN ideal =>
              /\ ideal[<<rows[f].id, d>>].verdict = Judges(rows[f], d).verdict
              /\ ideal[<<rows[f].id, d>>].exact = Judges(rows[f], d).exact
         /\ Judges(rows[f], d).exact \in BOOLEAN
<1>1. rows[f].dims \in Measures
  BY DEF IInv, BookInv, CatalogueRight, RowsRight, ImageRows
<1>2. displays[d].size \in Sizes
  <2>1. displays \in [DOMAIN displays -> DisplayRows]
    BY TableIs DEF IInv, FitRight
  <2>. QED
    BY <2>1 DEF Connected, DisplayRows
<1>3. Fresh(ideal, rows[f], displays, d)
  BY DEF IInv, FitRight, AllFresh
<1>. QED
  BY <1>1, <1>2, <1>3, EvaluateIs DEF Fresh, Judges

LEMMA VerdictsAre ==
  ASSUME IInv, NEW f \in DOMAIN rows, NEW v \in {"ideal", "near"}
  PROVE  Verdicts(ideal, displays, rows[f].id, v)
            = {d \in Connected(displays) : Judges(rows[f], d).verdict = v}
BY TableTells DEF Verdicts

FitsAs(q, row, d) ==
    /\ Judges(row, d).verdict = "ideal"
    /\ q.exact # "any" => Judges(row, d).exact = (q.exact = "exact")

LEMMA FitsAre ==
  ASSUME IInv, NEW f \in DOMAIN rows, NEW q
  PROVE  Verdicts(ideal, displays, rows[f].id, "ideal") \cap ExactAs(ideal, rows[f].id, q)
            = {d \in Connected(displays) : FitsAs(q, rows[f], d)}
<1>. DEFINE id == rows[f].id
<1>1. \A d : d \in ExactAs(ideal, id, q) <=>
               /\ \E y \in DOMAIN ideal : y[1] = id /\ y[2] = d
               /\ q.exact = "any" \/ ideal[<<id, d>>].exact = (q.exact = "exact")
  BY DEF ExactAs
<1>2. \A d : <<id, d>> \in DOMAIN ideal => \E y \in DOMAIN ideal : y[1] = id /\ y[2] = d
  OBVIOUS
<1>3. \A d \in Connected(displays) : Judges(rows[f], d).verdict = "ideal" =>
          /\ <<id, d>> \in DOMAIN ideal
          /\ ideal[<<id, d>>].exact = Judges(rows[f], d).exact
  BY TableTells
<1>4. Verdicts(ideal, displays, id, "ideal")
          = {d \in Connected(displays) : Judges(rows[f], d).verdict = "ideal"}
  BY VerdictsAre
<1>. HIDE DEF id
<1>5. \A d : d \in Verdicts(ideal, displays, id, "ideal") \cap ExactAs(ideal, id, q)
               <=> d \in Connected(displays) /\ FitsAs(q, rows[f], d)
  BY <1>1, <1>2, <1>3, <1>4 DEF FitsAs
<1>. QED
  BY <1>5 DEF id

\* The SQL of a segment finds what its rule in Python accepts.
LEMMA WantedIs ==
  ASSUME IInv, NEW q \in Questions, NEW f \in DOMAIN rows
  PROVE  /\ q.segment = "ideal" =>
              (InIdeal(ideal, displays, pins, rows[f].id, q) <=> Wanted(q, rows[f]))
         /\ q.segment = "near" =>
              (InNear(ideal, displays, pins, rows[f].id, q) <=> Wanted(q, rows[f]))
         /\ q.segment = "all" => Wanted(q, rows[f])
<1>. DEFINE row == rows[f]
            T == Connected(displays)
            pin == Pin(pins, row.id)
            fits == {d \in T : FitsAs(q, row, d)}
<1>1. q.every \in BOOLEAN /\ q.segment \in {"all", "ideal", "near"}
  BY DEF Questions
<1>2. CASE q.segment = "ideal"
  <2>1. Wanted(q, row) <=>
          /\ pin # "out"
          /\ \/ q.exact = "any" /\ pin = "in"
             \/ ~q.every /\ \E d \in {x \in T : OnDisplay(q, x)} : FitsAs(q, row, d)
             \/ q.every /\ T # {} /\ \A d \in T : FitsAs(q, row, d)
    BY <1>2 DEF Wanted, FitsAs, Judges
  <2>2. InIdeal(ideal, displays, pins, row.id, q) <=>
          /\ IF q.exact = "any"
             THEN \/ pin = "in"
                  \/ IF q.every THEN T # {} /\ fits = T ELSE \E d \in fits : OnDisplay(q, d)
             ELSE IF q.every THEN T # {} /\ fits = T ELSE \E d \in fits : OnDisplay(q, d)
          /\ pin # "out"
    <3>1. Verdicts(ideal, displays, row.id, "ideal") \cap ExactAs(ideal, row.id, q) = fits
      BY FitsAre
    <3>. HIDE DEF fits, row
    <3>. QED
      BY <3>1 DEF InIdeal
  <2>3. fits = T <=> \A d \in T : FitsAs(q, row, d)
    OBVIOUS
  <2>4. (\E d \in fits : OnDisplay(q, d))
          <=> \E d \in {x \in T : OnDisplay(q, x)} : FitsAs(q, row, d)
    OBVIOUS
  <2>. HIDE DEF fits, row, T, pin
  <2>5. InIdeal(ideal, displays, pins, row.id, q) <=> Wanted(q, row)
    BY <1>1, <2>1, <2>2, <2>3, <2>4
  <2>. QED
    BY <1>2, <2>5 DEF row
<1>3. CASE q.segment = "near"
  <2>1. Wanted(q, row) <=>
          /\ pin # "in"
          /\ \E d \in {x \in T : OnDisplay(q, x)} : Judges(row, d).verdict = "near"
          /\ q.display = 0 => \A d \in T : Judges(row, d).verdict # "ideal"
    BY <1>3 DEF Wanted, Judges
  <2>2. /\ Verdicts(ideal, displays, row.id, "near") = {d \in T : Judges(row, d).verdict = "near"}
        /\ Verdicts(ideal, displays, row.id, "ideal") = {d \in T : Judges(row, d).verdict = "ideal"}
    BY VerdictsAre
  <2>3. InNear(ideal, displays, pins, row.id, q) <=> Wanted(q, row)
    BY <2>1, <2>2 DEF InNear
  <2>. QED
    BY <1>3, <2>3
<1>4. q.segment = "all" => Wanted(q, row)
  BY DEF Wanted
<1>. QED
  BY <1>1, <1>2, <1>3, <1>4
\* The images the rule of a segment accepts, among those the filters leave.
Shown(q) == {rows[f].id : f \in {g \in DOMAIN rows :
                Wanted(q, rows[g]) /\ Filtered(ImagesOf(rows)[rows[g].id], q)}}

Asked(q) == Query(ImagesOf(rows), ideal, displays, pins, q)

LEMMA QueryIs ==
  ASSUME IInv, NEW q \in Questions
  PROVE  Asked(q) = Shown(q)
<1>. DEFINE images == ImagesOf(rows)
            found(id) == /\ q.segment = "ideal" => InIdeal(ideal, displays, pins, id, q)
                         /\ q.segment = "near" => InNear(ideal, displays, pins, id, q)
                         /\ Filtered(images[id], q)
            right(f) == Wanted(q, rows[f]) /\ Filtered(images[rows[f].id], q)
<1>1. DOMAIN images = IdsIn(rows)
  BY ImagesAre DEF IInv, BookInv, CatalogueRight
<1>2. \A f \in DOMAIN rows : found(rows[f].id) <=> right(f)
  <2>. TAKE f \in DOMAIN rows
  <2>1. q.segment \in {"all", "ideal", "near"}
    BY DEF Questions
  <2>2. /\ q.segment = "ideal" =>
              (InIdeal(ideal, displays, pins, rows[f].id, q) <=> Wanted(q, rows[f]))
        /\ q.segment = "near" =>
              (InNear(ideal, displays, pins, rows[f].id, q) <=> Wanted(q, rows[f]))
        /\ q.segment = "all" => Wanted(q, rows[f])
    BY WantedIs
  <2>. HIDE DEF images
  <2>. QED
    BY <2>1, <2>2
<1>3. Asked(q) = {id \in DOMAIN images : found(id)}
  BY DEF Asked, Query
<1>4. Shown(q) = {rows[f].id : f \in {g \in DOMAIN rows : right(g)}}
  BY DEF Shown
<1>. HIDE DEF images, found, right
<1>5. {id \in IdsIn(rows) : found(id)} = {rows[f].id : f \in {g \in DOMAIN rows : right(g)}}
  BY <1>2 DEF IdsIn
<1>. QED
  BY <1>1, <1>3, <1>4, <1>5

\* The variants of a question a count asks are questions.
LEMMA QuestionIs ==
  ASSUME NEW q \in Questions, NEW s \in {"all", "ideal", "near"}, NEW d \in Nat,
         NEW every \in BOOLEAN, NEW e \in {"any", "exact", "larger"}
  PROVE  /\ [q EXCEPT !.display = d] \in Questions
         /\ [q EXCEPT !.every = every] \in Questions
         /\ [q EXCEPT !.exact = e] \in Questions
         /\ [q EXCEPT !.segment = s] \in Questions
         /\ [q EXCEPT !.display = d, !.every = every, !.exact = e] \in Questions
BY DEF Questions

Whatever(q) == [q EXCEPT !.display = 0, !.every = FALSE, !.exact = "any"]
OfSegment(q, s) == [Whatever(q) EXCEPT !.segment = s]
OfIdeal(q) == OfSegment(q, "ideal")

LEMMA VariantsAre ==
  ASSUME NEW q \in Questions
  PROVE  /\ \A s \in {"all", "ideal", "near"} :
              /\ OfSegment(q, s) \in Questions /\ OfSegment(q, s).segment = s
              /\ OfSegment(q, s).display = 0 /\ OfSegment(q, s).every = FALSE
              /\ OfSegment(q, s).exact = "any" /\ OfSegment(q, s).excluded = q.excluded
              /\ OfSegment(q, s).unusable = q.unusable /\ OfSegment(q, s).edge = q.edge
         /\ \A d \in Nat : [OfIdeal(q) EXCEPT !.display = d] \in Questions
         /\ [OfIdeal(q) EXCEPT !.every = TRUE] \in Questions
<1>1. Whatever(q) \in Questions
  BY QuestionIs DEF Whatever
<1>2. \A s \in {"all", "ideal", "near"} : OfSegment(q, s) \in Questions
  <2>. TAKE s \in {"all", "ideal", "near"}
  <2>. DEFINE w == Whatever(q)
  <2>1. w \in Questions
    BY <1>1
  <2>. HIDE DEF w
  <2>2. [w EXCEPT !.segment = s] \in Questions
    BY <2>1, QuestionIs
  <2>. QED
    BY <2>2 DEF OfSegment, w
<1>3. \A s \in {"all", "ideal", "near"} :
        /\ OfSegment(q, s).segment = s
        /\ OfSegment(q, s).display = 0 /\ OfSegment(q, s).every = FALSE
        /\ OfSegment(q, s).exact = "any" /\ OfSegment(q, s).excluded = q.excluded
        /\ OfSegment(q, s).unusable = q.unusable /\ OfSegment(q, s).edge = q.edge
  BY DEF OfSegment, Whatever, Questions
<1>4. OfIdeal(q) \in Questions
  BY <1>2 DEF OfIdeal
<1>5. \A d \in Nat : [OfIdeal(q) EXCEPT !.display = d] \in Questions
  BY <1>4, QuestionIs
<1>6. [OfIdeal(q) EXCEPT !.every = TRUE] \in Questions
  BY <1>4, QuestionIs
<1>. QED
  BY <1>2, <1>3, <1>5, <1>6

LEMMA CountsAre ==
  ASSUME NEW q
  PROVE  LET counts == SegmentCounts(ImagesOf(rows), ideal, displays, pins, q)
         IN  /\ counts.all = Cardinality(Asked(OfSegment(q, "all")))
             /\ counts.near = Cardinality(Asked(OfSegment(q, "near")))
             /\ counts.exact = Cardinality(Asked([OfIdeal(q) EXCEPT !.exact = "exact"]))
             /\ counts.larger = Cardinality(Asked([OfIdeal(q) EXCEPT !.exact = "larger"]))
             /\ counts.every = Cardinality(Asked([OfIdeal(q) EXCEPT !.every = TRUE]))
             /\ DOMAIN counts.displays = Connected(displays)
             /\ \A d \in Connected(displays) : counts.displays[d]
                    = Cardinality(Asked([OfIdeal(q) EXCEPT !.display = d]))
<1>. DEFINE counts == SegmentCounts(ImagesOf(rows), ideal, displays, pins, q)
            count(x) == Cardinality(Query(ImagesOf(rows), ideal, displays, pins, x))
            i == [[q EXCEPT !.display = 0, !.every = FALSE, !.exact = "any"] EXCEPT !.segment = "ideal"]
            a == [[q EXCEPT !.display = 0, !.every = FALSE, !.exact = "any"] EXCEPT !.segment = "all"]
            n == [[q EXCEPT !.display = 0, !.every = FALSE, !.exact = "any"] EXCEPT !.segment = "near"]
            ex == [i EXCEPT !.exact = "exact"]
            la == [i EXCEPT !.exact = "larger"]
            ev == [i EXCEPT !.every = TRUE]
            on(d) == [i EXCEPT !.display = d]
<1>1. counts = [all |-> count(a), ideal |-> count(i), near |-> count(n), exact |-> count(ex),
                larger |-> count(la), every |-> count(ev),
                displays |-> [d \in Connected(displays) |-> count(on(d))]]
  BY DEF SegmentCounts
<1>2. \A x : count(x) = Cardinality(Asked(x))
  BY DEF Asked
<1>3. /\ a = OfSegment(q, "all") /\ n = OfSegment(q, "near")
      /\ ex = [OfIdeal(q) EXCEPT !.exact = "exact"] /\ la = [OfIdeal(q) EXCEPT !.exact = "larger"]
      /\ ev = [OfIdeal(q) EXCEPT !.every = TRUE]
      /\ \A d : on(d) = [OfIdeal(q) EXCEPT !.display = d]
  BY DEF OfSegment, OfIdeal, Whatever
<1>. HIDE DEF counts, count, i, a, n, ex, la, ev, on
<1>4. /\ counts.all = count(a) /\ counts.near = count(n) /\ counts.exact = count(ex)
      /\ counts.larger = count(la) /\ counts.every = count(ev)
      /\ DOMAIN counts.displays = Connected(displays)
      /\ \A d \in Connected(displays) : counts.displays[d] = count(on(d))
  BY <1>1
<1>. QED
  BY <1>2, <1>3, <1>4 DEF counts

\* A visible image of the segment without a pin is an exact match or a larger one.
LEMMA ExactOrLarger ==
  ASSUME IInv, NEW q \in Questions
  PROVE  Shown(OfIdeal(q)) \ DOMAIN pins
            \subseteq Shown([OfIdeal(q) EXCEPT !.exact = "exact"])
                        \cup Shown([OfIdeal(q) EXCEPT !.exact = "larger"])
<1>. DEFINE i == OfIdeal(q)
            ex == [i EXCEPT !.exact = "exact"]
            la == [i EXCEPT !.exact = "larger"]
            T == Connected(displays)
<1>1. /\ i \in Questions /\ i.segment = "ideal" /\ i.display = 0 /\ i.every = FALSE /\ i.exact = "any"
  BY VariantsAre DEF OfIdeal
<1>. HIDE DEF i
<1>2. /\ ex.segment = "ideal" /\ ex.display = 0 /\ ex.every = FALSE /\ ex.exact = "exact"
      /\ la.segment = "ideal" /\ la.display = 0 /\ la.every = FALSE /\ la.exact = "larger"
      /\ ex.excluded = i.excluded /\ ex.unusable = i.unusable /\ ex.edge = i.edge
      /\ la.excluded = i.excluded /\ la.unusable = i.unusable /\ la.edge = i.edge
  BY <1>1 DEF Questions
<1>. HIDE DEF ex, la
<1>3. \A r : (Filtered(r, i) <=> Filtered(r, ex)) /\ (Filtered(r, i) <=> Filtered(r, la))
  BY <1>1, <1>2 DEF Filtered
<1>4. ASSUME NEW f \in DOMAIN rows, rows[f].id \notin DOMAIN pins, Wanted(i, rows[f])
      PROVE  Wanted(ex, rows[f]) \/ Wanted(la, rows[f])
  <2>. DEFINE pin == Pin(pins, rows[f].id)
              good(d) == Judges(rows[f], d).verdict = "ideal"
              exact(d) == Judges(rows[f], d).exact
  <2>1. pin = "none" /\ pin # "in" /\ pin # "out"
    BY <1>4 DEF Pin
  <2>2. Wanted(i, rows[f]) <=>
          pin # "out" /\ (pin = "in" \/ \E d \in T : good(d))
    BY <1>1 DEF Wanted, Judges, OnDisplay
  <2>3. Wanted(ex, rows[f]) <=>
          pin # "out" /\ \E d \in T : good(d) /\ exact(d) = TRUE
    BY <1>2 DEF Wanted, Judges, OnDisplay
  <2>4. Wanted(la, rows[f]) <=>
          pin # "out" /\ \E d \in T : good(d) /\ exact(d) = FALSE
    BY <1>2 DEF Wanted, Judges, OnDisplay
  <2>5. \A d \in T : exact(d) \in BOOLEAN
    BY TableTells
  <2>. HIDE DEF pin, good, exact, T
  <2>. QED
    BY <1>4, <2>1, <2>2, <2>3, <2>4, <2>5
<1>. QED
  BY <1>3, <1>4 DEF Shown, i, ex, la

LEMMA ShownIsFinite ==
  ASSUME IInv, NEW q
  PROVE  IsFiniteSet(Shown(q))
<1>1. IsFiniteSet(DOMAIN rows)
  BY DEF IInv, BookInv, CatalogueRight, RowsRight
<1>. DEFINE G == {g \in DOMAIN rows : Wanted(q, rows[g]) /\ Filtered(ImagesOf(rows)[rows[g].id], q)}
            f == [x \in G |-> rows[x].id]
<1>2. IsFiniteSet(G)
  BY <1>1, FS_Subset
<1>3. f \in Surjection(G, Shown(q))
  BY DEF Surjection, Shown
<1>. HIDE DEF G, f
<1>. QED
  BY <1>2, <1>3, FS_Surjection

LEMMA IInvGivesSegments == IInv => SegmentsTell
<1>. SUFFICES ASSUME IInv, NEW q \in Queries
              PROVE  /\ Asked(q) = Shown(q)
                     /\ q.segment = "all" =>
                          LET counts == SegmentCounts(ImagesOf(rows), ideal, displays, pins, q)
                          IN  /\ counts.all = Cardinality(Shown(q))
                              /\ counts.near = Cardinality(Shown(OfSegment(q, "near")))
                              /\ counts.exact + counts.larger
                                   >= Cardinality(Shown(OfIdeal(q)) \ DOMAIN pins)
                              /\ counts.every = Cardinality(Shown([OfIdeal(q) EXCEPT !.every = TRUE]))
                              /\ \A d \in DOMAIN counts.displays : counts.displays[d]
                                   = Cardinality(Shown([OfIdeal(q) EXCEPT !.display = d]))
  BY DEF SegmentsTell, Shown, Asked, OfIdeal, OfSegment, Whatever
<1>1. q \in Questions
  BY DesktopAssumption
<1>2. Asked(q) = Shown(q)
  BY <1>1, QueryIs
<1>. DEFINE counts == SegmentCounts(ImagesOf(rows), ideal, displays, pins, q)
            exact == [OfIdeal(q) EXCEPT !.exact = "exact"]
            larger == [OfIdeal(q) EXCEPT !.exact = "larger"]
            every == [OfIdeal(q) EXCEPT !.every = TRUE]
            on(d) == [OfIdeal(q) EXCEPT !.display = d]
<1>3. /\ OfSegment(q, "all") \in Questions /\ OfSegment(q, "near") \in Questions
      /\ OfIdeal(q) \in Questions /\ every \in Questions
      /\ \A d \in Nat : on(d) \in Questions
  BY <1>1, VariantsAre DEF OfIdeal
<1>4. exact \in Questions /\ larger \in Questions
  BY <1>3, QuestionIs
<1>5. /\ counts.all = Cardinality(Asked(OfSegment(q, "all")))
      /\ counts.near = Cardinality(Asked(OfSegment(q, "near")))
      /\ counts.exact = Cardinality(Asked(exact))
      /\ counts.larger = Cardinality(Asked(larger))
      /\ counts.every = Cardinality(Asked(every))
      /\ DOMAIN counts.displays = Connected(displays)
      /\ \A d \in Connected(displays) : counts.displays[d] = Cardinality(Asked(on(d)))
  BY CountsAre
<1>6. Connected(displays) \subseteq Nat
  <2>1. Bounded(DOMAIN displays)
    BY TableIs DEF IInv, FitRight
  <2>. QED
    BY <2>1, IdsOf DEF Connected
<1>. HIDE DEF counts
<1>7. ASSUME q.segment = "all" PROVE Shown(OfSegment(q, "all")) = Shown(q)
  <2>. DEFINE a == OfSegment(q, "all")
  <2>1. /\ a.segment = "all" /\ a.excluded = q.excluded /\ a.unusable = q.unusable
        /\ a.edge = q.edge
    BY <1>1, VariantsAre
  <2>. HIDE DEF a
  <2>2. \A r : Filtered(r, a) <=> Filtered(r, q)
    BY <1>7, <2>1 DEF Filtered
  <2>3. \A r : Wanted(a, r) /\ Wanted(q, r)
    BY <1>7, <2>1 DEF Wanted
  <2>. QED
    BY <2>2, <2>3 DEF Shown, a
<1>8. counts.exact + counts.larger >= Cardinality(Shown(OfIdeal(q)) \ DOMAIN pins)
  <2>. DEFINE A == Shown(exact)
              B == Shown(larger)
              C == Shown(OfIdeal(q)) \ DOMAIN pins
  <2>1. counts.exact = Cardinality(A) /\ counts.larger = Cardinality(B)
    BY <1>4, <1>5, QueryIs
  <2>2. IsFiniteSet(A) /\ IsFiniteSet(B)
    BY ShownIsFinite
  <2>3. C \subseteq A \cup B
    BY <1>1, ExactOrLarger
  <2>. HIDE DEF A, B, C
  <2>4. /\ IsFiniteSet(A \cup B)
        /\ Cardinality(A \cup B) = Cardinality(A) + Cardinality(B) - Cardinality(A \cap B)
    BY <2>2, FS_Union
  <2>5. Cardinality(C) <= Cardinality(A \cup B) /\ Cardinality(C) \in Nat
    BY <2>3, <2>4, FS_Subset, FS_CardinalityType
  <2>6. /\ Cardinality(A) \in Nat /\ Cardinality(B) \in Nat
        /\ IsFiniteSet(A \cap B) /\ Cardinality(A \cap B) \in Nat
    BY <2>2, FS_Intersection, FS_CardinalityType
  <2>7. Cardinality(C) <= Cardinality(A) + Cardinality(B)
    BY <2>4, <2>5, <2>6
  <2>. QED
    BY <2>1, <2>6, <2>7 DEF C
<1>9. counts.near = Cardinality(Shown(OfSegment(q, "near")))
  BY <1>3, <1>5, QueryIs
<1>10. counts.every = Cardinality(Shown(every))
  BY <1>3, <1>5, QueryIs
<1>11. \A d \in DOMAIN counts.displays : counts.displays[d] = Cardinality(Shown(on(d)))
  <2>. TAKE d \in DOMAIN counts.displays
  <2>1. d \in Connected(displays) /\ on(d) \in Questions
    BY <1>3, <1>5, <1>6
  <2>. HIDE DEF on
  <2>. QED
    BY <1>5, <2>1, QueryIs
<1>12. q.segment = "all" => counts.all = Cardinality(Shown(q))
  BY <1>3, <1>5, <1>7, QueryIs
<1>. QED
  BY Zenon, <1>2, <1>8, <1>9, <1>10, <1>11, <1>12 DEF counts

\* Whatever order images, displays and pins are stored in, a segment shows, and
\* its switch counts, what evaluate accepts of the images as they are stored.
THEOREM SegmentsAreTrue == Spec => []SegmentsTell
BY IInvAlways, IInvGivesSegments, PTL
-----------------------------------------------------------------------------
\* The walk of a source and the verdict on what it meets.

\* The includes of the tables are paths of directories.
LEMMA IncludesAre ==
  ASSUME BookRight
  PROVE  /\ IsMatcher(MatcherOf(rules, groups, roots), DOMAIN rules)
         /\ EnabledRoots(roots) \subseteq Path \ Files
         /\ EnabledRoots(roots) \subseteq MatcherOf(rules, groups, roots).includes
<1>1. /\ DOMAIN rules \subseteq Nat /\ roots \in [DOMAIN roots -> RootRows]
  BY RuleIdsAre
<1>2. IsMatcher(MatcherOf(rules, groups, roots), DOMAIN rules)
  BY <1>1, MatcherOfIs
<1>3. \A r \in DOMAIN roots : roots[r].path \in Path \ Files
  BY <1>1 DEF RootRows, Path
<1>4. MatcherOf(rules, groups, roots).includes
        = IncludeSet(LoadGroups(groups, Builtins), EnabledRoots(roots))
  BY DEF MatcherOf, Compile, CompileLive, Matcher
<1>. QED
  BY <1>2, <1>3, <1>4 DEF EnabledRoots, IncludeSet

LEMMA IInvGivesWalk == IInv => WalkAgrees
<1>. DEFINE m == MatcherOf(rules, groups, roots)
            sources == EnabledRoots(roots)
            deepest(f) == {i \in m.includes : /\ IsUnder(f, i)
                                              /\ \A j \in m.includes :
                                                    IsUnder(f, j) => Len(j) <= Len(i)}
<1>. SUFFICES ASSUME IInv, NEW f \in DOMAIN disk,
                     deepest(f) # {}, deepest(f) \subseteq sources
              PROVE  (f \in Walked(m, sources, disk))
                        = (HitFor(m, rules, f, disk[f].inode) = None)
  BY DEF WalkAgrees
<1>1. /\ IsMatcher(m, DOMAIN rules) /\ sources \subseteq Path \ Files /\ sources \subseteq m.includes
  BY IncludesAre DEF IInv, BookInv
<1>2. f \in Files /\ f \in Path /\ f # <<>>
  BY BookAssumption DEF IInv, BookInv, DiskRight, Path
<1>. HIDE DEF m, sources
<1>3. HitFor(m, rules, f, disk[f].inode) = None
        <=> Match(m, f, FALSE) = None /\ MatchInode(m, disk[f].inode) = None
  BY NoHitIs
<1>4. ASSUME f \in Walked(m, sources, disk)
      PROVE  Match(m, f, FALSE) = None /\ MatchInode(m, disk[f].inode) = None
  <2>1. PICK source \in sources : f \in WalkedFrom(m, source, disk)
    BY <1>4 DEF Walked
  <2>2. /\ IsUnder(f, source) /\ f # source
        /\ \A k \in Len(source) + 1 .. Len(f) : Match(m, Prefix(f, k), k < Len(f)) = None
        /\ MatchInode(m, disk[f].inode) = None
    BY <2>1 DEF WalkedFrom
  <2>3. Len(source) \in 0 .. Len(f) /\ Prefix(f, Len(source)) = source
    BY <1>1, <1>2, <2>2, UnderIs
  <2>4. Len(f) \in Nat /\ Prefix(f, Len(f)) = f
    BY <1>2, PrefixIs DEF Path
  <2>5. Len(source) # Len(f)
    BY <2>2, <2>3, <2>4
  <2>6. Len(f) \in Len(source) + 1 .. Len(f) /\ ~(Len(f) < Len(f))
    BY <2>3, <2>4, <2>5
  <2>7. Match(m, Prefix(f, Len(f)), Len(f) < Len(f)) = None
    BY <2>2, <2>6
  <2>8. (Len(f) < Len(f)) = FALSE
    BY <2>6
  <2>. QED
    BY <2>2, <2>4, <2>7, <2>8
<1>5. ASSUME Match(m, f, FALSE) = None, MatchInode(m, disk[f].inode) = None
      PROVE  f \in Walked(m, sources, disk)
  <2>1. PICK source \in sources : /\ IsUnder(f, source)
                                  /\ \A j \in m.includes : IsUnder(f, j) => Len(j) <= Len(source)
    OBVIOUS
  <2>2. source \in Path /\ f # source
    BY <1>1, <1>2
  <2>3. Len(source) \in 0 .. Len(f) /\ Prefix(f, Len(source)) = source
    BY <1>2, <2>1, <2>2, UnderIs
  <2>4. /\ Len(f) \in Nat /\ Prefix(f, Len(f)) = f
        /\ Len(f) - 1 \in 0 .. Len(f) /\ Front(f) = Prefix(f, Len(f) - 1)
        /\ Front(f) \in Path /\ Len(Front(f)) = Len(f) - 1
    BY <1>2, PrefixIs, FrontIs DEF Path
  <2>5. Len(source) # Len(f)
    BY <2>2, <2>3, <2>4
  <2>6. Len(source) \in 0 .. Len(f) - 1
    BY <2>3, <2>4, <2>5
  <2>7. \A n \in Len(source) + 1 .. Len(f) : Prefix(f, n) \notin m.includes
    <3>. TAKE n \in Len(source) + 1 .. Len(f)
    <3>1. n \in 0 .. Len(f) /\ ~(n <= Len(source))
      BY <2>3, <2>4
    <3>2. Len(Prefix(f, n)) = n /\ IsUnder(f, Prefix(f, n))
      BY <1>2, <3>1, PrefixIs, UnderIs
    <3>. QED
      BY <2>1, <3>1, <3>2
  <2>8. f \notin m.includes
    <3>1. Len(f) \in Len(source) + 1 .. Len(f)
      BY <2>4, <2>6
    <3>. QED
      BY <2>4, <2>7, <3>1
  <2>9. Judged(m, Front(f)).hit = None
    BY <1>1, <1>2, <1>5, <2>8, LetThrough
  <2>10. \A k \in 0 .. Len(f) - 1 : Prefix(Front(f), k) = Prefix(f, k)
    BY <1>2, <2>4, PrefixIs
  <2>11. ~\E n \in Len(source) + 1 .. Len(Front(f)) : Prefix(Front(f), n) \in m.includes
    <3>1. \A n \in Len(source) + 1 .. Len(f) - 1 : n \in 0 .. Len(f) - 1
                                                   /\ n \in Len(source) + 1 .. Len(f)
      BY <2>4, <2>6
    <3>. QED
      BY <2>4, <2>7, <2>10, <3>1
  <2>12. \A k \in Len(source) .. Len(f) - 1 : Match(m, Prefix(Front(f), k), TRUE) = None
    BY <1>1, <2>4, <2>6, <2>9, <2>11, WayIsOpen
  <2>13. \A k \in Len(source) + 1 .. Len(f) : Match(m, Prefix(f, k), k < Len(f)) = None
    <3>. TAKE k \in Len(source) + 1 .. Len(f)
    <3>1. CASE k = Len(f)
      <4>1. (k < Len(f)) = FALSE
        BY <2>4, <3>1
      <4>. QED
        BY <1>5, <2>4, <3>1, <4>1
    <3>2. CASE k # Len(f)
      <4>1. (k < Len(f)) = TRUE /\ k \in Len(source) .. Len(f) - 1 /\ k \in 0 .. Len(f) - 1
        BY <2>3, <2>4, <3>2
      <4>. QED
        BY <2>10, <2>12, <4>1
    <3>. QED
      BY <3>1, <3>2
  <2>14. f \in WalkedFrom(m, source, disk)
    BY <1>5, <2>1, <2>2, <2>13 DEF WalkedFrom
  <2>. QED
    BY <2>14 DEF Walked
<1>6. f \in Walked(m, sources, disk) <=> HitFor(m, rules, f, disk[f].inode) = None
  <2>. HIDE DEF deepest
  <2>. QED
    BY <1>3, <1>4, <1>5
<1>. HIDE DEF deepest
<1>. QED
  BY <1>6

\* A walk meets exactly the images that the matcher lets through.
THEOREM WalkIsTrue == Spec => []WalkAgrees
BY IInvAlways, IInvGivesWalk, PTL

-----------------------------------------------------------------------------
\* The verdicts of the matcher and the rules of the tables.

\* What the tables hold: live rules, groups and includes, and the matcher.
BookGroups == LoadGroups(groups, Builtins)
BookRules == Live(LoadRules(rules, roots), BookGroups)
BookIncludes == IncludeSet(BookGroups, EnabledRoots(roots))
BookMatcher == MatcherOf(rules, groups, roots)

LEMMA LoadedIs ==
  ASSUME BookRight, NEW id \in DOMAIN BookRules
  PROVE  /\ id \in DOMAIN rules /\ LiveRule(BookRules[id])
         /\ BookRules[id].kind = rules[id].kind /\ BookRules[id].value = rules[id].value
         /\ BookRules[id].root = IF rules[id].root = None THEN None ELSE roots[rules[id].root].path
<1>. DEFINE lr == LoadRules(rules, roots)
            r == rules[id]
<1>1. lr = [x \in DOMAIN rules |->
              [rules[x] EXCEPT !.root = IF @ = None THEN None ELSE roots[@].path]]
  BY DEF LoadRules
<1>2. id \in DOMAIN rules /\ BookRules[id] = lr[id] /\ ValueCode(lr[id].kind, lr[id].value, Home) = "ok"
  BY <1>1 DEF BookRules, Live, Restrict
<1>3. r \in RulesOver(DOMAIN groups, DOMAIN roots) /\ roots \in [DOMAIN roots -> RootRows]
  BY <1>2, RuleIdsAre
<1>4. /\ r \in [kind : Kinds, value : Values, group : Ids, root : Ids, inode : Ids,
                enabled : BOOLEAN, builtin : BOOLEAN]
      /\ [kind |-> r.kind, value |-> r.value] \in RuleText /\ r.root \in DOMAIN roots \cup {None}
  BY <1>3 DEF RulesOver, RuleRows
<1>5. lr[id] = [r EXCEPT !.root = IF @ = None THEN None ELSE roots[@].path]
  BY <1>1, <1>2
<1>. HIDE DEF lr, r
<1>6. /\ lr[id].kind = r.kind /\ lr[id].value = r.value
      /\ lr[id].root = IF r.root = None THEN None ELSE roots[r.root].path
  BY <1>4, <1>5
<1>7. lr[id].root \in Path \cup {None}
  BY <1>3, <1>4, <1>6 DEF RootRows, Path
<1>8. r.kind \in Kinds
  BY <1>4
<1>9. /\ r.kind = "pattern" => r.value \in PatternValues
      /\ r.kind # "pattern" => r.value \in Value(Names)
  <2>. DEFINE t == [kind |-> r.kind, value |-> r.value]
  <2>1. t.kind = r.kind /\ t.value = r.value
    OBVIOUS
  <2>2. \/ t \in [kind : {"pattern"}, value : PatternValues]
        \/ t \in [kind : {"folder", "file"}, value : Value(Names)]
    BY <1>4 DEF RuleText, PatternValues
  <2>. HIDE DEF t
  <2>. QED
    BY <2>1, <2>2
<1>10. LiveRule(lr[id])
  BY <1>2, <1>6, <1>7, <1>8, <1>9 DEF LiveRule, ValueCode
<1>. QED
  BY <1>2, <1>6, <1>10 DEF r

LEMMA BookIncludesAre ==
  ASSUME BookRight
  PROVE  BookIncludes \subseteq Path
<1>1. EnabledRoots(roots) \subseteq Path
  BY IncludesAre
<1>2. ASSUME NEW g \in DOMAIN groups PROVE BookGroups[g].exceptions \subseteq Path
  <2>. DEFINE own == {b \in ToSet(Builtins) : groups[g].builtin /\ b.key = groups[g].key}
  <2>1. BookGroups[g].exceptions = {NormalizePath(x, Home) : x \in UNION {b.exceptions : b \in own}}
    BY DEF BookGroups, LoadGroups
  <2>2. \A b \in own : b.exceptions \subseteq Value(Names)
    <3>1. release \in DOMAIN Releases
      BY DEF BookRight
    <3>2. /\ ToSet(Releases[release]) = {Releases[release][i] : i \in DOMAIN Releases[release]}
          /\ \A i \in DOMAIN Releases[release] :
                Releases[release][i].exceptions \subseteq Value(Names)
      BY <3>1, ReleaseIs
    <3>. QED
      BY <3>2 DEF Builtins
  <2>. HIDE DEF own
  <2>. QED
    BY <2>1, <2>2, NormalizeIs
<1>3. DOMAIN BookGroups = DOMAIN groups
  BY DEF BookGroups, LoadGroups
<1>. QED
  BY <1>1, <1>2, <1>3 DEF BookIncludes, IncludeSet

LEMMA BookCompiles ==
  ASSUME BookRight
  PROVE  CompiledFrom(BookMatcher, BookRules, BookGroups, BookIncludes)
<1>1. DOMAIN BookRules \subseteq DOMAIN rules
  BY LoadedIs
<1>2. DOMAIN rules \subseteq Nat
  BY RuleIdsAre
<1>3. BookMatcher = Matcher(BookRules, BookGroups, BookIncludes,
                            CompiledPatterns(BookRules, BookGroups))
  BY DEF BookMatcher, MatcherOf, Compile, CompileLive, BookRules, BookGroups, BookIncludes
<1>. QED
  BY <1>1, <1>2, <1>3, LoadedIs, BookIncludesAre DEF CompiledFrom

\* A pattern that covers its scope from above the path is asked two ways.
LEMMA AskedFromAbove ==
  ASSUME BookRight, NEW path \in Path, NEW id \in OfKind(BookRules, "pattern"),
         FromAbove(CompiledPattern(id, BookRules[id], BookGroups), path)
  PROVE  AskedTwoWays(path)
<1>. DEFINE q == CompiledPattern(id, BookRules[id], BookGroups)
            r == BookRules[id]
            items == AnchoredItems(r.value, Home)
            slash == r.value.slash
            source == q.scope
<1>1. /\ id \in DOMAIN rules /\ LiveRule(r) /\ r.kind = "pattern"
      /\ r.kind = rules[id].kind /\ r.value = rules[id].value
      /\ r.root = IF rules[id].root = None THEN None ELSE roots[rules[id].root].path
  <2>1. id \in DOMAIN BookRules /\ r.kind = "pattern"
    BY DEF OfKind
  <2>. QED
    BY <2>1, LoadedIs
<1>2. LET x == CompiledPattern(id, r, BookGroups)
      IN  /\ IsPattern(x) /\ x.id = id /\ x.soft = IsSoft(r, BookGroups)
          /\ x.scope = IF r.root = None THEN <<>> ELSE r.root
          /\ x.lo = IF r.value.home THEN 0 ELSE Len(x.scope)
          /\ x.glob = MakeGlob(AnchoredItems(r.value, Home), r.value.slash)
          /\ AnchoredItems(r.value, Home) \in Seq(Item) /\ r.value.slash \in BOOLEAN
  BY <1>1, CompiledIs
<1>3. /\ IsPattern(q) /\ q.scope = IF r.root = None THEN <<>> ELSE r.root
      /\ q.glob = MakeGlob(items, slash) /\ items \in Seq(Item) /\ slash \in BOOLEAN
  BY <1>2
<1>4. /\ source # <<>> /\ IsUnder(path, source)
      /\ \E k \in 1 .. Len(source) : GlobMatch(q.glob, path, 0, k, TRUE)
  BY DEF FromAbove
<1>5. rules[id].root # None /\ roots[rules[id].root].path = source
  BY <1>1, <1>3, <1>4
<1>. HIDE DEF q, items, slash
<1>6. PICK k \in 1 .. Len(source) : GlobMatch(q.glob, path, 0, k, TRUE)
  BY <1>4
<1>7. source \in Path /\ Len(source) \in 0 .. Len(path) /\ Prefix(path, Len(source)) = source
  BY <1>3, <1>4, UnderIs DEF IsPattern
<1>8. k \in 0 .. Len(source) /\ 0 \in 0 .. k /\ k \in Nat /\ 0 \in Nat /\ 0 <= k /\ k <= Len(source)
  BY <1>7
<1>9. GlobMatch(MakeGlob(items, slash), source, 0, k, TRUE)
  <2>. HIDE DEF source
  <2>1. GlobMatch(MakeGlob(items, slash), Prefix(path, Len(source)), 0, k, TRUE)
           <=> GlobMatch(MakeGlob(items, slash), path, 0, k, TRUE)
    BY <1>3, <1>7, <1>8, GlobPrefix
  <2>. QED
    BY <1>3, <1>6, <1>7, <2>1
<1>10. Covers(items, SubSeq(source, 0 + 1, k), TRUE)
  <2>. HIDE DEF source
  <2>1. GlobMatch(MakeGlob(items, slash), source, 0, k, TRUE)
           <=> (slash => TRUE) /\ Covers(items, SubSeq(source, 0 + 1, k), TRUE)
    BY <1>3, <1>7, <1>8, GlobIs
  <2>. QED
    BY <1>9, <2>1
<1>11. PatternCovers(r.value, None, source, TRUE)
  <2>. DEFINE from == IF r.value.home THEN 0 ELSE Len(<<>>)
  <2>1. PatternCovers(r.value, None, source, TRUE)
          <=> /\ IsUnder(source, <<>>)
              /\ \E n \in Len(<<>>) + 1 .. Len(source) :
                    /\ slash => n < Len(source) \/ TRUE
                    /\ Covers(items, SubSeq(source, from + 1, n), n < Len(source) \/ TRUE)
    BY DEF PatternCovers, items, slash
  <2>2. Len(<<>>) = 0 /\ <<>> \in Path
    BY EmptySeq DEF Path
  <2>3. from = 0
    BY <2>2
  <2>. HIDE DEF from, source
  <2>4. IsUnder(source, <<>>)
    <3>1. Len(<<>>) \in 0 .. Len(source) /\ Prefix(source, Len(<<>>)) = <<>>
      BY <1>7, <2>2, PrefixIs DEF Path
    <3>. QED
      BY <1>7, <2>2, <3>1, UnderIs
  <2>5. k \in Len(<<>>) + 1 .. Len(source)
    BY <1>6, <2>2 DEF source
  <2>6. (k < Len(source) \/ TRUE) = TRUE
    OBVIOUS
  <2>. QED
    BY <1>10, <2>1, <2>3, <2>4, <2>5, <2>6
<1>. QED
  BY <1>1, <1>4, <1>5, <1>11 DEF AskedTwoWays

\* The verdict the flags are made of says what the rules of the tables mean.
LEMMA VerdictsMean ==
  ASSUME BookRight, NEW path \in Path, path # <<>>, NEW inode \in Nat, ~AskedTwoWays(path)
  PROVE  HitFor(BookMatcher, rules, path, inode) # None <=> Excluded(path, inode)
<1>1. \A id \in OfKind(BookRules, "pattern") :
         ~FromAbove(CompiledPattern(id, BookRules[id], BookGroups), path)
  BY AskedFromAbove
<1>2. (Match(BookMatcher, path, FALSE) # None \/ MatchInode(BookMatcher, inode) # None)
        <=> \E id \in DOMAIN BookRules :
                KeepsOut(BookRules[id], BookGroups, BookIncludes, path, inode)
  BY <1>1, BookCompiles, MatcherMeans
<1>3. Excluded(path, inode)
        <=> \E id \in DOMAIN BookRules :
                KeepsOut(BookRules[id], BookGroups, BookIncludes, path, inode)
  BY DEF Excluded, BookRules, BookGroups, BookIncludes
<1>4. HitFor(BookMatcher, rules, path, inode) = None
        <=> Match(BookMatcher, path, FALSE) = None /\ MatchInode(BookMatcher, inode) = None
  BY NoHitIs
<1>. QED
  BY <1>2, <1>3, <1>4

LEMMA SeedPartKept ==
  ASSUME BookRight, SeedPart, UNCHANGED release,
         SameSeeds(Tables, [rules |-> rules', groups |-> groups'])
  PROVE  SeedPart'
<1>. DEFINE u == [rules |-> rules', groups |-> groups']
<1>1. Tables.groups = groups /\ release \in DOMAIN Releases
  BY DEF Tables, BookRight
<1>2. KeysOnce(Tables.groups) /\ ~SeedNeeded(Tables, Releases[release])
  BY <1>1 DEF SeedPart, Builtins
<1>3. u.groups = groups' /\ u.rules = rules'
  OBVIOUS
<1>. HIDE DEF u
<1>4. KeysOnce(u.groups) /\ ~SeedNeeded(u, Releases[release])
  BY <1>1, <1>2, SeedsKept DEF u
<1>5. Tables' = u /\ Builtins' = Releases[release]
  BY DEF Tables, Builtins, u
<1>6. KeysOnce(groups)'
  BY <1>3, <1>4 DEF KeysOnce
<1>7. SeedNeeded(Tables, Builtins)' <=> SeedNeeded(u, Releases[release])
  BY <1>5 DEF SeedNeeded
<1>. QED
  BY <1>4, <1>6, <1>7 DEF SeedPart

-----------------------------------------------------------------------------
\* The flags are the hits of the matcher, once every job has run.

FlagsRight ==
    owed = 0 /\ ~stale =>
        \A f \in DOMAIN rows \ late : rows[f].by = HitFor(BookMatcher, rules, f, rows[f].inode)

FlagPart == SeedPart /\ FlagsRight

LEMMA OwedIsEnough ==
  ASSUME owed' # 0 \/ stale'
  PROVE  FlagsRight'
BY DEF FlagsRight

LEMMA MatcherStays ==
  ASSUME UNCHANGED <<release, groups, rules, roots>>
  PROVE  BookMatcher' = BookMatcher
BY DEF BookMatcher, MatcherOf, Builtins

LEMMA FlagsStay ==
  ASSUME FlagPart, UNCHANGED <<release, groups, rules, roots, rows, owed, stale, late>>
  PROVE  FlagPart'
<1>1. BookMatcher' = BookMatcher
  BY MatcherStays
<1>2. FlagsRight'
  BY <1>1 DEF FlagPart, FlagsRight
<1>3. SeedPart'
  BY DEF FlagPart, SeedPart, Tables, Builtins
<1>. QED
  BY <1>2, <1>3 DEF FlagPart

LEMMA RecomputedFlags ==
  ASSUME NEW ids, RowsRight(rows, ids), UNCHANGED release,
         rows' = ApplyExclusions(rows, rules', groups', roots')
  PROVE  FlagsRight'
<1>. DEFINE m == MatcherOf(rules', groups', roots')
<1>1. BookMatcher' = m
  BY DEF BookMatcher, MatcherOf, Builtins
<1>2. rows' = [f \in DOMAIN rows |-> [rows[f] EXCEPT !.by = HitFor(m, rules', f, rows[f].inode)]]
  BY DEF ApplyExclusions, Flagged
<1>. HIDE DEF m
<1>3. \A f \in DOMAIN rows' : rows'[f].by = HitFor(m, rules', f, rows'[f].inode)
  <2>. TAKE f \in DOMAIN rows'
  <2>1. f \in DOMAIN rows /\ rows[f] \in ImageRows
    BY <1>2 DEF RowsRight
  <2>. DEFINE hit == HitFor(m, rules', f, rows[f].inode)
              r == rows[f]
  <2>2. rows'[f] = [r EXCEPT !.by = hit]
    BY <1>2, <2>1
  <2>. HIDE DEF hit, r
  <2>3. rows'[f].by = hit /\ rows'[f].inode = r.inode
    BY <2>1, <2>2 DEF ImageRows, r
  <2>. QED
    BY <2>3 DEF hit, r
<1>. QED
  BY <1>1, <1>3 DEF FlagsRight

\* The rules: adding one, removing one that is not built in, switching.
LEMMA TablesGrow ==
  ASSUME BookRight, SeedPart, UNCHANGED release,
         NEW kind, NEW value, NEW group, NEW source, NEW inode,
         AddRule(Tables, kind, value, group, source, inode).ok,
         rules' = AddRule(Tables, kind, value, group, source, inode).rules,
         groups' = AddRule(Tables, kind, value, group, source, inode).groups
  PROVE  SeedPart'
<1>1. Bounded(DOMAIN Tables.groups) /\ Bounded(DOMAIN Tables.rules)
  BY RuleIdsAre DEF Tables
<1>2. SameSeeds(Tables, [rules |-> AddRule(Tables, kind, value, group, source, inode).rules,
                         groups |-> AddRule(Tables, kind, value, group, source, inode).groups])
  BY <1>1, AddRuleSeeds
<1>. QED
  BY <1>2, SeedPartKept

LEMMA TablesShrink ==
  ASSUME BookRight, SeedPart, UNCHANGED <<release, groups>>, NEW gone,
         rules' = Restrict(rules, DOMAIN rules \ gone),
         \A id \in gone \cap DOMAIN rules : ~rules[id].builtin \/ rules[id].root # None
  PROVE  SeedPart'
<1>1. /\ DOMAIN rules' = DOMAIN rules \ gone
      /\ \A id \in DOMAIN rules' : rules'[id] = rules[id]
  BY DEF Restrict
<1>. DEFINE u == [rules |-> rules', groups |-> groups']
<1>2. u.rules = rules' /\ u.groups = groups /\ Tables.rules = rules /\ Tables.groups = groups
  BY DEF Tables
<1>. HIDE DEF u
<1>3. SameSeeds(Tables, u)
  BY <1>1, <1>2 DEF SameSeeds
<1>. QED
  BY <1>3, SeedPartKept DEF u

LEMMA SwitchedRuleSeeds ==
  ASSUME BookRight, SeedPart, NEW id \in DOMAIN rules, NEW on \in BOOLEAN, SwitchRule(id, on)
  PROVE  SeedPart'
<1>1. /\ rules' = [rules EXCEPT ![id].enabled = on] /\ (IsLocked(id) => on)
      /\ UNCHANGED <<release, groups>>
  BY DEF SwitchRule
<1>2. \A i \in DOMAIN rules : rules[i] \in RuleRows
  BY RuleIdsAre DEF RulesOver
<1>3. DOMAIN groups \subseteq Nat /\ None \notin Nat
  BY RuleIdsAre, BookAssumption
<1>4. DOMAIN rules' = DOMAIN rules /\ \A i \in DOMAIN rules \ {id} : rules'[i] = rules[i]
  BY <1>1
<1>5. /\ rules'[id].kind = rules[id].kind /\ rules'[id].value = rules[id].value
      /\ rules'[id].group = rules[id].group /\ rules'[id].root = rules[id].root
      /\ rules'[id].builtin = rules[id].builtin /\ rules'[id].enabled = on
  BY <1>1, <1>2 DEF RuleRows
<1>6. rules[id].group \in DOMAIN groups /\ groups[rules[id].group].locked => on
  BY <1>1, <1>3 DEF IsLocked
<1>. DEFINE u == [rules |-> rules', groups |-> groups']
<1>7. u.rules = rules' /\ u.groups = groups /\ Tables.rules = rules /\ Tables.groups = groups
  BY <1>1 DEF Tables
<1>. HIDE DEF u
<1>8. \A i \in DOMAIN rules :
          /\ rules'[i].kind = rules[i].kind /\ rules'[i].value = rules[i].value
          /\ rules'[i].group = rules[i].group /\ rules'[i].root = rules[i].root
          /\ rules'[i].builtin = rules[i].builtin
          /\ /\ rules[i].group \in DOMAIN groups
             /\ groups[rules[i].group].locked /\ rules[i].enabled
             => rules'[i].enabled
  BY <1>4, <1>5, <1>6
<1>9. SameSeeds(Tables, u)
  BY <1>4, <1>7, <1>8 DEF SameSeeds
<1>. QED
  BY <1>1, <1>9, SeedPartKept DEF u

LEMMA SwitchedGroupSeeds ==
  ASSUME BookRight, SeedPart, NEW name, NEW on \in BOOLEAN, SwitchGroup(name, on)
  PROVE  SeedPart'
<1>1. PICK g \in Switchable(name, on) : groups' = [groups EXCEPT ![g].enabled = on]
  BY DEF SwitchGroup
<1>2. g \in DOMAIN groups /\ ~groups[g].locked
  BY DEF Switchable, GroupRow
<1>3. UNCHANGED <<release, rules>>
  BY DEF SwitchGroup
<1>4. \A i \in DOMAIN groups : groups[i] \in GroupRows
  BY RuleIdsAre
<1>5. DOMAIN groups' = DOMAIN groups /\ \A i \in DOMAIN groups \ {g} : groups'[i] = groups[i]
  BY <1>1
<1>6. /\ groups'[g].key = groups[g].key /\ groups'[g].name = groups[g].name
      /\ groups'[g].builtin = groups[g].builtin /\ groups'[g].locked = groups[g].locked
  BY <1>1, <1>2, <1>4 DEF GroupRows
<1>. DEFINE u == [rules |-> rules', groups |-> groups']
<1>7. u.rules = rules /\ u.groups = groups' /\ Tables.rules = rules /\ Tables.groups = groups
  BY <1>3 DEF Tables
<1>. HIDE DEF u
<1>8. SameSeeds(Tables, u)
  BY <1>2, <1>5, <1>6, <1>7 DEF SameSeeds
<1>. QED
  BY <1>3, <1>8, SeedPartKept DEF u

LEMMA SameTables ==
  ASSUME SeedPart, UNCHANGED <<release, groups, rules>>
  PROVE  SeedPart'
BY DEF SeedPart, Tables, Builtins

\* One step of the Sources page, of `linwp exclude` or of Browse.
LEMMA BookStepFlags ==
  ASSUME BookInv, FlagPart, BookStep
  PROVE  FlagPart'
<1>1. BookRight /\ SeedPart /\ FlagsRight /\ owed \in Nat /\ RowsRight(rows, DOMAIN rules)
  BY DEF BookInv, FlagPart, CountsRight, CatalogueRight
<1>2. owed + 1 # 0
  BY <1>1
<1>3. CASE \E r \in Requests : StoreRule(r.kind, r.value, r.group, r.source)
  <2>1. PICK r \in Requests : StoreRule(r.kind, r.value, r.group, r.source)
    BY <1>3
  <2>2. /\ AddRule(Tables, r.kind, r.value, r.group, r.source, None).ok
        /\ rules' = AddRule(Tables, r.kind, r.value, r.group, r.source, None).rules
        /\ groups' = AddRule(Tables, r.kind, r.value, r.group, r.source, None).groups
        /\ owed' = owed + 1 /\ UNCHANGED release
    BY <2>1 DEF StoreRule
  <2>3. SeedPart'
    BY <1>1, <2>2, TablesGrow
  <2>. QED
    BY <1>2, <2>2, <2>3, OwedIsEnough DEF FlagPart
<1>4. CASE \E id \in DOMAIN rules : DeleteRule(id)
  <2>1. PICK id \in DOMAIN rules : DeleteRule(id)
    BY <1>4
  <2>2. /\ Removable(id) /\ rules' = Restrict(rules, DOMAIN rules \ {id})
        /\ owed' = owed + 1 /\ UNCHANGED <<release, groups>>
    BY <2>1 DEF DeleteRule
  <2>. DEFINE gone == {id}
  <2>3. rules' = Restrict(rules, DOMAIN rules \ gone) /\ \A i \in gone : ~rules[i].builtin
    BY <2>2 DEF Removable
  <2>. HIDE DEF gone
  <2>4. SeedPart'
    BY <1>1, <2>2, <2>3, TablesShrink
  <2>. QED
    BY <1>2, <2>2, <2>4, OwedIsEnough DEF FlagPart
<1>5. CASE \E id \in DOMAIN rules, on \in BOOLEAN : SwitchRule(id, on)
  <2>1. PICK id \in DOMAIN rules, on \in BOOLEAN : SwitchRule(id, on)
    BY <1>5
  <2>2. owed' = owed + 1
    BY <2>1 DEF SwitchRule
  <2>. QED
    BY <1>1, <1>2, <2>1, <2>2, SwitchedRuleSeeds, OwedIsEnough DEF FlagPart
<1>6. CASE \E name \in GroupNames, on \in BOOLEAN : SwitchGroup(name, on)
  <2>1. PICK name \in GroupNames, on \in BOOLEAN : SwitchGroup(name, on)
    BY <1>6
  <2>2. owed' = owed + 1
    BY <2>1 DEF SwitchGroup
  <2>. QED
    BY <1>1, <1>2, <2>1, <2>2, SwitchedGroupSeeds, OwedIsEnough DEF FlagPart
<1>7. CASE \E path \in NewSources : AddRoot(path)
  <2>1. stale' /\ UNCHANGED <<release, groups, rules>>
    BY <1>7 DEF AddRoot
  <2>. QED
    BY <1>1, <2>1, SameTables, OwedIsEnough DEF FlagPart
<1>8. CASE \E r \in DOMAIN roots, on \in BOOLEAN : SwitchRoot(r, on)
  <2>1. owed' = owed + 1 /\ UNCHANGED <<release, groups, rules>>
    BY <1>8 DEF SwitchRoot
  <2>. QED
    BY <1>1, <1>2, <2>1, SameTables, OwedIsEnough DEF FlagPart
<1>9. CASE \E r \in DOMAIN roots : RemoveRoot(r)
  <2>1. PICK r \in DOMAIN roots : RemoveRoot(r)
    BY <1>9
  <2>. DEFINE scoped == {id \in DOMAIN rules : rules[id].root = r}
  <2>2. /\ rules' = Restrict(rules, DOMAIN rules \ scoped)
        /\ owed' = owed + 1 /\ UNCHANGED <<release, groups>>
    BY <2>1 DEF RemoveRoot
  <2>3. r # None
    BY <1>1, RuleIdsAre, BookAssumption
  <2>4. \A id \in scoped \cap DOMAIN rules : ~rules[id].builtin \/ rules[id].root # None
    BY <2>3
  <2>. HIDE DEF scoped
  <2>5. SeedPart'
    BY <1>1, <2>2, <2>4, TablesShrink
  <2>. QED
    BY <1>2, <2>2, <2>5, OwedIsEnough DEF FlagPart
<1>10. CASE Reapply
  <2>1. /\ rows' = ApplyExclusions(rows, rules, groups, roots)
        /\ UNCHANGED <<release, groups, rules, roots>>
    BY <1>10 DEF Reapply
  <2>2. rows' = ApplyExclusions(rows, rules', groups', roots')
    BY <2>1
  <2>. QED
    BY <1>1, <2>1, <2>2, SameTables, RecomputedFlags DEF FlagPart
<1>11. CASE \E f \in DOMAIN rows : \E rule \in {ImageRule(f), FolderRule(f)} : Exclude(rule)
  <2>1. PICK f \in DOMAIN rows : \E rule \in {ImageRule(f), FolderRule(f)} : Exclude(rule)
    BY <1>11
  <2>2. PICK rule \in {ImageRule(f), FolderRule(f)} : Exclude(rule)
    BY <2>1
  <2>. DEFINE added == AddRule(Tables, rule.kind, rule.value, None, None, rule.inode)
  <2>3. /\ added.ok /\ rules' = added.rules
        /\ rows' = ApplyExclusions(rows, rules', groups, roots)
        /\ UNCHANGED <<release, groups, roots>>
    BY <2>2 DEF Exclude
  <2>4. /\ roots \in Table(RootRows) /\ Keyed(Tables, DOMAIN roots)
        /\ [kind |-> rule.kind, value |-> rule.value] \in RuleText /\ rule.inode \in Ids
        /\ None \in NameSet \cup {None}
    BY BrowseRuleIs DEF BookInv, BookRight
  <2>5. added.groups = groups'
    <3>1. /\ Keyed([rules |-> added.rules, groups |-> added.groups], DOMAIN roots)
          /\ added.groups = Tables.groups /\ added.id \in DOMAIN added.rules
      BY <2>3, <2>4, AddRuleIs
    <3>. HIDE DEF added
    <3>. QED
      BY <2>3, <3>1 DEF Tables
  <2>6. SeedPart'
    BY <1>1, <2>3, <2>5, TablesGrow
  <2>7. rows' = ApplyExclusions(rows, rules', groups', roots')
    BY <2>3
  <2>. QED
    BY <1>1, <2>3, <2>6, <2>7, RecomputedFlags DEF FlagPart
<1>12. CASE UndoExclusion
  <2>1. CASE Removable(token)
    <3>1. /\ rules' = Restrict(rules, DOMAIN rules \ {token})
          /\ rows' = ApplyExclusions(rows, rules', groups, roots)
          /\ UNCHANGED <<release, groups, roots>>
      BY <1>12, <2>1 DEF UndoExclusion
    <3>. DEFINE gone == {token}
    <3>4. rules' = Restrict(rules, DOMAIN rules \ gone) /\ \A i \in gone : ~rules[i].builtin
      BY <2>1, <3>1 DEF Removable
    <3>. HIDE DEF gone
    <3>2. SeedPart'
      BY <1>1, <3>1, <3>4, TablesShrink
    <3>3. rows' = ApplyExclusions(rows, rules', groups', roots')
      BY <3>1
    <3>. QED
      BY <1>1, <3>1, <3>2, <3>3, RecomputedFlags DEF FlagPart
  <2>2. CASE ~Removable(token)
    <3>1. UNCHANGED <<release, groups, rules, roots, rows, owed, stale, late>>
      BY <1>12, <2>2 DEF UndoExclusion
    <3>. QED
      BY <3>1, FlagsStay
  <2>. QED
    BY <2>1, <2>2
<1>13. CASE \E f, g \in Files : Rename(f, g)
  <2>1. UNCHANGED <<release, groups, rules, roots, rows, owed, stale, late>>
    BY <1>13 DEF Rename
  <2>. QED
    BY <2>1, FlagsStay
<1>14. CASE \E f \in Files, dims \in Looks : Edit(f, dims)
  <2>1. UNCHANGED <<release, groups, rules, roots, rows, owed, stale, late>>
    BY <1>14 DEF Edit
  <2>. QED
    BY <2>1, FlagsStay
<1>. QED
  BY <1>3, <1>4, <1>5, <1>6, <1>7, <1>8, <1>9, <1>10, <1>11, <1>12, <1>13, <1>14 DEF BookStep

\* The application starts again: a release that is seeded is left as it is.
LEMMA RestartFlags ==
  ASSUME BookInv, FlagPart, NEW next \in DOMAIN Releases, Restart(next)
  PROVE  FlagPart'
<1>. DEFINE seeded == SeedBuiltins(Tables, Releases[next])
            gone == DOMAIN rules \ DOMAIN seeded.rules
<1>1. /\ release' = next /\ rules' = seeded.rules /\ groups' = seeded.groups
      /\ rows' = Unflagged(rows, gone) /\ stale' = (stale \/ owed > 0 \/ next # release)
      /\ UNCHANGED <<roots, late>>
  BY DEF Restart
<1>2. /\ Keyed(Tables, DOMAIN roots) /\ DOMAIN roots \in SUBSET Nat /\ owed \in Nat
      /\ RowsRight(rows, DOMAIN rules) /\ KeysOnce(Tables.groups)
      /\ ~SeedNeeded(Tables, Releases[release])
  BY RuleIdsAre DEF BookInv, BookRight, CountsRight, CatalogueRight, FlagPart, SeedPart, Tables, Builtins
<1>3. /\ KeysOnce(seeded.groups) /\ ~SeedNeeded(seeded, Releases[next])
      /\ ~SeedNeeded(Tables, Releases[next]) => seeded = Tables
  BY <1>2, SeededOnce
<1>. HIDE DEF seeded
<1>4. SeedPart'
  <2>1. KeysOnce(groups)'
    BY <1>1, <1>3 DEF KeysOnce
  <2>2. Tables' = [rules |-> seeded.rules, groups |-> seeded.groups] /\ Builtins' = Releases[next]
    BY <1>1 DEF Tables, Builtins
  <2>3. SeedNeeded(Tables, Builtins)' <=> SeedNeeded(seeded, Releases[next])
    BY <2>2 DEF SeedNeeded
  <2>. QED
    BY <1>3, <2>1, <2>3 DEF SeedPart
<1>5. CASE stale'
  BY <1>4, <1>5, OwedIsEnough DEF FlagPart
<1>6. CASE ~stale'
  <2>1. ~stale /\ owed = 0 /\ next = release
    <3>1. ~(stale \/ owed > 0 \/ next # release)
      BY <1>1, <1>6
    <3>2. ~stale /\ ~(owed > 0) /\ next = release
      BY <3>1
    <3>. QED
      BY <1>2, <3>2
  <2>2. seeded = Tables
    BY <1>2, <1>3, <2>1
  <2>3. UNCHANGED <<release, groups, rules, roots, late>>
    BY <1>1, <2>1, <2>2 DEF Tables
  <2>4. rows' = rows
    <3>1. gone = {}
      BY <1>1, <2>3
    <3>2. Unflagged(rows, {}) = [f \in DOMAIN rows |-> rows[f]]
      BY DEF Unflagged
    <3>3. rows = [f \in DOMAIN rows |-> rows[f]]
      BY <1>2 DEF RowsRight
    <3>. QED
      BY <1>1, <3>1, <3>2, <3>3
  <2>5. BookMatcher' = BookMatcher
    BY <2>3, MatcherStays
  <2>6. FlagsRight'
    BY <2>1, <2>3, <2>4, <2>5 DEF FlagPart, FlagsRight
  <2>. QED
    BY <1>4, <2>6 DEF FlagPart
<1>. QED
  BY <1>5, <1>6

\* A scan flags nothing it stores: what it met, the matcher lets through.
LEMMA WalkedIs ==
  ASSUME BookInv, NEW m, NEW rs, NEW source \in Path, NEW f \in WalkedFrom(m, source, disk)
  PROVE  HitFor(m, rs, f, disk[f].inode) = None
<1>1. /\ f \in DOMAIN disk /\ IsUnder(f, source) /\ f # source
      /\ \A k \in Len(source) + 1 .. Len(f) : Match(m, Prefix(f, k), k < Len(f)) = None
      /\ MatchInode(m, disk[f].inode) = None
  BY DEF WalkedFrom
<1>2. f \in Path
  BY <1>1, BookAssumption DEF BookInv, DiskRight, Path
<1>3. Len(source) \in 0 .. Len(f) /\ Prefix(f, Len(source)) = source /\ Prefix(f, Len(f)) = f
  BY <1>1, <1>2, UnderIs, PrefixIs
<1>4. Len(source) # Len(f)
  BY <1>1, <1>3
<1>5. Len(f) \in Nat /\ Len(source) \in Nat
  BY <1>2 DEF Path
<1>6. Len(f) \in Len(source) + 1 .. Len(f) /\ (Len(f) < Len(f)) = FALSE
  BY <1>3, <1>4, <1>5
<1>7. Match(m, f, FALSE) = None
  BY <1>1, <1>3, <1>6
<1>. QED
  BY <1>1, <1>7, NoHitIs
\* What a scan met lies beneath a source it took, walked by its matcher.
LEMMA ScanFlags ==
  ASSUME BookInv, FlagPart, ScanEnds, NEW paths, paths \subseteq Path,
         \A r \in DOMAIN scanning.sources : scanning.sources[r].path \in paths
  PROVE  FlagPart'
<1>. DEFINE sources == scanning.sources
            old == scanning.matcher # BookMatcher
            met == StoredOf([r \in DOMAIN sources |->
                        WalkedFrom(scanning.matcher, sources[r].path, disk)])
            moved == MovedAmong(met)
            left == UNION {MovedFrom(g) : g \in moved}
            fresh == met \ (moved \cup DOMAIN rows)
            order == SetToSeq(fresh)
            top == Max({0} \cup {rows[f].id : f \in DOMAIN rows})
            place(f) == CHOOSE i \in DOMAIN order : order[i] = f
            D == (DOMAIN rows \ left) \cup met
<1>1. /\ StoreMet(met, moved)
      /\ UNCHANGED <<release, groups, rules, roots, disk, owed, stale>>
  BY DEF ScanEnds
<1>2. /\ rows' = [f \in D |->
                 IF f \in moved THEN rows[CHOOSE x \in MovedFrom(f) : TRUE]
                 ELSE IF f \in fresh
                 THEN [id |-> top + place(f), by |-> None, inode |-> disk[f].inode,
                       dims |-> disk[f].dims]
                 ELSE IF f \in met THEN [rows[f] EXCEPT !.dims = disk[f].dims]
                 ELSE rows[f]]
      /\ late' = (late \ left) \cup moved \cup (IF old THEN fresh ELSE {})
  BY <1>1 DEF StoreMet, BookMatcher
<1>3. met \subseteq DOMAIN disk
  BY StoredIs
<1>4. \A f \in met : \E r \in DOMAIN sources :
         f \in WalkedFrom(scanning.matcher, sources[r].path, disk)
  BY DEF StoredOf
<1>. HIDE DEF met
<1>5. moved \subseteq met /\ moved \cap DOMAIN rows = {} /\ left \cap DOMAIN disk = {}
  <2>1. moved \subseteq met /\ moved \cap DOMAIN rows = {}
    BY DEF MovedAmong
  <2>2. \A g \in moved : MovedFrom(g) \cap DOMAIN disk = {}
    BY DEF MovedFrom
  <2>. QED
    BY <2>1, <2>2
<1>6. fresh \subseteq met /\ fresh \cap moved = {} /\ fresh \cap DOMAIN rows = {}
      /\ met \subseteq moved \cup fresh \cup DOMAIN rows
  OBVIOUS
<1>7. BookMatcher' = BookMatcher /\ SeedPart'
  BY <1>1, MatcherStays, SameTables DEF FlagPart
<1>. HIDE DEF moved, left, fresh, order, top, place, old, sources
<1>8. ASSUME owed = 0, ~stale, NEW f \in DOMAIN rows' \ late'
      PROVE  rows'[f].by = HitFor(BookMatcher, rules, f, rows'[f].inode)
  <2>1. f \in D /\ f \notin moved
    BY <1>2
  <2>2. CASE f \in fresh
    <3>1. ~old
      BY <1>2, <1>8, <2>2
    <3>2. rows'[f].by = None /\ rows'[f].inode = disk[f].inode
      BY <1>2, <2>1, <2>2
    <3>3. PICK r \in DOMAIN sources : f \in WalkedFrom(scanning.matcher, sources[r].path, disk)
      BY <1>4, <1>6, <2>2
    <3>4. sources[r].path \in Path /\ scanning.matcher = BookMatcher
      BY <3>1 DEF sources, old
    <3>. QED
      BY <3>2, <3>3, <3>4, WalkedIs
  <2>3. CASE f \notin fresh
    <3>1. f \in DOMAIN rows /\ f \notin left
      BY <1>3, <1>5, <1>6, <2>1, <2>3
    <3>2. rows'[f] = IF f \in met THEN [rows[f] EXCEPT !.dims = disk[f].dims] ELSE rows[f]
      BY <1>2, <2>1, <2>3
    <3>3. rows[f] \in ImageRows
      BY <3>1 DEF BookInv, CatalogueRight, RowsRight
    <3>4. rows'[f].by = rows[f].by /\ rows'[f].inode = rows[f].inode
      BY <3>2, <3>3 DEF ImageRows
    <3>5. f \notin late
      BY <1>2, <1>8, <3>1
    <3>. QED
      BY <1>8, <3>1, <3>4, <3>5 DEF FlagPart, FlagsRight
  <2>. QED
    BY <2>2, <2>3
<1>9. FlagsRight'
  BY <1>1, <1>7, <1>8 DEF FlagsRight
<1>. QED
  BY <1>7, <1>9 DEF FlagPart

\* A scan walks directories.
ScanRight ==
    scanning.stage # "none" =>
        \A r \in DOMAIN scanning.sources : scanning.sources[r].path \in Path

FlagInv == IInv /\ FlagPart /\ ScanRight

LEMMA ScanStays ==
  ASSUME ScanRight, UNCHANGED scanning
  PROVE  ScanRight'
BY DEF ScanRight

LEMMA BookStepScan ==
  ASSUME BookStep
  PROVE  UNCHANGED scanning
<1>1. CASE \E r \in Requests : StoreRule(r.kind, r.value, r.group, r.source)
  BY <1>1 DEF StoreRule
<1>2. CASE \E id \in DOMAIN rules : DeleteRule(id)
  BY <1>2 DEF DeleteRule
<1>3. CASE \E id \in DOMAIN rules, on \in BOOLEAN : SwitchRule(id, on)
  BY <1>3 DEF SwitchRule
<1>4. CASE \E name \in GroupNames, on \in BOOLEAN : SwitchGroup(name, on)
  BY <1>4 DEF SwitchGroup
<1>5. CASE \E path \in NewSources : AddRoot(path)
  BY <1>5 DEF AddRoot
<1>6. CASE \E r \in DOMAIN roots, on \in BOOLEAN : SwitchRoot(r, on)
  BY <1>6 DEF SwitchRoot
<1>7. CASE \E r \in DOMAIN roots : RemoveRoot(r)
  BY <1>7 DEF RemoveRoot
<1>8. CASE Reapply
  BY <1>8 DEF Reapply
<1>9. CASE \E f \in DOMAIN rows : \E rule \in {ImageRule(f), FolderRule(f)} : Exclude(rule)
  BY <1>9 DEF Exclude
<1>10. CASE UndoExclusion
  BY <1>10 DEF UndoExclusion
<1>11. CASE \E f, g \in Files : Rename(f, g)
  BY <1>11 DEF Rename
<1>12. CASE \E f \in Files, dims \in Looks : Edit(f, dims)
  BY <1>12 DEF Edit
<1>. QED
  BY <1>1, <1>2, <1>3, <1>4, <1>5, <1>6, <1>7, <1>8, <1>9, <1>10, <1>11, <1>12 DEF BookStep

LEMMA ScanBeginsRight ==
  ASSUME BookInv, ScanRight, ScanBegins \/ ScanReadsRules
  PROVE  ScanRight'
<1>1. CASE ScanBegins
  <2>. DEFINE on == {r \in DOMAIN roots : roots[r].enabled}
  <2>1. scanning' = [stage |-> "begun", sources |-> Restrict(roots, on)]
    BY <1>1 DEF ScanBegins
  <2>2. \A r \in DOMAIN roots : roots[r].path \in Path
    BY RuleIdsAre DEF BookInv, RootRows, Path
  <2>3. /\ DOMAIN Restrict(roots, on) = on
        /\ \A r \in on : Restrict(roots, on)[r] = roots[r]
    BY DEF Restrict
  <2>4. scanning'.sources = Restrict(roots, on)
    BY <2>1
  <2>. QED
    BY <2>2, <2>3, <2>4 DEF ScanRight
<1>2. CASE ScanReadsRules
  <2>1. scanning.stage = "begun" /\ scanning'.sources = scanning.sources
    BY <1>2 DEF ScanReadsRules
  <2>. QED
    BY <2>1 DEF ScanRight
<1>. QED
  BY <1>1, <1>2

LEMMA FlagsKept == FlagInv /\ [JNext]_vars => FlagInv'
<1>. SUFFICES ASSUME FlagInv, [JNext]_vars PROVE (FlagPart /\ ScanRight)'
  BY InvariantKept DEF FlagInv
<1>1. IInv /\ BookInv /\ FitRight /\ FlagPart /\ ScanRight
  BY DEF FlagInv, IInv
<1>2. ASSUME UNCHANGED <<release, groups, rules, roots, rows, owed, stale, late, scanning>>
      PROVE  (FlagPart /\ ScanRight)'
  BY <1>1, <1>2, FlagsStay, ScanStays
<1>3. CASE BookStep /\ UNCHANGED fitVars
  BY <1>1, <1>3, BookStepFlags, BookStepScan, ScanStays
<1>4. CASE ScanReadsRules /\ UNCHANGED fitVars
  <2>1. UNCHANGED <<release, groups, rules, roots, rows, owed, stale, late>>
    BY <1>4 DEF ScanReadsRules
  <2>. QED
    BY <1>1, <1>4, <2>1, FlagsStay, ScanBeginsRight
<1>5. CASE \E gui \in BOOLEAN, sizes \in Declarations : ScanMeasures(gui, sizes)
  BY <1>2, <1>5 DEF ScanMeasures
<1>6. CASE ScanStarts
  <2>1. ScanBegins /\ UNCHANGED <<release, groups, rules, roots, rows, owed, stale, late>>
    BY <1>6 DEF ScanStarts, ScanBegins
  <2>. QED
    BY <1>1, <2>1, FlagsStay, ScanBeginsRight
<1>7. CASE ScanStores
  <2>1. ScanEnds /\ scanning.stage = "walking" /\ scanning' = Idle
    BY <1>7 DEF ScanStores, ScanEnds
  <2>2. \A r \in DOMAIN scanning.sources : scanning.sources[r].path \in Path
    BY <1>1, <2>1 DEF ScanRight
  <2>3. FlagPart'
    BY <1>1, <2>1, <2>2, ScanFlags
  <2>4. ScanRight'
    BY <2>1 DEF ScanRight, Idle
  <2>. QED
    BY <2>3, <2>4
<1>8. CASE \E sizes \in Declarations : ToolMeasures(sizes)
  BY <1>2, <1>8 DEF ToolMeasures
<1>9. CASE ToolStores
  BY <1>2, <1>9 DEF ToolStores, bookVars
<1>10. CASE \E f \in Files, pin \in {"in", "out", "none"} : SetPin(f, pin)
  BY <1>2, <1>10 DEF SetPin
<1>11. CASE \E d \in Desks : Replug(d)
  BY <1>2, <1>11 DEF Replug
<1>12. CASE \E p \in Proposals(desk, KnownPaths) : AddProposed(p)
  <2>1. stale' /\ UNCHANGED <<release, groups, rules, scanning>>
    BY <1>12 DEF AddProposed, AddRoot
  <2>2. SeedPart'
    BY <1>1, <2>1, SameTables DEF FlagPart
  <2>. QED
    BY <1>1, <2>1, <2>2, OwedIsEnough, ScanStays DEF FlagPart
<1>13. CASE \E next \in DOMAIN Releases : Reopen(next)
  <2>1. PICK next \in DOMAIN Releases : Restart(next)
    BY <1>13 DEF Reopen
  <2>2. FlagPart'
    BY <1>1, <2>1, RestartFlags
  <2>3. scanning' = Idle
    BY <2>1 DEF Restart
  <2>4. ScanRight'
    BY <2>3 DEF ScanRight, Idle
  <2>. QED
    BY <2>2, <2>4
<1>14. CASE UNCHANGED vars
  BY <1>2, <1>14 DEF vars
<1>. QED
  BY <1>3, <1>4, <1>5, <1>6, <1>7, <1>8, <1>9, <1>10, <1>11, <1>12, <1>13, <1>14 DEF JNext

LEMMA FlagsBegin == JInit => FlagInv
<1>. SUFFICES ASSUME JInit PROVE FlagInv
  OBVIOUS
<1>1. Init /\ IInv
  BY InitIsRight DEF JInit
<1>2. BookRight
  BY <1>1 DEF IInv, BookInv
<1>3. roots \in Table(RootRows) /\ DOMAIN roots \in SUBSET Nat
  BY <1>2, RuleIdsAre DEF BookRight
<1>. DEFINE none == [rules |-> <<>>, groups |-> <<>>]
            seeded == SeedBuiltins(none, Builtins)
<1>4. Keyed(none, DOMAIN roots) /\ KeysOnce(none.groups)
  BY NoRows, TablesAre DEF KeysOnce
<1>5. 1 \in DOMAIN Releases /\ Builtins = Releases[1] /\ release = 1
  BY <1>1, BookAssumption DEF Init, Builtins
<1>. HIDE DEF none
<1>6. /\ Keyed(seeded, DOMAIN roots) /\ KeysOnce(seeded.groups)
      /\ ~SeedNeeded(seeded, Releases[1])
  BY <1>3, <1>4, <1>5, SeedBuiltinsIs, SeededOnce
<1>7. PICK tables \in FirstTables : rules = tables.rules /\ groups = tables.groups
  BY <1>1 DEF Init
<1>. DEFINE begun == {AddRule(seeded, r.kind, r.value, r.group, r.source, r.inode) : r \in Begun}
            u == [rules |-> tables.rules, groups |-> tables.groups]
<1>8. tables = seeded \/ (tables \in begun /\ tables.ok)
  BY DEF FirstTables, none
<1>9. u.rules = rules /\ u.groups = groups /\ Tables = u
  BY <1>7 DEF Tables
<1>10. SameSeeds(seeded, u)
  <2>1. CASE tables = seeded
    <3>1. u.rules = seeded.rules /\ u.groups = seeded.groups
      BY <2>1
    <3>. HIDE DEF u, seeded
    <3>. QED
      BY <3>1 DEF SameSeeds
  <2>2. CASE tables \in begun /\ tables.ok
    <3>1. PICK r \in Begun : tables = AddRule(seeded, r.kind, r.value, r.group, r.source, r.inode)
      BY <2>2
    <3>2. AddRule(seeded, r.kind, r.value, r.group, r.source, r.inode).ok
      BY <2>2, <3>1
    <3>3. Bounded(DOMAIN seeded.groups) /\ Bounded(DOMAIN seeded.rules)
      BY <1>6, TableIs DEF Keyed
    <3>. HIDE DEF seeded
    <3>. QED
      BY <3>1, <3>2, <3>3, AddRuleSeeds
  <2>. QED
    BY <1>8, <2>1, <2>2
<1>. HIDE DEF seeded, u
<1>11. KeysOnce(u.groups) /\ ~SeedNeeded(u, Releases[1])
  BY <1>5, <1>6, <1>10, SeedsKept
<1>12. SeedPart
  BY <1>5, <1>9, <1>11 DEF SeedPart
<1>13. FlagsRight
  <2>. DEFINE m == MatcherOf(rules, groups, roots)
  <2>1. rows = [f \in DOMAIN FirstRows |->
                   [FirstRows[f] EXCEPT !.by = HitFor(m, rules, f, FirstRows[f].inode)]]
    BY <1>1 DEF Init, ApplyExclusions, Flagged
  <2>. HIDE DEF m
  <2>2. \A f \in DOMAIN rows : rows[f].by = HitFor(m, rules, f, rows[f].inode)
    <3>. TAKE f \in DOMAIN rows
    <3>. DEFINE hit == HitFor(m, rules, f, FirstRows[f].inode)
                r == FirstRows[f]
    <3>1. f \in DOMAIN FirstRows /\ r \in ImageRows /\ rows[f] = [r EXCEPT !.by = hit]
      BY <2>1, FirstRowsAre DEF RowsRight
    <3>. HIDE DEF hit, r
    <3>2. rows[f].by = hit /\ rows[f].inode = r.inode
      BY <3>1 DEF ImageRows
    <3>. QED
      BY <3>2 DEF hit, r
  <2>. QED
    BY <2>2 DEF FlagsRight, BookMatcher, m
<1>14. ScanRight
  BY <1>1 DEF Init, ScanRight, Idle
<1>. QED
  BY <1>1, <1>12, <1>13, <1>14 DEF FlagInv, FlagPart

LEMMA FlagInvAlways == Spec => []FlagInv
BY FlagsBegin, FlagsKept, PTL DEF Spec

LEMMA FlagsMean == FlagInv => FlagsFollowRules
<1>. SUFFICES ASSUME FlagInv, owed = 0, ~stale,
                     NEW f \in {g \in DOMAIN rows \ late : ~AskedTwoWays(g)}
              PROVE  (rows[f].by # None) = Excluded(f, rows[f].inode)
  BY DEF FlagsFollowRules
<1>1. BookRight /\ RowsRight(rows, DOMAIN rules)
  BY DEF FlagInv, IInv, BookInv, CatalogueRight
<1>2. f \in Path /\ f # <<>> /\ rows[f].inode \in Nat
  BY <1>1, BookAssumption DEF RowsRight, ImageRows, Path
<1>3. rows[f].by = HitFor(BookMatcher, rules, f, rows[f].inode)
  BY DEF FlagInv, FlagPart, FlagsRight
<1>. DEFINE inode == rows[f].inode
<1>4. inode \in Nat
  BY <1>2
<1>. HIDE DEF inode
<1>5. HitFor(BookMatcher, rules, f, inode) # None <=> Excluded(f, inode)
  BY <1>1, <1>2, <1>4, VerdictsMean
<1>6. Excluded(f, inode) \in BOOLEAN
  BY DEF Excluded
<1>. QED
  BY <1>3, <1>5, <1>6 DEF inode

\* Once the jobs of every operation have run, an image is hidden if and only
\* if a rule keeps it out, said without the matcher.
THEOREM FlagsAreTrue == Spec => []FlagsFollowRules
BY FlagInvAlways, FlagsMean, PTL

-----------------------------------------------------------------------------
\* What the detection finds: the screens.

Apart(seq) == \A i, j \in DOMAIN seq : seq[i].name = seq[j].name => i = j

\* Of each name the first is kept: no name is lost, and none is there twice.
LEMMA FirstsAre ==
  ASSUME NEW S, NEW seq \in Seq(S)
  PROVE  /\ Apart(UniqueNames(seq))
         /\ \A n \in DOMAIN UniqueNames(seq) :
                \E i \in DOMAIN seq : UniqueNames(seq)[n] = seq[i]
         /\ \A i \in DOMAIN seq :
                \E n \in DOMAIN UniqueNames(seq) : UniqueNames(seq)[n].name = seq[i].name
<1>. DEFINE K == {i \in DOMAIN seq : \A j \in 1 .. i - 1 : seq[j].name # seq[i].name}
            U == UniqueNames(seq)
<1>1. DOMAIN seq = 1 .. Len(seq) /\ Len(seq) \in Nat /\ K \in SUBSET DOMAIN seq
  OBVIOUS
<1>2. U = KeptAt(seq, K)
  BY DEF UniqueNames
<1>3. \A i, j \in K : i < j => seq[i].name # seq[j].name
  BY <1>1
<1>4. \A i \in DOMAIN seq : \E k \in K : seq[k].name = seq[i].name
  <2>. TAKE i \in DOMAIN seq
  <2>. DEFINE T == {j \in DOMAIN seq : seq[j].name = seq[i].name}
  <2>1. T \in SUBSET Nat /\ T # {}
    BY <1>1
  <2>2. PICK k \in T : \A j \in T : k <= j
    BY <2>1, LeastNumber
  <2>3. \A j \in 1 .. k - 1 : j \in DOMAIN seq /\ j \notin T
    BY <1>1, <2>2
  <2>. QED
    BY <2>2, <2>3
<1>. HIDE DEF K, U
<1>5. /\ \A i \in K : \E n \in DOMAIN U : U[n] = seq[i]
      /\ \A n \in DOMAIN U : \E i \in K : Rank(K, i) = n /\ U[n] = seq[i]
  BY <1>1, <1>2, KeptAtIs
<1>6. \A n, o \in DOMAIN U : U[n].name = U[o].name => n = o
  <2>. SUFFICES ASSUME NEW n \in DOMAIN U, NEW o \in DOMAIN U, U[n].name = U[o].name
                PROVE  n = o
    OBVIOUS
  <2>1. PICK i \in K : Rank(K, i) = n /\ U[n] = seq[i]
    BY <1>5
  <2>2. PICK j \in K : Rank(K, j) = o /\ U[o] = seq[j]
    BY <1>5
  <2>3. ~(i < j) /\ ~(j < i)
    BY <1>3, <2>1, <2>2
  <2>4. i = j
    BY <1>1, <2>3
  <2>. QED
    BY <2>1, <2>2, <2>4
<1>7. \A n \in DOMAIN U : \E i \in DOMAIN seq : U[n] = seq[i]
  BY <1>1, <1>5
<1>8. \A i \in DOMAIN seq : \E n \in DOMAIN U : U[n].name = seq[i].name
  BY <1>4, <1>5
<1>9. Apart(U)
  BY <1>6 DEF Apart
<1>. QED
  BY <1>7, <1>8, <1>9 DEF U

\* The screens that are on, as a set and in their order.
Lit(d) == {s \in ToSet(d.screens) : s.on}

LitOf(d) == KeptAt(d.screens, {i \in DOMAIN d.screens : d.screens[i].on})

LEMMA LitIs ==
  ASSUME NEW d \in Desks
  PROVE  /\ d.screens \in Seq(Screens) /\ LitOf(d) \in Seq(Screens) /\ Lit(d) \subseteq Screens
         /\ \A i \in DOMAIN LitOf(d) : LitOf(d)[i] \in Lit(d)
         /\ \A s \in Lit(d) : \E i \in DOMAIN LitOf(d) : LitOf(d)[i] = s
<1>. DEFINE P == {i \in DOMAIN d.screens : d.screens[i].on}
<1>1. d.screens \in Seq(Screens)
  BY DesktopAssumption
<1>2. Lit(d) = {d.screens[i] : i \in P} /\ P \subseteq DOMAIN d.screens
  BY DEF Lit, ToSet
<1>3. \A i \in DOMAIN d.screens : d.screens[i] \in Screens
  BY <1>1
<1>. HIDE DEF P
<1>. DEFINE kept == KeptAt(d.screens, P)
<1>4. /\ kept \in Seq(Screens)
      /\ \A i \in P : \E n \in DOMAIN kept : kept[n] = d.screens[i]
      /\ \A n \in DOMAIN kept : \E i \in P : kept[n] = d.screens[i]
  BY <1>1, <1>2, KeptAtIs
<1>5. LitOf(d) = kept
  BY DEF LitOf, P
<1>. HIDE DEF kept
<1>. QED
  BY <1>1, <1>2, <1>3, <1>4, <1>5

\* What a probe found shows the screens that are on.
Named(seq, d) == \A s \in Lit(d) : \E n \in DOMAIN seq : seq[n].name = s.name

Shows(seq, d) ==
    /\ \A n \in DOMAIN seq : \E s \in Lit(d) : seq[n].name = s.name /\ seq[n].size = Stands(s)
    /\ Named(seq, d)

LEMMA XrandrShows ==
  ASSUME NEW d \in Desks, d.x, \A s \in Lit(d) : Plausible(s.mode)
  PROVE  Shows(XrandrProbe(Reported(d).xrandr), d)
<1>. DEFINE lit == LitOf(d)
            output(i) == [name |-> lit[i].name, geometry |-> Stands(lit[i]),
                          current |-> lit[i].mode, sideways |-> lit[i].sideways,
                          primary |-> i = 1]
            outputs == [i \in DOMAIN lit |-> output(i)]
            on(o) == o.geometry # <<>> /\ Plausible(OutputSize(o))
            kept == KeptAt(outputs, {i \in DOMAIN outputs : on(outputs[i])})
            named == UniqueNames(kept)
            shown == [i \in DOMAIN named |-> Display(named[i].name, OutputSize(named[i]),
                                                     named[i].primary, "xrandr")]
<1>1. /\ lit \in Seq(Screens) /\ \A i \in DOMAIN lit : lit[i] \in Lit(d) /\ lit[i] \in Screens
      /\ \A s \in Lit(d) : \E i \in DOMAIN lit : lit[i] = s
  BY LitIs
<1>2. Reported(d).xrandr = outputs
  BY DEF Reported, LitOf
<1>. HIDE DEF lit
<1>3. outputs \in Seq(Outputs) /\ DOMAIN outputs = DOMAIN lit
  BY <1>2, ReportedIs
<1>4. \A i \in DOMAIN lit :
        /\ outputs[i].name = lit[i].name /\ OutputSize(outputs[i]) = Stands(lit[i])
        /\ on(outputs[i])
  <2>. TAKE i \in DOMAIN lit
  <2>1. lit[i].mode \in Sizes /\ Stands(lit[i]) \in Sizes
    BY <1>1, ScreenIs
  <2>2. lit[i].mode # <<>> /\ Stands(lit[i]) # <<>>
    BY <2>1, SizesAre
  <2>3. outputs[i] = output(i)
    OBVIOUS
  <2>4. OutputSize(outputs[i]) = Stands(lit[i])
    BY <2>2, <2>3 DEF OutputSize, Stands
  <2>5. Plausible(lit[i].mode)
    BY <1>1
  <2>6. Plausible(Stands(lit[i]))
    BY <2>5 DEF Plausible, Stands, Turned
  <2>. QED
    BY <2>2, <2>3, <2>4, <2>6
<1>. HIDE DEF on, outputs
<1>5. kept = KeptAt(outputs, DOMAIN outputs)
  <2>1. {i \in DOMAIN outputs : on(outputs[i])} = DOMAIN outputs
    BY <1>3, <1>4
  <2>. QED
    BY <2>1
<1>. HIDE DEF kept
<1>6. /\ kept \in Seq(Outputs)
      /\ \A i \in DOMAIN outputs : \E n \in DOMAIN kept : kept[n] = outputs[i]
      /\ \A n \in DOMAIN kept : \E i \in DOMAIN outputs : kept[n] = outputs[i]
  BY <1>3, <1>5, KeptAtIs
<1>7. /\ \A n \in DOMAIN named : \E i \in DOMAIN kept : named[n] = kept[i]
      /\ \A i \in DOMAIN kept : \E n \in DOMAIN named : named[n].name = kept[i].name
  BY <1>6, FirstsAre
<1>. HIDE DEF named
<1>8. /\ DOMAIN shown = DOMAIN named
      /\ \A n \in DOMAIN named : /\ shown[n].name = named[n].name
                                 /\ shown[n].size = OutputSize(named[n])
  BY DEF Display
<1>9. XrandrProbe(Reported(d).xrandr) = shown
  BY <1>2 DEF XrandrProbe, named, kept, on
<1>. HIDE DEF shown
<1>10. ASSUME NEW n \in DOMAIN shown
       PROVE  \E s \in Lit(d) : shown[n].name = s.name /\ shown[n].size = Stands(s)
  <2>1. PICK i \in DOMAIN lit : named[n] = outputs[i]
    BY <1>3, <1>6, <1>7, <1>8
  <2>. QED
    BY <1>1, <1>4, <1>8, <2>1
<1>11. ASSUME NEW s \in Lit(d) PROVE \E n \in DOMAIN shown : shown[n].name = s.name
  <2>1. PICK i \in DOMAIN lit : lit[i] = s
    BY <1>1
  <2>2. PICK k \in DOMAIN kept : kept[k] = outputs[i]
    BY <1>3, <1>6
  <2>3. PICK n \in DOMAIN named : named[n].name = kept[k].name
    BY <1>7
  <2>. QED
    BY <1>4, <1>8, <2>1, <2>2, <2>3
<1>. QED
  BY <1>9, <1>10, <1>11 DEF Shows, Named

\* Division keeps the order, and so does a factor.
LEMMA DivisionKeepsOrder ==
  ASSUME NEW x \in Nat, NEW y \in Nat, NEW z \in Nat \ {0}, x <= y
  PROVE  x \div z <= y \div z
<1>1. z \in Nat /\ z > 0
  OBVIOUS
<1>. QED
  BY <1>1

LEMMA FactorKeepsOrder ==
  ASSUME NEW x \in Nat, NEW y \in Nat, NEW k \in Nat
  PROVE  /\ x <= y => x * k <= y * k
         /\ x < y /\ 0 < k => x * k < y * k
         /\ 0 < x /\ 0 < k => 0 < x * k
OBVIOUS

\* The whole numbers of GDK, scaled up again, stand as the screen stands.
LEMMA LogicalKeepsShape ==
  ASSUME NEW s \in Screens, ShapeShows(s), NEW k \in Nat, 0 < k
  PROVE  LET w == s.mode[1]
             h == s.mode[2]
             a == Logical(s, w) * k
             b == Logical(s, h) * k
         IN  /\ a \in Nat /\ b \in Nat /\ 0 < a /\ 0 < b
             /\ (a < b) = (w < h) /\ (b < a) = (h < w) /\ (a = b) = (w = h)
<1>. DEFINE w == s.mode[1]
            h == s.mode[2]
            x == Logical(s, w)
            y == Logical(s, h)
<1>1. w \in Nat /\ h \in Nat /\ s.per \in Nat /\ s.scale \in Nat \ {0}
  BY ScreenIs, SizesAre
<1>2. /\ x = (w * s.per) \div s.scale /\ y = (h * s.per) \div s.scale
      /\ 0 < x /\ 0 < y /\ (x = y => w = h)
  BY DEF Logical, ShapeShows
<1>. HIDE DEF w, h, x, y
<1>3. /\ w * s.per \in Nat /\ h * s.per \in Nat
      /\ w <= h => w * s.per <= h * s.per
      /\ h <= w => h * s.per <= w * s.per
  BY <1>1, NaturalArithmetic, FactorKeepsOrder
<1>4. x \in Nat /\ y \in Nat
  BY <1>1, <1>2, <1>3, NaturalArithmetic
<1>5. (w <= h => x <= y) /\ (h <= w => y <= x)
  BY <1>1, <1>2, <1>3, DivisionKeepsOrder
<1>6. (w < h => x < y) /\ (h < w => y < x) /\ (w = h => x = y)
  BY <1>1, <1>2, <1>4, <1>5
<1>7. /\ x * k \in Nat /\ y * k \in Nat /\ 0 < x * k /\ 0 < y * k
      /\ (x < y => x * k < y * k) /\ (y < x => y * k < x * k)
  BY <1>2, <1>4, NaturalArithmetic, FactorKeepsOrder
<1>8. (w < h => x * k < y * k) /\ (h < w => y * k < x * k) /\ (w = h => x * k = y * k)
  BY <1>6, <1>7
<1>9. (x * k < y * k) = (w < h) /\ (y * k < x * k) = (h < w) /\ (x * k = y * k) = (w = h)
  BY <1>1, <1>7, <1>8
<1>. QED
  BY <1>7, <1>9 DEF w, h, x, y

\* What GDK finds of a screen: its name, and its shape.
ShownByGdk(found, s) ==
    /\ found.name = s.name
    /\ \E k \in Nat : 0 < k /\ found.size = <<Logical(s, Stands(s)[1]) * k,
                                              Logical(s, Stands(s)[2]) * k>>

LEMMA GdkShows ==
  ASSUME NEW d \in Desks, d.session, d.gtk4, \A s \in Lit(d) : ShapeShows(s)
  PROVE  LET gdk == GdkProbe(Reported(d).gdk)
         IN  /\ \A n \in DOMAIN gdk : \E s \in Lit(d) : ShownByGdk(gdk[n], s)
             /\ Named(gdk, d)
<1>. DEFINE lit == LitOf(d)
            factor(s) == (s.scale + s.per - 1) \div s.per
            monitor(s) == [connector |-> IF d.gtk4 THEN s.name ELSE "", model |-> s.model,
                 geometry |-> <<Logical(s, Stands(s)[1]), Logical(s, Stands(s)[2])>>,
                 scale |-> factor(s), primary |-> FALSE]
            monitors == [i \in DOMAIN lit |-> monitor(lit[i])]
            size(m) == <<m.geometry[1] * m.scale, m.geometry[2] * m.scale>>
            wide(m) == size(m)[1] > 0 /\ size(m)[2] > 0
            kept == KeptAt(monitors, {i \in DOMAIN monitors : wide(monitors[i])})
            shown == [i \in DOMAIN kept |->
                        Display(MonitorName(kept[i]), size(kept[i]), kept[i].primary, "gdk")]
<1>1. /\ lit \in Seq(Screens) /\ \A i \in DOMAIN lit : lit[i] \in Lit(d) /\ lit[i] \in Screens
      /\ \A s \in Lit(d) : \E i \in DOMAIN lit : lit[i] = s
  BY LitIs
<1>2. Reported(d).gdk = monitors
  BY DEF Reported, LitOf
<1>3. GdkProbe(monitors) = shown
  BY DEF GdkProbe
<1>. HIDE DEF lit
<1>4. monitors \in Seq(Monitors) /\ DOMAIN monitors = DOMAIN lit
  BY <1>2, ReportedIs
<1>5. \A s \in Screens : factor(s) \in Nat /\ 0 < factor(s)
  <2>. TAKE s \in Screens
  <2>1. s.scale \in Nat \ {0} /\ s.per \in Nat \ {0}
    BY ScreenIs
  <2>2. s.scale + s.per - 1 \in Nat /\ s.per <= s.scale + s.per - 1 /\ s.per \in Nat /\ s.per > 0
    BY <2>1
  <2>3. s.per \div s.per = 1
    BY <2>2
  <2>4. s.per \div s.per <= factor(s)
    BY <2>1, <2>2, DivisionKeepsOrder
  <2>5. factor(s) \in Nat
    BY <2>2, NaturalArithmetic
  <2>. QED
    BY <2>3, <2>4, <2>5
<1>. HIDE DEF factor
<1>6. ASSUME NEW s \in Lit(d), s \in Screens
      PROVE  /\ wide(monitor(s)) /\ MonitorName(monitor(s)) = s.name
             /\ size(monitor(s)) = <<Logical(s, Stands(s)[1]) * factor(s),
                                     Logical(s, Stands(s)[2]) * factor(s)>>
  <2>1. MonitorName(monitor(s)) = s.name
    BY <1>6, ScreenIs DEF MonitorName
  <2>2. size(monitor(s)) = <<Logical(s, Stands(s)[1]) * factor(s),
                             Logical(s, Stands(s)[2]) * factor(s)>>
    OBVIOUS
  <2>3. 0 < Logical(s, s.mode[1]) * factor(s) /\ 0 < Logical(s, s.mode[2]) * factor(s)
    BY <1>5, <1>6, LogicalKeepsShape
  <2>4. \/ Stands(s)[1] = s.mode[1] /\ Stands(s)[2] = s.mode[2]
        \/ Stands(s)[1] = s.mode[2] /\ Stands(s)[2] = s.mode[1]
    BY DEF Stands, Turned
  <2>5. 0 < Logical(s, Stands(s)[1]) * factor(s) /\ 0 < Logical(s, Stands(s)[2]) * factor(s)
    BY <2>3, <2>4
  <2>6. wide(monitor(s))
    <3>. HIDE DEF monitor
    <3>. QED
      BY <2>2, <2>5
  <2>. QED
    BY <2>1, <2>2, <2>6
<1>. HIDE DEF monitor, size
<1>7. {i \in DOMAIN monitors : wide(monitors[i])} = DOMAIN monitors
  BY <1>1, <1>6
<1>8. \A i \in DOMAIN monitors : monitors[i] = monitor(lit[i])
  OBVIOUS
<1>. HIDE DEF wide, monitors
<1>9. kept = KeptAt(monitors, DOMAIN monitors)
  BY <1>7
<1>. HIDE DEF kept
<1>10. /\ \A i \in DOMAIN monitors : \E n \in DOMAIN kept : kept[n] = monitors[i]
       /\ \A n \in DOMAIN kept : \E i \in DOMAIN monitors : kept[n] = monitors[i]
  BY <1>4, <1>9, KeptAtIs
<1>11. /\ DOMAIN shown = DOMAIN kept
       /\ \A n \in DOMAIN kept : /\ shown[n].name = MonitorName(kept[n])
                                 /\ shown[n].size = size(kept[n])
  BY DEF Display
<1>. HIDE DEF shown
<1>12. ASSUME NEW n \in DOMAIN shown PROVE \E s \in Lit(d) : ShownByGdk(shown[n], s)
  <2>1. PICK i \in DOMAIN lit : kept[n] = monitor(lit[i])
    BY <1>4, <1>8, <1>10, <1>11
  <2>2. lit[i] \in Lit(d) /\ lit[i] \in Screens
    BY <1>1
  <2>3. ShownByGdk(shown[n], lit[i])
    BY <1>5, <1>6, <1>11, <2>1, <2>2 DEF ShownByGdk
  <2>. QED
    BY <2>2, <2>3
<1>13. ASSUME NEW s \in Lit(d) PROVE \E n \in DOMAIN shown : shown[n].name = s.name
  <2>1. PICK i \in DOMAIN lit : lit[i] = s
    BY <1>1
  <2>2. s \in Screens
    BY <1>1, <2>1
  <2>3. PICK n \in DOMAIN kept : kept[n] = monitor(s)
    BY <1>4, <1>8, <1>10, <2>1
  <2>. QED
    BY <1>6, <1>11, <2>2, <2>3
<1>. QED
  BY <1>2, <1>3, <1>12, <1>13 DEF Named

\* DRM names every screen and gives its native mode, which it is in.
ShownByDrm(found, s) == found.name = s.name /\ found.size = s.mode

LEMMA DrmShows ==
  ASSUME NEW d \in Desks, Lit(d) # {}, \A s \in Lit(d) : Plausible(s.mode) /\ s.mode = s.native,
         \A s, t \in ToSet(d.screens) : s.name = t.name => s = t
  PROVE  LET drm == DrmProbe(Reported(d).drm)
         IN  /\ \A n \in DOMAIN drm : \E s \in Lit(d) : ShownByDrm(drm[n], s)
             /\ Named(drm, d)
<1>. DEFINE screens == d.screens
            connector(s) == [name |-> s.name, writeback |-> FALSE, connected |-> TRUE,
                             mode |-> s.native, enabled |-> s.on, panel |-> s.panel]
            connectors == [i \in DOMAIN screens |-> connector(screens[i])]
            kept == KeptAt(connectors, {i \in DOMAIN connectors : DrmConnector(connectors[i])})
            read == UniqueNames(kept)
            enabled == KeptAt(read, {i \in DOMAIN read : read[i].enabled})
            found == IF enabled = <<>> THEN read ELSE enabled
            panels == {i \in DOMAIN found : found[i].panel}
            primary == IF panels = {} THEN 1 ELSE CHOOSE i \in panels :
                                                     \A j \in panels : i <= j
            shown == [i \in DOMAIN found |->
                        Display(found[i].name, found[i].mode, i = primary, "drm")]
<1>1. /\ screens \in Seq(Screens) /\ \A i \in DOMAIN screens : screens[i] \in ToSet(d.screens)
      /\ \A s \in ToSet(d.screens) : s \in Screens /\ \E i \in DOMAIN screens : screens[i] = s
      /\ Lit(d) \subseteq ToSet(d.screens) /\ \A s \in ToSet(d.screens) : s.on => s \in Lit(d)
  BY LitIs DEF ToSet, Lit
<1>2. Reported(d).drm = connectors
  BY DEF Reported
<1>3. DrmProbe(connectors) = shown
  BY DEF DrmProbe
<1>. HIDE DEF screens
<1>4. connectors \in Seq(Connectors) /\ DOMAIN connectors = DOMAIN screens
  BY <1>2, ReportedIs
<1>5. \A i \in DOMAIN connectors : connectors[i] = connector(screens[i])
  OBVIOUS
<1>6. \A s \in Lit(d) : DrmConnector(connector(s)) /\ connector(s).enabled
  <2>. TAKE s \in Lit(d)
  <2>1. s.native \in Sizes /\ s.on
    BY LitIs, ScreenIs DEF Lit
  <2>. QED
    BY <2>1, SizesAre DEF DrmConnector
<1>7. \A s : connector(s).name = s.name /\ connector(s).mode = s.native
             /\ connector(s).enabled = s.on
  OBVIOUS
<1>. HIDE DEF connectors, connector
<1>8. /\ kept \in Seq(Connectors)
      /\ \A i \in DOMAIN connectors : DrmConnector(connectors[i])
            => \E n \in DOMAIN kept : kept[n] = connectors[i]
      /\ \A n \in DOMAIN kept : \E i \in DOMAIN connectors : kept[n] = connectors[i]
  <2>. DEFINE P == {i \in DOMAIN connectors : DrmConnector(connectors[i])}
  <2>1. P \in SUBSET DOMAIN connectors
    OBVIOUS
  <2>2. \A i \in DOMAIN connectors : DrmConnector(connectors[i]) => i \in P
    OBVIOUS
  <2>. HIDE DEF P
  <2>3. /\ KeptAt(connectors, P) \in Seq(Connectors)
        /\ \A i \in P : \E n \in DOMAIN KeptAt(connectors, P) :
              KeptAt(connectors, P)[n] = connectors[i]
        /\ \A n \in DOMAIN KeptAt(connectors, P) : \E i \in P :
              KeptAt(connectors, P)[n] = connectors[i]
    BY <1>4, <2>1, KeptAtIs
  <2>4. kept = KeptAt(connectors, P)
    BY DEF P
  <2>. HIDE DEF kept
  <2>. QED
    BY <2>1, <2>2, <2>3, <2>4
<1>. HIDE DEF kept
<1>9. /\ read \in Seq(Connectors)
      /\ \A n \in DOMAIN read : \E i \in DOMAIN kept : read[n] = kept[i]
      /\ \A i \in DOMAIN kept : \E n \in DOMAIN read : read[n].name = kept[i].name
  BY <1>8, FirstsAre, UniqueNamesIs
<1>. HIDE DEF read
<1>10. \A n \in DOMAIN read : \E s \in ToSet(d.screens) : read[n] = connector(s)
  <2>. TAKE n \in DOMAIN read
  <2>1. PICK i \in DOMAIN kept : read[n] = kept[i]
    BY <1>9
  <2>2. PICK j \in DOMAIN connectors : kept[i] = connectors[j]
    BY <1>8
  <2>. QED
    BY <1>1, <1>4, <1>5, <2>1, <2>2
<1>11. \A s \in Lit(d) : \E n \in DOMAIN read : read[n] = connector(s)
  <2>. TAKE s \in Lit(d)
  <2>1. PICK i \in DOMAIN connectors : connectors[i] = connector(s)
    BY <1>1, <1>4, <1>5
  <2>2. PICK k \in DOMAIN kept : kept[k] = connector(s)
    BY <1>6, <1>8, <2>1
  <2>3. PICK n \in DOMAIN read : read[n].name = connector(s).name
    BY <1>9, <2>2
  <2>4. PICK t \in ToSet(d.screens) : read[n] = connector(t)
    BY <1>10
  <2>5. t = s
    BY <1>1, <1>7, <2>3, <2>4
  <2>. QED
    BY <2>4, <2>5
<1>12. /\ \A i \in DOMAIN read : read[i].enabled
             => \E n \in DOMAIN enabled : enabled[n] = read[i]
       /\ \A n \in DOMAIN enabled : \E i \in DOMAIN read : enabled[n] = read[i] /\ read[i].enabled
  <2>. DEFINE P == {i \in DOMAIN read : read[i].enabled}
  <2>1. P \in SUBSET DOMAIN read
    OBVIOUS
  <2>2. \A i \in DOMAIN read : read[i].enabled <=> i \in P
    OBVIOUS
  <2>. HIDE DEF P
  <2>3. /\ \A i \in P : \E n \in DOMAIN KeptAt(read, P) : KeptAt(read, P)[n] = read[i]
        /\ \A n \in DOMAIN KeptAt(read, P) : \E i \in P : KeptAt(read, P)[n] = read[i]
    <3>1. read \in Seq(Connectors)
      BY <1>9
    <3>. QED
      BY <3>1, <2>1, KeptAtIs
  <2>4. enabled = KeptAt(read, P)
    BY DEF P
  <2>. HIDE DEF enabled
  <2>. QED
    BY <2>1, <2>2, <2>3, <2>4
<1>. HIDE DEF enabled
<1>13. \A s \in Lit(d) : \E n \in DOMAIN enabled : enabled[n] = connector(s)
  BY <1>6, <1>11, <1>12
<1>14. \A n \in DOMAIN enabled : \E s \in Lit(d) : enabled[n] = connector(s)
  <2>. TAKE n \in DOMAIN enabled
  <2>1. PICK i \in DOMAIN read : enabled[n] = read[i] /\ read[i].enabled
    BY <1>12
  <2>2. PICK s \in ToSet(d.screens) : read[i] = connector(s)
    BY <1>10
  <2>3. s.on
    BY <1>7, <2>1, <2>2
  <2>. QED
    BY <1>1, <2>1, <2>2, <2>3
<1>15. found = enabled
  <2>1. PICK s : s \in Lit(d)
    OBVIOUS
  <2>2. DOMAIN enabled # {}
    BY <1>13, <2>1
  <2>3. enabled # <<>>
    BY <2>2
  <2>. QED
    BY <2>3
<1>16. /\ DOMAIN shown = DOMAIN found
       /\ \A n \in DOMAIN found : /\ shown[n].name = found[n].name
                                  /\ shown[n].size = found[n].mode
  <2>. HIDE DEF found, primary
  <2>. QED
    BY DEF Display
<1>. HIDE DEF shown, found
<1>17. ASSUME NEW n \in DOMAIN shown PROVE \E s \in Lit(d) : ShownByDrm(shown[n], s)
  <2>1. PICK s \in Lit(d) : found[n] = connector(s)
    BY <1>14, <1>15, <1>16
  <2>2. shown[n].name = s.name /\ shown[n].size = s.mode
    BY <1>7, <1>16, <2>1
  <2>. QED
    BY <2>2 DEF ShownByDrm
<1>18. ASSUME NEW s \in Lit(d) PROVE \E n \in DOMAIN shown : shown[n].name = s.name
  BY <1>7, <1>13, <1>15, <1>16
<1>. QED
  BY <1>2, <1>3, <1>17, <1>18 DEF Named

\* DRM's pixels, turned as GDK says, are the screen as it stands.
LEMMA TurnedRight ==
  ASSUME NEW s \in Screens, ShapeShows(s), NEW found, ShownByGdk(found, s)
  PROVE  LET upright(size) == size[2] > size[1]
             turn == /\ upright(found.size) # upright(s.mode)
                     /\ found.size[1] # found.size[2]
         IN  (IF turn THEN Turned(s.mode) ELSE s.mode) = Stands(s)
<1>. DEFINE w == s.mode[1]
            h == s.mode[2]
            upright(size) == size[2] > size[1]
            turn == /\ upright(found.size) # upright(s.mode)
                    /\ found.size[1] # found.size[2]
<1>1. PICK k \in Nat : 0 < k /\ found.size = <<Logical(s, Stands(s)[1]) * k,
                                              Logical(s, Stands(s)[2]) * k>>
  BY DEF ShownByGdk
<1>. DEFINE a == Logical(s, w) * k
            b == Logical(s, h) * k
<1>2. /\ a \in Nat /\ b \in Nat /\ 0 < a /\ 0 < b
      /\ (a < b) = (w < h) /\ (b < a) = (h < w) /\ (a = b) = (w = h)
  BY <1>1, LogicalKeepsShape
<1>3. s.mode \in Sizes /\ w \in Nat /\ h \in Nat /\ s.sideways \in BOOLEAN
  BY ScreenIs, SizesAre
<1>4. s.mode = <<w, h>>
  BY <1>3 DEF Sizes
<1>5. ASSUME s.sideways PROVE (IF turn THEN Turned(s.mode) ELSE s.mode) = Stands(s)
  <2>1. Stands(s) = Turned(s.mode) /\ Turned(s.mode) = <<h, w>>
    BY <1>5 DEF Stands, Turned
  <2>2. found.size[1] = b /\ found.size[2] = a
    BY <1>1, <2>1
  <2>. HIDE DEF a, b, w, h
  <2>3. upright(found.size) = (h < w) /\ (found.size[1] # found.size[2]) = (w # h)
    BY <1>2, <2>2
  <2>4. upright(s.mode) = (w < h)
    BY <1>3, <1>4
  <2>5. w # h => turn
    BY <1>3, <2>3, <2>4
  <2>6. w = h => ~turn
    BY <2>3
  <2>. HIDE DEF turn
  <2>. QED
    BY <1>4, <2>1, <2>5, <2>6
<1>6. ASSUME ~s.sideways PROVE (IF turn THEN Turned(s.mode) ELSE s.mode) = Stands(s)
  <2>1. Stands(s) = s.mode
    BY <1>6 DEF Stands
  <2>2. found.size[1] = a /\ found.size[2] = b
    BY <1>1, <2>1
  <2>. HIDE DEF a, b, w, h
  <2>3. upright(found.size) = (w < h)
    BY <1>2, <2>2
  <2>4. upright(s.mode) = (w < h)
    BY <1>3, <1>4
  <2>5. ~turn
    BY <2>3, <2>4
  <2>. HIDE DEF turn
  <2>. QED
    BY <2>1, <2>5
<1>. QED
  BY <1>3, <1>5, <1>6

\* A display keeps its name when its pixels are found.
LEMMA MergeKeeps ==
  ASSUME NEW gdk \in Seq(Found), NEW drm \in Seq(Found)
  PROVE  /\ DOMAIN MergeGdkDrm(gdk, drm) = DOMAIN gdk
         /\ \A n \in DOMAIN gdk : MergeGdkDrm(gdk, drm)[n].name = gdk[n].name
<1>. DEFINE upright(size) == size[2] > size[1]
            named(d) == {i \in DOMAIN drm : drm[i].name = d.name}
            pixels(d) == drm[CHOOSE i \in named(d) : \A j \in named(d) : i <= j].size
            turn(d) == /\ upright(d.size) # upright(pixels(d))
                       /\ d.size[1] # d.size[2]
            new(d) == IF turn(d) THEN Turned(pixels(d)) ELSE pixels(d)
            out == [i \in DOMAIN gdk |->
                      IF named(gdk[i]) = {} THEN gdk[i] ELSE [gdk[i] EXCEPT !.size = new(gdk[i])]]
<1>1. MergeGdkDrm(gdk, drm) = out
  BY DEF MergeGdkDrm
<1>2. \A i \in DOMAIN gdk : gdk[i] \in Found
  OBVIOUS
<1>. HIDE DEF new, named
<1>3. \A i \in DOMAIN gdk : out[i].name = gdk[i].name
  BY <1>2 DEF Found
<1>4. DOMAIN out = DOMAIN gdk
  OBVIOUS
<1>. QED
  BY <1>1, <1>3, <1>4

LEMMA MergeShows ==
  ASSUME NEW d \in Desks, NEW gdk \in Seq(Found), NEW drm \in Seq(Found),
         \A s \in Lit(d) : ShapeShows(s),
         \A s, t \in Lit(d) : s.name = t.name => s = t,
         \A n \in DOMAIN gdk : \E s \in Lit(d) : ShownByGdk(gdk[n], s), Named(gdk, d),
         \A n \in DOMAIN drm : \E s \in Lit(d) : ShownByDrm(drm[n], s), Named(drm, d)
  PROVE  Shows(MergeGdkDrm(gdk, drm), d)
<1>. DEFINE upright(size) == size[2] > size[1]
            named(f) == {i \in DOMAIN drm : drm[i].name = f.name}
            first(f) == CHOOSE i \in named(f) : \A j \in named(f) : i <= j
            pixels(f) == drm[first(f)].size
            turn(f) == /\ upright(f.size) # upright(pixels(f))
                       /\ f.size[1] # f.size[2]
            new(f) == IF turn(f) THEN Turned(pixels(f)) ELSE pixels(f)
            out == [i \in DOMAIN gdk |->
                      IF named(gdk[i]) = {} THEN gdk[i] ELSE [gdk[i] EXCEPT !.size = new(gdk[i])]]
<1>1. MergeGdkDrm(gdk, drm) = out
  BY DEF MergeGdkDrm
<1>2. /\ DOMAIN out = DOMAIN gdk /\ \A n \in DOMAIN gdk : out[n].name = gdk[n].name
  BY <1>1, MergeKeeps
<1>3. ASSUME NEW n \in DOMAIN out
      PROVE  \E s \in Lit(d) : out[n].name = s.name /\ out[n].size = Stands(s)
  <2>. DEFINE f == gdk[n]
  <2>1. PICK s \in Lit(d) : ShownByGdk(f, s)
    BY <1>2
  <2>2. s \in Screens /\ f \in Found /\ f.name = s.name
    BY <1>2, <2>1, LitIs DEF ShownByGdk
  <2>3. named(f) \in SUBSET Nat /\ named(f) # {}
    <3>1. PICK i \in DOMAIN drm : drm[i].name = s.name
      BY DEF Named
    <3>2. i \in named(f)
      BY <2>2, <3>1
    <3>. QED
      BY <3>2
  <2>4. first(f) \in named(f)
    <3>. HIDE DEF named
    <3>. QED
      BY <2>3, FirstIs
  <2>5. first(f) \in DOMAIN drm /\ drm[first(f)].name = f.name
    BY <2>4
  <2>. HIDE DEF first
  <2>6. PICK t \in Lit(d) : ShownByDrm(drm[first(f)], t)
    BY <2>5
  <2>7. t = s /\ pixels(f) = s.mode
    BY <2>2, <2>5, <2>6 DEF ShownByDrm
  <2>8. new(f) = Stands(s)
    <3>. DEFINE turned == /\ upright(f.size) # upright(s.mode)
                          /\ f.size[1] # f.size[2]
    <3>1. (IF turned THEN Turned(s.mode) ELSE s.mode) = Stands(s)
      <4>. HIDE DEF f
      <4>. QED
        BY <2>1, <2>2, TurnedRight
    <3>2. turn(f) = turned
      BY <2>7
    <3>. HIDE DEF turn, turned
    <3>. QED
      BY <2>7, <3>1, <3>2
  <2>9. out[n] = [f EXCEPT !.size = new(f)]
    BY <1>2, <2>3
  <2>. HIDE DEF new
  <2>10. out[n].size = new(f)
    BY <2>2, <2>9 DEF Found
  <2>11. out[n].name = f.name
    BY <1>2
  <2>. HIDE DEF out, f
  <2>. QED
    BY <2>2, <2>8, <2>10, <2>11
<1>. HIDE DEF out
<1>4. ASSUME NEW s \in Lit(d) PROVE \E n \in DOMAIN out : out[n].name = s.name
  BY <1>2 DEF Named
<1>. QED
  BY <1>1, <1>3, <1>4 DEF Shows, Named

LEMMA ApartIs ==
  ASSUME NEW seq, NEW other, Apart(seq), DOMAIN other = DOMAIN seq,
         \A n \in DOMAIN seq : other[n].name = seq[n].name
  PROVE  Apart(other)
BY DEF Apart

\* What is detected has no name twice.
LEMMA DetectedApart ==
  ASSUME NEW probes \in Seq(Probe)
  PROVE  Apart(Detected(probes))
<1>1. FoundBy(probes) # {} => /\ probes[FirstFound(probes)].displays \in Seq(Found)
                              /\ Winner(probes) \in Seq(Found)
                              /\ AfterFirst(probes) # {} => DrmAfter(probes) \in Seq(Found)
  <2>. DEFINE found == FoundBy(probes)
              after == AfterFirst(probes)
              first == CHOOSE i \in found : \A j \in found : i <= j
              next == CHOOSE i \in after : \A j \in after : i <= j
  <2>1. \A i \in DOMAIN probes : probes[i].displays \in Seq(Found)
    <3>1. \A i \in DOMAIN probes : probes[i] \in Probe
      OBVIOUS
    <3>. QED
      BY <3>1 DEF Probe
  <2>2. /\ found \in SUBSET Nat /\ found \subseteq DOMAIN probes
        /\ after \in SUBSET Nat /\ after \subseteq DOMAIN probes
    BY DEF FoundBy, AfterFirst
  <2>3. FirstFound(probes) = first /\ DrmAfter(probes) = probes[next].displays
    BY DEF FirstFound, DrmAfter
  <2>. HIDE DEF found, after
  <2>4. (found # {} => first \in found) /\ (after # {} => next \in after)
    BY <2>2, FirstIs
  <2>. HIDE DEF first, next
  <2>5. /\ found # {} => probes[first].displays \in Seq(Found)
        /\ after # {} => probes[next].displays \in Seq(Found)
    BY <2>1, <2>2, <2>4
  <2>6. found # {} => Winner(probes) \in Seq(Found)
    BY <2>3, <2>5, UniqueNamesIs DEF Winner
  <2>. QED
    BY <2>3, <2>5, <2>6 DEF found, after
<1>2. FoundBy(probes) # {} => Apart(Winner(probes))
  BY <1>1, FirstsAre DEF Winner
<1>3. FoundBy(probes) # {} /\ AfterFirst(probes) # {}
        => Apart(MergeGdkDrm(Winner(probes), DrmAfter(probes)))
  <2>. SUFFICES ASSUME FoundBy(probes) # {}, AfterFirst(probes) # {}
                PROVE  Apart(MergeGdkDrm(Winner(probes), DrmAfter(probes)))
    OBVIOUS
  <2>. DEFINE merged == MergeGdkDrm(Winner(probes), DrmAfter(probes))
              winner == Winner(probes)
  <2>1. DOMAIN merged = DOMAIN winner /\ \A n \in DOMAIN winner : merged[n].name = winner[n].name
    BY <1>1, MergeKeeps
  <2>2. Apart(winner)
    BY <1>2
  <2>. HIDE DEF merged, winner
  <2>3. Apart(merged)
    BY <2>1, <2>2, ApartIs
  <2>. QED
    BY <2>3 DEF merged
<1>4. Apart(<<>>)
  BY DEF Apart
<1>. QED
  BY <1>2, <1>3, <1>4 DEF Detected

LEMMA FirstsShow ==
  ASSUME NEW d, NEW S, NEW seq \in Seq(S), Shows(seq, d)
  PROVE  Shows(UniqueNames(seq), d)
<1>. DEFINE firsts == UniqueNames(seq)
<1>1. /\ \A n \in DOMAIN firsts : \E i \in DOMAIN seq : firsts[n] = seq[i]
      /\ \A i \in DOMAIN seq : \E n \in DOMAIN firsts : firsts[n].name = seq[i].name
  BY FirstsAre
<1>. HIDE DEF firsts
<1>2. ASSUME NEW n \in DOMAIN firsts
      PROVE  \E s \in Lit(d) : firsts[n].name = s.name /\ firsts[n].size = Stands(s)
  BY <1>1 DEF Shows
<1>3. ASSUME NEW s \in Lit(d) PROVE \E n \in DOMAIN firsts : firsts[n].name = s.name
  <2>1. PICK i \in DOMAIN seq : seq[i].name = s.name
    BY DEF Shows, Named
  <2>. QED
    BY <1>1, <2>1
<1>4. Shows(firsts, d)
  BY <1>2, <1>3 DEF Shows, Named
<1>. QED
  BY <1>4 DEF firsts

LEMMA OneBefore ==
  ASSUME NEW a, NEW b, NEW c
  PROVE  <<a>> \o <<b, c>> = <<a, b, c>>
<1>. DEFINE S == {a, b, c}
            both == <<a>> \o <<b, c>>
<1>1. <<a>> \in Seq(S) /\ <<b, c>> \in Seq(S) /\ Len(<<a>>) = 1 /\ Len(<<b, c>>) = 2
  OBVIOUS
<1>2. /\ both \in Seq(S) /\ Len(both) = 3
      /\ \A i \in 1 .. 3 : both[i] = IF i <= 1 THEN <<a>>[i] ELSE <<b, c>>[i - 1]
  <2>. HIDE DEF S
  <2>. QED
    BY <1>1, ConcatProperties
<1>3. both[1] = a /\ both[2] = b /\ both[3] = c
  BY <1>2
<1>. HIDE DEF both
<1>4. <<a, b, c>> \in Seq(S) /\ Len(<<a, b, c>>) = 3
  OBVIOUS
<1>5. \A i \in 1 .. 3 : both[i] = <<a, b, c>>[i]
  BY <1>3
<1>6. both = <<a, b, c>>
  <2>. HIDE DEF S
  <2>. QED
    BY <1>2, <1>4, <1>5, SeqEqual
<1>. QED
  BY <1>6 DEF both

\* The probes of a process.
ProbesOf(d, gui) == IF gui THEN GuiProbes(Reported(d)) ELSE ServiceProbes(Reported(d))

LEMMA ProbesOfAre ==
  ASSUME NEW d \in Desks, NEW gui
  PROVE  ProbesOf(d, gui) \in Seq(Probe)
BY ProbesAre DEF ProbesOf

\* When the first probe finds a display, it wins.
LEMMA FirstWins ==
  ASSUME NEW probes, DOMAIN probes \subseteq Nat, 1 \in DOMAIN probes,
         \A i \in DOMAIN probes : 1 <= i, probes[1].displays # <<>>
  PROVE  FirstFound(probes) = 1 /\ FoundBy(probes) # {}
<1>. DEFINE found == FoundBy(probes)
            first == CHOOSE i \in found : \A j \in found : i <= j
<1>1. found \in SUBSET Nat /\ 1 \in found /\ \A i \in found : 1 <= i
  BY DEF FoundBy
<1>2. FirstFound(probes) = first
  BY DEF FirstFound
<1>. HIDE DEF found
<1>3. first \in found /\ first <= 1
  BY <1>1, FirstIs
<1>. HIDE DEF first
<1>4. first = 1
  BY <1>1, <1>3
<1>. QED
  BY <1>1, <1>2, <1>4 DEF found

\* A tool that can tell finds every screen that is on, as it stands.
LEMMA DetectedShows ==
  ASSUME NEW d \in Desks, NEW gui \in BOOLEAN, ToolsTell(d, gui)
  PROVE  Shows(Detected(ProbesOf(d, gui)), d)
<1>. DEFINE r == Reported(d)
            probes == ProbesOf(d, gui)
            drm == [source |-> "drm", displays |-> DrmProbe(r.drm)]
            xrandr == [source |-> "xrandr", displays |-> XrandrProbe(r.xrandr)]
            gdk == [source |-> "gdk", displays |-> GdkProbe(r.gdk)]
<1>1. /\ d.session /\ Lit(d) # {} /\ \A s \in Lit(d) : Plausible(s.mode)
      /\ \A s, t \in ToSet(d.screens) : s.name = t.name => s = t
  BY DEF ToolsTell, Lit
<1>2. r.session = d.session
  BY DEF Reported
<1>3. DrmProbe(r.drm) \in Seq(Found) /\ XrandrProbe(r.xrandr) \in Seq(Found)
      /\ GdkProbe(r.gdk) \in Seq(Found)
  BY ReportedIs, DrmProbeIs, XrandrProbeIs, GdkProbeIs
<1>4. ServiceProbes(r) = <<xrandr, drm>>
  <2>. HIDE DEF r
  <2>. QED
    BY <1>1, <1>2 DEF ServiceProbes
<1>5. PICK s : s \in Lit(d)
  BY <1>1
<1>6. \A seq : Named(seq, d) => seq # <<>>
  BY <1>5 DEF Named
<1>7. CASE ~gui
  <2>. DEFINE found == XrandrProbe(r.xrandr)
  <2>1. d.x
    BY <1>7 DEF ToolsTell
  <2>2. Shows(found, d)
    BY <1>1, <2>1, XrandrShows DEF Lit
  <2>3. found # <<>>
    BY <1>6, <2>2 DEF Shows
  <2>4. probes = <<xrandr, drm>>
    BY <1>4, <1>7 DEF ProbesOf
  <2>. HIDE DEF r, probes
  <2>5. /\ DOMAIN probes = {1, 2} /\ probes[1] = xrandr
        /\ xrandr.displays = found /\ xrandr.source = "xrandr"
    BY <2>4
  <2>. HIDE DEF xrandr, found
  <2>6. FirstFound(probes) = 1 /\ FoundBy(probes) # {}
    BY <2>3, <2>5, FirstWins
  <2>7. Winner(probes) = UniqueNames(found) /\ Detected(probes) = Winner(probes)
    BY <2>5, <2>6 DEF Winner, Detected
  <2>8. Shows(UniqueNames(found), d)
    BY <1>3, <2>2, FirstsShow DEF found
  <2>. QED
    BY <2>7, <2>8 DEF probes
<1>8. CASE gui
  <2>. DEFINE found == GdkProbe(r.gdk)
              pixels == DrmProbe(r.drm)
              firsts == UniqueNames(found)
  <2>1. d.gtk4 /\ \A t \in Lit(d) : t.mode = t.native /\ ShapeShows(t)
    BY <1>8 DEF ToolsTell, Lit
  <2>2. /\ \A n \in DOMAIN found : \E t \in Lit(d) : ShownByGdk(found[n], t)
        /\ Named(found, d)
    BY <1>1, <2>1, GdkShows
  <2>3. /\ \A n \in DOMAIN pixels : \E t \in Lit(d) : ShownByDrm(pixels[n], t)
        /\ Named(pixels, d)
    BY <1>1, <2>1, DrmShows
  <2>4. found # <<>>
    BY <1>6, <2>2
  <2>5. probes = <<gdk, xrandr, drm>>
    <3>1. probes = <<gdk>> \o ServiceProbes(r)
      BY <1>8 DEF ProbesOf, GuiProbes
    <3>. HIDE DEF gdk, xrandr, drm, probes, r
    <3>2. <<gdk>> \o <<xrandr, drm>> = <<gdk, xrandr, drm>>
      BY OneBefore
    <3>. QED
      BY <1>4, <3>1, <3>2
  <2>. HIDE DEF r, probes
  <2>6. /\ DOMAIN probes = {1, 2, 3} /\ probes[1] = gdk /\ probes[2] = xrandr /\ probes[3] = drm
        /\ gdk.displays = found /\ gdk.source = "gdk" /\ xrandr.source = "xrandr"
        /\ drm.source = "drm" /\ drm.displays = pixels
    BY <2>5
  <2>. HIDE DEF gdk, xrandr, drm
  <2>7. FirstFound(probes) = 1 /\ FoundBy(probes) # {}
    <3>. HIDE DEF found
    <3>. QED
      BY <2>4, <2>6, FirstWins
  <2>8. AfterFirst(probes) = {3}
    BY <2>6, <2>7 DEF AfterFirst
  <2>9. DrmAfter(probes) = pixels
    <3>1. (CHOOSE i \in {3} : \A j \in {3} : i <= j) = 3
      OBVIOUS
    <3>. HIDE DEF pixels
    <3>. QED
      BY <2>6, <2>8, <3>1 DEF DrmAfter
  <2>10. Winner(probes) = firsts
    BY <2>6, <2>7 DEF Winner
  <2>11. Detected(probes) = MergeGdkDrm(firsts, pixels)
    <3>. HIDE DEF firsts, pixels
    <3>. QED
      BY <2>6, <2>7, <2>8, <2>9, <2>10 DEF Detected
  <2>. HIDE DEF found
  <2>12. found \in Seq(Found) /\ pixels \in Seq(Found)
    BY <1>3 DEF found
  <2>13. /\ firsts \in Seq(Found)
         /\ \A n \in DOMAIN firsts : \E i \in DOMAIN found : firsts[n] = found[i]
         /\ \A i \in DOMAIN found : \E n \in DOMAIN firsts : firsts[n].name = found[i].name
    BY <2>12, FirstsAre, UniqueNamesIs
  <2>. HIDE DEF firsts, pixels
  <2>14. \A n \in DOMAIN firsts : \E t \in Lit(d) : ShownByGdk(firsts[n], t)
    BY <2>2, <2>13
  <2>15. Named(firsts, d)
    BY <2>2, <2>13 DEF Named
  <2>16. \A t, u \in Lit(d) : t.name = u.name => t = u
    BY <1>1 DEF Lit
  <2>17. Shows(MergeGdkDrm(firsts, pixels), d)
    BY <2>1, <2>3, <2>12, <2>13, <2>14, <2>15, <2>16, MergeShows
  <2>. QED
    BY <2>11, <2>17 DEF probes
<1>. QED
  BY <1>7, <1>8

\* The displays a user declares: names of their own, one of each size.
Declares(declared) ==
    /\ declared \in Seq(Found)
    /\ \A i \in DOMAIN declared : declared[i].name \in ToSet(DeclaredNames)
    /\ \A i, j \in DOMAIN declared :
          declared[i].name = declared[j].name \/ declared[i].size = declared[j].size => i = j

LEMMA DeclaredAre ==
  ASSUME NEW sizes \in Seq(Sizes)
  PROVE  Declares(ParseDeclared(sizes).displays)
<1>. DEFINE first(i) == \A j \in 1 .. i - 1 : sizes[j] # sizes[i]
            K == {i \in DOMAIN sizes : first(i)}
            each == KeptAt(sizes, K)
            shown == [i \in DOMAIN each |->
                        Display(DeclaredNames[i], each[i], FALSE, "declared")]
            bad(size) == \E i \in {1, 2} : size[i] < DeclaredMin \/ size[i] > DeclaredMax
            refused == Len(each) > DeclaredLimit \/ \E i \in DOMAIN sizes : bad(sizes[i])
<1>1. ParseDeclared(sizes) = IF refused THEN [ok |-> FALSE, displays |-> <<>>]
                             ELSE [ok |-> TRUE, displays |-> shown]
  BY DEF ParseDeclared
<1>2. K \in SUBSET DOMAIN sizes /\ DOMAIN sizes = 1 .. Len(sizes) /\ Len(sizes) \in Nat
  OBVIOUS
<1>3. \A i, j \in K : i < j => sizes[i] # sizes[j]
  BY <1>2
<1>. HIDE DEF K
<1>4. /\ each \in Seq(Sizes) /\ Len(each) = Cardinality(K)
      /\ \A n \in DOMAIN each : \E i \in K : Rank(K, i) = n /\ each[n] = sizes[i]
  BY <1>2, KeptAtIs
<1>. HIDE DEF each
<1>5. \A n, o \in DOMAIN each : each[n] = each[o] => n = o
  <2>. SUFFICES ASSUME NEW n \in DOMAIN each, NEW o \in DOMAIN each, each[n] = each[o]
                PROVE  n = o
    OBVIOUS
  <2>1. PICK i \in K : Rank(K, i) = n /\ each[n] = sizes[i]
    BY <1>4
  <2>2. PICK j \in K : Rank(K, j) = o /\ each[o] = sizes[j]
    BY <1>4
  <2>3. ~(i < j) /\ ~(j < i)
    BY <1>3, <2>1, <2>2
  <2>4. i = j
    BY <1>2, <2>3
  <2>. QED
    BY <2>1, <2>2, <2>4
<1>6. ASSUME ~refused PROVE Declares(shown)
  <2>1. Len(each) \in Nat /\ Len(each) <= DeclaredLimit /\ DOMAIN each = 1 .. Len(each)
    BY <1>4, <1>6, DetectionAssumption
  <2>2. \A i \in DOMAIN each : i \in DOMAIN DeclaredNames
    <3>1. DeclaredLimit <= Len(DeclaredNames) /\ DOMAIN DeclaredNames = 1 .. Len(DeclaredNames)
          /\ DeclaredLimit \in Nat /\ Len(DeclaredNames) \in Nat
      BY DetectionAssumption
    <3>. QED
      BY <2>1, <3>1
  <2>3. /\ DOMAIN shown = DOMAIN each
        /\ \A i \in DOMAIN each : shown[i].name = DeclaredNames[i] /\ shown[i].size = each[i]
    BY DEF Display
  <2>4. shown \in Seq(Found)
    <3>1. ParseDeclared(sizes).displays = shown
      <4>. HIDE DEF shown, refused
      <4>. QED
        BY <1>1, <1>6
    <3>. HIDE DEF shown
    <3>. QED
      BY <3>1, ParseDeclaredIs
  <2>. HIDE DEF shown
  <2>5. \A i \in DOMAIN shown : shown[i].name \in ToSet(DeclaredNames)
    BY <2>2, <2>3 DEF ToSet
  <2>6. \A i, j \in DOMAIN shown : shown[i].name = shown[j].name => i = j
    BY <2>2, <2>3, DetectionAssumption
  <2>7. \A i, j \in DOMAIN shown : shown[i].size = shown[j].size => i = j
    BY <1>5, <2>3
  <2>. QED
    BY <2>4, <2>5, <2>6, <2>7 DEF Declares
<1>7. Declares(<<>>)
  BY DEF Declares
<1>. QED
  <2>. HIDE DEF refused, shown
  <2>. QED
    BY <1>1, <1>6, <1>7

\* The pairs of name and size of some displays; those of the screens, and of
\* the declared displays no screen equals in size, the first n or all.
Pairs(seq) == {<<seq[n].name, seq[n].size>> : n \in DOMAIN seq}

Real(d) == {<<s.name, Stands(s)>> : s \in Lit(d)}

Free(d, size) == \A s \in Lit(d) : Stands(s) # size

Extra(d, declared, n) ==
    {<<declared[i].name, declared[i].size>> :
        i \in {j \in DOMAIN declared : j <= n /\ Free(d, declared[j].size)}}

\* The targets are the screens and those declared displays.
LEMMA TargetsShow ==
  ASSUME NEW d \in Desks, NEW probes \in Seq(Probe), Shows(Detected(probes), d),
         \A s, t \in Lit(d) : s.name = t.name => s = t, NEW declared, Declares(declared)
  PROVE  Pairs(Targets(probes, declared)) = Real(d) \cup Extra(d, declared, Len(declared))
<1>. DEFINE N == Len(declared)
            all(n) == Real(d) \cup Extra(d, declared, n)
<1>1. declared \in Seq(Found) /\ N \in Nat /\ DOMAIN declared = 1 .. N
  BY DEF Declares
<1>2. PICK g \in [0 .. N -> Seq(Found)] :
        /\ g[0] = Detected(probes) /\ Targets(probes, declared) = g[N]
        /\ \A n \in 1 .. N : g[n] = Joins(g[n - 1], declared[n])
  BY <1>1, TargetsUnroll
<1>. DEFINE T == {n \in 0 .. N : Pairs(g[n]) = all(n)}
<1>3. 0 \in T
  <2>1. Extra(d, declared, 0) = {}
    BY <1>1 DEF Extra
  <2>2. Pairs(Detected(probes)) = Real(d)
    <3>. DEFINE seq == Detected(probes)
    <3>1. ASSUME NEW n \in DOMAIN seq PROVE <<seq[n].name, seq[n].size>> \in Real(d)
      <4>1. PICK s \in Lit(d) : seq[n].name = s.name /\ seq[n].size = Stands(s)
        BY DEF Shows
      <4>. QED
        BY <4>1 DEF Real
    <3>2. ASSUME NEW s \in Lit(d) PROVE <<s.name, Stands(s)>> \in Pairs(seq)
      <4>1. PICK n \in DOMAIN seq : seq[n].name = s.name
        BY DEF Shows, Named
      <4>2. PICK t \in Lit(d) : seq[n].name = t.name /\ seq[n].size = Stands(t)
        BY DEF Shows
      <4>. QED
        BY <4>1, <4>2 DEF Pairs
    <3>. QED
      BY <3>1, <3>2 DEF Pairs, Real
  <2>. QED
    BY <1>1, <1>2, <2>1, <2>2
<1>4. ASSUME NEW n \in 1 .. N, n - 1 \in T PROVE n \in T
  <2>. DEFINE out == g[n - 1]
              x == declared[n]
              taken == \E i \in DOMAIN out : out[i].size = x.size \/ out[i].name = x.name
  <2>1. n - 1 \in 0 .. N /\ n \in 0 .. N /\ n \in DOMAIN declared /\ n \in Nat
    BY <1>1
  <2>2. out \in Seq(Found) /\ g[n] = IF taken THEN out ELSE Append(out, x)
    BY <1>2, <2>1 DEF Joins
  <2>3. Pairs(out) = all(n - 1)
    BY <1>4
  <2>4. x.name \in ToSet(DeclaredNames)
    BY <2>1 DEF Declares
  <2>5. taken <=> ~Free(d, x.size)
    <3>1. taken <=> \E p \in Pairs(out) : p[2] = x.size \/ p[1] = x.name
      <4>. HIDE DEF out, x
      <4>1. ASSUME NEW i \in DOMAIN out, out[i].size = x.size \/ out[i].name = x.name
            PROVE  \E p \in Pairs(out) : p[2] = x.size \/ p[1] = x.name
        <5>1. <<out[i].name, out[i].size>> \in Pairs(out)
          BY DEF Pairs
        <5>. QED
          BY <4>1, <5>1
      <4>2. ASSUME NEW p \in Pairs(out), p[2] = x.size \/ p[1] = x.name PROVE taken
        <5>1. PICK i \in DOMAIN out : p = <<out[i].name, out[i].size>>
          BY DEF Pairs
        <5>. QED
          BY <4>2, <5>1
      <4>. QED
        BY <4>1, <4>2
    <3>2. (\E p \in Real(d) : p[2] = x.size \/ p[1] = x.name) <=> ~Free(d, x.size)
      <4>1. \A s \in Lit(d) : s.name # x.name
        BY <2>4, DesktopAssumption DEF Lit
      <4>2. ASSUME NEW p \in Real(d), p[2] = x.size \/ p[1] = x.name
            PROVE  ~Free(d, x.size)
        <5>1. PICK s \in Lit(d) : p = <<s.name, Stands(s)>>
          BY DEF Real
        <5>2. Stands(s) = x.size
          BY <4>1, <4>2, <5>1
        <5>. QED
          BY <5>2 DEF Free
      <4>3. ASSUME ~Free(d, x.size)
            PROVE  \E p \in Real(d) : p[2] = x.size \/ p[1] = x.name
        <5>1. PICK s \in Lit(d) : Stands(s) = x.size
          BY <4>3 DEF Free
        <5>2. <<s.name, Stands(s)>> \in Real(d)
          BY DEF Real
        <5>. QED
          BY <5>1, <5>2
      <4>. QED
        BY <4>2, <4>3
    <3>3. ~\E p \in Extra(d, declared, n - 1) : p[2] = x.size \/ p[1] = x.name
      <4>1. \A j \in DOMAIN declared : j <= n - 1
               => declared[j].name # x.name /\ declared[j].size # x.size
        <5>1. \A j \in DOMAIN declared : j <= n - 1 => j # n
          BY <1>1, <2>1
        <5>. QED
          BY <2>1, <5>1 DEF Declares
      <4>. HIDE DEF x
      <4>. QED
        BY <4>1 DEF Extra
    <3>. HIDE DEF taken, x, out
    <3>. QED
      BY <2>3, <3>1, <3>2, <3>3
  <2>6. Extra(d, declared, n) = Extra(d, declared, n - 1)
                                  \cup (IF Free(d, x.size) THEN {<<x.name, x.size>>} ELSE {})
    <3>1. \A j \in DOMAIN declared : j <= n <=> j <= n - 1 \/ j = n
      BY <1>1, <2>1
    <3>. QED
      BY <2>1, <3>1 DEF Extra
  <2>7. CASE taken
    <3>1. ~Free(d, x.size) /\ g[n] = out
      BY <2>2, <2>5, <2>7
    <3>. HIDE DEF x, out
    <3>. QED
      BY <2>1, <2>3, <2>6, <3>1
  <2>8. CASE ~taken
    <3>1. Free(d, x.size) /\ g[n] = Append(out, x)
      BY <2>2, <2>5, <2>8
    <3>. HIDE DEF out
    <3>2. /\ DOMAIN Append(out, x) = DOMAIN out \cup {Len(out) + 1}
          /\ Append(out, x)[Len(out) + 1] = x
          /\ \A i \in DOMAIN out : Append(out, x)[i] = out[i]
      <4>1. x \in Found
        BY <1>1, <2>1
      <4>. HIDE DEF x
      <4>. QED
        BY <2>2, <4>1
    <3>. HIDE DEF x
    <3>3. Pairs(Append(out, x)) = Pairs(out) \cup {<<x.name, x.size>>}
      BY <3>2 DEF Pairs
    <3>. QED
      BY <2>1, <2>3, <2>6, <3>1, <3>3
  <2>. QED
    BY <2>7, <2>8
<1>. HIDE DEF T
<1>5. \A n \in 0 .. N : n \in T
  <2>. HIDE DEF N
  <2>. QED
    BY <1>1, <1>3, <1>4, EachIn
<1>6. N \in T
  BY <1>1, <1>5
<1>. QED
  BY <1>2, <1>6 DEF T

\* No target has the name of another, whatever is declared.
LEMMA TargetsApart ==
  ASSUME NEW probes \in Seq(Probe), NEW declared \in Seq(Found)
  PROVE  Apart(Targets(probes, declared))
<1>. DEFINE N == Len(declared)
<1>1. N \in Nat
  OBVIOUS
<1>2. PICK g \in [0 .. N -> Seq(Found)] :
        /\ g[0] = Detected(probes) /\ Targets(probes, declared) = g[N]
        /\ \A n \in 1 .. N : g[n] = Joins(g[n - 1], declared[n])
  BY TargetsUnroll
<1>. DEFINE T == {n \in 0 .. N : Apart(g[n])}
<1>3. 0 \in T
  BY <1>1, <1>2, DetectedApart
<1>4. ASSUME NEW n \in 1 .. N, n - 1 \in T PROVE n \in T
  <2>. DEFINE out == g[n - 1]
              x == declared[n]
              taken == \E i \in DOMAIN out : out[i].size = x.size \/ out[i].name = x.name
  <2>1. n - 1 \in 0 .. N /\ n \in 0 .. N
    BY <1>1
  <2>2. out \in Seq(Found) /\ g[n] = (IF taken THEN out ELSE Append(out, x)) /\ Apart(out)
    BY <1>2, <1>4, <2>1 DEF Joins
  <2>. HIDE DEF out, x
  <2>3. ASSUME ~taken PROVE Apart(Append(out, x))
    <3>1. /\ DOMAIN Append(out, x) = DOMAIN out \cup {Len(out) + 1}
          /\ Append(out, x)[Len(out) + 1] = x
          /\ \A i \in DOMAIN out : Append(out, x)[i] = out[i]
      BY <2>2
    <3>2. \A i \in DOMAIN out : out[i].name # x.name
      BY <2>3
    <3>. QED
      BY <2>2, <3>1, <3>2 DEF Apart
  <2>. HIDE DEF taken
  <2>. QED
    BY <2>1, <2>2, <2>3
<1>. HIDE DEF T
<1>5. \A n \in 0 .. N : n \in T
  <2>. HIDE DEF N
  <2>. QED
    BY <1>1, <1>3, <1>4, EachIn
<1>6. N \in T
  BY <1>1, <1>5
<1>. QED
  BY <1>2, <1>6 DEF T

\* What a detection returns: displays of different names, one of them primary;
\* the screens and the declared displays, when a tool could tell.
OnePrimary(seq) ==
    seq # <<>> => \E p \in DOMAIN seq : \A i \in DOMAIN seq : seq[i].primary = (i = p)

LEMMA DetectTells ==
  ASSUME NEW probes \in Seq(Probe), NEW declared \in Seq(Found)
  PROVE  LET found == Detect(probes, declared)
         IN  /\ found \in Seq(Found) /\ Apart(found) /\ OnePrimary(found)
             /\ Pairs(found) = Pairs(Targets(probes, declared))
<1>. DEFINE targets == Targets(probes, declared)
            flagged == {i \in DOMAIN targets : targets[i].primary}
            first == CHOOSE i \in flagged : \A j \in flagged : i <= j
            primary == IF flagged = {} THEN 1 ELSE first
            out == [i \in DOMAIN targets |-> [targets[i] EXCEPT !.primary = i = primary]]
<1>1. targets \in Seq(Found) /\ Apart(targets)
  BY TargetsAre, TargetsApart
<1>2. Detect(probes, declared) = out
  BY DEF Detect
<1>3. out \in Seq(Found)
  BY <1>2, DetectIs
<1>. HIDE DEF targets
<1>4. DOMAIN targets = 1 .. Len(targets) /\ Len(targets) \in Nat
      /\ \A i \in DOMAIN targets : targets[i] \in Found
  BY <1>1
<1>5. flagged # {} => first \in DOMAIN targets
  <2>1. flagged \in SUBSET Nat /\ flagged \subseteq DOMAIN targets
    BY <1>4
  <2>. HIDE DEF flagged
  <2>2. flagged # {} => first \in flagged
    BY <2>1, FirstIs
  <2>. QED
    BY <2>1, <2>2
<1>. HIDE DEF first, flagged
<1>6. DOMAIN targets # {} => primary \in DOMAIN targets
  BY <1>4, <1>5
<1>. HIDE DEF primary
<1>7. /\ DOMAIN out = DOMAIN targets
      /\ \A i \in DOMAIN targets : /\ out[i].name = targets[i].name
                                   /\ out[i].size = targets[i].size
                                   /\ out[i].primary = (i = primary)
  BY <1>4 DEF Found
<1>. HIDE DEF out
<1>8. Apart(out)
  BY <1>1, <1>7, ApartIs
<1>9. OnePrimary(out)
  <2>1. out # <<>> => DOMAIN out # {}
    BY <1>3, EmptySeq
  <2>. QED
    BY <1>6, <1>7, <2>1 DEF OnePrimary
<1>10. Pairs(out) = Pairs(targets)
  BY <1>7 DEF Pairs
<1>. QED
  BY <1>2, <1>3, <1>8, <1>9, <1>10 DEF targets

-----------------------------------------------------------------------------
\* What is stored of a detection: its displays, each known by name and size,
\* and no other one as connected.

SameDisplay(row, d) == row.name = d.name /\ row.size = d.size

Lists(table, targets, n) ==
    /\ \A i, j \in DOMAIN table : SameDisplay(table[i], table[j]) => i = j
    /\ \A i \in DOMAIN table :
          table[i].connected <=> \E k \in 1 .. n : SameDisplay(table[i], targets[k])
    /\ \A k \in 1 .. n : \E i \in DOMAIN table :
          SameDisplay(table[i], targets[k]) /\ table[i].primary = targets[k].primary

LEMMA SaveLists ==
  ASSUME NEW table \in Table(DisplayRows), NEW targets \in Seq(Found), Apart(targets),
         NEW n \in 1 .. Len(targets), Lists(table, targets, n - 1)
  PROVE  Lists(SaveDisplay(table, targets[n]), targets, n)
<1>. DEFINE d == targets[n]
            same == {i \in DOMAIN table : table[i].name = d.name /\ table[i].size = d.size}
            row == [name |-> d.name, size |-> d.size, primary |-> d.primary,
                    source |-> d.source, connected |-> TRUE]
            met(r) == [r EXCEPT !.primary = d.primary, !.source = d.source,
                                !.connected = TRUE]
            u == [i \in DOMAIN table |-> IF i \in same THEN met(table[i]) ELSE table[i]]
            m == n - 1
<1>1. /\ Bounded(DOMAIN table) /\ \A i \in DOMAIN table : table[i] \in DisplayRows
      /\ d \in Found /\ n \in DOMAIN targets
  BY TableIs
<1>2. \A k \in 1 .. n : k \in 1 .. m \/ k = n
  OBVIOUS
<1>3. 1 .. m \subseteq 1 .. n /\ n \in 1 .. n
  OBVIOUS
<1>4. \A k \in 1 .. m : targets[k].name # d.name
  <2>1. \A k \in 1 .. m : k \in DOMAIN targets /\ k # n
    OBVIOUS
  <2>. QED
    BY <1>1, <2>1 DEF Apart
<1>5. /\ row.name = d.name /\ row.size = d.size /\ row.connected /\ row.primary = d.primary
      /\ \A r \in DisplayRows : /\ met(r).name = r.name /\ met(r).size = r.size
                                /\ met(r).connected /\ met(r).primary = d.primary
  BY <1>1 DEF Found, DisplayRows
<1>6. Lists(table, targets, m)
  OBVIOUS
<1>. HIDE DEF met, row, m
<1>7. CASE same = {}
  <2>. DEFINE t == Insert(table, row)
              new == NextId(table)
  <2>1. SaveDisplay(table, d) = t
    BY <1>7 DEF SaveDisplay, row
  <2>2. /\ DOMAIN t = DOMAIN table \cup {new} /\ t[new] = row
        /\ \A x \in DOMAIN table : t[x] = table[x]
    BY <1>1, InsertIs
  <2>3. \A i \in DOMAIN table : ~SameDisplay(table[i], d)
    BY <1>7 DEF SameDisplay
  <2>. HIDE DEF t, new, d
  <2>4. SameDisplay(t[new], d) /\ t[new].connected /\ t[new].primary = d.primary
    BY <1>5, <2>2 DEF SameDisplay
  <2>5. ASSUME NEW i \in DOMAIN t, NEW j \in DOMAIN t, SameDisplay(t[i], t[j]) PROVE i = j
    <3>1. CASE i \in DOMAIN table /\ j \in DOMAIN table
      BY <1>6, <2>2, <2>5, <3>1 DEF Lists
    <3>2. CASE i = new /\ j \in DOMAIN table
      BY <2>2, <2>3, <2>4, <2>5, <3>2 DEF SameDisplay
    <3>3. CASE i \in DOMAIN table /\ j = new
      BY <2>2, <2>3, <2>4, <2>5, <3>3 DEF SameDisplay
    <3>. QED
      BY <2>2, <3>1, <3>2, <3>3
  <2>6. ASSUME NEW i \in DOMAIN t
        PROVE  t[i].connected <=> \E k \in 1 .. n : SameDisplay(t[i], targets[k])
    <3>1. CASE i \in DOMAIN table
      <4>1. t[i].connected <=> \E k \in 1 .. m : SameDisplay(t[i], targets[k])
        BY <1>6, <2>2, <3>1 DEF Lists
      <4>2. ~SameDisplay(t[i], targets[n])
        BY <2>2, <2>3, <3>1 DEF d
      <4>. QED
        BY <1>2, <1>3, <4>1, <4>2
    <3>2. CASE i = new
      BY <1>3, <2>4, <3>2 DEF d
    <3>. QED
      BY <2>2, <3>1, <3>2
  <2>7. ASSUME NEW k \in 1 .. n
        PROVE  \E i \in DOMAIN t : SameDisplay(t[i], targets[k])
                                   /\ t[i].primary = targets[k].primary
    <3>1. CASE k \in 1 .. m
      <4>1. PICK i \in DOMAIN table : SameDisplay(table[i], targets[k])
                                      /\ table[i].primary = targets[k].primary
        BY <1>6, <3>1 DEF Lists
      <4>. QED
        BY <2>2, <4>1
    <3>2. CASE k = n
      BY <2>2, <2>4, <3>2 DEF d
    <3>. QED
      BY <1>2, <3>1, <3>2
  <2>8. Lists(t, targets, n)
    BY <2>5, <2>6, <2>7 DEF Lists
  <2>. QED
    BY <2>1, <2>8 DEF d
<1>8. CASE same # {}
  <2>1. SaveDisplay(table, d) = u
    BY <1>8 DEF SaveDisplay, met
  <2>2. \A i \in DOMAIN table : i \in same <=> SameDisplay(table[i], d)
    BY DEF SameDisplay
  <2>3. same \subseteq DOMAIN table
    OBVIOUS
  <2>. HIDE DEF same, d
  <2>4. /\ DOMAIN u = DOMAIN table
        /\ \A i \in DOMAIN table :
              /\ u[i].name = table[i].name /\ u[i].size = table[i].size
              /\ i \in same => u[i].connected /\ u[i].primary = d.primary
              /\ i \notin same => u[i] = table[i]
    BY <1>1, <1>5
  <2>. HIDE DEF u
  <2>5. \A i \in DOMAIN table : \A x : SameDisplay(u[i], x) <=> SameDisplay(table[i], x)
    BY <2>4 DEF SameDisplay
  <2>6. ASSUME NEW i \in DOMAIN u, NEW j \in DOMAIN u, SameDisplay(u[i], u[j]) PROVE i = j
    <3>1. SameDisplay(table[i], table[j])
      BY <2>4, <2>6 DEF SameDisplay
    <3>. QED
      BY <1>6, <2>4, <3>1 DEF Lists
  <2>7. ASSUME NEW i \in DOMAIN u
        PROVE  u[i].connected <=> \E k \in 1 .. n : SameDisplay(u[i], targets[k])
    <3>1. CASE i \in same
      BY <1>3, <2>2, <2>4, <2>5, <3>1 DEF d
    <3>2. CASE i \notin same
      <4>1. u[i].connected <=> \E k \in 1 .. m : SameDisplay(u[i], targets[k])
        BY <1>6, <2>4, <3>2 DEF Lists
      <4>2. ~SameDisplay(u[i], targets[n])
        BY <2>2, <2>4, <3>2 DEF d
      <4>. QED
        BY <1>2, <1>3, <4>1, <4>2
    <3>. QED
      BY <3>1, <3>2
  <2>8. ASSUME NEW k \in 1 .. n
        PROVE  \E i \in DOMAIN u : SameDisplay(u[i], targets[k])
                                   /\ u[i].primary = targets[k].primary
    <3>1. CASE k \in 1 .. m
      <4>1. PICK i \in DOMAIN table : SameDisplay(table[i], targets[k])
                                      /\ table[i].primary = targets[k].primary
        BY <1>6, <3>1 DEF Lists
      <4>2. i \notin same
        BY <1>4, <2>2, <3>1, <4>1 DEF SameDisplay
      <4>. QED
        BY <2>4, <4>1, <4>2
    <3>2. CASE k = n
      <4>1. PICK i : i \in same
        BY <1>8
      <4>. QED
        BY <2>2, <2>3, <2>4, <2>5, <3>2, <4>1 DEF d
    <3>. QED
      BY <1>2, <3>1, <3>2
  <2>9. Lists(u, targets, n)
    BY <2>6, <2>7, <2>8 DEF Lists
  <2>. QED
    BY <2>1, <2>9 DEF d
<1>. QED
  BY <1>7, <1>8

LEMMA SnapshotLists ==
  ASSUME NEW table \in Table(DisplayRows), NEW targets \in Seq(Found), Apart(targets),
         \A i, j \in DOMAIN table : SameDisplay(table[i], table[j]) => i = j
  PROVE  Lists(SaveDisplaySnapshot(table, targets), targets, Len(targets))
<1>. DEFINE N == Len(targets)
<1>1. N \in Nat
  OBVIOUS
<1>2. PICK g \in [0 .. N -> Table(DisplayRows)] :
         /\ g[0] = Unplugged(table)
         /\ \A n \in 1 .. N : g[n] = SaveDisplay(g[n - 1], targets[n])
         /\ SaveDisplaySnapshot(table, targets) = g[N]
  BY SnapshotUnrolls
<1>. DEFINE T == {n \in 0 .. N : Lists(g[n], targets, n)}
<1>3. 0 \in T
  <2>. DEFINE off == [d \in DOMAIN table |-> [table[d] EXCEPT !.connected = FALSE]]
  <2>1. \A i \in DOMAIN table : table[i] \in DisplayRows
    BY TableIs
  <2>2. /\ DOMAIN off = DOMAIN table
        /\ \A i \in DOMAIN table : /\ off[i].name = table[i].name /\ off[i].size = table[i].size
                                   /\ off[i].connected = FALSE
    BY <2>1 DEF DisplayRows
  <2>3. off = g[0]
    BY <1>2 DEF Unplugged
  <2>. HIDE DEF off
  <2>4. \A i, j \in DOMAIN off : SameDisplay(off[i], off[j]) => i = j
    BY <2>2 DEF SameDisplay
  <2>5. \A k \in 1 .. 0 : FALSE
    OBVIOUS
  <2>6. Lists(off, targets, 0)
    BY <2>2, <2>4, <2>5 DEF Lists
  <2>. QED
    BY <1>1, <2>3, <2>6
<1>4. ASSUME NEW n \in 1 .. N, n - 1 \in T PROVE n \in T
  <2>1. n - 1 \in 0 .. N /\ n \in 0 .. N
    BY <1>1
  <2>2. g[n - 1] \in Table(DisplayRows) /\ Lists(g[n - 1], targets, n - 1)
    BY <1>2, <1>4, <2>1
  <2>3. Lists(SaveDisplay(g[n - 1], targets[n]), targets, n)
    BY <2>2, SaveLists
  <2>. QED
    BY <1>2, <2>1, <2>3
<1>. HIDE DEF T
<1>5. \A n \in 0 .. N : n \in T
  <2>. HIDE DEF N
  <2>. QED
    BY <1>1, <1>3, <1>4, EachIn
<1>6. N \in T
  BY <1>1, <1>5
<1>. QED
  BY <1>2, <1>6 DEF T

\* A measurement, made and not yet stored or stored.
Others(d, declared) ==
    {<<x.name, x.size>> : x \in {y \in ToSet(declared) : Free(d, y.size)}}

Measured(m) ==
    /\ m.targets \in Seq(Found) /\ Apart(m.targets) /\ OnePrimary(m.targets)
    /\ ToolsTell(m.desk, m.gui) =>
          Pairs(m.targets) = Real(m.desk) \cup Others(m.desk, m.declared)

LEMMA MeasuredIs ==
  ASSUME NEW d \in Desks, NEW gui \in BOOLEAN, NEW declared, Declares(declared)
  PROVE  Measured([targets |-> Detect(ProbesOf(d, gui), declared), desk |-> d, gui |-> gui,
                   declared |-> declared])
<1>. DEFINE probes == ProbesOf(d, gui)
            found == Detect(probes, declared)
            m == [targets |-> found, desk |-> d, gui |-> gui, declared |-> declared]
<1>1. probes \in Seq(Probe) /\ declared \in Seq(Found)
  BY ProbesOfAre DEF Declares
<1>. HIDE DEF probes
<1>2. /\ found \in Seq(Found) /\ Apart(found) /\ OnePrimary(found)
      /\ Pairs(found) = Pairs(Targets(probes, declared))
  BY <1>1, DetectTells
<1>3. ASSUME ToolsTell(d, gui) PROVE Pairs(found) = Real(d) \cup Others(d, declared)
  <2>1. Shows(Detected(probes), d)
    BY <1>3, DetectedShows DEF probes
  <2>2. \A s, t \in Lit(d) : s.name = t.name => s = t
    BY <1>3 DEF ToolsTell, Lit
  <2>3. Pairs(Targets(probes, declared)) = Real(d) \cup Extra(d, declared, Len(declared))
    BY <1>1, <2>1, <2>2, TargetsShow
  <2>4. Extra(d, declared, Len(declared)) = Others(d, declared)
    <3>1. \A i \in DOMAIN declared : i <= Len(declared)
      BY <1>1
    <3>. QED
      BY <3>1 DEF Extra, Others, ToSet
  <2>. QED
    BY <1>2, <2>3, <2>4
<1>. HIDE DEF found
<1>4. m.targets = found /\ m.desk = d /\ m.gui = gui /\ m.declared = declared
  OBVIOUS
<1>. HIDE DEF m
<1>5. Measured(m)
  BY <1>2, <1>3, <1>4 DEF Measured
<1>. QED
  BY <1>5 DEF m, found, probes

\* The inductive invariant: what was measured of the desktop is true of it as
\* it stood, and the table lists what was measured.
ScreenPart ==
    /\ Measured(saved) /\ Lists(displays, saved.targets, Len(saved.targets))
    /\ \A who \in {"scan", "tool"} : held[who] # Nothing => Measured(held[who])

ScreenInv == IInv /\ ScreenPart

LEMMA ScreensStay ==
  ASSUME ScreenPart, UNCHANGED <<displays, held, saved>>
  PROVE  ScreenPart'
BY DEF ScreenPart, Measured, Lists

LEMMA ScreensMeasured ==
  ASSUME ScreenInv, NEW who \in {"scan", "tool"}, NEW gui \in BOOLEAN, NEW sizes \in Declarations,
         held' = [held EXCEPT ![who] = Measurement(gui, sizes)], UNCHANGED <<displays, saved>>
  PROVE  ScreenPart'
<1>. DEFINE m == Measurement(gui, sizes)
            declared == ParseDeclared(sizes).displays
<1>1. desk \in Desks /\ HeldRight /\ ScreenPart
  BY DEF ScreenInv, IInv, FitRight
<1>2. Declares(declared)
  <2>1. sizes \in Seq(Sizes)
    BY DesktopAssumption DEF Sizes
  <2>. QED
    BY <2>1, DeclaredAre
<1>3. m = [targets |-> Detect(ProbesOf(desk, gui), declared), desk |-> desk, gui |-> gui,
           declared |-> declared]
  BY DEF Measurement, ProbesOf
<1>. HIDE DEF declared, m
<1>4. Measured(m)
  BY <1>1, <1>2, <1>3, MeasuredIs
<1>5. held' = [held EXCEPT ![who] = m]
  BY DEF m
<1>6. \A w \in {"scan", "tool"} : held'[w] = m \/ held'[w] = held[w]
  BY <1>1, <1>5 DEF HeldRight
<1>7. \A w \in {"scan", "tool"} : held'[w] # Nothing => Measured(held'[w])
  BY <1>1, <1>4, <1>6 DEF ScreenPart
<1>8. (Measured(saved) /\ Lists(displays, saved.targets, Len(saved.targets)))'
  BY <1>1 DEF ScreenPart, Measured, Lists
<1>9. (\A w \in {"scan", "tool"} : held[w] # Nothing => Measured(held[w]))'
  BY <1>7 DEF Measured, Nothing
<1>. QED
  BY <1>8, <1>9 DEF ScreenPart

LEMMA ScreensStored ==
  ASSUME ScreenInv, NEW who \in {"scan", "tool"}, held[who] # Nothing, StoreMeasurement(who)
  PROVE  ScreenPart'
<1>. DEFINE m == held[who]
<1>1. displays \in Table(DisplayRows) /\ HeldRight /\ ScreenPart
  BY DEF ScreenInv, IInv, FitRight
<1>2. /\ displays' = SaveDisplaySnapshot(displays, m.targets) /\ saved' = m
      /\ held' = [held EXCEPT ![who] = Nothing]
  BY DEF StoreMeasurement
<1>3. Measured(m)
  BY <1>1 DEF ScreenPart
<1>. HIDE DEF m
<1>4. \A i, j \in DOMAIN displays : SameDisplay(displays[i], displays[j]) => i = j
  BY <1>1 DEF ScreenPart, Lists
<1>5. Lists(displays', m.targets, Len(m.targets))
  BY <1>1, <1>2, <1>3, <1>4, SnapshotLists DEF Measured
<1>6. Measured(saved') /\ Lists(displays', saved'.targets, Len(saved'.targets))
  BY <1>2, <1>3, <1>5
<1>7. \A w \in {"scan", "tool"} : held'[w] = Nothing \/ held'[w] = held[w]
  BY <1>1, <1>2 DEF HeldRight
<1>8. \A w \in {"scan", "tool"} : held'[w] # Nothing => Measured(held'[w])
  BY <1>1, <1>7 DEF ScreenPart
<1>9. (Measured(saved) /\ Lists(displays, saved.targets, Len(saved.targets)))'
  BY <1>6 DEF Measured, Lists
<1>10. (\A w \in {"scan", "tool"} : held[w] # Nothing => Measured(held[w]))'
  BY <1>8 DEF Measured, Nothing
<1>. QED
  BY <1>9, <1>10 DEF ScreenPart

LEMMA ScreensKept == ScreenInv /\ [JNext]_vars => ScreenInv'
<1>. SUFFICES ASSUME ScreenInv, [JNext]_vars PROVE ScreenPart'
  BY InvariantKept DEF ScreenInv
<1>1. ScreenPart /\ HeldRight
  BY DEF ScreenInv, IInv, FitRight
<1>2. ASSUME UNCHANGED <<displays, held, saved>> PROVE ScreenPart'
  BY <1>1, <1>2, ScreensStay
<1>3. CASE BookStep /\ UNCHANGED fitVars
  BY <1>2, <1>3 DEF fitVars
<1>4. CASE ScanReadsRules /\ UNCHANGED fitVars
  BY <1>2, <1>4 DEF fitVars
<1>5. CASE \E gui \in BOOLEAN, sizes \in Declarations : ScanMeasures(gui, sizes)
  BY <1>5, ScreensMeasured DEF ScanMeasures
<1>6. CASE ScanStarts
  BY <1>6, ScreensStored DEF ScanStarts
<1>7. CASE ScanStores
  BY <1>2, <1>7 DEF ScanStores
<1>8. CASE \E sizes \in Declarations : ToolMeasures(sizes)
  BY <1>8, ScreensMeasured DEF ToolMeasures
<1>9. CASE ToolStores
  BY <1>9, ScreensStored DEF ToolStores
<1>10. CASE \E f \in Files, pin \in {"in", "out", "none"} : SetPin(f, pin)
  BY <1>2, <1>10 DEF SetPin
<1>11. CASE \E d \in Desks : Replug(d)
  BY <1>2, <1>11 DEF Replug
<1>12. CASE \E p \in Proposals(desk, KnownPaths) : AddProposed(p)
  BY <1>2, <1>12 DEF AddProposed, fitVars
<1>13. CASE \E next \in DOMAIN Releases : Reopen(next)
  <2>1. held' = [held EXCEPT !["scan"] = Nothing] /\ UNCHANGED <<displays, saved>>
    BY <1>13 DEF Reopen
  <2>2. \A w \in {"scan", "tool"} : held'[w] = Nothing \/ held'[w] = held[w]
    BY <1>1, <2>1 DEF HeldRight
  <2>3. \A w \in {"scan", "tool"} : held'[w] # Nothing => Measured(held'[w])
    BY <1>1, <2>2 DEF ScreenPart
  <2>4. (Measured(saved) /\ Lists(displays, saved.targets, Len(saved.targets)))'
    BY <1>1, <2>1 DEF ScreenPart, Measured, Lists
  <2>5. (\A w \in {"scan", "tool"} : held[w] # Nothing => Measured(held[w]))'
    BY <2>3 DEF Measured, Nothing
  <2>. QED
    BY <2>4, <2>5 DEF ScreenPart
<1>14. CASE UNCHANGED vars
  BY <1>2, <1>14 DEF vars
<1>. QED
  BY <1>3, <1>4, <1>5, <1>6, <1>7, <1>8, <1>9, <1>10, <1>11, <1>12, <1>13, <1>14 DEF JNext

LEMMA ScreensBegin == JInit => ScreenInv
<1>. SUFFICES ASSUME JInit PROVE ScreenPart
  BY InitIsRight DEF ScreenInv
<1>1. desk \in Desks
  BY DesktopAssumption DEF JInit
<1>2. Declares(<<>>)
  BY DEF Declares
<1>3. saved = [targets |-> Detect(ProbesOf(desk, TRUE), <<>>), desk |-> desk, gui |-> TRUE,
               declared |-> <<>>]
  BY DEF JInit, ProbesOf
<1>4. Measured(saved)
  BY <1>1, <1>2, <1>3, MeasuredIs
<1>5. displays = SaveDisplaySnapshot(<<>>, saved.targets)
  BY DEF JInit
<1>6. <<>> \in Table(DisplayRows) /\ DOMAIN <<>> = {}
  BY NoRows
<1>7. \A i, j \in DOMAIN <<>> : SameDisplay(<<>>[i], <<>>[j]) => i = j
  BY <1>6
<1>8. Lists(displays, saved.targets, Len(saved.targets))
  BY <1>4, <1>5, <1>6, <1>7, SnapshotLists DEF Measured
<1>9. \A who \in {"scan", "tool"} : held[who] = Nothing
  BY DEF JInit
<1>. QED
  BY <1>4, <1>8, <1>9 DEF ScreenPart

LEMMA ScreenInvAlways == Spec => []ScreenInv
BY ScreensBegin, ScreensKept, PTL DEF Spec

LEMMA ScreensTell == ScreenInv => TargetsAreTheScreens
<1>. SUFFICES ASSUME ScreenInv PROVE TargetsAreTheScreens
  OBVIOUS
<1>. DEFINE t == saved.targets
            N == Len(t)
            on == Connected(displays)
            primary == {d \in on : displays[d].primary}
<1>1. /\ t \in Seq(Found) /\ Apart(t) /\ OnePrimary(t) /\ Lists(displays, t, N)
      /\ ToolsTell(saved.desk, saved.gui) =>
            Pairs(t) = Real(saved.desk) \cup Others(saved.desk, saved.declared)
  BY DEF ScreenInv, ScreenPart, Measured
<1>. HIDE DEF t
<1>2. DOMAIN t = 1 .. N /\ N \in Nat
  BY <1>1
<1>3. \A d \in on : \E k \in DOMAIN t : SameDisplay(displays[d], t[k])
  BY <1>1, <1>2 DEF Lists, Connected
<1>4. \A k \in DOMAIN t : \E d \in on : /\ SameDisplay(displays[d], t[k])
                                        /\ displays[d].primary = t[k].primary
  BY <1>1, <1>2 DEF Lists, Connected
<1>5. \A c, d \in on : SameDisplay(displays[c], displays[d]) => c = d
  BY <1>1 DEF Lists, Connected
<1>6. {<<displays[d].name, displays[d].size>> : d \in on} = Pairs(t)
  <2>1. ASSUME NEW d \in on PROVE <<displays[d].name, displays[d].size>> \in Pairs(t)
    <3>1. PICK k \in DOMAIN t : SameDisplay(displays[d], t[k])
      BY <1>3
    <3>. QED
      BY <3>1 DEF SameDisplay, Pairs
  <2>2. ASSUME NEW k \in DOMAIN t
        PROVE  <<t[k].name, t[k].size>> \in {<<displays[d].name, displays[d].size>> : d \in on}
    <3>1. PICK d \in on : SameDisplay(displays[d], t[k])
      BY <1>4
    <3>. QED
      BY <3>1 DEF SameDisplay
  <2>. QED
    BY <2>1, <2>2 DEF Pairs
<1>7. ASSUME on # {} PROVE Cardinality(primary) = 1
  <2>1. DOMAIN t # {}
    BY <1>3, <1>7
  <2>2. PICK p \in DOMAIN t : \A i \in DOMAIN t : t[i].primary = (i = p)
    BY <1>1, <2>1 DEF OnePrimary
  <2>3. PICK c \in on : SameDisplay(displays[c], t[p]) /\ displays[c].primary = t[p].primary
    BY <1>4
  <2>4. c \in primary
    BY <2>2, <2>3
  <2>5. ASSUME NEW d \in primary PROVE d = c
    <3>1. PICK k \in DOMAIN t : SameDisplay(displays[d], t[k])
      BY <1>3
    <3>2. PICK e \in on : SameDisplay(displays[e], t[k]) /\ displays[e].primary = t[k].primary
      BY <1>4
    <3>3. e = d
      BY <1>5, <3>1, <3>2 DEF SameDisplay
    <3>4. k = p
      BY <2>2, <3>2, <3>3
    <3>5. SameDisplay(displays[d], displays[c])
      BY <2>3, <3>1, <3>4 DEF SameDisplay
    <3>. QED
      BY <1>5, <3>5
  <2>. HIDE DEF primary
  <2>6. primary = {c}
    BY <2>4, <2>5
  <2>. QED
    BY <2>6, FS_Singleton
<1>. HIDE DEF on, primary
<1>8. ToolsTell(saved.desk, saved.gui) =>
        {<<displays[d].name, displays[d].size>> : d \in on}
            = Real(saved.desk) \cup Others(saved.desk, saved.declared)
  BY <1>1, <1>6
<1>. QED
  BY <1>7, <1>8 DEF TargetsAreTheScreens, Real, Others, Free, Lit, on, primary

\* The displays images are judged for are those of the desktop as it stood
\* when the detection stored last was made, whichever process made it and
\* whatever was plugged, turned or stored before and since.
THEOREM TargetsAreTrue == Spec => []TargetsAreTheScreens
BY ScreenInvAlways, ScreensTell, PTL

-----------------------------------------------------------------------------
\* The preview of a rule.

LEMMA CandidateAdded ==
  ASSUME BookRight, NEW kind, NEW value,
         AddRule(Tables, kind, value, None, None, None).ok,
         AddRule(Tables, kind, value, None, None, None).id \notin DOMAIN rules
  PROVE  /\ AddRule(Tables, kind, value, None, None, None).rules = WithCandidate(kind, value)
         /\ AddRule(Tables, kind, value, None, None, None).groups = groups
<1>. DEFINE added == AddRule(Tables, kind, value, None, None, None)
            in == {r \in DOMAIN roots : roots[r].path = None}
            same == {id \in DOMAIN rules : /\ rules[id].kind = kind
                                           /\ rules[id].value = value
                                           /\ rules[id].root = None}
            refused == ~ValidateRule(kind, value)
            stored == [ok |-> TRUE, groups |-> groups,
                       id |-> IF same # {} THEN Min(same) ELSE NextId(rules),
                       rules |-> IF same # {} THEN rules ELSE WithCandidate(kind, value)]
<1>1. added = IF refused THEN [ok |-> FALSE] ELSE stored
  BY DEF AddRule, Tables, WithCandidate
<1>. HIDE DEF added, refused, same
<1>2. added = stored
  BY <1>1 DEF added
<1>3. same # {} => Min(same) \in DOMAIN rules
  <2>1. same \subseteq DOMAIN rules /\ DOMAIN rules \subseteq Nat
    BY RuleIdsAre DEF same
  <2>. QED
    BY <2>1, MinIsIn
<1>4. added.id = IF same # {} THEN Min(same) ELSE NextId(rules)
  BY <1>2
<1>5. same = {}
  BY <1>3, <1>4 DEF added
<1>. QED
  BY <1>2, <1>5 DEF added

LEMMA PreviewIs ==
  ASSUME BookInv, FlagsRight, owed = 0, ~stale, late = {}, NEW kind, NEW value
  PROVE  Preview(kind, value) =
            {f \in DOMAIN rows :
                /\ rows[f].by = None
                /\ ApplyExclusions(rows, WithCandidate(kind, value), groups, roots)[f].by # None}
<1>. DEFINE wc == WithCandidate(kind, value)
            n == MatcherOf(wc, groups, roots)
            m == BookMatcher
            c == NextId(rules)
            hit(f) == HitFor(n, wc, f, rows[f].inode)
<1>1. BookRight /\ RowsRight(rows, DOMAIN rules)
  BY DEF BookInv, CatalogueRight
<1>2. Bounded(DOMAIN rules)
  BY <1>1, TableIs DEF BookRight, Keyed, Tables
<1>3. Gains(n, m, c, DOMAIN rules)
  BY <1>2, CandidateJoins DEF WithCandidate, BookMatcher
<1>4. c # None
  BY <1>3, BookAssumption DEF Gains
<1>. HIDE DEF wc, n, m, c
<1>5. ASSUME NEW f \in DOMAIN rows
      PROVE  /\ ApplyExclusions(rows, wc, groups, roots)[f].by = hit(f)
             /\ rows[f].by = None => hit(f) \in {None, c}
  <2>1. rows[f] \in ImageRows /\ f \in Path /\ f # <<>>
    BY <1>1, BookAssumption DEF RowsRight, Path
  <2>2. ApplyExclusions(rows, wc, groups, roots)[f] = [rows[f] EXCEPT !.by = hit(f)]
    BY DEF ApplyExclusions, Flagged, n
  <2>. HIDE DEF hit
  <2>3. ApplyExclusions(rows, wc, groups, roots)[f].by = hit(f)
    BY <2>1, <2>2 DEF ImageRows
  <2>4. ASSUME rows[f].by = None PROVE hit(f) \in {None, c}
    <3>1. HitFor(m, rules, f, rows[f].inode) = None
      BY <2>4 DEF FlagsRight, m
    <3>2. Match(m, f, FALSE) = None /\ MatchInode(m, rows[f].inode) = None
      BY <3>1, NoHitIs
    <3>3. Match(n, f, FALSE) \in {None, c}
      BY <1>3, <2>1, <3>2, MatchJoins
    <3>4. MatchInode(n, rows[f].inode) = None
      BY <1>3, <3>2, InodeJoins
    <3>. QED
      BY <3>3, <3>4 DEF hit, HitFor, Prevails
  <2>. QED
    BY <2>3, <2>4
<1>6. Preview(kind, value) = {f \in DOMAIN rows : hit(f) = c /\ rows[f].by = None}
  BY DEF Preview, WonBy, wc, n, c
<1>. HIDE DEF hit
<1>. QED
  BY <1>4, <1>5, <1>6 DEF wc

LEMMA FlagsGivePreview == FlagInv => PreviewTells
<1>. SUFFICES ASSUME FlagInv, owed = 0, ~stale, late = {},
                     NEW r \in Requests, r.group = None, r.source = None,
                     AddRule(Tables, r.kind, r.value, None, None, None).ok,
                     AddRule(Tables, r.kind, r.value, None, None, None).id \notin DOMAIN rules
              PROVE  LET added == AddRule(Tables, r.kind, r.value, None, None, None)
                         then == ApplyExclusions(rows, added.rules, added.groups, roots)
                     IN  Preview(r.kind, r.value)
                            = {f \in DOMAIN rows : rows[f].by = None /\ then[f].by # None}
  BY DEF PreviewTells
<1>. DEFINE added == AddRule(Tables, r.kind, r.value, None, None, None)
<1>1. BookInv /\ BookRight /\ FlagsRight
  BY DEF FlagInv, IInv, FlagPart, BookInv
<1>2. added.rules = WithCandidate(r.kind, r.value) /\ added.groups = groups
  BY <1>1, CandidateAdded
<1>3. Preview(r.kind, r.value) =
        {f \in DOMAIN rows :
            /\ rows[f].by = None
            /\ ApplyExclusions(rows, WithCandidate(r.kind, r.value), groups, roots)[f].by # None}
  BY <1>1, PreviewIs
<1>. HIDE DEF added
<1>. QED
  BY <1>2, <1>3 DEF added

-----------------------------------------------------------------------------
(* What the Sources page proposes. *)

\* Of two paths above one, the shorter is above the longer.
LEMMA BothUnder ==
  ASSUME NEW path \in Path, NEW a \in Path, NEW b \in Path,
         IsUnder(path, a), IsUnder(path, b), Len(b) <= Len(a)
  PROVE  IsUnder(a, b) /\ (Len(a) = Len(b) => a = b)
<1>1. /\ Len(a) \in 0 .. Len(path) /\ Prefix(path, Len(a)) = a
      /\ Len(b) \in 0 .. Len(path) /\ Prefix(path, Len(b)) = b
  BY UnderIs
<1>2. Len(b) \in 0 .. Len(a)
  BY <1>1
<1>3. \A j \in 0 .. Len(a) : Prefix(Prefix(path, Len(a)), j) = Prefix(path, j)
  BY <1>1, PrefixIs
<1>4. Prefix(a, Len(b)) = b
  BY <1>1, <1>2, <1>3
<1>5. IsUnder(a, b)
  BY <1>2, <1>4, UnderIs
<1>6. Len(a) = Len(b) => a = b
  BY <1>1
<1>. QED
  BY <1>5, <1>6

\* What is above a path above another is above the other.
LEMMA UnderBoth ==
  ASSUME NEW path \in Path, NEW a \in Path, NEW b \in Path,
         IsUnder(path, a), IsUnder(a, b)
  PROVE  IsUnder(path, b) /\ Len(b) <= Len(a) /\ (Len(b) = Len(a) => a = b)
<1>1. /\ Len(a) \in 0 .. Len(path) /\ Prefix(path, Len(a)) = a
      /\ Len(b) \in 0 .. Len(a) /\ Prefix(a, Len(b)) = b
  BY UnderIs
<1>2. \A j \in 0 .. Len(a) : Prefix(Prefix(path, Len(a)), j) = Prefix(path, j)
  BY <1>1, PrefixIs
<1>3. Prefix(path, Len(b)) = b
  BY <1>1, <1>2
<1>4. Len(path) \in Nat
  BY DEF Path
<1>5. Len(b) \in 0 .. Len(path) /\ Len(b) <= Len(a)
  BY <1>1, <1>4
<1>6. Prefix(a, Len(a)) = a
  BY <1>1, PrefixIs
<1>7. IsUnder(path, b)
  BY <1>3, <1>5, UnderIs
<1>8. Len(b) = Len(a) => a = b
  BY <1>1, <1>6
<1>. QED
  BY <1>5, <1>7, <1>8

\* Of the mounts over a path, when a later one never hides a deeper one, the
\* last is the deepest.
Bare(mounts) ==
    \A i \in DOMAIN mounts : \A j \in i + 1 .. Len(mounts) :
        mounts[i].target = mounts[j].target \/ ~IsUnder(mounts[i].target, mounts[j].target)

MountsOver(mounts, path) == {i \in DOMAIN mounts : IsUnder(path, mounts[i].target)}

LastOver(mounts, path) == Max({0} \cup MountsOver(mounts, path))

LEMMA MountsAre ==
  ASSUME NEW mounts \in Seq(Mounts)
  PROVE  /\ Len(mounts) \in Nat /\ DOMAIN mounts = 1 .. Len(mounts)
         /\ \A i \in DOMAIN mounts : /\ mounts[i] \in Mounts /\ mounts[i].target \in Path
                                     /\ mounts[i].network \in BOOLEAN
<1>1. Len(mounts) \in Nat /\ DOMAIN mounts = 1 .. Len(mounts)
  OBVIOUS
<1>2. \A i \in DOMAIN mounts : mounts[i] \in Mounts
  OBVIOUS
<1>3. \A x \in Mounts : x.target \in Path /\ x.network \in BOOLEAN
  BY DEF Mounts, Path
<1>. QED
  BY <1>1, <1>2, <1>3

LEMMA LastOverIs ==
  ASSUME NEW mounts \in Seq(Mounts), NEW path
  PROVE  /\ MountsOver(mounts, path) = {} => LastOver(mounts, path) = 0
         /\ MountsOver(mounts, path) # {} => LastOver(mounts, path) \in MountsOver(mounts, path)
         /\ \A i \in MountsOver(mounts, path) : i <= LastOver(mounts, path)
<1>. DEFINE S == {0} \cup MountsOver(mounts, path)
<1>1. Len(mounts) \in Nat /\ DOMAIN mounts = 1 .. Len(mounts)
  OBVIOUS
<1>2. S \in SUBSET (0 .. Len(mounts)) /\ S # {}
  BY <1>1 DEF MountsOver
<1>. HIDE DEF S
<1>3. Max(S) \in S /\ \A x \in S : x <= Max(S)
  BY <1>1, <1>2, MaxIsIn
<1>4. \A i \in MountsOver(mounts, path) : i \in S /\ i \in 1 .. Len(mounts)
  BY <1>1 DEF S, MountsOver
<1>5. MountsOver(mounts, path) = {} => Max(S) = 0
  BY <1>3 DEF S
<1>6. ASSUME MountsOver(mounts, path) # {} PROVE Max(S) \in MountsOver(mounts, path)
  <2>1. PICK i : i \in MountsOver(mounts, path)
    BY <1>6
  <2>2. i \in Nat /\ i >= 1 /\ i <= Max(S)
    BY <1>1, <1>3, <1>4, <2>1
  <2>3. Max(S) # 0
    BY <2>2
  <2>. QED
    BY <1>3, <2>3 DEF S
<1>. QED
  BY <1>3, <1>4, <1>5, <1>6 DEF S, LastOver

LEMMA MountForIs ==
  ASSUME NEW mounts \in Seq(Mounts), NEW path \in Path
  PROVE  /\ MountsOver(mounts, path) = {} => MountFor(mounts, path) = None
         /\ MountsOver(mounts, path) # {} =>
              \E k \in MountsOver(mounts, path) :
                 /\ MountFor(mounts, path) = mounts[k]
                 /\ \A j \in MountsOver(mounts, path) :
                       /\ Len(mounts[j].target) <= Len(mounts[k].target)
                       /\ Len(mounts[j].target) = Len(mounts[k].target) => j <= k
<1>. DEFINE over == MountsOver(mounts, path)
            deepest == {i \in over : \A j \in over : Len(mounts[j].target)
                                                     <= Len(mounts[i].target)}
<1>1. /\ Len(mounts) \in Nat /\ DOMAIN mounts = 1 .. Len(mounts)
      /\ \A i \in DOMAIN mounts : mounts[i].target \in Path
  BY MountsAre
<1>2. MountFor(mounts, path) = IF over = {} THEN None ELSE mounts[Max(deepest)]
  BY DEF MountFor, MountsOver
<1>3. \A i \in over : i \in 1 .. Len(mounts) /\ Len(mounts[i].target) \in 0 .. Len(path)
  BY <1>1, UnderIs DEF MountsOver
<1>4. ASSUME over # {}
      PROVE  \E k \in over :
                 /\ MountFor(mounts, path) = mounts[k]
                 /\ \A j \in over : /\ Len(mounts[j].target) <= Len(mounts[k].target)
                                    /\ Len(mounts[j].target) = Len(mounts[k].target) => j <= k
  <2>. DEFINE depths == {Len(mounts[i].target) : i \in over}
  <2>0. Len(path) \in Nat
    BY DEF Path
  <2>1. depths \in SUBSET (0 .. Len(path)) /\ depths # {}
    BY <1>3, <1>4
  <2>. HIDE DEF depths
  <2>2. Max(depths) \in depths /\ \A x \in depths : x <= Max(depths)
    BY <2>0, <2>1, MaxIsIn
  <2>. HIDE DEF over
  <2>3. \E i \in over : \A j \in over : Len(mounts[j].target) <= Len(mounts[i].target)
    BY <2>2 DEF depths
  <2>4. deepest # {} /\ deepest \in SUBSET (0 .. Len(mounts))
    BY <1>1, <1>3, <2>3
  <2>5. \A i, j \in deepest : Len(mounts[i].target) = Len(mounts[j].target)
    BY <1>3
  <2>6. \A i \in deepest : \A j \in over :
          /\ Len(mounts[j].target) <= Len(mounts[i].target)
          /\ Len(mounts[j].target) = Len(mounts[i].target) => j \in deepest
    BY <1>3
  <2>7. deepest \subseteq over
    OBVIOUS
  <2>. HIDE DEF deepest
  <2>8. Max(deepest) \in deepest /\ \A x \in deepest : x <= Max(deepest)
    BY <1>1, <2>4, MaxIsIn
  <2>. QED
    BY <1>2, <1>4, <2>6, <2>7, <2>8
<1>. QED
  BY <1>2, <1>4

\* The mount that holds a path is the last one over it.
LEMMA HolderIs ==
  ASSUME NEW mounts \in Seq(Mounts), NEW path \in Path, Bare(mounts)
  PROVE  MountFor(mounts, path)
           = IF LastOver(mounts, path) = 0 THEN None ELSE mounts[LastOver(mounts, path)]
<1>. DEFINE m == LastOver(mounts, path)
<1>1. /\ Len(mounts) \in Nat /\ DOMAIN mounts = 1 .. Len(mounts)
      /\ \A i \in DOMAIN mounts : mounts[i].target \in Path
  BY MountsAre
<1>2. /\ MountsOver(mounts, path) = {} => m = 0
      /\ MountsOver(mounts, path) # {} => m \in MountsOver(mounts, path)
      /\ \A i \in MountsOver(mounts, path) : i <= m
  BY LastOverIs
<1>. HIDE DEF m
<1>3. ASSUME MountsOver(mounts, path) # {} PROVE MountFor(mounts, path) = mounts[m] /\ m # 0
  <2>1. PICK k \in MountsOver(mounts, path) :
          /\ MountFor(mounts, path) = mounts[k]
          /\ \A j \in MountsOver(mounts, path) :
                /\ Len(mounts[j].target) <= Len(mounts[k].target)
                /\ Len(mounts[j].target) = Len(mounts[k].target) => j <= k
    BY <1>3, MountForIs
  <2>2. m \in MountsOver(mounts, path) /\ k <= m
    BY <1>2, <1>3, <2>1
  <2>3. /\ k \in 1 .. Len(mounts) /\ m \in 1 .. Len(mounts)
        /\ mounts[k].target \in Path /\ mounts[m].target \in Path
        /\ IsUnder(path, mounts[k].target) /\ IsUnder(path, mounts[m].target)
    BY <1>1, <2>1, <2>2 DEF MountsOver
  <2>4. Len(mounts[m].target) <= Len(mounts[k].target)
    BY <2>1, <2>2
  <2>5. IsUnder(mounts[k].target, mounts[m].target)
    BY <2>3, <2>4, BothUnder
  <2>6. ASSUME k # m PROVE FALSE
    <3>1. m \in k + 1 .. Len(mounts)
      BY <1>1, <2>2, <2>3, <2>6
    <3>2. mounts[k].target = mounts[m].target
      BY <1>1, <2>3, <2>5, <3>1 DEF Bare
    <3>3. m <= k
      BY <2>1, <2>2, <3>2
    <3>. QED
      BY <2>2, <2>3, <2>6, <3>3
  <2>7. m # 0
    BY <1>1, <2>3
  <2>. QED
    BY <2>1, <2>6, <2>7
<1>. QED
  BY <1>2, <1>3, MountForIs DEF m


-----------------------------------------------------------------------------
(* Each source of proposals, and the first that has a path. *)

\* A folder of a kind is within one that is proposed.
LEMMA Outermost ==
  ASSUME NEW S \in SUBSET Path, NEW f \in S
  PROVE  \E g \in WithoutNested(S) : IsUnder(f, g)
<1>. DEFINE over == {g \in S : IsUnder(f, g)}
            depths == {Len(g) : g \in over}
<1>1. IsUnder(f, f)
  <2>1. Len(f) \in 0 .. Len(f) /\ Prefix(f, Len(f)) = f
    BY PrefixIs DEF Path
  <2>. QED
    BY <2>1, UnderIs
<1>2. \A g \in S : Len(g) \in Nat
  BY DEF Path
<1>3. depths \in SUBSET Nat /\ depths # {}
  BY <1>1, <1>2
<1>4. PICK n \in depths : \A y \in depths : n <= y
  <2>. HIDE DEF depths
  <2>. QED
    BY <1>3, LeastNumber
<1>5. PICK g \in over : Len(g) = n
  BY <1>4
<1>6. ASSUME NEW other \in S \ {g}, IsUnder(g, other) PROVE FALSE
  <2>1. f \in Path /\ g \in Path /\ other \in Path /\ IsUnder(f, g)
    BY <1>5, <1>6
  <2>2. IsUnder(f, other) /\ Len(other) <= Len(g) /\ (Len(other) = Len(g) => g = other)
    BY <1>6, <2>1, UnderBoth
  <2>3. Len(other) \in depths
    BY <1>6, <2>2
  <2>4. n <= Len(other)
    BY <1>4, <2>3
  <2>5. Len(other) \in Nat /\ Len(g) \in Nat
    BY <2>1 DEF Path
  <2>. QED
    BY <1>5, <1>6, <2>2, <2>4, <2>5
<1>. QED
  BY <1>5, <1>6 DEF WithoutNested

\* What a source says of a path follows from the path, and the mount that
\* holds it.
FromSource(mounts, n, p) ==
    LET mount == MountFor(mounts, p.path)
    IN  /\ p.volume = (IF mount = None THEN None ELSE mount.uuid)
        /\ n # 3 => p.on = ~(mount # None /\ mount.network)
        /\ n = 3 => p.on = FALSE /\ mount # None

Wants(d, n) == IF n = 1 THEN XdgWanted(d) ELSE SystemWanted

LEMMA DefaultsAre ==
  ASSUME NEW d
  PROVE  /\ DOMAIN DefaultSources(d) = 1 .. 3
         /\ DefaultSources(d)[1] = Folders(d, "xdg", XdgWanted(d))
         /\ DefaultSources(d)[2] = Folders(d, "system", SystemWanted)
         /\ DefaultSources(d)[3] = Volumes(d)
BY DEF DefaultSources

LEMMA FoldersAre ==
  ASSUME NEW d, NEW kind, NEW wanted
  PROVE  /\ \A p \in Folders(d, kind, wanted) :
              /\ p.path \in WithoutNested(Usable(d, wanted))
              /\ p = Proposal(p.path, kind, ParseFindmnt(d.mounts))
         /\ \A path \in WithoutNested(Usable(d, wanted)) :
              \E p \in Folders(d, kind, wanted) : p.path = path
<1>1. \A path, mounts : Proposal(path, kind, mounts).path = path
  BY DEF Proposal
<1>. QED
  BY <1>1 DEF Folders

LEMMA ProposalIs ==
  ASSUME NEW path, NEW kind, NEW mounts, NEW n \in {1, 2}
  PROVE  FromSource(mounts, n, Proposal(path, kind, mounts))
<1>. DEFINE mount == MountFor(mounts, path)
            remote == mount # None /\ mount.network
            p == Proposal(path, kind, mounts)
<1>1. OffReason(mounts, path) = IF remote THEN "network" ELSE None
  BY DEF OffReason
<1>2. None # "network"
  BY DesktopAssumption
<1>3. (OffReason(mounts, path) = None) = ~remote
  <2>. HIDE DEF remote
  <2>. QED
    BY <1>1, <1>2
<1>4. /\ p.path = path /\ p.on = (OffReason(mounts, path) = None)
      /\ p.volume = IF mount = None THEN None ELSE mount.uuid
  BY DEF Proposal
<1>5. n # 3
  OBVIOUS
<1>. HIDE DEF p
<1>. QED
  BY <1>3, <1>4, <1>5 DEF FromSource, p

LEMMA VolumesAre ==
  ASSUME NEW d, ParseFindmnt(d.mounts) \in Seq(Mounts)
  PROVE  \A p \in Volumes(d) :
           LET mount == MountFor(ParseFindmnt(d.mounts), p.path)
           IN  /\ p.path \in d.dirs /\ FromSource(ParseFindmnt(d.mounts), 3, p)
               /\ p = [path |-> mount.target, kind |-> "volume",
                       reason |-> VolumeReason(mount), on |-> FALSE,
                       volume |-> mount.uuid]
<1>. DEFINE mounts == ParseFindmnt(d.mounts)
<1>1. SUFFICES ASSUME NEW p \in Volumes(d)
               PROVE  LET mount == MountFor(mounts, p.path)
                      IN  /\ p.path \in d.dirs /\ FromSource(mounts, 3, p)
                          /\ p = [path |-> mount.target, kind |-> "volume",
                                  reason |-> VolumeReason(mount), on |-> FALSE,
                                  volume |-> mount.uuid]
  OBVIOUS
<1>2. PICK x \in ToSet(mounts) :
        /\ MountFor(mounts, x.target) = x /\ x.target \in d.dirs
        /\ p = [path |-> x.target, kind |-> "volume", reason |-> VolumeReason(x),
                on |-> FALSE, volume |-> x.uuid]
  BY <1>1 DEF Volumes
<1>3. p.path = x.target /\ p.on = FALSE /\ p.volume = x.uuid
  BY <1>2
<1>4. x # None
  BY <1>2, DesktopAssumption DEF ToSet
<1>. QED
  BY <1>2, <1>3, <1>4 DEF FromSource

\* A volume is proposed where it is mounted.
LEMMA VolumeFound ==
  ASSUME NEW d, ParseFindmnt(d.mounts) \in Seq(Mounts),
         NEW i \in DOMAIN ParseFindmnt(d.mounts),
         IsVolumeTarget(ParseFindmnt(d.mounts)[i].target),
         ParseFindmnt(d.mounts)[i].target \in d.dirs
  PROVE  \E p \in Volumes(d) : p.path = ParseFindmnt(d.mounts)[i].target
<1>. DEFINE mounts == ParseFindmnt(d.mounts)
            t == mounts[i].target
<1>1. /\ \A j \in DOMAIN mounts : mounts[j].target \in Path
      /\ t \in Path
  BY MountsAre
<1>2. IsUnder(t, t) /\ Len(t) \in Nat
  <2>1. Len(t) \in 0 .. Len(t) /\ Prefix(t, Len(t)) = t
    BY <1>1, PrefixIs DEF Path
  <2>. HIDE DEF t
  <2>. QED
    BY <1>1, <2>1, UnderIs DEF Path
<1>3. i \in MountsOver(mounts, t)
  BY <1>2 DEF MountsOver
<1>4. PICK k \in MountsOver(mounts, t) : /\ MountFor(mounts, t) = mounts[k]
                                   /\ Len(t) <= Len(mounts[k].target)
  <2>. HIDE DEF mounts, t
  <2>1. mounts \in Seq(Mounts)
    BY DEF mounts
  <2>2. PICK k \in MountsOver(mounts, t) :
          /\ MountFor(mounts, t) = mounts[k]
          /\ \A j \in MountsOver(mounts, t) :
                /\ Len(mounts[j].target) <= Len(mounts[k].target)
                /\ Len(mounts[j].target) = Len(mounts[k].target) => j <= k
    BY <1>1, <1>3, <2>1, MountForIs
  <2>. QED
    BY <1>3, <2>2 DEF t
<1>5. mounts[k].target = t
  <2>1. k \in DOMAIN mounts /\ IsUnder(t, mounts[k].target) /\ mounts[k].target \in Path
    BY <1>1, <1>4 DEF MountsOver
  <2>. HIDE DEF t, mounts
  <2>2. IsUnder(t, mounts[k].target) /\ mounts[k].target \in Path
    BY <2>1
  <2>3. IsUnder(t, t) /\ Len(t) <= Len(mounts[k].target)
    BY <1>2, <1>4
  <2>4. /\ Len(mounts[k].target) \in 0 .. Len(t)
        /\ Prefix(t, Len(mounts[k].target)) = mounts[k].target
    BY <1>1, <2>2, UnderIs
  <2>5. Len(mounts[k].target) = Len(t)
    BY <1>2, <2>3, <2>4
  <2>6. Prefix(t, Len(t)) = t
    BY <1>1, PrefixIs DEF Path
  <2>. QED
    BY <2>4, <2>5, <2>6
<1>6. k \in DOMAIN mounts /\ mounts[k] \in ToSet(mounts)
  BY <1>4 DEF MountsOver, ToSet
<1>7. IsVolumeTarget(mounts[k].target) /\ mounts[k].target \in d.dirs
  BY <1>5
<1>8. MountFor(mounts, mounts[k].target) = mounts[k]
  BY <1>4, <1>5
<1>. DEFINE v == [path |-> mounts[k].target, kind |-> "volume",
                  reason |-> VolumeReason(mounts[k]), on |-> FALSE,
                  volume |-> mounts[k].uuid]
<1>9. v \in Volumes(d)
  BY <1>6, <1>7, <1>8 DEF Volumes
<1>10. v.path = t
  BY <1>5
<1>. QED
  BY <1>9, <1>10

\* Of a path some source has, the first to have it proposes it.
LEMMA FirstProposes ==
  ASSUME NEW d, NEW n \in 1 .. 3, NEW p \in DefaultSources(d)[n]
  PROVE  \E q \in ProposeAll(DefaultSources(d)) : q.path = p.path
<1>. DEFINE S == DefaultSources(d)
            having == {k \in 1 .. 3 : \E q \in S[k] : q.path = p.path}
<1>1. DOMAIN S = 1 .. 3
  BY DefaultsAre
<1>. HIDE DEF S
<1>2. having \in SUBSET Nat /\ n \in having
  BY DEF S
<1>. HIDE DEF having
<1>3. PICK k \in having : \A y \in having : k <= y
  BY <1>2, LeastNumber
<1>4. PICK q \in S[k] : q.path = p.path
  BY <1>3 DEF having
<1>5. k \in 1 .. 3 /\ ~\E j \in 1 .. 3 : j < k /\ \E r \in S[j] : r.path = q.path
  BY <1>3, <1>4 DEF having
<1>6. q \in ProposeAll(S)
  BY <1>1, <1>4, <1>5 DEF ProposeAll
<1>. QED
  BY <1>4, <1>6 DEF S

LEMMA ProposedFirst ==
  ASSUME NEW d, NEW p \in ProposeAll(DefaultSources(d))
  PROVE  \E n \in 1 .. 3 : /\ p \in DefaultSources(d)[n]
                           /\ \A j \in 1 .. 3 : j < n =>
                                 \A q \in DefaultSources(d)[j] : q.path # p.path
BY DefaultsAre DEF ProposeAll


\* Two proposals for one path are one.
LEMMA ProposedOnce ==
  ASSUME NEW d, ParseFindmnt(d.mounts) \in Seq(Mounts),
         NEW p \in ProposeAll(DefaultSources(d)),
         NEW q \in ProposeAll(DefaultSources(d)), q.path = p.path
  PROVE  q = p
<1>. DEFINE S == DefaultSources(d)
            mounts == ParseFindmnt(d.mounts)
<1>1. PICK n \in 1 .. 3 : p \in S[n] /\ \A j \in 1 .. 3 : j < n => \A r \in S[j] : r.path # p.path
  BY ProposedFirst
<1>2. PICK k \in 1 .. 3 : q \in S[k] /\ \A j \in 1 .. 3 : j < k => \A r \in S[j] : r.path # q.path
  BY ProposedFirst
<1>3. n = k
  BY <1>1, <1>2
<1>4. CASE n = 1
  <2>1. p = Proposal(p.path, "xdg", mounts) /\ q = Proposal(q.path, "xdg", mounts)
    BY <1>1, <1>2, <1>3, <1>4, DefaultsAre, FoldersAre
  <2>. QED
    BY <2>1
<1>5. CASE n = 2
  <2>1. p = Proposal(p.path, "system", mounts) /\ q = Proposal(q.path, "system", mounts)
    BY <1>1, <1>2, <1>3, <1>5, DefaultsAre, FoldersAre
  <2>. QED
    BY <2>1
<1>6. CASE n = 3
  <2>1. p \in Volumes(d) /\ q \in Volumes(d)
    BY <1>1, <1>2, <1>3, <1>6, DefaultsAre
  <2>. DEFINE volume(mount) == [path |-> mount.target, kind |-> "volume",
                                reason |-> VolumeReason(mount), on |-> FALSE,
                                volume |-> mount.uuid]
  <2>2. \A v \in Volumes(d) : v = volume(MountFor(mounts, v.path))
    BY VolumesAre
  <2>. HIDE DEF volume, mounts
  <2>. QED
    BY <2>1, <2>2
<1>. QED
  BY <1>4, <1>5, <1>6

\* A picture folder is within a proposed one, itself a picture folder.
LEMMA FolderProposed ==
  ASSUME NEW d, NEW n \in {1, 2}, NEW f \in Usable(d, Wants(d, n)), d.dirs \subseteq Path
  PROVE  \E p \in ProposeAll(DefaultSources(d)) :
            p.path \in Usable(d, Wants(d, n)) /\ IsUnder(f, p.path)
<1>1. Usable(d, Wants(d, n)) \in SUBSET Path
  BY DEF Usable
<1>2. PICK g \in WithoutNested(Usable(d, Wants(d, n))) : IsUnder(f, g)
  BY <1>1, Outermost
<1>3. \E p \in DefaultSources(d)[n] : p.path = g
  <2>1. CASE n = 1
    BY <1>2, <2>1, DefaultsAre, FoldersAre DEF Wants
  <2>2. CASE n = 2
    BY <1>2, <2>2, DefaultsAre, FoldersAre DEF Wants
  <2>. QED
    BY <2>1, <2>2
<1>4. PICK p \in DefaultSources(d)[n] : p.path = g
  BY <1>3
<1>5. n \in 1 .. 3
  OBVIOUS
<1>6. PICK q \in ProposeAll(DefaultSources(d)) : q.path = p.path
  BY <1>5, FirstProposes
<1>7. g \in Usable(d, Wants(d, n))
  BY <1>2 DEF WithoutNested
<1>. QED
  BY <1>2, <1>4, <1>6, <1>7

\* What a source says of its paths.
LEMMA SourcesTell ==
  ASSUME NEW d, ParseFindmnt(d.mounts) \in Seq(Mounts), NEW n \in 1 .. 3,
         NEW p \in DefaultSources(d)[n]
  PROVE  /\ FromSource(ParseFindmnt(d.mounts), n, p) /\ p.path \in d.dirs
         /\ n # 3 => p.path \in Wants(d, n)
<1>. DEFINE mounts == ParseFindmnt(d.mounts)
<1>1. CASE n = 1
  <2>1. p.path \in WithoutNested(Usable(d, XdgWanted(d))) /\ p = Proposal(p.path, "xdg", mounts)
    BY <1>1, DefaultsAre, FoldersAre
  <2>2. p.path \in XdgWanted(d) \cap d.dirs
    BY <2>1 DEF WithoutNested, Usable
  <2>3. FromSource(mounts, n, Proposal(p.path, "xdg", mounts))
    BY <1>1, ProposalIs
  <2>. QED
    BY <1>1, <2>1, <2>2, <2>3 DEF Wants
<1>2. CASE n = 2
  <2>1. p.path \in WithoutNested(Usable(d, SystemWanted)) /\ p = Proposal(p.path, "system", mounts)
    BY <1>2, DefaultsAre, FoldersAre
  <2>2. p.path \in SystemWanted \cap d.dirs
    BY <2>1 DEF WithoutNested, Usable
  <2>3. FromSource(mounts, n, Proposal(p.path, "system", mounts))
    BY <1>2, ProposalIs
  <2>. QED
    BY <1>2, <2>1, <2>2, <2>3 DEF Wants
<1>3. CASE n = 3
  BY <1>3, DefaultsAre, VolumesAre
<1>. QED
  BY <1>1, <1>2, <1>3

\* A picture folder no source of picture folders has is inside another one.
LEMMA LeftOut ==
  ASSUME NEW d, NEW n \in {1, 2}, NEW f \in Usable(d, Wants(d, n)),
         \A p \in DefaultSources(d)[n] : p.path # f
  PROVE  \E other \in Usable(d, Wants(d, n)) \ {f} : IsUnder(f, other)
<1>1. f \notin WithoutNested(Usable(d, Wants(d, n)))
  <2>1. CASE n = 1
    BY <2>1, DefaultsAre, FoldersAre DEF Wants
  <2>2. CASE n = 2
    BY <2>2, DefaultsAre, FoldersAre DEF Wants
  <2>. QED
    BY <2>1, <2>2
<1>. QED
  BY <1>1 DEF WithoutNested

\* The page tells what it proposes, whatever the desktop and the sources.
LEMMA DesksTell == desk \in Desks => ProposalsTell
<1>. DEFINE mounts == ParseFindmnt(desk.mounts)
            offered == Proposals(desk, KnownPaths)
            places == KnownPaths \cup {p.path : p \in offered}
            folders == (XdgWanted(desk) \cup SystemWanted) \cap desk.dirs
            holder(path) == LastOver(mounts, path)
            remote(path) == holder(path) # 0 /\ mounts[holder(path)].network
            uuid(path) == IF holder(path) = 0 THEN None ELSE mounts[holder(path)].uuid
            walks(place, path) == IsUnder(path, place) /\ holder(place) = holder(path)
<1>1. SUFFICES ASSUME desk \in Desks, Bare(mounts)
               PROVE  /\ \A f \in folders :
                            (\A other \in folders : IsUnder(f, other) => walks(other, f))
                                => \E place \in places : walks(place, f)
                      /\ \A i \in DOMAIN mounts :
                            IsVolumeTarget(mounts[i].target) /\ mounts[i].target \in desk.dirs
                                => mounts[i].target \in places
                      /\ \A p \in offered :
                            /\ p.on => p.path \in folders /\ ~remote(p.path)
                            /\ p.path \in folders /\ ~remote(p.path) /\ ~p.on =>
                                  \E other \in folders \ {p.path} : IsUnder(p.path, other)
                            /\ p.volume = uuid(p.path)
                            /\ \A q \in offered : q.path = p.path => q = p
  BY DEF ProposalsTell, Bare, LastOver, MountsOver
<1>2. mounts \in Seq(Mounts) /\ desk.dirs \subseteq Path
  BY <1>1, DesktopAssumption DEF Path
<1>3. \A q \in ProposeAll(DefaultSources(desk)) : q.path \in places
  BY DEF Proposals
<1>4. \A p \in offered : p \in ProposeAll(DefaultSources(desk))
  BY DEF Proposals
<1>5. \A path : path \in folders <=> \E n \in {1, 2} : path \in Usable(desk, Wants(desk, n))
  BY DEF Usable, Wants
<1>6. \A path \in Path : MountFor(mounts, path)
                           = IF holder(path) = 0 THEN None ELSE mounts[holder(path)]
  <2>. HIDE DEF mounts
  <2>. QED
    BY <1>1, <1>2, HolderIs
<1>7. \A path \in Path : holder(path) # 0 => mounts[holder(path)] # None
  <2>1. SUFFICES ASSUME NEW path \in Path, holder(path) # 0
                 PROVE  holder(path) \in DOMAIN mounts
    BY <1>2, DesktopAssumption
  <2>. HIDE DEF mounts
  <2>. QED
    BY <1>2, <2>1, LastOverIs DEF MountsOver
<1>. HIDE DEF places, offered, folders, holder
<1>8. ASSUME NEW f \in folders,
             \A other \in folders : IsUnder(f, other) => walks(other, f)
      PROVE  \E place \in places : walks(place, f)
  <2>1. PICK n \in {1, 2} : f \in Usable(desk, Wants(desk, n))
    BY <1>5, <1>8
  <2>2. PICK p \in ProposeAll(DefaultSources(desk)) :
          p.path \in Usable(desk, Wants(desk, n)) /\ IsUnder(f, p.path)
    BY <1>2, <2>1, FolderProposed
  <2>3. p.path \in folders /\ p.path \in places
    BY <1>3, <1>5, <2>2
  <2>. HIDE DEF walks
  <2>. QED
    BY <1>8, <2>2, <2>3
<1>9. ASSUME NEW i \in DOMAIN mounts, IsVolumeTarget(mounts[i].target),
             mounts[i].target \in desk.dirs
      PROVE  mounts[i].target \in places
  <2>1. PICK p \in Volumes(desk) : p.path = mounts[i].target
    BY <1>2, <1>9, VolumeFound
  <2>2. p \in DefaultSources(desk)[3] /\ 3 \in 1 .. 3
    BY <2>1, DefaultsAre
  <2>3. PICK q \in ProposeAll(DefaultSources(desk)) : q.path = p.path
    BY <2>2, FirstProposes
  <2>. QED
    BY <1>3, <2>1, <2>3
<1>10. ASSUME NEW p \in offered
       PROVE  /\ p.on => p.path \in folders /\ ~remote(p.path)
              /\ p.path \in folders /\ ~remote(p.path) /\ ~p.on =>
                    \E other \in folders \ {p.path} : IsUnder(p.path, other)
              /\ p.volume = uuid(p.path)
              /\ \A q \in offered : q.path = p.path => q = p
  <2>1. PICK n \in 1 .. 3 : /\ p \in DefaultSources(desk)[n]
                            /\ \A j \in 1 .. 3 : j < n =>
                                  \A q \in DefaultSources(desk)[j] : q.path # p.path
    BY <1>4, <1>10, ProposedFirst
  <2>2. /\ FromSource(mounts, n, p) /\ p.path \in desk.dirs
        /\ n # 3 => p.path \in Wants(desk, n)
    BY <1>2, <2>1, SourcesTell
  <2>3. p.path \in Path
    BY <1>2, <2>2
  <2>4. /\ MountFor(mounts, p.path)
             = IF holder(p.path) = 0 THEN None ELSE mounts[holder(p.path)]
        /\ holder(p.path) # 0 => mounts[holder(p.path)] # None
    BY <1>6, <1>7, <2>3
  <2>. HIDE DEF mounts
  <2>5. p.volume = uuid(p.path)
    BY <2>2, <2>4 DEF FromSource
  <2>6. /\ n # 3 => p.on = ~remote(p.path)
        /\ n = 3 => p.on = FALSE
    BY <2>2, <2>4 DEF FromSource
  <2>. HIDE DEF uuid, remote
  <2>7. n # 3 => p.path \in folders
    BY <1>5, <2>2 DEF Usable, Wants
  <2>8. p.on => p.path \in folders /\ ~remote(p.path)
    BY <2>6, <2>7
  <2>9. ASSUME p.path \in folders, ~remote(p.path), ~p.on
        PROVE  \E other \in folders \ {p.path} : IsUnder(p.path, other)
    <3>1. n = 3
      BY <2>6, <2>9
    <3>2. PICK k \in {1, 2} : p.path \in Usable(desk, Wants(desk, k))
      BY <1>5, <2>9
    <3>3. \A q \in DefaultSources(desk)[k] : q.path # p.path
      BY <2>1, <3>1
    <3>4. PICK other \in Usable(desk, Wants(desk, k)) \ {p.path} : IsUnder(p.path, other)
      BY <3>2, <3>3, LeftOut
    <3>. QED
      BY <1>5, <3>4
  <2>10. \A q \in offered : q.path = p.path => q = p
    BY <1>2, <1>4, <1>10, ProposedOnce DEF mounts
  <2>. QED
    BY <2>5, <2>8, <2>9, <2>10
<1>. QED
  BY <1>8, <1>9, <1>10

\* What the Sources page announces is so: a preview counts the images the rule
\* hides once it is added (PreviewVM, Catalogue.preview_exclusion), and the
\* proposals are the folders a scan would search, each once, on or off for the
\* reason shown and with the volume that holds it (roots.py, mount_for,
\* SourcesVM._proposals), whatever was stored, restarted or plugged before.
THEOREM PagesAreTrue == Spec => []PageTells
<1>1. FlagInv => PageTells
  BY FlagsGivePreview, DesksTell DEF PageTells, FlagInv, IInv, FitRight
<1>. QED
  BY <1>1, FlagInvAlways, PTL

==============================================================================
