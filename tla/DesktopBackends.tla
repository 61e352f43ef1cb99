---------------------------- MODULE DesktopBackends -------------------------
\* The desktop backends (linwallpaper/backends): what a desktop keeps of its
\* background, how an apply writes it, how the state before is read and put
\* back, and what each monitor then shows.
\*
\* A desktop's settings are a function from its keys to values. A backend call
\* is a sequence of subprocesses, each a small function of the keys it sets. A
\* picture is what one monitor shows: an image drawn at an option, a slice of an
\* image drawn over the whole layout, or nothing. Every monitor has scale 1.
EXTENDS Naturals, Sequences, FiniteSets, FiniteSetsExt

CONSTANTS
    Monitors,  \* the connectors, in the order the display lists them
    Matching,  \* for a connector, those whose Xfce properties contain its name
    Picture,   \* the images it may be given
    None

Monitor == {Monitors[i] : i \in DOMAIN Monitors}

\* The words for the whole desktop and for the other surfaces name no connector.
ASSUME MonitorsAssumption ==
  /\ Monitors \in Seq(Monitor)
  /\ Matching \in [Monitor -> Seq(Monitor)]
  /\ Monitor \cap {"all", "lock", "login", "splash", "grub"} = {}

\* A dict with one key set.
Put(f, key, v) == [k \in DOMAIN f \cup {key} |-> IF k = key THEN v ELSE f[k]]

Fit == {"fill", "fit", "center", "stretch"}

\* ------------------------------------------------------------ which backend
\* Evidence: the desktop's name, the tools on the path, the schemas installed.
\* The confidences are in hundredths (their sums stay below the caps of detect).
Points(holds, n) == IF holds THEN n ELSE 0
Has(e, tools) == tools \cap e.tools # {}

CinnamonScore(e) ==
  Points(e.desktop = "cinnamon", 60) + Points(Has(e, {"cinnamon", "cinnamon-session"}), 15)
  + Points("Cinnamon" \in e.schemas, 25)
MateScore(e) ==
  Points(e.desktop = "mate", 60) + Points(Has(e, {"mate-session"}), 15) + Points("MATE" \in e.schemas, 25)
GnomeScore(e) ==
  Points(e.desktop \in {"gnome", "budgie", "unity"}, 50) + Points(Has(e, {"gnome-shell"}), 10)
  + Points("GNOME" \in e.schemas, 15)
XfceScore(e) == Points(e.desktop = "xfce", 60) + Points(Has(e, {"xfconf-query"}), 35)
FehScore(e) == Points(~e.wayland /\ Has(e, {"feh"}), 20)

Score(name, e) ==
  CASE name = "Cinnamon" -> CinnamonScore(e) [] name = "MATE" -> MateScore(e)
    [] name = "GNOME" -> GnomeScore(e) [] name = "Xfce" -> XfceScore(e) [] name = "feh" -> FehScore(e)

\* The order of registration breaks ties.
Registry == <<"Cinnamon", "MATE", "GNOME", "Xfce", "feh">>

\* The first of the highest confidence; None when nothing scores.
DetectBackend(e) ==
  LET best == Max({Score(Registry[i], e) : i \in DOMAIN Registry})
  IN IF best = 0 THEN None
     ELSE Registry[Min({i \in DOMAIN Registry : Score(Registry[i], e) = best})]

ASSUME NoBackendAssumption == \A i \in DOMAIN Registry : Registry[i] # None

GSettings == {"Cinnamon", "MATE", "GNOME"}

\* ------------------------------------------------------------------- the keys
HasDark(b) == b = "GNOME"

Keys(b) ==
  CASE b \in GSettings -> {"uri", "options"} \cup (IF HasDark(b) THEN {"dark"} ELSE {})
    [] b = "Xfce"      -> {"image", "style"} \X Monitor
    [] b = "feh"       -> {"root", "fehbg"}
    [] b = None        -> {}

\* What the fit is called where the desktop draws the image.
OptionOf(fit) ==
  CASE fit = "fill" -> "zoom" [] fit = "fit" -> "scaled"
    [] fit = "center" -> "centered" [] fit = "stretch" -> "stretched"
Option == {OptionOf(f) : f \in Fit} \cup {"spanned"}

\* ----------------------------------------------------------------- the pictures
Drawn(image, option) == <<"drawn", image, option>>
Slice(image) == <<"slice", image>>
Padding == <<"padding">>

\* Mutant: one file per image and fit, whatever the monitor.
OneCompositePerImage(image, fit, target) == <<image, fit, Monitors[1]>>

\* A composite is named by what it was made for (its sha1); it holds one picture
\* per monitor, and a later one of the same name overwrites it.
CompositeName(image, fit, target) == <<image, fit, target>>
Composite == Picture \X Fit \X Monitor

\* The background drawn over the whole layout, as one monitor shows it.
Spanned(file, files, m) ==
  CASE file = None             -> Padding
    [] file \in Composite      -> files[file][m]
    [] OTHER                   -> Slice(file)

\* What a monitor shows of the settings s; the dark side is what it shows when
\* the desktop is in its dark style.
Shows(b, s, files, m) ==
  LET Of(file) == IF s.options = "spanned" THEN Spanned(file, files, m)
                  ELSE IF file \in Composite THEN Drawn(files[file], s.options)
                  ELSE Drawn(file, s.options)
  IN CASE b \in GSettings -> [light |-> Of(s.uri), dark |-> Of(IF HasDark(b) THEN s.dark ELSE s.uri)]
       [] b = "Xfce" -> Drawn(s[<<"image", m>>], s[<<"style", m>>])
       [] b = "feh" -> s.root
       [] b = None -> Padding

\* ------------------------------------------------------------------ reading
\* Mutant: the dark variant of the background is not read.
CurrentWithoutDark(b, s, unread) ==
  CASE b \in GSettings -> [k \in Keys(b) \ {"dark"} |-> s[k]]
    [] b = "Xfce" -> [k \in {"image"} \X Monitor |-> s[k]]
    [] b = "feh" -> IF s.fehbg = None THEN <<>> ELSE [fehbg |-> s.fehbg]
    [] b = None -> <<>>

\* The state an apply captures first. Xfce lists the images and not the styles,
\* and takes a property it cannot read (unread) as empty; feh has only the
\* script it last wrote.
Current(b, s, unread) ==
  CASE b \in GSettings -> s
    [] b = "Xfce" ->
         [k \in {"image"} \X Monitor |-> IF k[2] \in unread THEN None ELSE s[k]]
    [] b = "feh" -> IF s.fehbg = None THEN <<>> ELSE [fehbg |-> s.fehbg]
    [] b = None -> <<>>

\* What was captured is the picture shown: Xfce read every property, and the
\* script of feh is the one that drew the root.
Whole(b, s, unread) == IF b = "feh" THEN s.fehbg # None /\ s.root = s.fehbg ELSE unread = {}

\* The image the Screens page previews where nothing was chosen: the backends
\* without a uri have none.
CurrentImage(b, s) == IF b \in GSettings THEN s.uri ELSE None

\* ------------------------------------------------------------------ applying
\* One image on the whole desktop: a target that is all, the only monitor or no
\* monitor at all.
Plain(b, target) == target = "all" \/ Len(Monitors) <= 1 \/ target \notin Monitor

\* The canvas takes the current background over the whole layout, then the
\* target's region takes the image at its fit.
Canvas(s, files, image, fit, target) ==
  [m \in Monitor |-> IF m = target THEN Drawn(image, OptionOf(fit)) ELSE Spanned(s.uri, files, m)]

Rendered(b, s, files, image, fit, target) ==
  IF b \in GSettings /\ ~Plain(b, target)
  THEN Put(files, CompositeName(image, fit, target), Canvas(s, files, image, fit, target))
  ELSE files

GSettingsWrites(b, image, fit, target) ==
  LET store == IF Plain(b, target) THEN image ELSE CompositeName(image, fit, target)
      option == IF Plain(b, target) THEN OptionOf(fit) ELSE "spanned"
  IN IF HasDark(b) THEN <<[uri |-> store], [dark |-> store], [options |-> option]>>
     ELSE <<[uri |-> store], [options |-> option]>>

\* The properties that contain the target's name, or all of them when none does:
\* DP-1 takes those of DP-1-2 too.
Chosen(target) ==
  IF target \in Monitor /\ Matching[target] # <<>> THEN Matching[target] ELSE Monitors

XfceWrites(image, fit, target) ==
  [i \in 1 .. 2 * Len(Chosen(target)) |->
     LET m == Chosen(target)[(i + 1) \div 2]
     IN IF i % 2 = 1 THEN [k \in {<<"image", m>>} |-> image]
        ELSE [k \in {<<"style", m>>} |-> OptionOf(fit)]]

\* The subprocesses of an apply, in order; the first that fails ends it.
ApplyWrites(b, image, fit, target) ==
  CASE b \in GSettings -> GSettingsWrites(b, image, fit, target)
    [] b = "Xfce" -> XfceWrites(image, fit, target)
    [] b = "feh" -> LET drawn == Drawn(image, OptionOf(fit))
                    IN <<[root |-> drawn, fehbg |-> drawn]>>

\* ------------------------------------------------------------------ restoring
\* What running feh's saved script sets: it draws the picture and, unless it says
\* --no-fehbg, is written to its file anew.
ScriptSets == {{"root"}, {"root", "fehbg"}}

\* Every value captured is set again; Xfce skips the empty ones, and feh runs the
\* script it saved, which sets the keys of script.
RestoreWrites(b, previous, script) ==
  CASE b \in GSettings ->
         LET keys == IF "dark" \in DOMAIN previous THEN <<"uri", "options", "dark">>
                     ELSE <<"uri", "options">>
         IN [i \in DOMAIN keys |-> [k \in {keys[i]} |-> previous[k]]]
    [] b = "Xfce" ->
         [key \in {k \in DOMAIN previous : previous[k] # None} |-> [k \in {key} |-> previous[k]]]
    [] b = "feh" ->
         IF previous = <<>> THEN <<>> ELSE <<[k \in script |-> previous.fehbg]>>

\* How many of a call's subprocesses may have run when it ends: a failure stops
\* it, except that Xfce restores what it can.
Ends(b, writes, restoring) ==
  IF b = "Xfce" /\ restoring THEN SUBSET DOMAIN writes
  ELSE {1 .. n : n \in 0 .. Len(writes)}

\* The settings once the subprocesses of done have run.
After(s, writes, done) ==
  [k \in DOMAIN s |->
     IF \E i \in done : k \in DOMAIN writes[i]
     THEN LET i == CHOOSE i \in done : k \in DOMAIN writes[i] IN writes[i][k]
     ELSE s[k]]
=============================================================================
