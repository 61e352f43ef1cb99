---------------------------- MODULE ContextMenus ----------------------------
\* The "Add to LinWallpaper" entry of the file manager's context menu
\* (linwallpaper/contextmenu), which the Settings page installs and removes with
\* a switch. Three of the file managers keep the entry in a file of its own.
\* Thunar keeps all its custom actions in one file, which the program reads,
\* changes and replaces, while Thunar writes it too.
EXTENDS Naturals, FiniteSets, FiniteSetsExt

CONSTANTS
    Own,    \* the custom actions that the user makes in Thunar
    Entry,  \* the program's own action (unique-id linwallpaper-add)
    None

VARIABLES
    provider,  \* the provider of the file manager in use, or None
    entryFile, \* the providers whose own file exists
    uca,       \* the actions of Thunar's uca.xml
    ucaBad,    \* uca.xml is not readable as XML
    switch,    \* the switch of the Settings page
    setting,   \* context_menu of settings.json, or None
    merging,   \* the change under way: the entry wanted, and the actions read
    own,       \* history: the actions the user has in Thunar
    crossed,   \* history: Thunar wrote while the program merged, or the file was bad
    undone     \* history: the entry came or went by Thunar, or with the file

Providers == <<"nemo", "nautilus", "thunar", "dolphin">>

Hints(p) ==
  CASE p = "nemo" -> {"cinnamon"} [] p = "nautilus" -> {"gnome", "unity", "budgie"}
    [] p = "thunar" -> {"xfce"}   [] p = "dolphin" -> {"kde", "plasma"}

\* An unreadable file holds no action.
Root(actions, bad) == IF bad THEN {} ELSE actions

IsInstalled(p) == IF p = "thunar" THEN Entry \in Root(uca, ucaBad) ELSE p \in entryFile

\* The confidence, in hundredths: the binary is there, the desktop is its own.
Detected(p, e) ==
  IF p \notin e.tools THEN 0 ELSE IF e.desktop \in Hints(p) THEN 90 ELSE 40

\* An entry already there speaks for its file manager.
Confidence(p, e) ==
  IF IsInstalled(p) THEN Max({Detected(p, e), 50}) + 10 ELSE Detected(p, e)

\* The first of the highest confidence; None where there is none.
DetectProvider(e) ==
  LET best == Max({Confidence(Providers[n], e) : n \in DOMAIN Providers})
  IN IF best = 0 THEN None
     ELSE Providers[Min({n \in DOMAIN Providers : Confidence(Providers[n], e) = best})]

MenusTypeOK ==
  /\ provider \in {Providers[n] : n \in DOMAIN Providers} \cup {None}
  /\ uca \subseteq Own \cup {Entry} /\ own \subseteq Own
  /\ switch \in BOOLEAN /\ setting \in BOOLEAN \cup {None}

MenusInit(e) ==
  /\ entryFile = {} /\ ucaBad = FALSE
  /\ uca = Own /\ own = Own
  /\ provider = DetectProvider(e)
  /\ switch = (provider # None /\ IsInstalled(provider))
  /\ setting = None /\ merging = None
  /\ crossed = FALSE /\ undone = FALSE

\* install or uninstall begins: the file is read.
Begin(wanted) ==
  merging' = [wanted |-> wanted, read |-> IF provider = "thunar" THEN Root(uca, ucaBad) ELSE {}]

\* The switch is moved; on a page built without a provider it does nothing.
Toggle ==
  /\ merging = None /\ provider # None
  /\ switch' = ~switch
  /\ Begin(switch')
  /\ crossed' = (crossed \/ (provider = "thunar" /\ ucaBad))
  /\ UNCHANGED <<provider, entryFile, uca, ucaBad, setting, own, undone>>

\* Mutant: the actions are not read, and the file holds the entry alone.
MergedAlone(read, wanted) == IF wanted THEN {Entry} ELSE {}

\* Thunar's actions with the entry, once and last, or without it.
Merged(read, wanted) == IF wanted THEN read \cup {Entry} ELSE read \ {Entry}

\* There is something to write: with nothing to remove, nothing is.
Writes == merging.wanted \/ IF provider = "thunar" THEN Entry \in merging.read ELSE provider \in entryFile

\* The file of the entry's own is written whole, or unlinked.
OwnFile(wanted) == IF wanted THEN entryFile \cup {provider} ELSE entryFile \ {provider}

\* The file is replaced; the other providers write or unlink their own.
MergeDone ==
  /\ merging # None
  /\ IF Writes /\ provider = "thunar"
     THEN uca' = Merged(merging.read, merging.wanted) /\ ucaBad' = FALSE
     ELSE UNCHANGED <<uca, ucaBad>>
  /\ entryFile' = IF provider = "thunar" THEN entryFile ELSE OwnFile(merging.wanted)
  /\ setting' = merging.wanted
  /\ undone' = (undone /\ ~Writes)
  /\ merging' = None
  /\ UNCHANGED <<provider, switch, own, crossed>>

\* Mutant: the switch stays where the user put it.
MergeFailsSilently ==
  /\ merging # None /\ Writes
  /\ merging' = None
  /\ UNCHANGED <<provider, entryFile, uca, ucaBad, switch, setting, own, crossed, undone>>

\* A write fails: the switch is set back to what is there. Where that moves it,
\* its handler runs again and does the opposite.
MergeFails ==
  /\ merging # None /\ Writes
  /\ switch' = IsInstalled(provider)
  /\ IF switch' = switch THEN merging' = None ELSE Begin(switch')
  /\ crossed' = (crossed \/ (merging' # None /\ provider = "thunar" /\ ucaBad))
  /\ UNCHANGED <<provider, entryFile, uca, ucaBad, setting, own, undone>>

\* External: Thunar, which read its actions when it started, writes them after
\* the user has changed one; the entry it knows of, or does not, may be that of
\* then.
ThunarWrites(x) ==
  /\ own' = IF x \in own THEN own \ {x} ELSE own \cup {x}
  /\ \E knows \in IF setting = None THEN {FALSE} ELSE BOOLEAN :
       /\ uca' = own' \cup (IF knows THEN {Entry} ELSE {})
       /\ undone' = (undone \/ (knows # IsInstalled("thunar")))
  /\ ucaBad' = FALSE
  /\ crossed' = (crossed \/ merging # None)
  /\ UNCHANGED <<provider, entryFile, switch, setting, merging>>

\* External: the file is spoilt by hand.
UcaSpoilt ==
  /\ ucaBad' = TRUE
  /\ crossed' = (crossed \/ merging # None)
  /\ undone' = TRUE
  /\ UNCHANGED <<provider, entryFile, uca, switch, setting, merging, own>>

\* The window starts: the provider is looked for, the switch shows what is there.
MenusStart(e) ==
  /\ provider' = DetectProvider(e)
  /\ switch' = (provider' # None /\ IsInstalled(provider'))
  /\ merging' = None /\ undone' = FALSE
  /\ UNCHANGED <<entryFile, uca, ucaBad, setting, own, crossed>>
=============================================================================
