------------------------ MODULE PrivilegedApplyProofs ------------------------
(***************************************************************************)
(* Proofs about PrivilegedApply, for any number of invocations at once,    *)
(* any images, any throbber frames and any number of faults: its types;    *)
(* that no original content is ever lost; that no invocation forgets the   *)
(* generator of its surface: when all have ended well, however they        *)
(* overlapped, the boot image and the boot menu are made from the files    *)
(* that are there; and, of an invocation that meets no other on its        *)
(* surface, that an answer of success is true and that an undo and a       *)
(* failed apply give back what there was.                                  *)
(***************************************************************************)
EXTENDS PrivilegedApply, FiniteSetTheorems, TLAPS

-----------------------------------------------------------------------------
\* Plans.

CommandNames == {"install", "select", "initramfs", "update-grub"}
UndoNames    == {"distro", "ours", "remove", "initramfs", "update-grub"}

\* Every plan writes files it may write.
LEMMA TargetFacts ==
  ASSUME NEW s \in Surfaces
  PROVE  /\ Targets[s] \in Seq(File)
         /\ \A i \in 1..Len(Targets[s]) : Targets[s][i] \in File
         /\ Range(Targets[s]) \subseteq File
<1>1. Frames \in Seq(Range(Frames))
  BY ApplyAssumption DEF Range
<1>2. Targets[s] \in Seq(File)
  <2>1. CASE s = "login"
    BY <2>1 DEF Targets, File, OwnFiles, Rendered, Ini
  <2>2. CASE s = "grub"
    BY <2>2 DEF Targets, File, OwnFiles, Rendered, Ini
  <2>3. CASE s = "splash"
    <3>1. Targets[s] = <<"descr", "script">> \o Frames \o <<"wall">>
      BY <2>3 DEF Targets
    <3>2. /\ <<"descr", "script">> \in Seq(File)
          /\ <<"wall">> \in Seq(File)
          /\ Range(Frames) \subseteq File
      BY DEF File, OwnFiles, Rendered, Ini
    <3>3. Frames \in Seq(File)
      BY <1>1, <3>2
    <3>4. QED
      BY <3>1, <3>2, <3>3
  <2>4. QED
    BY <2>1, <2>2, <2>3, ApplyAssumption
<1>3. QED
  BY <1>2 DEF Range

LEMMA CommandFacts ==
  ASSUME NEW s \in Surfaces, NEW i \in Nat \ {0}, i <= Len(Commands[s])
  PROVE  Commands[s][i] \in CommandNames
<1>1. CASE s = "login"
  BY <1>1 DEF Commands
<1>2. CASE s = "splash"
  <2>1. Commands[s] = <<"install", "select", "initramfs">>
    BY <1>2 DEF Commands
  <2>2. i \in 1..3
    BY <2>1
  <2>3. QED
    BY <2>1, <2>2 DEF CommandNames
<1>3. CASE s = "grub"
  <2>1. Commands[s] = <<"update-grub">>
    BY <1>3 DEF Commands
  <2>2. i = 1
    BY <2>1
  <2>3. QED
    BY <2>1, <2>2 DEF CommandNames
<1>4. QED
  BY <1>1, <1>2, <1>3, ApplyAssumption

LEMMA UndoCommandFacts ==
  ASSUME NEW j, j.surface \in Surfaces, j.prior \in Theme,
         NEW i \in Nat \ {0}, i <= Len(UndoCommands(j))
  PROVE  UndoCommands(j)[i] \in UndoNames
<1>1. CASE j.surface = "login"
  BY <1>1 DEF UndoCommands
<1>2. CASE j.surface = "grub"
  <2>1. UndoCommands(j) = <<"update-grub">>
    BY <1>2 DEF UndoCommands
  <2>2. i = 1
    BY <2>1
  <2>3. QED
    BY <2>1, <2>2 DEF UndoNames
<1>3. CASE j.surface = "splash"
  <2>1. CASE j.prior = "none"
    <3>1. UndoCommands(j) = <<"remove", "initramfs">>
      BY <1>3, <2>1 DEF UndoCommands
    <3>2. i \in 1..2
      BY <3>1
    <3>3. QED
      BY <3>1, <3>2 DEF UndoNames
  <2>2. CASE j.prior # "none"
    <3>1. UndoCommands(j) = <<j.prior, "remove", "initramfs">>
      BY <1>3, <2>2 DEF UndoCommands
    <3>2. i \in 1..3
      BY <3>1
    <3>3. j.prior \in {"distro", "ours"}
      BY <2>2 DEF Theme
    <3>4. QED
      BY <3>1, <3>2, <3>3 DEF UndoNames
  <2>3. QED
    BY <2>1, <2>2
<1>4. QED
  BY <1>1, <1>2, <1>3, ApplyAssumption

-----------------------------------------------------------------------------
\* The inductive invariant.

\* h has a plan, and every file it writes has a copy.
Backed(h) ==
  /\ job[h].surface \in Surfaces
  /\ job[h].image \in Image
  /\ \A i \in 1..Len(Target(h)) : saved[h][Target(h)[i]] \in Content

\* What a phase of p implies about the manifest it works from: none while the
\* copies are made, its own and whole before the first write, and the one of an
\* apply that copied all its files during a rollback.
PhaseOK(p) ==
  /\ pc[p] = "ready" => of[p] = p /\ manifest[p] = "none"
  /\ pc[p] = "copy" =>
       /\ of[p] = p
       /\ manifest[p] = "none"
       /\ job[p].image \in Image
       /\ \A i \in 1..Len(Target(p)) : i < at[p] => saved[p][Target(p)[i]] \in Content
  /\ pc[p] = "noting" => of[p] = p /\ manifest[p] = "torn"
  /\ pc[p] \in {"step", "staged", "filling"} => manifest[p] = "whole"
  /\ pc[p] \in {"undo", "putting"} => manifest[of[p]] = "whole"
  /\ manifest[p] # "none" => Backed(p)

Recorded(f) == \E h \in Helper : manifest[h] = "whole" /\ saved[h][f] = StartFiles[f]

\* A file nobody has recorded was never written, and every copy of it is good.
Untouched(f) == /\ files[f] = StartFiles[f]
                /\ \A h \in Helper : saved[h][f] \in {"uncopied", StartFiles[f]}

IInv == /\ TypeOK
        /\ \A p \in Helper : PhaseOK(p)
        /\ \A f \in File : Recorded(f) \/ Untouched(f)

-----------------------------------------------------------------------------
\* Steps that leave the files, or the backups, alone.

\* A write by p is covered: what it writes to was copied into a whole manifest.
LEMMA WriteCovered ==
  ASSUME IInv, NEW q \in Helper, manifest[q] = "whole",
         NEW i \in 1..Len(Target(q)), UNCHANGED <<saved, manifest>>,
         NEW c, files' = [files EXCEPT ![Target(q)[i]] = c]
  PROVE  \A f \in File : (Recorded(f) \/ Untouched(f))'
<1> DEFINE g == Target(q)[i]
<1>1. saved[q][g] \in Content /\ job[q].surface \in Surfaces
  BY DEF IInv, PhaseOK, Backed
<1>2. g \in File
  BY <1>1, TargetFacts DEF Target
<1>3. Recorded(g)
  <2>1. saved[q][g] # "uncopied"
    BY <1>1, ApplyAssumption DEF Content
  <2>2. QED
    BY <2>1, <1>2 DEF IInv, Untouched, Recorded
<1>4. TAKE f \in File
<1>5. CASE Recorded(f)
  BY <1>5 DEF Recorded
<1>6. CASE ~Recorded(f)
  <2>1. f # g
    BY <1>3, <1>6
  <2>2. files'[f] = files[f]
    BY <2>1, <1>2 DEF IInv, TypeOK
  <2>3. QED
    BY <1>6, <2>2 DEF IInv, Untouched
<1>7. QED
  BY <1>5, <1>6

LEMMA FilesAlone ==
  ASSUME IInv, UNCHANGED <<files, saved, manifest>>
  PROVE  \A f \in File : (Recorded(f) \/ Untouched(f))'
BY DEF IInv, Recorded, Untouched

\* A step of p alone that leaves the backups and plans alone: what remains of
\* PhaseOK is p's phase.
LEMMA OthersPhase ==
  ASSUME IInv, NEW p \in Helper, NEW s, NEW n,
         UNCHANGED <<job, of, saved, manifest>>,
         pc' = [pc EXCEPT ![p] = s], at' = [at EXCEPT ![p] = n],
         s \notin {"ready", "copy", "noting"},
         s \in {"step", "staged", "filling"} => manifest[p] = "whole",
         s \in {"undo", "putting"} => manifest[of[p]] = "whole"
  PROVE  \A q \in Helper : PhaseOK(q)'
<1> TAKE q \in Helper
<1>1. pc \in [Helper -> Phase] /\ at \in [Helper -> Nat \ {0}] /\ PhaseOK(q)
  BY DEF IInv, TypeOK
<1>2. Backed(q)' <=> Backed(q)
  BY DEF Backed, Target
<1>3. CASE q = p
  <2>1. pc'[q] = s
    BY <1>1, <1>3
  <2>2. QED
    BY <1>1, <1>2, <1>3, <2>1 DEF PhaseOK
<1>4. CASE q # p
  <2>1. pc'[q] = pc[q] /\ at'[q] = at[q]
    BY <1>1, <1>4
  <2>2. QED
    BY <1>1, <1>2, <2>1 DEF PhaseOK, Target
<1>5. QED
  BY <1>3, <1>4

-----------------------------------------------------------------------------
\* Types.

\* TypeOK without the system's part and without the history.
BookTypes ==
  /\ pc \in [Helper -> Phase]
  /\ at \in [Helper -> Nat \ {0}]
  /\ job \in [Helper -> [surface : Surfaces \cup {"none"}, image : Image \cup {"none"},
                        prior : Theme]]
  /\ of \in [Helper -> Helper]
  /\ stamp \in [Helper -> Nat]
  /\ saved \in [Helper -> [File -> Content \cup {"uncopied"}]]
  /\ manifest \in [Helper -> {"none", "torn", "whole"}]
  /\ outcome \in [Helper -> {"none", "ok", "failed", "raised", "killed"}]

SystemTypes ==
  /\ files \in [File -> Content]
  /\ tmp \in [File -> Content]
  /\ theme \in [link : Theme, offered : BOOLEAN]
  /\ boot \in [link : Theme, files : [SplashFiles -> Content]]
  /\ menu \in [{"img", "dropin"} -> Content]

HistoryTypes ==
  /\ \A p \in Helper :
       was[p] = Forgotten \/ \E s \in Surfaces :
         was[p] \in [files : [Range(Targets[s]) -> Content], link : Theme]
  /\ mixed \subseteq Helper
  /\ slipped \subseteq Helper
  /\ faults \in 0..MaxFaults

\* Where a running invocation may be.
Place(p) ==
  /\ Running(p) => job[of[p]].surface \in Surfaces
  /\ pc[p] \in {"step", "staged", "filling"} => of[p] = p
  /\ pc[p] \in {"staged", "filling"} => at[p] <= Len(Target(p))
  /\ pc[p] = "putting" => at[p] <= Len(Entries(p))

LEMMA TypeParts ==
  TypeOK <=> SystemTypes /\ BookTypes /\ HistoryTypes /\ \A p \in Helper : Place(p)
BY DEF TypeOK, SystemTypes, BookTypes, HistoryTypes, Place

\* The generated files take what they are made from.
LEMMA SourceTypes ==
  ASSUME SystemTypes
  PROVE  /\ BootSources \in [link : Theme, files : [SplashFiles -> Content]]
         /\ MenuSources \in [{"img", "dropin"} -> Content]
<1>1. SplashFiles \subseteq File /\ {"img", "dropin"} \subseteq File
  BY DEF SplashFiles, File, OwnFiles, Rendered, Ini
<1>2. QED
  BY <1>1 DEF BootSources, MenuSources, SystemTypes

\* A command keeps the types of the system.
LEMMA EffectTypes ==
  ASSUME SystemTypes, NEW c \in CommandNames \cup UndoNames, Effect(c)
  PROVE  SystemTypes'
<1>1. theme' \in [link : Theme, offered : BOOLEAN]
  <2>1. theme.link \in Theme /\ StartTheme \in Theme /\ theme \in [link : Theme, offered : BOOLEAN]
    BY ApplyAssumption DEF SystemTypes, Theme
  <2>2. CASE c = "install"
    <3>1. \E l \in {theme.link, "ours"} \ {"none"} : theme' = [link |-> l, offered |-> TRUE]
      BY <2>2 DEF Effect
    <3>2. QED
      BY <2>1, <3>1 DEF Theme
  <2>3. CASE c \in {"select", "ours"}
    BY <2>1, <2>3 DEF Effect, Theme
  <2>4. CASE c = "distro"
    BY <2>1, <2>4 DEF Effect, Theme
  <2>5. CASE c = "remove"
    <3>1. theme' = [link |-> IF theme.link = "ours" THEN StartTheme ELSE theme.link,
                    offered |-> FALSE]
      BY <2>5 DEF Effect
    <3>2. QED
      BY <2>1, <3>1
  <2>6. CASE c \in {"initramfs", "update-grub"}
    BY <2>1, <2>6 DEF Effect
  <2>7. QED
    BY <2>2, <2>3, <2>4, <2>5, <2>6 DEF CommandNames, UndoNames
<1>2. boot' \in {boot, BootSources} /\ menu' \in {menu, MenuSources}
  BY DEF Effect, CommandNames, UndoNames
<1>3. QED
  BY <1>1, <1>2, SourceTypes DEF SystemTypes, Effect

LEMMA NoEffectTypes ==
  ASSUME SystemTypes, NEW c, NoEffect(c)
  PROVE  SystemTypes'
<1>1. boot' \in {boot, BootSources} /\ menu' \in {menu, MenuSources}
  BY DEF NoEffect
<1>2. QED
  BY <1>1, SourceTypes DEF SystemTypes, NoEffect

\* A step of p that leaves the plans and the backups alone keeps the book.
LEMMA MoveTypes ==
  ASSUME IInv, NEW p \in Helper, NEW s \in Phase, NEW n \in Nat \ {0},
         UNCHANGED <<job, of, stamp, saved, manifest>>,
         pc' = [pc EXCEPT ![p] = s], at' = [at EXCEPT ![p] = n],
         UNCHANGED outcome \/ \E how \in {"ok", "failed", "raised", "killed"} :
                                outcome' = [outcome EXCEPT ![p] = how],
         Running(p),
         s \in {"step", "staged", "filling"} => of[p] = p,
         s \in {"staged", "filling"} => n <= Len(Target(p)),
         s = "putting" => n <= Len(Entries(p)),
         s # "ready"
  PROVE  BookTypes' /\ \A q \in Helper : Place(q)'
<1>1. BookTypes /\ \A q \in Helper : Place(q)
  BY TypeParts DEF IInv
<1>2. BookTypes'
  <2>1. pc' \in [Helper -> Phase] /\ at' \in [Helper -> Nat \ {0}]
    BY <1>1 DEF BookTypes
  <2>2. outcome' \in [Helper -> {"none", "ok", "failed", "raised", "killed"}]
    <3>1. CASE UNCHANGED outcome
      BY <1>1, <3>1 DEF BookTypes
    <3>2. CASE \E how \in {"ok", "failed", "raised", "killed"} :
                 outcome' = [outcome EXCEPT ![p] = how]
      BY <1>1, <3>2 DEF BookTypes
    <3>3. QED
      BY <3>1, <3>2
  <2>3. QED
    BY <1>1, <2>1, <2>2 DEF BookTypes
<1>3. ASSUME NEW q \in Helper
      PROVE  Place(q)'
  <2>1. Place(q) /\ of[q] \in Helper
    BY <1>1 DEF BookTypes
  <2>2. CASE q = p
    <3>1. pc'[q] = s /\ at'[q] = n
      BY <1>1, <2>2 DEF BookTypes
    <3>2. job'[of'[q]].surface \in Surfaces
      BY <2>1, <2>2 DEF Place
    <3>3. QED
      BY <2>2, <3>1, <3>2 DEF Place, Target, Entries
  <2>3. CASE q # p
    <3>1. pc'[q] = pc[q] /\ at'[q] = at[q]
      BY <1>1, <2>3 DEF BookTypes
    <3>2. QED
      BY <2>1, <3>1 DEF Place, Running, Target, Entries
  <2>4. QED
    BY <2>2, <2>3
<1>4. QED
  BY <1>2, <1>3

\* What keeps the invariant in a step of p that leaves plans and backups alone.
LEMMA MoveKeeps ==
  ASSUME IInv, NEW p \in Helper, NEW s \in Phase \ {"ready", "copy", "noting"},
         NEW n \in Nat \ {0},
         UNCHANGED <<job, of, stamp, saved, manifest>>,
         pc' = [pc EXCEPT ![p] = s], at' = [at EXCEPT ![p] = n],
         UNCHANGED outcome \/ \E how \in {"ok", "failed", "raised", "killed"} :
                                outcome' = [outcome EXCEPT ![p] = how],
         Running(p),
         s \in {"step", "staged", "filling"} => of[p] = p /\ manifest[p] = "whole",
         s \in {"staged", "filling"} => n <= Len(Target(p)),
         s \in {"undo", "putting"} => manifest[of[p]] = "whole",
         s = "putting" => n <= Len(Entries(p)),
         SystemTypes', HistoryTypes',
         \A f \in File : (Recorded(f) \/ Untouched(f))'
  PROVE  IInv'
<1>1. \A q \in Helper : PhaseOK(q)'
  BY OthersPhase
<1>2. BookTypes' /\ \A q \in Helper : Place(q)'
  BY MoveTypes
<1>3. TypeOK'
  BY <1>2 DEF TypeOK, SystemTypes, BookTypes, HistoryTypes, Place
<1>4. QED
  BY <1>1, <1>3 DEF IInv

\* What a running invocation may rely on.
LEMMA RunningFacts ==
  ASSUME IInv, NEW p \in Helper
  PROVE  /\ pc[p] \in Phase /\ at[p] \in Nat \ {0} /\ at = [at EXCEPT ![p] = at[p]]
         /\ at[p] + 1 \in Nat \ {0}
         /\ of[p] \in Helper
         /\ Running(p) => job[of[p]].surface \in Surfaces /\ job[of[p]].prior \in Theme
         /\ pc[p] \in {"copy", "noting", "step", "staged", "filling"} => of[p] = p
         /\ pc[p] \in {"step", "staged", "filling"} => manifest[p] = "whole"
         /\ pc[p] \in {"undo", "putting"} => manifest[of[p]] = "whole"
         /\ pc[p] \in {"staged", "filling"} => at[p] \in 1..Len(Target(p))
         /\ pc[p] = "putting" => at[p] \in 1..Len(Entries(p))
         /\ Writing(p) => at[p] \in 1..Len(Target(p))
         /\ Restoring(p) => at[p] \in 1..Len(Entries(p))
         /\ Running(p) => Len(Entries(p)) \in Nat
         /\ pc[p] \in {"step", "staged", "filling"} => job[p].image \in Image
<1>1. BookTypes /\ Place(p) /\ PhaseOK(p)
  BY TypeParts DEF IInv
<1>2. at[p] \in Nat \ {0} /\ at = [at EXCEPT ![p] = at[p]] /\ pc[p] \in Phase /\ of[p] \in Helper
  BY <1>1 DEF BookTypes
<1>3. at[p] + 1 \in Nat \ {0}
  BY <1>2
<1>4. job[of[p]].prior \in Theme
  BY <1>1, <1>2 DEF BookTypes
<1>5. pc[p] \in {"copy", "noting", "step", "staged", "filling"} => of[p] = p
  BY <1>1 DEF PhaseOK, Place
<1>6. Running(p) => job[of[p]].surface \in Surfaces /\ Len(Entries(p)) \in Nat
  <2>1. SUFFICES ASSUME Running(p) PROVE job[of[p]].surface \in Surfaces /\ Len(Entries(p)) \in Nat
    OBVIOUS
  <2>2. job[of[p]].surface \in Surfaces
    BY <1>1, <2>1 DEF Place
  <2>3. QED
    BY <2>2, TargetFacts DEF Entries, Target
<1>7. pc[p] \in {"step", "staged", "filling"} => Len(Target(p)) \in Nat
  BY <1>5, <1>6 DEF Running, Entries
<1>8. pc[p] \in {"staged", "filling"} => at[p] \in 1..Len(Target(p))
  BY <1>1, <1>2, <1>7 DEF Place
<1>9. pc[p] = "putting" => at[p] \in 1..Len(Entries(p))
  BY <1>1, <1>2, <1>6 DEF Place, Running
<1>10. Writing(p) => at[p] \in 1..Len(Target(p))
  BY <1>2, <1>7 DEF Writing
<1>11. Restoring(p) => at[p] \in 1..Len(Entries(p))
  BY <1>2, <1>6 DEF Restoring, Running
<1>12. pc[p] \in {"step", "staged", "filling"} => job[p].image \in Image
  BY <1>1 DEF PhaseOK, Backed
<1>13. QED
  BY <1>12, <1>1, <1>2, <1>3, <1>4, <1>5, <1>6, <1>8, <1>9, <1>10, <1>11 DEF PhaseOK

LEMMA HistoryKept ==
  ASSUME HistoryTypes, UNCHANGED <<was, mixed>>, NEW p \in Helper,
         UNCHANGED slipped \/ slipped' = slipped \cup {p},
         UNCHANGED faults \/ \E k : Fault(k)
  PROVE  HistoryTypes'
<1>1. faults' \in 0..MaxFaults
  BY ApplyAssumption DEF HistoryTypes, Fault
<1>2. QED
  BY <1>1 DEF HistoryTypes

\* The helper ends: any number of reasons.
LEMMA EndStep ==
  ASSUME IInv, NEW p \in Helper, Running(p),
         UNCHANGED <<files, tmp, theme, boot, menu, stamp, saved, manifest, job, of>>,
         NEW how \in {"ok", "failed", "raised", "killed"}, End(p, how),
         UNCHANGED <<was, mixed, slipped>>, UNCHANGED faults \/ \E k : Fault(k)
  PROVE  IInv'
<1>1. pc' = [pc EXCEPT ![p] = "ended"] /\ at' = [at EXCEPT ![p] = 1]
  BY DEF End, Enter
<1>2. outcome' = [outcome EXCEPT ![p] = how]
  BY DEF End
<1>3. SystemTypes' /\ HistoryTypes'
  BY TypeParts, HistoryKept DEF IInv, SystemTypes
<1>4. \A f \in File : (Recorded(f) \/ Untouched(f))'
  BY FilesAlone
<1>5. QED
  <2>1. "ended" \in Phase \ {"ready", "copy", "noting"} /\ 1 \in Nat \ {0}
    BY DEF Phase
  <2>2. QED
    BY <1>1, <1>2, <1>3, <1>4, <2>1, MoveKeeps

-----------------------------------------------------------------------------
\* The steps that end an invocation.

LEMMA EndSteps ==
  ASSUME IInv, NEW p \in Helper,
         BackupRaises(p) \/ WriteRaises(p) \/ Applied(p) \/ RolledBack(p) \/ Kill(p)
  PROVE  IInv'
<1>1. CASE BackupRaises(p)
  <2>1. Running(p)
    BY <1>1 DEF BackupRaises, Running
  <2>2. QED
    BY <1>1, <2>1, EndStep DEF BackupRaises, system, backups
<1>2. CASE WriteRaises(p)
  <2>1. Running(p)
    BY <1>2 DEF WriteRaises, Writing, Running
  <2>2. QED
    BY <1>2, <2>1, EndStep DEF WriteRaises, system, backups
<1>3. CASE Applied(p)
  <2>1. Running(p)
    BY <1>3 DEF Applied, Running
  <2>2. QED
    BY <1>3, <2>1, EndStep DEF Applied, system, backups, history
<1>4. CASE RolledBack(p)
  <2>1. Running(p)
    BY <1>4 DEF RolledBack, Running
  <2>2. PICK how \in {"failed", "ok"} : End(p, how)
    BY <1>4 DEF RolledBack
  <2>3. QED
    BY <1>4, <2>1, <2>2, EndStep DEF RolledBack, system, backups, history
<1>5. CASE Kill(p)
  BY <1>5, EndStep DEF Kill, system, backups
<1>6. QED
  BY <1>1, <1>2, <1>3, <1>4, <1>5

-----------------------------------------------------------------------------
\* The writes.

LEMMA WriteSteps ==
  ASSUME IInv, NEW p \in Helper,
         SkipWrite(p) \/ Stage(p) \/ Replace(p) \/ OpenFrame(p) \/ FillFrame(p) \/ WriteFails(p)
  PROVE  IInv'
<1>1. pc[p] \in {"step", "staged", "filling"}
  BY DEF SkipWrite, Stage, Replace, OpenFrame, FillFrame, WriteFails, Writing
<1>2. /\ Running(p) /\ of[p] = p /\ manifest[p] = "whole"
      /\ at[p] \in 1..Len(Target(p)) /\ at[p] \in Nat \ {0} /\ at[p] + 1 \in Nat \ {0}
      /\ at = [at EXCEPT ![p] = at[p]] /\ at[p] <= Len(Target(p))
  BY <1>1, RunningFacts
  DEF Running, SkipWrite, Stage, Replace, OpenFrame, FillFrame, WriteFails, Writing
<1>3. SystemTypes /\ HistoryTypes /\ BookTypes
  BY TypeParts DEF IInv
<1>4. NextFile(p) \in File
  <2>1. job[p].surface \in Surfaces
    BY <1>2, RunningFacts
  <2>2. QED
    BY <1>2, <2>1, TargetFacts DEF NextFile, Target
<1>5. {"step", "staged", "filling", "undo"} \subseteq Phase \ {"ready", "copy", "noting"}
      /\ 1 \in Nat \ {0}
  BY DEF Phase
<1>6. CASE SkipWrite(p)
  <2>1. UNCHANGED <<files, tmp, theme, boot, menu, stamp, saved, manifest, job, of,
                    outcome, was, mixed, slipped, faults>>
    BY <1>6 DEF SkipWrite, system, backups, history
  <2>2. pc' = [pc EXCEPT ![p] = "step"] /\ at' = [at EXCEPT ![p] = at[p] + 1]
    BY <1>6 DEF SkipWrite, Advance
  <2>3. SystemTypes' /\ HistoryTypes'
    BY <1>3, <2>1, HistoryKept DEF SystemTypes
  <2>4. \A f \in File : (Recorded(f) \/ Untouched(f))'
    BY <2>1, FilesAlone
  <2>5. QED
    BY <1>2, <1>5, <2>1, <2>2, <2>3, <2>4, MoveKeeps
<1>7. CASE Stage(p)
  <2>1. UNCHANGED <<files, theme, boot, menu, stamp, saved, manifest, job, of, at,
                    outcome, was, mixed, slipped, faults>>
    BY <1>7 DEF Stage, backups, history
  <2>2. pc' = [pc EXCEPT ![p] = "staged"] /\ at' = [at EXCEPT ![p] = at[p]]
    BY <1>2, <1>7 DEF Stage
  <2>3. SystemTypes' /\ HistoryTypes'
    <3>1. tmp' = [tmp EXCEPT ![NextFile(p)] = Produced(p, NextFile(p))]
      BY <1>7 DEF Stage
    <3>2. Produced(p, NextFile(p)) \in Content
      BY <1>1, RunningFacts DEF Produced, Content
    <3>3. QED
      BY <1>3, <2>1, <3>1, <3>2, HistoryKept DEF SystemTypes
  <2>4. \A f \in File : (Recorded(f) \/ Untouched(f))'
    BY <2>1, FilesAlone
  <2>5. QED
    BY <1>2, <1>5, <2>1, <2>2, <2>3, <2>4, MoveKeeps
<1>8. CASE Replace(p)
  <2>1. UNCHANGED <<theme, boot, menu, stamp, saved, manifest, job, of,
                    outcome, was, mixed, slipped, faults>>
    BY <1>8 DEF Replace, backups, history
  <2>2. pc' = [pc EXCEPT ![p] = "step"] /\ at' = [at EXCEPT ![p] = at[p] + 1]
    BY <1>8 DEF Replace, Advance
  <2>3. files' = [files EXCEPT ![NextFile(p)] = tmp[NextFile(p)]]
        /\ tmp' = [tmp EXCEPT ![NextFile(p)] = "absent"]
    BY <1>8 DEF Replace
  <2>4. SystemTypes' /\ HistoryTypes'
    BY <1>3, <1>4, <2>1, <2>3, HistoryKept DEF SystemTypes, Content
  <2>5. \A f \in File : (Recorded(f) \/ Untouched(f))'
    BY <1>2, <2>1, <2>3, WriteCovered DEF NextFile
  <2>6. QED
    BY <1>2, <1>5, <2>1, <2>2, <2>4, <2>5, MoveKeeps
<1>9. CASE OpenFrame(p)
  <2>1. UNCHANGED <<tmp, theme, boot, menu, stamp, saved, manifest, job, of, at,
                    outcome, was, mixed, slipped, faults>>
    BY <1>9 DEF OpenFrame, backups, history
  <2>2. pc' = [pc EXCEPT ![p] = "filling"] /\ at' = [at EXCEPT ![p] = at[p]]
    BY <1>2, <1>9 DEF OpenFrame
  <2>3. files' = [files EXCEPT ![NextFile(p)] = "torn"]
    BY <1>9 DEF OpenFrame
  <2>4. SystemTypes' /\ HistoryTypes'
    BY <1>3, <1>4, <2>1, <2>3, HistoryKept DEF SystemTypes, Content
  <2>5. \A f \in File : (Recorded(f) \/ Untouched(f))'
    BY <1>2, <2>1, <2>3, WriteCovered DEF NextFile
  <2>6. QED
    BY <1>2, <1>5, <2>1, <2>2, <2>4, <2>5, MoveKeeps
<1>10. CASE FillFrame(p)
  <2>1. UNCHANGED <<tmp, theme, boot, menu, stamp, saved, manifest, job, of,
                    outcome, was, mixed, slipped, faults>>
    BY <1>10 DEF FillFrame, backups, history
  <2>2. pc' = [pc EXCEPT ![p] = "step"] /\ at' = [at EXCEPT ![p] = at[p] + 1]
    BY <1>10 DEF FillFrame, Advance
  <2>3. files' = [files EXCEPT ![NextFile(p)] = "ours"]
    BY <1>10 DEF FillFrame
  <2>4. SystemTypes' /\ HistoryTypes'
    BY <1>3, <1>4, <2>1, <2>3, HistoryKept DEF SystemTypes, Content
  <2>5. \A f \in File : (Recorded(f) \/ Untouched(f))'
    BY <1>2, <2>1, <2>3, WriteCovered DEF NextFile
  <2>6. QED
    BY <1>2, <1>5, <2>1, <2>2, <2>4, <2>5, MoveKeeps
<1>11. CASE WriteFails(p)
  <2>1. UNCHANGED <<files, tmp, theme, boot, menu, stamp, saved, manifest, job, of,
                    outcome, was, mixed, slipped>>
    BY <1>11 DEF WriteFails, system, backups
  <2>2. pc' = [pc EXCEPT ![p] = "undo"] /\ at' = [at EXCEPT ![p] = 1]
    BY <1>11 DEF WriteFails, Enter
  <2>3. SystemTypes' /\ HistoryTypes'
    <3>1. UNCHANGED faults \/ \E k : Fault(k)
      BY <1>11 DEF WriteFails
    <3>2. QED
      BY <1>3, <2>1, <3>1, HistoryKept DEF SystemTypes
  <2>4. \A f \in File : (Recorded(f) \/ Untouched(f))'
    BY <2>1, FilesAlone
  <2>5. QED
    BY <1>2, <1>5, <2>1, <2>2, <2>3, <2>4, MoveKeeps
<1>12. QED
  BY <1>6, <1>7, <1>8, <1>9, <1>10, <1>11

-----------------------------------------------------------------------------
\* The commands.

LEMMA CommandSteps ==
  ASSUME IInv, NEW p \in Helper, RunCommand(p) \/ CommandFails(p)
  PROVE  IInv'
<1>1. AtCommand(p)
  BY DEF RunCommand, CommandFails
<1>2. /\ Running(p) /\ of[p] = p /\ manifest[p] = "whole" /\ at[p] + 1 \in Nat \ {0}
      /\ job[p].surface \in Surfaces
  BY <1>1, RunningFacts DEF AtCommand, Running
<1>3. NextCommand(p) \in CommandNames
  <2>1. Len(Target(p)) \in Nat /\ at[p] \in Nat \ {0}
    BY <1>2, RunningFacts DEF Entries
  <2>2. at[p] - Len(Target(p)) \in Nat \ {0}
    BY <1>1, <2>1 DEF AtCommand
  <2>3. QED
    BY <1>1, <1>2, <2>2, CommandFacts DEF NextCommand, AtCommand
<1>4. SystemTypes /\ HistoryTypes
  BY TypeParts DEF IInv
<1>5. {"step", "undo"} \subseteq Phase \ {"ready", "copy", "noting"} /\ 1 \in Nat \ {0}
  BY DEF Phase
<1>6. CASE RunCommand(p)
  <2>1. UNCHANGED <<files, stamp, saved, manifest, job, of, outcome, was, mixed, slipped, faults>>
    BY <1>6 DEF RunCommand, Effect, backups, history
  <2>2. pc' = [pc EXCEPT ![p] = "step"] /\ at' = [at EXCEPT ![p] = at[p] + 1]
    BY <1>6 DEF RunCommand, Advance
  <2>3. SystemTypes' /\ HistoryTypes'
    BY <1>3, <1>4, <1>6, <2>1, EffectTypes, HistoryKept DEF RunCommand
  <2>4. \A f \in File : (Recorded(f) \/ Untouched(f))'
    BY <2>1, FilesAlone
  <2>5. QED
    BY <1>2, <1>5, <2>1, <2>2, <2>3, <2>4, MoveKeeps
<1>7. CASE CommandFails(p)
  <2>1. UNCHANGED <<files, stamp, saved, manifest, job, of, outcome, was, mixed, slipped>>
    BY <1>7 DEF CommandFails, NoEffect, backups
  <2>2. pc' = [pc EXCEPT ![p] = "undo"] /\ at' = [at EXCEPT ![p] = 1]
    BY <1>7 DEF CommandFails, Enter
  <2>3. UNCHANGED faults \/ \E k : Fault(k)
    BY <1>7 DEF CommandFails, Fails
  <2>4. SystemTypes' /\ HistoryTypes'
    BY <1>4, <1>7, <2>1, <2>3, NoEffectTypes, HistoryKept DEF CommandFails
  <2>5. \A f \in File : (Recorded(f) \/ Untouched(f))'
    BY <2>1, FilesAlone
  <2>6. QED
    BY <1>2, <1>5, <2>1, <2>2, <2>4, <2>5, MoveKeeps
<1>8. QED
  BY <1>6, <1>7

-----------------------------------------------------------------------------
\* The rollback.

LEMMA RestoreSteps ==
  ASSUME IInv, NEW p \in Helper,
         Unlink(p) \/ OpenRestored(p) \/ FillRestored(p) \/ RestoreFails(p)
  PROVE  IInv'
<1>1. pc[p] \in {"undo", "putting"}
  BY DEF Unlink, OpenRestored, FillRestored, RestoreFails, Restoring
<1>2. /\ Running(p) /\ of[p] \in Helper /\ manifest[of[p]] = "whole"
      /\ at[p] \in 1..Len(Entries(p)) /\ at[p] <= Len(Entries(p))
      /\ at[p] \in Nat \ {0} /\ at[p] + 1 \in Nat \ {0}
      /\ at = [at EXCEPT ![p] = at[p]]
  BY <1>1, RunningFacts
  DEF Running, Unlink, OpenRestored, FillRestored, RestoreFails
<1>3. SystemTypes /\ HistoryTypes
  BY TypeParts DEF IInv
<1>4. Entry(p) \in File /\ Copy(p) \in Content
  <2>1. Backed(of[p])
    BY <1>2 DEF IInv, PhaseOK
  <2>2. QED
    BY <1>2, <2>1, TargetFacts DEF Entry, Entries, Copy, Target, Backed
<1>5. {"undo", "putting"} \subseteq Phase \ {"ready", "copy", "noting"}
  BY DEF Phase
<1>6. CASE Unlink(p)
  <2>1. UNCHANGED <<tmp, theme, boot, menu, stamp, saved, manifest, job, of,
                    outcome, was, mixed, slipped, faults>>
    BY <1>6 DEF Unlink, backups, history
  <2>2. pc' = [pc EXCEPT ![p] = "undo"] /\ at' = [at EXCEPT ![p] = at[p] + 1]
    BY <1>6 DEF Unlink, Advance
  <2>3. files' = [files EXCEPT ![Entry(p)] = "absent"]
    BY <1>6 DEF Unlink
  <2>4. SystemTypes' /\ HistoryTypes'
    BY <1>3, <1>4, <2>1, <2>3, HistoryKept DEF SystemTypes, Content
  <2>5. \A f \in File : (Recorded(f) \/ Untouched(f))'
    BY <1>2, <2>1, <2>3, WriteCovered DEF Entry, Entries
  <2>6. QED
    BY <1>2, <1>5, <2>1, <2>2, <2>4, <2>5, MoveKeeps
<1>7. CASE OpenRestored(p)
  <2>1. UNCHANGED <<tmp, theme, boot, menu, stamp, saved, manifest, job, of,
                    outcome, was, mixed, slipped, faults>>
    BY <1>7 DEF OpenRestored, backups, history
  <2>2. pc' = [pc EXCEPT ![p] = "putting"] /\ at' = [at EXCEPT ![p] = at[p]]
    BY <1>2, <1>7 DEF OpenRestored
  <2>3. files' = [files EXCEPT ![Entry(p)] = "torn"]
    BY <1>7 DEF OpenRestored
  <2>4. SystemTypes' /\ HistoryTypes'
    BY <1>3, <1>4, <2>1, <2>3, HistoryKept DEF SystemTypes, Content
  <2>5. \A f \in File : (Recorded(f) \/ Untouched(f))'
    BY <1>2, <2>1, <2>3, WriteCovered DEF Entry, Entries
  <2>6. QED
    BY <1>2, <1>5, <2>1, <2>2, <2>4, <2>5, MoveKeeps
<1>8. CASE FillRestored(p)
  <2>1. UNCHANGED <<tmp, theme, boot, menu, stamp, saved, manifest, job, of,
                    outcome, was, mixed, slipped, faults>>
    BY <1>8 DEF FillRestored, backups, history
  <2>2. pc' = [pc EXCEPT ![p] = "undo"] /\ at' = [at EXCEPT ![p] = at[p] + 1]
    BY <1>8 DEF FillRestored, Advance
  <2>3. files' = [files EXCEPT ![Entry(p)] = Copy(p)]
    BY <1>8 DEF FillRestored
  <2>4. SystemTypes' /\ HistoryTypes'
    BY <1>3, <1>4, <2>1, <2>3, HistoryKept DEF SystemTypes
  <2>5. \A f \in File : (Recorded(f) \/ Untouched(f))'
    BY <1>2, <2>1, <2>3, WriteCovered DEF Entry, Entries
  <2>6. QED
    BY <1>2, <1>5, <2>1, <2>2, <2>4, <2>5, MoveKeeps
<1>9. CASE RestoreFails(p)
  <2>1. UNCHANGED <<files, tmp, theme, boot, menu, stamp, saved, manifest, job, of,
                    outcome, was, mixed>>
    BY <1>9 DEF RestoreFails, system, backups
  <2>2. pc' = [pc EXCEPT ![p] = "undo"] /\ at' = [at EXCEPT ![p] = at[p] + 1]
    BY <1>9 DEF RestoreFails, Slip, Advance
  <2>3. SystemTypes' /\ HistoryTypes'
    <3>1. slipped' = slipped \cup {p} /\ \E k : Fault(k)
      BY <1>9 DEF RestoreFails, Slip
    <3>2. QED
      BY <1>3, <2>1, <3>1, HistoryKept DEF SystemTypes
  <2>4. \A f \in File : (Recorded(f) \/ Untouched(f))'
    BY <2>1, FilesAlone
  <2>5. QED
    BY <1>2, <1>5, <2>1, <2>2, <2>3, <2>4, MoveKeeps
<1>10. QED
  BY <1>6, <1>7, <1>8, <1>9

LEMMA UndoCommandSteps ==
  ASSUME IInv, NEW p \in Helper, RunUndoCommand(p) \/ UndoCommandFails(p)
  PROVE  IInv'
<1>1. AtUndoCommand(p)
  BY DEF RunUndoCommand, UndoCommandFails
<1>2. /\ Running(p) /\ of[p] \in Helper /\ manifest[of[p]] = "whole" /\ at[p] + 1 \in Nat \ {0}
      /\ job[of[p]].surface \in Surfaces /\ job[of[p]].prior \in Theme
  BY <1>1, RunningFacts DEF AtUndoCommand, Running
<1>3. UndoCommand(p) \in UndoNames
  <2>1. Len(Entries(p)) \in Nat /\ at[p] \in Nat \ {0}
    BY <1>2, RunningFacts
  <2>2. at[p] - Len(Entries(p)) \in Nat \ {0}
    BY <1>1, <2>1 DEF AtUndoCommand
  <2>3. QED
    BY <1>1, <1>2, <2>2, UndoCommandFacts DEF UndoCommand, AtUndoCommand
<1>4. SystemTypes /\ HistoryTypes
  BY TypeParts DEF IInv
<1>5. "undo" \in Phase \ {"ready", "copy", "noting"}
  BY DEF Phase
<1>6. CASE RunUndoCommand(p)
  <2>1. UNCHANGED <<files, stamp, saved, manifest, job, of, outcome, was, mixed, slipped, faults>>
    BY <1>6 DEF RunUndoCommand, Effect, backups, history
  <2>2. pc' = [pc EXCEPT ![p] = "undo"] /\ at' = [at EXCEPT ![p] = at[p] + 1]
    BY <1>6 DEF RunUndoCommand, Advance
  <2>3. SystemTypes' /\ HistoryTypes'
    BY <1>3, <1>4, <1>6, <2>1, EffectTypes, HistoryKept DEF RunUndoCommand
  <2>4. \A f \in File : (Recorded(f) \/ Untouched(f))'
    BY <2>1, FilesAlone
  <2>5. QED
    BY <1>2, <1>5, <2>1, <2>2, <2>3, <2>4, MoveKeeps
<1>7. CASE UndoCommandFails(p)
  <2>1. UNCHANGED <<files, stamp, saved, manifest, job, of, outcome, was, mixed>>
    BY <1>7 DEF UndoCommandFails, NoEffect, backups
  <2>2. pc' = [pc EXCEPT ![p] = "undo"] /\ at' = [at EXCEPT ![p] = at[p] + 1]
    BY <1>7 DEF UndoCommandFails, Slip, Advance
  <2>3. slipped' = slipped \cup {p} /\ (UNCHANGED faults \/ \E k : Fault(k))
    BY <1>7 DEF UndoCommandFails, Fails, Slip
  <2>4. SystemTypes' /\ HistoryTypes'
    BY <1>4, <1>7, <2>1, <2>3, NoEffectTypes, HistoryKept DEF UndoCommandFails
  <2>5. \A f \in File : (Recorded(f) \/ Untouched(f))'
    BY <2>1, FilesAlone
  <2>6. QED
    BY <1>2, <1>5, <2>1, <2>2, <2>4, <2>5, MoveKeeps
<1>8. QED
  BY <1>6, <1>7

-----------------------------------------------------------------------------
\* The backups.

LEMMA BackUpStep ==
  ASSUME IInv, NEW p \in Helper, BackUp(p)
  PROVE  IInv'
<1> DEFINE g == Target(p)[at[p]]
<1>1. SystemTypes /\ BookTypes /\ HistoryTypes /\ \A q \in Helper : Place(q) /\ PhaseOK(q)
  BY TypeParts DEF IInv
<1>2. /\ pc[p] = "copy" /\ of[p] = p /\ manifest[p] = "none" /\ at[p] <= Len(Target(p))
      /\ job[p].surface \in Surfaces /\ at[p] \in Nat \ {0} /\ at[p] + 1 \in Nat \ {0}
      /\ Running(p)
  BY <1>1, RunningFacts DEF BackUp, PhaseOK, Running
<1>3. Len(Target(p)) \in Nat /\ \A i \in 1..Len(Target(p)) : Target(p)[i] \in File
  BY <1>2, TargetFacts DEF Target
<1>4. g \in File
  BY <1>2, <1>3
<1>5. /\ saved' = [saved EXCEPT ![p][g] = files[g]]
      /\ pc' = [pc EXCEPT ![p] = "copy"]
      /\ at' = [at EXCEPT ![p] = at[p] + 1]
      /\ UNCHANGED <<files, tmp, theme, boot, menu, stamp, manifest, job, of, outcome,
                     was, mixed, slipped, faults>>
  BY DEF BackUp, Advance, system, history
<1>6. /\ \A f \in File : saved'[p][f] = IF f = g THEN files[g] ELSE saved[p][f]
      /\ \A q \in Helper \ {p} : saved'[q] = saved[q]
  BY <1>1, <1>4, <1>5 DEF BookTypes
<1>7. files[g] \in Content
  BY <1>1, <1>4 DEF SystemTypes
<1>8. TypeOK'
  <2>1. BookTypes'
    <3>1. saved' \in [Helper -> [File -> Content \cup {"uncopied"}]]
      BY <1>1, <1>4, <1>5, <1>7 DEF BookTypes
    <3>2. QED
      BY <1>1, <1>2, <1>5, <3>1 DEF BookTypes, Phase
  <2>2. SystemTypes' /\ HistoryTypes'
    BY <1>1, <1>5 DEF SystemTypes, HistoryTypes
  <2>3. ASSUME NEW q \in Helper PROVE Place(q)'
    BY <1>1, <1>2, <1>5 DEF Place, BookTypes, Running, Target, Entries
  <2>4. QED
    BY <2>1, <2>2, <2>3 DEF TypeOK, SystemTypes, BookTypes, HistoryTypes, Place
<1>9. ASSUME NEW q \in Helper PROVE PhaseOK(q)'
  <2>1. CASE q = p
    <3>1. pc'[p] = "copy" /\ at'[p] = at[p] + 1
      BY <1>1, <1>5 DEF BookTypes
    <3>2. ASSUME NEW i \in 1..Len(Target(p)), i < at[p] + 1
          PROVE  saved'[p][Target(p)[i]] \in Content
      <4>1. i < at[p] \/ i = at[p]
        BY <1>2, <3>2
      <4>2. Target(p)[i] \in File
        BY <1>3
      <4>3. i < at[p] => saved[p][Target(p)[i]] \in Content
        BY <1>1, <1>2 DEF PhaseOK
      <4>4. QED
        BY <1>6, <1>7, <4>1, <4>2, <4>3
    <3>3. QED
      BY <1>1, <1>2, <1>5, <2>1, <3>1, <3>2 DEF PhaseOK, Target
  <2>2. CASE q # p
    <3>1. pc'[q] = pc[q] /\ at'[q] = at[q] /\ saved'[q] = saved[q]
      BY <1>1, <1>5, <1>6, <2>2 DEF BookTypes
    <3>2. Backed(q)' <=> Backed(q)
      BY <1>5, <3>1 DEF Backed, Target
    <3>3. PhaseOK(q)
      BY <1>1
    <3>4. QED
      BY <1>5, <3>1, <3>2, <3>3 DEF PhaseOK, Target
  <2>3. QED
    BY <2>1, <2>2
<1>10. ASSUME NEW f \in File PROVE (Recorded(f) \/ Untouched(f))'
  <2>1. CASE Recorded(f)
    BY <1>2, <1>5, <1>6, <2>1 DEF Recorded
  <2>2. CASE Untouched(f)
    BY <1>5, <1>6, <2>2 DEF Untouched
  <2>3. QED
    BY <2>1, <2>2 DEF IInv
<1>11. QED
  BY <1>8, <1>9, <1>10 DEF IInv

LEMMA ManifestSteps ==
  ASSUME IInv, NEW p \in Helper, OpenManifest(p) \/ WriteManifest(p)
  PROVE  IInv'
<1>1. SystemTypes /\ BookTypes /\ HistoryTypes /\ \A q \in Helper : Place(q) /\ PhaseOK(q)
  BY TypeParts DEF IInv
<1>2. PICK m \in {"torn", "whole"}, s \in {"noting", "step"} :
        /\ (m = "torn" /\ s = "noting") \/ (m = "whole" /\ s = "step")
        /\ manifest' = [manifest EXCEPT ![p] = m]
        /\ pc' = [pc EXCEPT ![p] = s] /\ at' = [at EXCEPT ![p] = 1]
  <2>1. CASE OpenManifest(p)
    <3>1. /\ manifest' = [manifest EXCEPT ![p] = "torn"]
          /\ pc' = [pc EXCEPT ![p] = "noting"] /\ at' = [at EXCEPT ![p] = 1]
      BY <2>1 DEF OpenManifest, Enter
    <3>2. QED
      BY <3>1
  <2>2. CASE WriteManifest(p)
    <3>1. /\ manifest' = [manifest EXCEPT ![p] = "whole"]
          /\ pc' = [pc EXCEPT ![p] = "step"] /\ at' = [at EXCEPT ![p] = 1]
      BY <2>2 DEF WriteManifest, Enter
    <3>2. QED
      BY <3>1
  <2>3. QED
    BY <2>1, <2>2
<1>3. UNCHANGED <<files, tmp, theme, boot, menu, stamp, saved, job, of, outcome,
                  was, mixed, slipped, faults>>
  BY DEF OpenManifest, WriteManifest, system, history
<1>4. pc[p] \in {"copy", "noting"} /\ of[p] = p /\ manifest[p] # "whole" /\ Running(p)
  BY <1>1 DEF OpenManifest, WriteManifest, PhaseOK, Running
<1>5. Backed(p)
  <2>1. CASE OpenManifest(p)
    <3>1. pc[p] = "copy" /\ at[p] > Len(Target(p)) /\ job[p].surface \in Surfaces
      BY <1>4, <2>1, RunningFacts DEF OpenManifest
    <3>2. Len(Target(p)) \in Nat /\ at[p] \in Nat
      BY <3>1, TargetFacts, RunningFacts DEF Target
    <3>3. \A i \in 1..Len(Target(p)) : i < at[p]
      BY <3>1, <3>2
    <3>4. QED
      BY <1>1, <3>1, <3>3 DEF PhaseOK, Backed
  <2>2. CASE WriteManifest(p)
    BY <1>1, <2>2 DEF WriteManifest, PhaseOK
  <2>3. QED
    BY <2>1, <2>2
<1>6. /\ pc'[p] = s /\ manifest'[p] = m
      /\ \A q \in Helper \ {p} : pc'[q] = pc[q] /\ at'[q] = at[q] /\ manifest'[q] = manifest[q]
  BY <1>1, <1>2 DEF BookTypes
<1>7. TypeOK'
  <2>1. BookTypes'
    BY <1>1, <1>2, <1>3 DEF BookTypes, Phase
  <2>2. SystemTypes' /\ HistoryTypes'
    BY <1>1, <1>3 DEF SystemTypes, HistoryTypes
  <2>3. ASSUME NEW q \in Helper PROVE Place(q)'
    BY <1>1, <1>2, <1>3, <1>4, <1>6 DEF Place, Running, Target, Entries
  <2>4. QED
    BY <2>1, <2>2, <2>3 DEF TypeOK, SystemTypes, BookTypes, HistoryTypes, Place
<1>8. ASSUME NEW q \in Helper PROVE PhaseOK(q)'
  <2>1. Backed(q)' <=> Backed(q)
    BY <1>3 DEF Backed, Target
  <2>2. CASE q = p
    BY <1>2, <1>3, <1>4, <1>5, <1>6, <2>1, <2>2 DEF PhaseOK
  <2>3. CASE q # p
    <3>1. manifest[of[q]] = "whole" => manifest'[of'[q]] = "whole"
      BY <1>1, <1>3, <1>4, <1>6 DEF BookTypes
    <3>2. QED
      BY <1>1, <1>3, <1>6, <2>1, <2>3, <3>1 DEF PhaseOK, Target
  <2>4. QED
    BY <2>2, <2>3
<1>9. ASSUME NEW f \in File PROVE (Recorded(f) \/ Untouched(f))'
  <2>1. Recorded(f) => Recorded(f)'
    BY <1>3, <1>4, <1>6 DEF Recorded
  <2>2. QED
    BY <1>3, <2>1 DEF IInv, Untouched
<1>10. QED
  BY <1>7, <1>8, <1>9 DEF IInv

-----------------------------------------------------------------------------
\* The start.

LEMMA WitnessTypes ==
  ASSUME SystemTypes, HistoryTypes, NEW p \in Helper, NEW s \in Surfaces, Witness(p, s)
  PROVE  HistoryTypes'
<1> DEFINE others == {q \in Helper \ {p} : Running(q) /\ job[of[q]].surface = s}
           met    == IF others = {} THEN {} ELSE others \cup {p}
           fresh  == [files |-> [f \in Range(Targets[s]) |-> files[f]],
                      link  |-> IF s = "splash" THEN theme.link ELSE "none"]
<1>1. /\ was' = [q \in Helper |-> CASE q \in met             -> Forgotten
                                    [] q = p /\ q \notin met -> fresh
                                    [] OTHER                 -> was[q]]
      /\ mixed' = mixed \cup met
      /\ UNCHANGED <<slipped, faults>>
  BY DEF Witness
<1>2. fresh \in [files : [Range(Targets[s]) -> Content], link : Theme]
  <2>1. Range(Targets[s]) \subseteq File
    BY TargetFacts
  <2>2. QED
    BY <2>1 DEF SystemTypes, Theme
<1>3. met \subseteq Helper
  OBVIOUS
<1>4. ASSUME NEW q \in Helper
      PROVE  was'[q] = Forgotten \/ \E r \in Surfaces :
               was'[q] \in [files : [Range(Targets[r]) -> Content], link : Theme]
  <2> HIDE DEF met, fresh
  <2>1. was'[q] \in {Forgotten, fresh, was[q]}
    BY <1>1
  <2>2. CASE was'[q] \in {Forgotten, fresh}
    BY <1>2, <2>2
  <2>3. CASE was'[q] = was[q]
    BY <2>3 DEF HistoryTypes
  <2>4. QED
    BY <2>1, <2>2, <2>3
<1>5. QED
  <2> HIDE DEF met, fresh
  <2>1. QED
    BY <1>1, <1>3, <1>4 DEF HistoryTypes

LEMMA StartApplyStep ==
  ASSUME IInv, NEW p \in Helper, StartApply(p)
  PROVE  IInv'
<1>1. SystemTypes /\ BookTypes /\ HistoryTypes /\ \A q \in Helper : Place(q) /\ PhaseOK(q)
  BY TypeParts DEF IInv
<1>2. pc[p] = "ready" /\ of[p] = p /\ manifest[p] = "none"
  BY <1>1 DEF StartApply, MayStart, PhaseOK
<1>3. PICK s \in Surfaces, i \in Image :
        /\ job' = [job EXCEPT ![p] =
                     [surface |-> s, image |-> i,
                      prior |-> IF s = "splash" THEN CurrentAlternative ELSE "none"]]
        /\ Witness(p, s)
  BY DEF StartApply
<1>4. /\ pc' = [pc EXCEPT ![p] = "copy"] /\ at' = [at EXCEPT ![p] = 1]
      /\ stamp' = [stamp EXCEPT ![p] = 1 + Cardinality({q \in Helper : stamp[q] # 0})]
      /\ UNCHANGED <<files, tmp, theme, boot, menu, of, saved, manifest, outcome>>
  BY DEF StartApply, Enter, system
<1>5. /\ pc'[p] = "copy" /\ at'[p] = 1
      /\ job'[p].surface = s /\ job'[p].image = i
      /\ \A q \in Helper \ {p} : pc'[q] = pc[q] /\ at'[q] = at[q] /\ job'[q] = job[q]
  BY <1>1, <1>3, <1>4 DEF BookTypes
<1>6. BookTypes'
  <2>1. Cardinality({q \in Helper : stamp[q] # 0}) \in Nat
    BY ApplyAssumption, FS_Subset, FS_CardinalityType
  <2>2. 1 + Cardinality({q \in Helper : stamp[q] # 0}) \in Nat
    BY <2>1
  <2>3. CurrentAlternative \in Theme
    BY <1>1 DEF CurrentAlternative, SystemTypes, Theme
  <2>4. stamp' \in [Helper -> Nat]
    BY <1>1, <1>4, <2>2 DEF BookTypes
  <2>5. job' \in [Helper -> [surface : Surfaces \cup {"none"}, image : Image \cup {"none"},
                             prior : Theme]]
    BY <1>1, <1>3, <2>3 DEF BookTypes, Theme
  <2>6. QED
    BY <1>1, <1>4, <2>4, <2>5 DEF BookTypes, Phase
<1>7. SystemTypes' /\ HistoryTypes'
  BY <1>1, <1>3, <1>4, WitnessTypes DEF SystemTypes
<1>8. \A q \in Helper : manifest[of[q]] = "whole" => of[q] # p
  BY <1>2
<1>9. ASSUME NEW q \in Helper PROVE Place(q)' /\ PhaseOK(q)'
  <2>1. CASE q = p
    BY <1>2, <1>4, <1>5, <2>1 DEF Place, PhaseOK, Running, Target
  <2>2. CASE q # p
    <3>1. Place(q) /\ PhaseOK(q) /\ of[q] \in Helper /\ of'[q] = of[q] /\ manifest' = manifest
      BY <1>1, <1>4 DEF BookTypes
    <3>2. Target(q)' = Target(q) /\ (Backed(q)' <=> Backed(q))
      BY <1>4, <1>5, <2>2 DEF Target, Backed
    <3>3. PhaseOK(q)'
      BY <1>4, <1>5, <2>2, <3>1, <3>2 DEF PhaseOK
    <3>4. Running(q) => of[q] # p
      BY <1>8, <2>2, RunningFacts DEF Running, Phase
    <3>5. Running(q) => Entries(q)' = Entries(q)
      BY <1>5, <3>1, <3>4 DEF Entries, Target
    <3>6. Place(q)'
      BY <1>5, <2>2, <3>1, <3>2, <3>4, <3>5 DEF Place, Running
    <3>7. QED
      BY <3>3, <3>6
  <2>3. QED
    BY <2>1, <2>2
<1>10. \A f \in File : (Recorded(f) \/ Untouched(f))'
  BY <1>4, FilesAlone
<1>11. TypeOK'
  BY <1>6, <1>7, <1>9 DEF TypeOK, SystemTypes, BookTypes, HistoryTypes, Place
<1>12. QED
  BY <1>9, <1>10, <1>11 DEF IInv

LEMMA StartUndoStep ==
  ASSUME IInv, NEW p \in Helper, StartUndo(p)
  PROVE  IInv'
<1>1. SystemTypes /\ BookTypes /\ HistoryTypes /\ \A q \in Helper : Place(q) /\ PhaseOK(q)
  BY TypeParts DEF IInv
<1>2. pc[p] = "ready" /\ manifest[p] = "none"
  BY <1>1 DEF StartUndo, MayStart, PhaseOK
<1>3. PICK h \in Helper : /\ manifest[h] = "whole"
                          /\ of' = [of EXCEPT ![p] = h]
                          /\ Witness(p, job[h].surface)
  BY DEF StartUndo, Noted
<1>4. /\ pc' = [pc EXCEPT ![p] = "undo"] /\ at' = [at EXCEPT ![p] = 1]
      /\ UNCHANGED <<files, tmp, theme, boot, menu, stamp, saved, manifest, job, outcome>>
  BY DEF StartUndo, Enter, system, backups
<1>5. job[h].surface \in Surfaces
  BY <1>1, <1>3 DEF PhaseOK, Backed
<1>6. /\ pc'[p] = "undo" /\ at'[p] = 1 /\ of'[p] = h
      /\ \A q \in Helper \ {p} : pc'[q] = pc[q] /\ at'[q] = at[q] /\ of'[q] = of[q]
  BY <1>1, <1>3, <1>4 DEF BookTypes
<1>7. BookTypes'
  BY <1>1, <1>3, <1>4 DEF BookTypes, Phase
<1>8. SystemTypes' /\ HistoryTypes'
  BY <1>1, <1>3, <1>4, <1>5, WitnessTypes DEF SystemTypes
<1>9. ASSUME NEW q \in Helper PROVE Place(q)' /\ PhaseOK(q)'
  <2>1. Backed(q)' <=> Backed(q)
    BY <1>4 DEF Backed, Target
  <2>2. CASE q = p
    BY <1>2, <1>3, <1>4, <1>5, <1>6, <2>1, <2>2 DEF Place, PhaseOK
  <2>3. CASE q # p
    BY <1>1, <1>4, <1>6, <2>1, <2>3 DEF Place, PhaseOK, Running, Target, Entries
  <2>4. QED
    BY <2>2, <2>3
<1>10. \A f \in File : (Recorded(f) \/ Untouched(f))'
  BY <1>4, FilesAlone
<1>11. TypeOK'
  BY <1>7, <1>8, <1>9 DEF TypeOK, SystemTypes, BookTypes, HistoryTypes, Place
<1>12. QED
  BY <1>9, <1>10, <1>11 DEF IInv

LEMMA StartInVainStep ==
  ASSUME IInv, NEW p \in Helper, StartUndoInVain(p)
  PROVE  IInv'
<1>1. SystemTypes /\ BookTypes /\ HistoryTypes /\ \A q \in Helper : Place(q) /\ PhaseOK(q)
  BY TypeParts DEF IInv
<1>2. PICK how \in {"failed", "raised"} : End(p, how)
  BY DEF StartUndoInVain
<1>3. /\ pc' = [pc EXCEPT ![p] = "ended"] /\ at' = [at EXCEPT ![p] = 1]
      /\ outcome' = [outcome EXCEPT ![p] = how]
      /\ UNCHANGED <<files, tmp, theme, boot, menu, stamp, saved, manifest, job, of,
                     was, mixed, slipped, faults>>
  BY <1>2 DEF End, Enter, StartUndoInVain, system, backups, history
<1>4. BookTypes'
  BY <1>1, <1>3 DEF BookTypes, Phase
<1>5. SystemTypes' /\ HistoryTypes'
  BY <1>1, <1>3 DEF SystemTypes, HistoryTypes
<1>6. \A q \in Helper : PhaseOK(q)'
  BY <1>3, OthersPhase
<1>7. ASSUME NEW q \in Helper PROVE Place(q)'
  <2>1. CASE q = p
    BY <1>1, <1>3, <2>1 DEF Place, Running, BookTypes
  <2>2. CASE q # p
    <3>1. pc'[q] = pc[q] /\ at'[q] = at[q]
      BY <1>1, <1>3, <2>2 DEF BookTypes
    <3>2. QED
      BY <1>1, <1>3, <3>1 DEF Place, Running, Target, Entries
  <2>3. QED
    BY <2>1, <2>2
<1>8. TypeOK'
  BY <1>4, <1>5, <1>7 DEF TypeOK, SystemTypes, BookTypes, HistoryTypes, Place
<1>9. \A f \in File : (Recorded(f) \/ Untouched(f))'
  BY <1>3, FilesAlone
<1>10. QED
  BY <1>6, <1>8, <1>9 DEF IInv

-----------------------------------------------------------------------------
\* The theorems.

LEMMA InitHolds == Init => IInv
<1> SUFFICES ASSUME Init PROVE IInv
  OBVIOUS
<1>1. SystemTypes
  <2>1. /\ files \in [File -> Content] /\ tmp \in [File -> Content]
        /\ theme \in [link : Theme, offered : BOOLEAN]
    BY ApplyAssumption DEF Init, Content, Theme
  <2>2. SplashFiles \subseteq File /\ {"img", "dropin"} \subseteq File
    BY DEF SplashFiles, File, OwnFiles, Rendered, Ini
  <2>3. QED
    BY <2>1, <2>2 DEF SystemTypes, Init, BootSources, MenuSources
<1>2. BookTypes
  BY DEF Init, BookTypes, Phase, NoJob, Theme
<1>3. HistoryTypes
  BY ApplyAssumption DEF Init, HistoryTypes
<1>4. \A p \in Helper : Place(p) /\ PhaseOK(p)
  BY DEF Init, Place, PhaseOK, Running
<1>5. \A f \in File : Untouched(f)
  BY DEF Init, Untouched
<1>6. QED
  BY <1>1, <1>2, <1>3, <1>4, <1>5, TypeParts DEF IInv

\* Every step keeps what the phases of the invocations imply about their manifests,
\* and that an unrecorded file is untouched.
LEMMA NextKeeps == IInv /\ [Next]_vars => IInv'
<1> SUFFICES ASSUME IInv, [Next]_vars PROVE IInv'
  OBVIOUS
<1>1. CASE UNCHANGED vars
  BY <1>1 DEF vars, IInv, TypeOK, PhaseOK, Backed, Recorded, Untouched, Running, Target, Entries
<1>2. ASSUME NEW p \in Helper,
             Start(p) \/ Backup(p) \/ Write(p) \/ Run(p) \/ Undo(p) \/ Kill(p)
      PROVE  IInv'
  <2>1. CASE Start(p)
    BY <2>1, StartApplyStep, StartUndoStep, StartInVainStep DEF Start
  <2>2. CASE Backup(p)
    BY <2>2, BackUpStep, ManifestSteps, EndSteps DEF Backup
  <2>3. CASE Write(p)
    BY <2>3, WriteSteps, EndSteps DEF Write
  <2>4. CASE Run(p)
    BY <2>4, CommandSteps, EndSteps DEF Run
  <2>5. CASE Undo(p)
    BY <2>5, RestoreSteps, UndoCommandSteps, EndSteps DEF Undo
  <2>6. CASE Kill(p)
    BY <2>6, EndSteps
  <2>7. QED
    BY <1>2, <2>1, <2>2, <2>3, <2>4, <2>5, <2>6
<1>3. QED
  BY <1>1, <1>2 DEF Next

\* The invariant holds in every behaviour: no phase of an invocation is ahead of
\* the manifest it relies on.
THEOREM ApplyInductive == Spec => []IInv
<1>1. QED
  BY InitHolds, NextKeeps, PTL DEF Spec

\* Every variable of the helper keeps its type (the book of lw_privileged.py).
THEOREM ApplyTypes == Spec => []TypeOK
<1>1. IInv => TypeOK
  BY DEF IInv
<1>2. QED
  BY <1>1, ApplyInductive, PTL

\* lw_privileged.py backs every file up before it writes: whatever is killed, fails
\* or overlaps, each original content is in its place or in a whole backup.
THEOREM NoOriginalLost == Spec => []OriginalKept
<1>1. IInv => OriginalKept
  BY DEF IInv, OriginalKept, Recorded, Untouched
<1>2. QED
  BY <1>1, ApplyInductive, PTL

-----------------------------------------------------------------------------
\* The invariant.

\* The surfaces with a generator, and its work.
Generated == {"splash", "grub"}

Fresh(s) == IF s = "splash" THEN boot = BootSources ELSE menu = MenuSources

\* An invocation that was killed, raised or lost a step answers for nothing.
Excused(p) == p \in slipped \/ outcome[p] \in {"killed", "raised"}

\* p has the generator of surface s still before it, on the way it is on: it is
\* the last of the plan's commands and of its undo commands.
Owes(p, s) ==
  \/ Excused(p)
  \/ /\ job[of[p]].surface = s
     /\ \/ /\ pc[p] \in {"step", "staged", "filling"}
           /\ at[p] <= Len(Targets[s]) + Len(Commands[s])
        \/ /\ pc[p] \in {"undo", "putting"}
           /\ at[p] <= Len(Targets[s]) + Len(UndoCommands(job[of[p]]))

DebtInv ==
  /\ \A s \in Generated : Fresh(s) \/ \E p \in Helper : Owes(p, s)
  /\ \A p \in Helper : outcome[p] # "none" => pc[p] = "ended"

-----------------------------------------------------------------------------
\* Plans.

\* A plan with a generator ends with it, and so does its rollback.
LEMMA PlanEnds ==
  ASSUME NEW s \in Generated, NEW j, j.surface = s, j.prior \in Theme
  PROVE  /\ Len(Commands[s]) \in Nat \ {0} /\ Len(UndoCommands(j)) \in Nat \ {0}
         /\ Commands[s][Len(Commands[s])] = IF s = "splash" THEN "initramfs" ELSE "update-grub"
         /\ UndoCommands(j)[Len(UndoCommands(j))] = IF s = "splash" THEN "initramfs" ELSE "update-grub"
<1>1. CASE s = "splash"
  <2>1. Commands[s] = <<"install", "select", "initramfs">>
    BY <1>1 DEF Commands
  <2>2. CASE j.prior = "none"
    <3>1. UndoCommands(j) = <<"remove", "initramfs">>
      BY <1>1, <2>2 DEF UndoCommands
    <3>2. QED
      BY <1>1, <2>1, <3>1
  <2>3. CASE j.prior # "none"
    <3>1. UndoCommands(j) = <<j.prior, "remove", "initramfs">>
      BY <1>1, <2>3 DEF UndoCommands
    <3>2. QED
      BY <1>1, <2>1, <3>1
  <2>4. QED
    BY <2>2, <2>3
<1>2. CASE s = "grub"
  <2>1. Commands[s] = <<"update-grub">> /\ UndoCommands(j) = <<"update-grub">>
    BY <1>2 DEF Commands, UndoCommands
  <2>2. QED
    BY <1>2, <2>1
<1>3. QED
  BY <1>1, <1>2 DEF Generated

\* The boot menu is made by the commands of its own surface, and by no other.
LEMMA CommandKinds ==
  ASSUME NEW j, j.surface \in Surfaces, j.prior \in Theme, NEW i \in Nat \ {0}
  PROVE  /\ i <= Len(Commands[j.surface]) =>
              /\ j.surface \in Generated
              /\ Commands[j.surface][i] = "update-grub" <=> j.surface = "grub"
         /\ i <= Len(UndoCommands(j)) =>
              /\ j.surface \in Generated
              /\ UndoCommands(j)[i] = "update-grub" <=> j.surface = "grub"
<1>1. CASE j.surface = "login"
  <2>1. Commands[j.surface] = <<>> /\ UndoCommands(j) = <<>>
    BY <1>1 DEF Commands, UndoCommands
  <2>2. ~(i <= 0) /\ Len(<<>>) = 0
    OBVIOUS
  <2>3. QED
    BY <2>1, <2>2
<1>2. CASE j.surface = "grub"
  <2>1. Commands[j.surface] = <<"update-grub">> /\ UndoCommands(j) = <<"update-grub">>
    BY <1>2 DEF Commands, UndoCommands
  <2>2. i <= 1 => i = 1
    OBVIOUS
  <2>3. QED
    BY <1>2, <2>1, <2>2 DEF Generated
<1>3. CASE j.surface = "splash"
  <2>1. Commands[j.surface] = <<"install", "select", "initramfs">>
    BY <1>3 DEF Commands
  <2>2. i <= 3 => i \in 1..3
    OBVIOUS
  <2>3. i <= Len(Commands[j.surface]) => Commands[j.surface][i] # "update-grub"
    BY <2>1, <2>2
  <2>4. i <= Len(UndoCommands(j)) => UndoCommands(j)[i] # "update-grub"
    <3>1. CASE j.prior = "none"
      <4>1. UndoCommands(j) = <<"remove", "initramfs">>
        BY <1>3, <3>1 DEF UndoCommands
      <4>2. i <= 2 => i \in 1..2
        OBVIOUS
      <4>3. QED
        BY <4>1, <4>2
    <3>2. CASE j.prior # "none"
      <4>1. UndoCommands(j) = <<j.prior, "remove", "initramfs">>
        BY <1>3, <3>2 DEF UndoCommands
      <4>2. j.prior \in {"distro", "ours"}
        BY <3>2 DEF Theme
      <4>3. QED
        BY <2>2, <4>1, <4>2
    <3>3. QED
      BY <3>1, <3>2
  <2>5. QED
    BY <1>3, <2>3, <2>4 DEF Generated
<1>4. QED
  BY <1>1, <1>2, <1>3, ApplyAssumption

\* The files a generator reads are those of its own surface.
LEMMA OwnSources ==
  ASSUME NEW t \in Surfaces, NEW i \in 1..Len(Targets[t])
  PROVE  /\ t # "splash" => Targets[t][i] \notin SplashFiles
         /\ t # "grub" => Targets[t][i] \notin {"img", "dropin"}
<1>1. Range(Frames) \cap OwnFiles = {}
  BY ApplyAssumption
<1>2. CASE t = "login"
  <2>1. Targets[t] = <<"bg", "slick", "gtk">>
    BY <1>2 DEF Targets
  <2>2. Targets[t][i] \in {"bg", "slick", "gtk"}
    BY <2>1
  <2>3. QED
    BY <1>1, <2>2 DEF SplashFiles, OwnFiles, Rendered, Ini
<1>3. CASE t = "grub"
  <2>1. Targets[t] = <<"img", "dropin">>
    BY <1>3 DEF Targets
  <2>2. Targets[t][i] \in {"img", "dropin"}
    BY <2>1
  <2>3. QED
    BY <1>1, <1>3, <2>2 DEF SplashFiles, OwnFiles, Rendered, Ini
<1>4. CASE t = "splash"
  <2>1. Targets[t] = <<"descr", "script">> \o Frames \o <<"wall">>
    BY <1>4 DEF Targets
  <2>2. Frames \in Seq(Range(Frames))
    BY ApplyAssumption DEF Range
  <2>3. /\ <<"descr", "script">> \in Seq(SplashFiles) /\ <<"wall">> \in Seq(SplashFiles)
        /\ Frames \in Seq(SplashFiles)
    BY <2>2 DEF SplashFiles
  <2>4. Targets[t] \in Seq(SplashFiles)
    BY <2>1, <2>3
  <2>5. Targets[t][i] \in SplashFiles
    BY <2>4
  <2>6. QED
    BY <1>1, <1>4, <2>5 DEF SplashFiles, OwnFiles, Rendered, Ini
<1>5. QED
  BY <1>2, <1>3, <1>4, ApplyAssumption

-----------------------------------------------------------------------------
\* How a debt is passed on.

\* What a step of p must see to: what it makes stale it owes the generator for,
\* and what it owed it owes still, or the generator has run.
LEMMA DebtPasses ==
  ASSUME IInv, DebtInv, NEW p \in Helper,
         \A q \in Helper \ {p} : /\ pc'[q] = pc[q] /\ at'[q] = at[q]
                                 /\ outcome'[q] = outcome[q] /\ of'[q] = of[q],
         \A q \in Helper \ {p} : Running(q) => job'[of[q]] = job[of[q]],
         slipped \subseteq slipped',
         outcome'[p] # "none" => pc'[p] = "ended",
         \A s \in Generated : /\ Fresh(s) => Fresh(s)' \/ Owes(p, s)'
                              /\ Owes(p, s) => Owes(p, s)' \/ Fresh(s)'
  PROVE  DebtInv'
<1>1. ASSUME NEW s \in Generated, NEW q \in Helper \ {p}, Owes(q, s)
      PROVE  Owes(q, s)'
  <2>1. CASE Excused(q)
    BY <1>1, <2>1 DEF Owes, Excused
  <2>2. CASE ~Excused(q)
    <3>1. Running(q)
      BY <1>1, <2>2 DEF Owes, Running
    <3>2. job'[of'[q]] = job[of[q]]
      BY <1>1, <3>1
    <3>3. UndoCommands(job'[of'[q]]) = UndoCommands(job[of[q]])
      BY <3>2
    <3>4. QED
      BY <1>1, <2>2, <3>2, <3>3 DEF Owes
  <2>3. QED
    BY <2>1, <2>2
<1>2. ASSUME NEW s \in Generated
      PROVE  Fresh(s)' \/ \E q \in Helper : Owes(q, s)'
  BY <1>1, <1>2 DEF DebtInv
<1>3. \A q \in Helper : outcome'[q] # "none" => pc'[q] = "ended"
  BY DEF DebtInv
<1>4. QED
  BY <1>2, <1>3 DEF DebtInv

\* The same, of a step that leaves the plans alone.
LEMMA MoveDebt ==
  ASSUME IInv, DebtInv, NEW p \in Helper, NEW x, NEW n,
         UNCHANGED <<job, of>>,
         pc' = [pc EXCEPT ![p] = x], at' = [at EXCEPT ![p] = n],
         UNCHANGED outcome \/ (x = "ended" /\ \E how : outcome' = [outcome EXCEPT ![p] = how]),
         pc[p] # "ended",
         slipped \subseteq slipped',
         \A s \in Generated : /\ Fresh(s) => Fresh(s)' \/ Owes(p, s)'
                              /\ Owes(p, s) => Owes(p, s)' \/ Fresh(s)'
  PROVE  DebtInv'
<1>1. BookTypes
  BY TypeParts DEF IInv
<1>2. pc'[p] = x
  BY <1>1 DEF BookTypes
<1>3. \A q \in Helper \ {p} : /\ pc'[q] = pc[q] /\ at'[q] = at[q]
                              /\ outcome'[q] = outcome[q] /\ of'[q] = of[q]
  BY <1>1 DEF BookTypes
<1>4. outcome'[p] # "none" => pc'[p] = "ended"
  BY <1>2 DEF DebtInv
<1>5. QED
  BY <1>3, <1>4, DebtPasses

\* A step on the way of p that leaves the system alone, or ends p with a reason.
LEMMA QuietDebt ==
  ASSUME IInv, DebtInv, NEW p \in Helper, NEW x, NEW n,
         UNCHANGED <<job, of, files, theme, boot, menu>>,
         pc' = [pc EXCEPT ![p] = x], at' = [at EXCEPT ![p] = n],
         UNCHANGED outcome \/ (x = "ended" /\ \E how : outcome' = [outcome EXCEPT ![p] = how]),
         pc[p] # "ended",
         slipped \subseteq slipped',
         \A s \in Generated : Owes(p, s) => Owes(p, s)'
  PROVE  DebtInv'
<1>1. \A s \in Generated : Fresh(s) => Fresh(s)'
  BY DEF Fresh, BootSources, MenuSources
<1>2. QED
  BY <1>1, MoveDebt

-----------------------------------------------------------------------------
\* The start, the backups and the end.

LEMMA StartDebt ==
  ASSUME IInv, DebtInv, NEW p \in Helper, Start(p)
  PROVE  DebtInv'
<1>1. BookTypes /\ pc[p] = "ready" /\ manifest[p] = "none"
  BY TypeParts DEF IInv, PhaseOK, Start, StartApply, StartUndo, StartUndoInVain, MayStart
<1>2. UNCHANGED <<files, theme, boot, menu, slipped>>
  BY DEF Start, StartApply, StartUndo, StartUndoInVain, system, history, Witness
<1>3. \A s \in Generated : (Owes(p, s) => p \in slipped) /\ (Fresh(s) => Fresh(s)')
  BY <1>1, <1>2 DEF Owes, Excused, DebtInv, Fresh, BootSources, MenuSources
<1>4. \A s \in Generated : Owes(p, s) => Owes(p, s)'
  BY <1>2, <1>3 DEF Owes, Excused
<1>5. \A q \in Helper \ {p} : /\ pc'[q] = pc[q] /\ at'[q] = at[q]
                              /\ outcome'[q] = outcome[q] /\ of'[q] = of[q]
  BY <1>1 DEF BookTypes, Start, StartApply, StartUndo, StartUndoInVain, Enter, End
<1>6. ASSUME NEW q \in Helper \ {p}, Running(q)
      PROVE  job'[of[q]] = job[of[q]]
  <2>1. of[q] # p
    BY <1>1, <1>6, RunningFacts DEF Running, Phase
  <2>2. of[q] \in Helper
    BY <1>1 DEF BookTypes
  <2>3. QED
    BY <1>1, <2>1, <2>2 DEF BookTypes, Start, StartApply, StartUndo, StartUndoInVain
<1>7. outcome'[p] # "none" => pc'[p] = "ended"
  BY <1>1 DEF DebtInv, BookTypes, Start, StartApply, StartUndo, StartUndoInVain, Enter, End
<1>8. QED
  BY <1>2, <1>3, <1>4, <1>5, <1>6, <1>7, DebtPasses

\* Until the manifest is whole p has changed nothing.
LEMMA BackupDebt ==
  ASSUME IInv, DebtInv, NEW p \in Helper, BackUp(p) \/ OpenManifest(p) \/ WriteManifest(p)
  PROVE  DebtInv'
<1>1. /\ pc[p] \in {"copy", "noting"}
      /\ UNCHANGED <<job, of, files, theme, boot, menu, outcome, slipped>>
  BY DEF BackUp, OpenManifest, WriteManifest, system, history
<1>2. PICK x, n : pc' = [pc EXCEPT ![p] = x] /\ at' = [at EXCEPT ![p] = n]
  BY DEF BackUp, OpenManifest, WriteManifest, Enter, Advance
<1>3. \A s \in Generated : Owes(p, s) => Owes(p, s)'
  BY <1>1 DEF Owes, Excused
<1>4. QED
  BY <1>1, <1>2, <1>3, QuietDebt

\* Beyond its last command p owes nothing.
LEMMA NotBeyond ==
  ASSUME NEW a \in Nat, NEW b \in Nat, NEW c \in Nat, a <= b + c
  PROVE  ~(a > b + c)
OBVIOUS

\* Where a plan, or its rollback, ends, its generator has run.
LEMMA EndDebt ==
  ASSUME IInv, DebtInv, NEW p \in Helper,
         BackupRaises(p) \/ WriteRaises(p) \/ Applied(p) \/ RolledBack(p) \/ Kill(p)
  PROVE  DebtInv'
<1>1. /\ pc[p] \notin {"ready", "ended"}
      /\ UNCHANGED <<job, of, files, theme, boot, menu, slipped>>
  BY DEF BackupRaises, WriteRaises, Applied, RolledBack, Kill, Writing, Running, system, backups,
         history
<1>2. PICK how : /\ outcome' = [outcome EXCEPT ![p] = how]
                 /\ pc' = [pc EXCEPT ![p] = "ended"] /\ at' = [at EXCEPT ![p] = 1]
                 /\ how \in {"killed", "raised"} \/ Applied(p) \/ RolledBack(p)
  BY DEF BackupRaises, WriteRaises, Applied, RolledBack, Kill, End, Enter
<1>3. outcome'[p] = how /\ outcome[p] = "none" /\ Running(p) /\ at[p] \in Nat
  BY <1>1, <1>2, TypeParts DEF IInv, BookTypes, DebtInv, Running
<1>4. ASSUME NEW s \in Generated, Owes(p, s)
      PROVE  Owes(p, s)'
  <2>1. CASE p \in slipped \/ how \in {"killed", "raised"}
    BY <1>1, <1>3, <2>1 DEF Owes, Excused
  <2>2. CASE p \notin slipped /\ Applied(p)
    <3>1. of[p] = p /\ job[p].surface = s
      BY <1>3, <1>4, <2>2, RunningFacts DEF Applied, Owes, Excused
    <3>2. Len(Targets[s]) \in Nat /\ Len(Commands[s]) \in Nat
      BY <1>3, <3>1, RunningFacts, PlanEnds DEF Entries, Target
    <3>3. at[p] > Len(Targets[s]) + Len(Commands[s])
      BY <2>2, <3>1 DEF Applied, Target
    <3>4. at[p] <= Len(Targets[s]) + Len(Commands[s])
      BY <1>3, <1>4, <2>2 DEF Applied, Owes, Excused
    <3>5. FALSE
      BY <1>3, <3>2, <3>3, <3>4, NotBeyond
    <3>6. QED
      BY <3>5
  <2>3. CASE p \notin slipped /\ RolledBack(p)
    <3>1. job[of[p]].surface = s
      BY <1>3, <1>4, <2>3 DEF RolledBack, Owes, Excused
    <3>2. Len(Targets[s]) \in Nat /\ Len(UndoCommands(job[of[p]])) \in Nat
      BY <1>3, <3>1, RunningFacts, PlanEnds DEF Entries, Target
    <3>3. at[p] > Len(Targets[s]) + Len(UndoCommands(job[of[p]]))
      BY <2>3, <3>1 DEF RolledBack, Entries, Target
    <3>4. at[p] <= Len(Targets[s]) + Len(UndoCommands(job[of[p]]))
      BY <1>3, <1>4, <2>3 DEF RolledBack, Owes, Excused
    <3>5. FALSE
      BY <1>3, <3>2, <3>3, <3>4, NotBeyond
    <3>6. QED
      BY <3>5
  <2>4. QED
    BY <1>2, <2>1, <2>2, <2>3
<1>5. QED
  BY <1>1, <1>2, <1>4, QuietDebt

-----------------------------------------------------------------------------
\* The writes and the restores.

\* A file of another surface is no generator's source.
LEMMA OtherSources ==
  ASSUME IInv, NEW t \in Surfaces, NEW i \in 1..Len(Targets[t]), NEW c,
         files' = [files EXCEPT ![Targets[t][i]] = c], UNCHANGED <<theme, boot, menu>>,
         NEW s \in Generated, s # t, Fresh(s)
  PROVE  Fresh(s)'
<1>1. files \in [File -> Content]
  BY TypeParts DEF IInv, SystemTypes
<1>2. SplashFiles \subseteq File /\ {"img", "dropin"} \subseteq File
  BY DEF SplashFiles, File, OwnFiles, Rendered, Ini
<1>3. \A f \in File : f # Targets[t][i] => files'[f] = files[f]
  BY <1>1
<1>4. CASE s = "splash"
  <2>1. \A f \in SplashFiles : files'[f] = files[f]
    BY <1>2, <1>3, <1>4, OwnSources
  <2>2. QED
    BY <1>4, <2>1 DEF Fresh, BootSources
<1>5. CASE s = "grub"
  <2>1. \A f \in {"img", "dropin"} : files'[f] = files[f]
    BY <1>2, <1>3, <1>5, OwnSources
  <2>2. QED
    BY <1>5, <2>1 DEF Fresh, MenuSources
<1>6. QED
  BY <1>4, <1>5 DEF Generated

\* p changed a file of its surface, and has its generator still before it.
LEMMA FileDebt ==
  ASSUME IInv, DebtInv, NEW p \in Helper, Running(p), NEW x, NEW n,
         UNCHANGED <<job, of, theme, boot, menu, outcome, slipped>>,
         pc' = [pc EXCEPT ![p] = x], at' = [at EXCEPT ![p] = n],
         NEW i \in 1..Len(Entries(p)), NEW c, files' = [files EXCEPT ![Entries(p)[i]] = c],
         job[of[p]].surface \in Generated => Owes(p, job[of[p]].surface)'
  PROVE  DebtInv'
<1>1. job[of[p]].surface \in Surfaces /\ pc[p] # "ended"
  BY RunningFacts DEF Running
<1>2. ASSUME NEW s \in Generated
      PROVE  /\ Fresh(s) => Fresh(s)' \/ Owes(p, s)'
             /\ Owes(p, s) => Owes(p, s)' \/ Fresh(s)'
  <2>1. CASE s = job[of[p]].surface
    BY <2>1
  <2>2. CASE s # job[of[p]].surface
    <3>1. Fresh(s) => Fresh(s)'
      BY <1>1, <2>2, OtherSources DEF Entries, Target
    <3>2. Owes(p, s) => Excused(p)
      BY <2>2 DEF Owes
    <3>3. Owes(p, s) => Owes(p, s)'
      BY <3>2 DEF Owes, Excused
    <3>4. QED
      BY <3>1, <3>3
  <2>3. QED
    BY <2>1, <2>2
<1>3. QED
  BY <1>1, <1>2, MoveDebt

\* p is on its way, and has its generator still before it.
LEMMA WayDebt ==
  ASSUME IInv, DebtInv, NEW p \in Helper, Running(p), NEW x, NEW n,
         UNCHANGED <<job, of, files, theme, boot, menu, outcome>>, slipped \subseteq slipped',
         pc' = [pc EXCEPT ![p] = x], at' = [at EXCEPT ![p] = n],
         job[of[p]].surface \in Generated => Owes(p, job[of[p]].surface)'
  PROVE  DebtInv'
<1>1. pc[p] # "ended"
  BY DEF Running
<1>2. \A s \in Generated : Owes(p, s) => Owes(p, s)'
  BY DEF Owes, Excused
<1>3. QED
  BY <1>1, <1>2, QuietDebt

\* Every index up to the first command has the generator still before it.
LEMMA StillOwes ==
  ASSUME IInv, NEW p \in Helper, Running(p), NEW x, NEW n \in Nat,
         UNCHANGED <<job, of>>, pc' = [pc EXCEPT ![p] = x], at' = [at EXCEPT ![p] = n],
         x \in {"step", "staged", "filling", "undo", "putting"}, n <= Len(Entries(p)) + 1,
         job[of[p]].surface \in Generated
  PROVE  Owes(p, job[of[p]].surface)'
<1>1. BookTypes
  BY TypeParts DEF IInv
<1>2. pc'[p] = x /\ at'[p] = n
  BY <1>1 DEF BookTypes
<1>3. Len(Entries(p)) \in Nat /\ job[of[p]].prior \in Theme
  BY RunningFacts
<1>4. /\ Len(Commands[job[of[p]].surface]) \in Nat \ {0}
      /\ Len(UndoCommands(job[of[p]])) \in Nat \ {0}
  BY <1>3, PlanEnds
<1>5. Len(Targets[job[of[p]].surface]) = Len(Entries(p))
  BY DEF Entries, Target
<1>6. /\ n <= Len(Targets[job[of[p]].surface]) + Len(Commands[job[of[p]].surface])
      /\ n <= Len(Targets[job[of[p]].surface]) + Len(UndoCommands(job[of[p]]))
  BY <1>3, <1>4, <1>5
<1>7. QED
  BY <1>2, <1>6 DEF Owes

LEMMA WriteDebt ==
  ASSUME IInv, DebtInv, NEW p \in Helper,
         SkipWrite(p) \/ Stage(p) \/ Replace(p) \/ OpenFrame(p) \/ FillFrame(p) \/ WriteFails(p)
  PROVE  DebtInv'
<1>1. pc[p] \in {"step", "staged", "filling"}
  BY DEF SkipWrite, Stage, Replace, OpenFrame, FillFrame, WriteFails, Writing
<1>2. /\ Running(p) /\ of[p] = p /\ at[p] \in 1..Len(Entries(p)) /\ at[p] \in Nat
      /\ at = [at EXCEPT ![p] = at[p]] /\ Len(Entries(p)) \in Nat /\ Target(p) = Entries(p)
  BY <1>1, RunningFacts
  DEF Running, SkipWrite, Stage, Replace, OpenFrame, FillFrame, WriteFails, Writing, Entries
<1>3. UNCHANGED <<job, of, theme, boot, menu, outcome, slipped>>
  BY DEF SkipWrite, Stage, Replace, OpenFrame, FillFrame, WriteFails, system, history
<1>4. PICK x \in {"step", "staged", "filling", "undo"}, n \in {at[p], at[p] + 1, 1} :
         pc' = [pc EXCEPT ![p] = x] /\ at' = [at EXCEPT ![p] = n]
  BY <1>2 DEF SkipWrite, Stage, Replace, OpenFrame, FillFrame, WriteFails, Advance, Enter
<1>5. n \in Nat /\ n <= Len(Entries(p)) + 1
  BY <1>2, <1>4
<1>6. job[of[p]].surface \in Generated => Owes(p, job[of[p]].surface)'
  BY <1>2, <1>3, <1>4, <1>5, StillOwes
<1>7. CASE UNCHANGED files
  BY <1>2, <1>3, <1>4, <1>6, <1>7, WayDebt
<1>8. CASE ~UNCHANGED files
  <2>1. PICK c : files' = [files EXCEPT ![Entries(p)[at[p]]] = c]
    BY <1>2, <1>8
    DEF SkipWrite, Stage, Replace, OpenFrame, FillFrame, WriteFails, NextFile, system
  <2>2. QED
    BY <1>2, <1>3, <1>4, <1>6, <2>1, FileDebt
<1>9. QED
  BY <1>7, <1>8

LEMMA RestoreDebt ==
  ASSUME IInv, DebtInv, NEW p \in Helper,
         Unlink(p) \/ OpenRestored(p) \/ FillRestored(p) \/ RestoreFails(p)
  PROVE  DebtInv'
<1>1. pc[p] \in {"undo", "putting"}
  BY DEF Unlink, OpenRestored, FillRestored, RestoreFails, Restoring
<1>2. /\ Running(p) /\ at[p] \in 1..Len(Entries(p)) /\ at[p] \in Nat
      /\ at = [at EXCEPT ![p] = at[p]] /\ Len(Entries(p)) \in Nat
  BY <1>1, RunningFacts
  DEF Running, Unlink, OpenRestored, FillRestored, RestoreFails, Restoring
<1>3. UNCHANGED <<job, of, theme, boot, menu, outcome>> /\ slipped \subseteq slipped'
  BY DEF Unlink, OpenRestored, FillRestored, RestoreFails, Slip, system, history
<1>4. PICK x \in {"undo", "putting"}, n \in {at[p], at[p] + 1} :
         pc' = [pc EXCEPT ![p] = x] /\ at' = [at EXCEPT ![p] = n]
  BY <1>2 DEF Unlink, OpenRestored, FillRestored, RestoreFails, Slip, Advance
<1>5. n \in Nat /\ n <= Len(Entries(p)) + 1
  BY <1>2, <1>4
<1>6. job[of[p]].surface \in Generated => Owes(p, job[of[p]].surface)'
  BY <1>2, <1>3, <1>4, <1>5, StillOwes
<1>7. CASE RestoreFails(p)
  <2>1. UNCHANGED files
    BY <1>7 DEF RestoreFails, system
  <2>2. QED
    BY <1>2, <1>3, <1>4, <1>6, <2>1, WayDebt
<1>8. CASE ~RestoreFails(p)
  <2>1. UNCHANGED slipped /\ \E c : files' = [files EXCEPT ![Entries(p)[at[p]]] = c]
    BY <1>8 DEF Unlink, OpenRestored, FillRestored, Entry, history
  <2>2. PICK c : files' = [files EXCEPT ![Entries(p)[at[p]]] = c]
    BY <2>1
  <2>3. QED
    BY <1>2, <1>3, <1>4, <1>6, <2>1, <2>2, FileDebt
<1>9. QED
  BY <1>7, <1>8

-----------------------------------------------------------------------------
\* The commands.

\* The command of one surface leaves the other's sources and its product alone.
LEMMA OtherCommand ==
  ASSUME NEW c \in CommandNames \cup UndoNames, Effect(c) \/ NoEffect(c),
         NEW s \in Generated, c = "update-grub" <=> s # "grub", Fresh(s)
  PROVE  Fresh(s)'
<1>1. UNCHANGED files
  BY DEF Effect, NoEffect
<1>2. CASE s = "splash"
  <2>1. UNCHANGED <<theme, boot>>
    BY <1>2 DEF Effect, NoEffect
  <2>2. QED
    BY <1>1, <1>2, <2>1 DEF Fresh, BootSources
<1>3. CASE s = "grub"
  <2>1. UNCHANGED menu
    BY <1>3 DEF Effect, NoEffect, CommandNames, UndoNames
  <2>2. QED
    BY <1>1, <1>3, <2>1 DEF Fresh, MenuSources
<1>4. QED
  BY <1>2, <1>3 DEF Generated

\* A generator that succeeds makes its product from what is there.
LEMMA OwnGenerator ==
  ASSUME NEW s \in Generated, NEW c, c = IF s = "splash" THEN "initramfs" ELSE "update-grub",
         Effect(c)
  PROVE  Fresh(s)'
<1>1. UNCHANGED <<files, theme>>
  BY DEF Effect
<1>2. CASE s = "splash"
  <2>1. boot' = BootSources
    BY <1>2 DEF Effect
  <2>2. QED
    BY <1>1, <1>2, <2>1 DEF Fresh, BootSources
<1>3. CASE s = "grub"
  <2>1. menu' = MenuSources
    BY <1>3 DEF Effect
  <2>2. QED
    BY <1>1, <1>3, <2>1 DEF Fresh, MenuSources
<1>4. QED
  BY <1>2, <1>3 DEF Generated

\* p ran a command of its surface: either the generator, or it is still to come.
LEMMA SurfaceDebt ==
  ASSUME IInv, DebtInv, NEW p \in Helper, Running(p), NEW x, NEW n,
         UNCHANGED <<job, of, outcome>>, slipped \subseteq slipped',
         pc' = [pc EXCEPT ![p] = x], at' = [at EXCEPT ![p] = n],
         NEW c \in CommandNames \cup UndoNames, Effect(c) \/ NoEffect(c),
         job[of[p]].surface \in Generated, c = "update-grub" <=> job[of[p]].surface = "grub",
         Fresh(job[of[p]].surface)' \/ Owes(p, job[of[p]].surface)'
  PROVE  DebtInv'
<1>1. pc[p] # "ended"
  BY DEF Running
<1>2. ASSUME NEW s \in Generated
      PROVE  /\ Fresh(s) => Fresh(s)' \/ Owes(p, s)'
             /\ Owes(p, s) => Owes(p, s)' \/ Fresh(s)'
  <2>1. CASE s = job[of[p]].surface
    BY <2>1
  <2>2. CASE s # job[of[p]].surface
    <3>1. Fresh(s) => Fresh(s)'
      BY <2>2, OtherCommand DEF Generated
    <3>2. Owes(p, s) => Excused(p)
      BY <2>2 DEF Owes
    <3>3. Owes(p, s) => Owes(p, s)'
      BY <3>2 DEF Owes, Excused
    <3>4. QED
      BY <3>1, <3>3
  <2>3. QED
    BY <2>1, <2>2
<1>3. QED
  BY <1>1, <1>2, MoveDebt

LEMMA CommandDebt ==
  ASSUME IInv, DebtInv, NEW p \in Helper, RunCommand(p) \/ CommandFails(p)
  PROVE  DebtInv'
<1> DEFINE s == job[of[p]].surface
           k == at[p] - Len(Target(p))
<1>1. AtCommand(p) /\ UNCHANGED <<job, of, outcome, slipped>>
  BY DEF RunCommand, CommandFails, history
<1>2. /\ Running(p) /\ of[p] = p /\ at[p] \in Nat /\ Len(Target(p)) \in Nat
      /\ s \in Surfaces /\ job[p].prior \in Theme /\ Target(p) = Entries(p)
  BY <1>1, RunningFacts DEF AtCommand, Running, Entries
<1>3. k \in Nat \ {0} /\ k <= Len(Commands[s])
  BY <1>1, <1>2 DEF AtCommand
<1>4. /\ NextCommand(p) \in CommandNames
      /\ s \in Generated
      /\ NextCommand(p) = "update-grub" <=> s = "grub"
  BY <1>2, <1>3, CommandFacts, CommandKinds DEF NextCommand
<1>5. CASE RunCommand(p)
  <2>1. Effect(NextCommand(p)) /\ pc' = [pc EXCEPT ![p] = "step"]
        /\ at' = [at EXCEPT ![p] = at[p] + 1]
    BY <1>5 DEF RunCommand, Advance
  <2>2. CASE k = Len(Commands[s])
    <3>1. NextCommand(p) = IF s = "splash" THEN "initramfs" ELSE "update-grub"
      BY <1>2, <1>4, <2>2, PlanEnds DEF NextCommand
    <3>2. ASSUME NEW r \in Generated, r = s
          PROVE  Fresh(r)'
      BY <2>1, <3>1, <3>2, OwnGenerator
    <3>3. Fresh(s)'
      BY <1>1, <1>4, <3>2 DEF Fresh
    <3>4. QED
      BY <1>1, <1>2, <1>4, <2>1, <3>3, SurfaceDebt
  <2>3. CASE k # Len(Commands[s])
    <3>1. pc'[p] = "step" /\ at'[p] = at[p] + 1 /\ Len(Commands[s]) \in Nat
      BY <1>2, <1>4, <2>1, TypeParts, PlanEnds DEF IInv, BookTypes
    <3>2. at[p] + 1 <= Len(Targets[s]) + Len(Commands[s])
      BY <1>2, <1>3, <2>3, <3>1 DEF Target
    <3>3. Owes(p, s)'
      BY <1>1, <3>1, <3>2 DEF Owes
    <3>4. QED
      BY <1>1, <1>2, <1>4, <2>1, <3>3, SurfaceDebt
  <2>4. QED
    BY <2>2, <2>3
<1>6. CASE CommandFails(p)
  <2>1. NoEffect(NextCommand(p)) /\ pc' = [pc EXCEPT ![p] = "undo"]
        /\ at' = [at EXCEPT ![p] = 1]
    BY <1>6 DEF CommandFails, Enter
  <2>2. 1 \in Nat /\ 1 <= Len(Entries(p)) + 1
    BY <1>2
  <2>3. Owes(p, s)'
    BY <1>1, <1>2, <1>4, <2>1, <2>2, StillOwes
  <2>4. QED
    BY <1>1, <1>2, <1>4, <2>1, <2>3, SurfaceDebt
<1>7. QED
  BY <1>5, <1>6

LEMMA UndoCommandDebt ==
  ASSUME IInv, DebtInv, NEW p \in Helper, RunUndoCommand(p) \/ UndoCommandFails(p)
  PROVE  DebtInv'
<1> DEFINE s == job[of[p]].surface
           k == at[p] - Len(Entries(p))
<1>1. AtUndoCommand(p) /\ UNCHANGED <<job, of, outcome>> /\ slipped \subseteq slipped'
  BY DEF RunUndoCommand, UndoCommandFails, Slip, history
<1>2. /\ Running(p) /\ at[p] \in Nat /\ Len(Entries(p)) \in Nat
      /\ s \in Surfaces /\ job[of[p]].prior \in Theme
  BY <1>1, RunningFacts DEF AtUndoCommand, Running
<1>3. k \in Nat \ {0} /\ k <= Len(UndoCommands(job[of[p]]))
  BY <1>1, <1>2 DEF AtUndoCommand
<1>4. /\ UndoCommand(p) \in UndoNames
      /\ s \in Generated
      /\ UndoCommand(p) = "update-grub" <=> s = "grub"
  BY <1>2, <1>3, UndoCommandFacts, CommandKinds DEF UndoCommand
<1>5. pc' = [pc EXCEPT ![p] = "undo"] /\ at' = [at EXCEPT ![p] = at[p] + 1]
  BY DEF RunUndoCommand, UndoCommandFails, Slip, Advance
<1>6. CASE RunUndoCommand(p)
  <2>1. Effect(UndoCommand(p))
    BY <1>6 DEF RunUndoCommand
  <2>2. CASE k = Len(UndoCommands(job[of[p]]))
    <3>1. UndoCommand(p) = IF s = "splash" THEN "initramfs" ELSE "update-grub"
      BY <1>2, <1>4, <2>2, PlanEnds DEF UndoCommand
    <3>2. ASSUME NEW r \in Generated, r = s
          PROVE  Fresh(r)'
      BY <2>1, <3>1, <3>2, OwnGenerator
    <3>3. Fresh(s)'
      BY <1>1, <1>4, <3>2 DEF Fresh
    <3>4. QED
      BY <1>1, <1>2, <1>4, <1>5, <2>1, <3>3, SurfaceDebt
  <2>3. CASE k # Len(UndoCommands(job[of[p]]))
    <3>1. pc'[p] = "undo" /\ at'[p] = at[p] + 1 /\ Len(UndoCommands(job[of[p]])) \in Nat
      BY <1>2, <1>4, <1>5, TypeParts, PlanEnds DEF IInv, BookTypes
    <3>2. Entries(p) = Targets[s]
      BY DEF Entries, Target
    <3>3. at[p] + 1 <= Len(Entries(p)) + Len(UndoCommands(job[of[p]]))
      BY <1>2, <1>3, <2>3, <3>1
    <3>4. Owes(p, s)'
      BY <1>1, <3>1, <3>2, <3>3 DEF Owes
    <3>5. QED
      BY <1>1, <1>2, <1>4, <1>5, <2>1, <3>4, SurfaceDebt
  <2>4. QED
    BY <2>2, <2>3
<1>7. CASE UndoCommandFails(p)
  <2>1. NoEffect(UndoCommand(p)) /\ p \in slipped'
    BY <1>7 DEF UndoCommandFails, Slip
  <2>2. Owes(p, s)'
    BY <2>1 DEF Owes, Excused
  <2>3. QED
    BY <1>1, <1>2, <1>4, <1>5, <2>1, <2>2, SurfaceDebt
<1>8. QED
  BY <1>6, <1>7

-----------------------------------------------------------------------------
\* The theorem.

LEMMA InitDebt == Init => DebtInv
BY DEF Init, DebtInv, Generated, Fresh, BootSources, MenuSources

LEMMA NextDebt == IInv /\ DebtInv /\ [Next]_vars => DebtInv'
<1>1. SUFFICES ASSUME IInv, DebtInv, [Next]_vars
               PROVE  DebtInv'
  OBVIOUS
<1>2. CASE UNCHANGED vars
  <2>1. ASSUME NEW s \in Generated
        PROVE  /\ Fresh(s) => Fresh(s)'
               /\ \A p \in Helper : Owes(p, s) => Owes(p, s)'
    BY <1>2 DEF vars, Fresh, BootSources, MenuSources, Owes, Excused
  <2>2. pc' = pc /\ outcome' = outcome
    BY <1>2 DEF vars
  <2>3. ASSUME NEW s \in Generated
        PROVE  Fresh(s)' \/ \E p \in Helper : Owes(p, s)'
    BY <1>1, <2>1, <2>3 DEF DebtInv
  <2>4. QED
    BY <1>1, <2>2, <2>3 DEF DebtInv
<1>3. CASE Next
  <2>1. PICK p \in Helper : Start(p) \/ Backup(p) \/ Write(p) \/ Run(p) \/ Undo(p) \/ Kill(p)
    BY <1>3 DEF Next
  <2>2. CASE Start(p)
    BY <1>1, <2>2, StartDebt
  <2>3. CASE Backup(p)
    BY <1>1, <2>3, BackupDebt, EndDebt DEF Backup
  <2>4. CASE Write(p)
    BY <1>1, <2>4, WriteDebt, EndDebt DEF Write
  <2>5. CASE Run(p)
    BY <1>1, <2>5, CommandDebt, EndDebt DEF Run
  <2>6. CASE Undo(p)
    BY <1>1, <2>6, RestoreDebt, UndoCommandDebt, EndDebt DEF Undo
  <2>7. CASE Kill(p)
    BY <1>1, <2>7, EndDebt
  <2>8. QED
    BY <2>1, <2>2, <2>3, <2>4, <2>5, <2>6, <2>7
<1>4. QED
  BY <1>1, <1>2, <1>3

\* Nobody running, none excused: no one owes, so both products are fresh.
LEMMA NoDebtLeft == IInv /\ DebtInv => GeneratedFresh
<1>1. SUFFICES ASSUME DebtInv,
                      \A p \in Helper : /\ ~Running(p) /\ p \notin slipped
                                        /\ outcome[p] \notin {"killed", "raised"}
               PROVE  boot = BootSources /\ menu = MenuSources
  BY DEF GeneratedFresh
<1>2. \A p \in Helper, s \in Generated : ~Owes(p, s)
  BY <1>1 DEF Owes, Excused, Running
<1>3. Fresh("splash") /\ Fresh("grub")
  BY <1>1, <1>2 DEF DebtInv, Generated
<1>4. QED
  BY <1>3 DEF Fresh

\* However many invocations overlap, on whatever surfaces, and whichever of their
\* writes and commands fail: once all have ended, none killed or ended by an uncaught
\* error and no rollback with a failed step, boot image and menu match what is there
\* (the commands that end each plan and each undo list, lw_privileged.py).
THEOREM NoGeneratorForgotten == Spec => []GeneratedFresh
<1>1. Init => IInv /\ DebtInv
  BY InitHolds, InitDebt
<1>2. IInv /\ DebtInv /\ [Next]_vars => (IInv /\ DebtInv)'
  BY NextKeeps, NextDebt
<1>3. QED
  BY <1>1, <1>2, NoDebtLeft, PTL DEF Spec

-----------------------------------------------------------------------------
\* What an invocation leaves behind that met no other on its surface.

\* The surface an invocation works on.
On(p) == job[of[p]].surface

\* What an apply writes into a file is one of these.
Made(p, f) == CASE f \in Rendered -> {job[p].image}
                [] f \in Ini      -> {"ours", "both"}
                [] OTHER          -> {"ours"}

\* Two invocations that run on one surface have met.
Apart ==
  \A p, q \in Helper :
    p # q /\ Running(p) /\ Running(q) /\ On(p) = On(q) => p \in mixed

\* The books: only an apply has a manifest, copies or a plan; the theme selected is
\* ours or the one there was at first, and so is what a plan goes back to.
BookInv ==
  /\ theme.link \in {StartTheme, "ours"}
  /\ \A h \in Helper :
       /\ job[h].prior \in {"none", "ours", StartTheme}
       /\ manifest[h] # "none" => of[h] = h
       /\ pc[h] = "ready" => job[h] = NoJob /\ \A f \in File : saved[h][f] = "uncopied"

\* An apply that met nobody has copied what it found when it started.
CopyInv(h) ==
  h \notin mixed /\ job[h].surface \in Surfaces =>
    /\ \A f \in Range(Targets[job[h].surface]) :
         /\ saved[h][f] \in {"uncopied", was[h].files[f]}
         /\ pc[h] = "copy" => files[f] = was[h].files[f]
    /\ job[h].surface = "splash" =>
         \/ was[h].link = "ours"
         \/ was[h].link = StartTheme /\ job[h].prior = StartTheme

\* What the steps of such an apply have made so far.
StepInv(p) ==
  p \notin mixed /\ pc[p] \in {"step", "staged", "filling"} =>
    /\ \A i \in 1..Len(Target(p)) : i < at[p] => files[Target(p)[i]] \in Made(p, Target(p)[i])
    /\ pc[p] = "staged" => tmp[NextFile(p)] \in Made(p, NextFile(p))
    /\ pc[p] = "filling" => NextFile(p) \notin OwnFiles
    /\ job[p].surface = "splash" /\ at[p] > Len(Target(p)) + 2 => theme.link = "ours"
    /\ job[p].surface \in Generated
         /\ at[p] > Len(Target(p)) + Len(Commands[job[p].surface]) => Fresh(job[p].surface)

\* What the steps of its rollback, or of its undo, have given back so far.
RestoreInv(p) ==
  p \notin mixed /\ p \notin slipped /\ pc[p] \in {"undo", "putting"} =>
    /\ \A i \in 1..Len(Entries(p)) :
         i < at[p] => \/ files[Entries(p)[i]] = saved[of[p]][Entries(p)[i]]
                      \/ pc[p] = "putting" /\ Entries(p)[i] = Entry(p)
    /\ /\ job[of[p]].surface = "splash"
       /\ of[p] \notin mixed
       /\ was[of[p]].link # "ours"
       /\ at[p] > Len(Entries(p)) + 1
       => theme.link = StartTheme

WorkInv == /\ Apart
           /\ BookInv
           /\ \A p \in Helper : CopyInv(p) /\ StepInv(p) /\ RestoreInv(p)
-----------------------------------------------------------------------------
\* Surfaces share nothing.

\* A file belongs to one surface.
LEMMA SurfacesApart ==
  ASSUME NEW s \in Surfaces, NEW t \in Surfaces, s # t
  PROVE  \A f \in Range(Targets[s]) : f \notin Range(Targets[t])
<1>1. Range(Frames) \cap OwnFiles = {}
  BY ApplyAssumption
<1>2. ASSUME NEW u \in Surfaces
      PROVE  /\ u = "login" => Range(Targets[u]) \subseteq {"bg", "slick", "gtk"}
             /\ u = "grub" => Range(Targets[u]) \subseteq {"img", "dropin"}
             /\ u = "splash" => Range(Targets[u]) \subseteq SplashFiles
  <2>1. CASE u = "login"
    <3>1. Targets[u] = <<"bg", "slick", "gtk">>
      BY <2>1 DEF Targets
    <3>2. QED
      BY <2>1, <3>1 DEF Range
  <2>2. CASE u = "grub"
    <3>1. Targets[u] = <<"img", "dropin">>
      BY <2>2 DEF Targets
    <3>2. QED
      BY <2>2, <3>1 DEF Range
  <2>3. CASE u = "splash"
    <3>1. Targets[u] = <<"descr", "script">> \o Frames \o <<"wall">>
      BY <2>3 DEF Targets
    <3>2. Frames \in Seq(Range(Frames))
      BY ApplyAssumption DEF Range
    <3>3. /\ <<"descr", "script">> \in Seq(SplashFiles) /\ <<"wall">> \in Seq(SplashFiles)
          /\ Frames \in Seq(SplashFiles)
      BY <3>2 DEF SplashFiles
    <3>4. Targets[u] \in Seq(SplashFiles)
      BY <3>1, <3>3
    <3>5. QED
      BY <2>3, <3>4 DEF Range
  <2>4. QED
    BY <2>1, <2>2, <2>3, ApplyAssumption
<1>3. s \in {"login", "splash", "grub"} /\ t \in {"login", "splash", "grub"}
  BY ApplyAssumption
<1>4. QED
  BY <1>1, <1>2, <1>3 DEF SplashFiles, OwnFiles, Rendered, Ini

\* The sources of a generator are all files of its surface.
LEMMA SourcesOwned ==
  /\ \A f \in SplashFiles : f \in Range(Targets["splash"])
  /\ \A f \in {"img", "dropin"} : f \in Range(Targets["grub"])
<1>1. \A f \in {"img", "dropin"} : f \in Range(Targets["grub"])
  <2>1. Targets["grub"] = <<"img", "dropin">>
    BY DEF Targets
  <2>2. DOMAIN Targets["grub"] = 1..2 /\ Targets["grub"][1] = "img" /\ Targets["grub"][2] = "dropin"
    BY <2>1
  <2>3. QED
    BY <2>2 DEF Range
<1>2. ASSUME NEW f \in SplashFiles
      PROVE  f \in Range(Targets["splash"])
  <2>1. Targets["splash"] = <<"descr", "script">> \o Frames \o <<"wall">>
    BY DEF Targets
  <2>2. Frames \in Seq(STRING) /\ DOMAIN Frames = 1..Len(Frames)
    BY ApplyAssumption
  <2>3. /\ Len(Targets["splash"]) = Len(Frames) + 3
        /\ DOMAIN Targets["splash"] = 1..(Len(Frames) + 3)
        /\ Targets["splash"][1] = "descr" /\ Targets["splash"][2] = "script"
        /\ \A i \in 1..Len(Frames) : Targets["splash"][i + 2] = Frames[i]
        /\ Targets["splash"][Len(Frames) + 3] = "wall"
    BY <2>1, <2>2
  <2>4. CASE f \in Range(Frames)
    <3>1. PICK i \in 1..Len(Frames) : f = Frames[i]
      BY <2>2, <2>4 DEF Range
    <3>2. i + 2 \in DOMAIN Targets["splash"] /\ Targets["splash"][i + 2] = f
      BY <2>2, <2>3, <3>1
    <3>3. QED
      BY <3>2 DEF Range
  <2>5. CASE f \in {"descr", "script", "wall"}
    <3>1. Len(Frames) \in Nat
      BY <2>2
    <3>2. {1, 2, Len(Frames) + 3} \subseteq DOMAIN Targets["splash"]
      BY <2>3, <3>1
    <3>3. QED
      BY <2>3, <2>5, <3>2 DEF Range
  <2>6. QED
    BY <2>4, <2>5 DEF SplashFiles
<1>3. QED
  BY <1>1, <1>2

\* A step on surface s keeps to that surface.
Within(s) ==
  /\ \A f \in File : f \notin Range(Targets[s]) => files'[f] = files[f] /\ tmp'[f] = tmp[f]
  /\ s # "splash" => UNCHANGED <<theme, boot>>
  /\ s # "grub" => UNCHANGED menu

\* A step of q that starts nothing leaves the books of the others alone.
Frame(q) ==
  /\ UNCHANGED <<job, of, was, mixed>>
  /\ slipped \subseteq slipped'
  /\ Running(q)
  /\ pc'[q] # "ready"
  /\ \A p \in Helper : p # q => /\ pc'[p] = pc[p] /\ at'[p] = at[p]
                                /\ saved'[p] = saved[p] /\ manifest'[p] = manifest[p]

\* What a step on one surface leaves of another.
LEMMA OtherSurface ==
  ASSUME NEW s \in Surfaces, NEW t \in Surfaces, s # t, Within(t), IInv
  PROVE  /\ \A f \in Range(Targets[s]) : files'[f] = files[f] /\ tmp'[f] = tmp[f]
         /\ s = "splash" => UNCHANGED <<theme, boot>>
         /\ s \in Generated => (Fresh(s) => Fresh(s)')
<1>1. \A f \in Range(Targets[s]) : files'[f] = files[f] /\ tmp'[f] = tmp[f]
  BY SurfacesApart, TargetFacts DEF Within
<1>2. s = "splash" => UNCHANGED <<theme, boot>>
  BY DEF Within
<1>3. ASSUME s = "splash", Fresh(s) PROVE Fresh(s)'
  <2>1. \A f \in SplashFiles : files'[f] = files[f]
    BY <1>1, <1>3, SourcesOwned
  <2>2. QED
    BY <1>2, <1>3, <2>1 DEF Fresh, BootSources
<1>4. ASSUME s = "grub", Fresh(s) PROVE Fresh(s)'
  <2>1. \A f \in {"img", "dropin"} : files'[f] = files[f]
    BY <1>1, <1>4, SourcesOwned
  <2>2. UNCHANGED menu
    BY <1>4 DEF Within
  <2>3. QED
    BY <1>4, <2>1, <2>2 DEF Fresh, MenuSources
<1>5. QED
  BY <1>1, <1>2, <1>3, <1>4 DEF Generated

\* A step of q disturbs nobody who has not met it.
LEMMA OthersWork ==
  ASSUME IInv, WorkInv, NEW q \in Helper, Frame(q), Within(On(q)), NEW p \in Helper, p # q
  PROVE  CopyInv(p)' /\ StepInv(p)' /\ RestoreInv(p)'
<1>1. /\ UNCHANGED <<job, of, was, mixed>> /\ slipped \subseteq slipped'
      /\ pc'[p] = pc[p] /\ at'[p] = at[p] /\ saved'[p] = saved[p]
      /\ Running(q) /\ On(q) \in Surfaces
  BY RunningFacts DEF Frame, On
<1>2. ASSUME Running(p), p \notin mixed
      PROVE  /\ On(p) \in Surfaces /\ On(p) # On(q)
             /\ \A f \in Range(Targets[On(p)]) : files'[f] = files[f] /\ tmp'[f] = tmp[f]
             /\ On(p) = "splash" => UNCHANGED <<theme, boot>>
             /\ \A s \in Generated : s = On(p) /\ Fresh(s) => Fresh(s)'
             /\ saved'[of[p]] = saved[of[p]]
  <2>1. On(p) \in Surfaces
    BY <1>2, RunningFacts DEF On
  <2>2. On(p) # On(q)
    BY <1>1, <1>2 DEF WorkInv, Apart
  <2>3. of[p] # q \/ manifest[q] = "none"
    BY <2>2 DEF WorkInv, BookInv, On
  <2>4. saved'[of[p]] = saved[of[p]]
    <3>1. of[p] \in Helper /\ (of[p] = p \/ manifest[of[p]] = "whole")
      BY <1>2, RunningFacts DEF Running, Phase
    <3>2. QED
      BY <2>3, <3>1 DEF Frame
  <2>5. QED
    BY <1>1, <2>1, <2>2, <2>4, OtherSurface
<1>3. CopyInv(p)'
  <2>1. SUFFICES ASSUME p \notin mixed, job[p].surface \in Surfaces
                 PROVE  /\ \A f \in Range(Targets[job[p].surface]) :
                             /\ saved[p][f] \in {"uncopied", was[p].files[f]}
                             /\ pc[p] = "copy" => files'[f] = was[p].files[f]
                        /\ job[p].surface = "splash" =>
                             \/ was[p].link = "ours"
                             \/ was[p].link = StartTheme /\ job[p].prior = StartTheme
    BY <1>1 DEF CopyInv
  <2>2. CopyInv(p)
    BY DEF WorkInv
  <2>3. CASE pc[p] = "copy"
    <3>1. Running(p) /\ of[p] = p
      BY <2>3, RunningFacts DEF Running
    <3>2. QED
      BY <1>2, <2>1, <2>2, <3>1 DEF CopyInv, On
  <2>4. CASE pc[p] # "copy"
    BY <2>1, <2>2, <2>4 DEF CopyInv
  <2>5. QED
    BY <2>3, <2>4
<1>4. StepInv(p)'
  <2>1. SUFFICES ASSUME p \notin mixed, pc[p] \in {"step", "staged", "filling"}
                 PROVE  StepInv(p)'
    BY <1>1 DEF StepInv
  <2>2. StepInv(p) /\ Running(p) /\ of[p] = p
    BY <2>1, RunningFacts DEF WorkInv, Running
  <2>3. \A i \in 1..Len(Target(p)) : Target(p)[i] \in Range(Targets[On(p)])
    <3>1. Targets[On(p)] \in Seq(File)
      BY <1>2, <2>1, <2>2, TargetFacts
    <3>2. QED
      BY <2>2, <3>1 DEF Range, On, Target
  <2>4. /\ \A i \in 1..Len(Target(p)) : files'[Target(p)[i]] = files[Target(p)[i]]
        /\ pc[p] = "staged" => tmp'[NextFile(p)] = tmp[NextFile(p)]
    BY <1>2, <2>1, <2>2, <2>3, RunningFacts DEF NextFile
  <2>5. /\ Target(p)' = Target(p) /\ NextFile(p)' = NextFile(p)
        /\ \A f : Made(p, f)' = Made(p, f)
    BY <1>1 DEF Target, NextFile, Made
  <2>6. job[p].surface = On(p)
    BY <2>2 DEF On
  <2>7. job[p].surface \in Generated => (Fresh(job[p].surface) => Fresh(job[p].surface)')
    <3>1. \A s \in Generated : s = job[p].surface /\ Fresh(s) => Fresh(s)'
      BY <1>2, <2>1, <2>2, <2>6
    <3>2. job'[p].surface = job[p].surface
      BY <1>1
    <3>3. QED
      BY <3>1, <3>2 DEF Fresh
  <2>8. job[p].surface = "splash" => theme' = theme
    BY <1>2, <2>1, <2>2, <2>6
  <2>9. QED
    BY <1>1, <2>1, <2>2, <2>4, <2>5, <2>7, <2>8 DEF StepInv
<1>5. RestoreInv(p)'
  <2>1. SUFFICES ASSUME p \notin mixed, p \notin slipped, pc[p] \in {"undo", "putting"}
                 PROVE  RestoreInv(p)'
    BY <1>1 DEF RestoreInv
  <2>2. RestoreInv(p) /\ Running(p)
    BY <2>1 DEF WorkInv, Running
  <2>3. \A i \in 1..Len(Entries(p)) : Entries(p)[i] \in Range(Targets[On(p)])
    <3>1. Targets[On(p)] \in Seq(File)
      BY <1>2, <2>1, <2>2, TargetFacts
    <3>2. QED
      BY <2>2, <3>1 DEF Range, On, Target, Entries
  <2>4. \A i \in 1..Len(Entries(p)) : files'[Entries(p)[i]] = files[Entries(p)[i]]
    BY <1>2, <2>1, <2>2, <2>3
  <2>5. Entries(p)' = Entries(p) /\ Entry(p)' = Entry(p)
    BY <1>1 DEF Target, Entries, Entry
  <2>6. saved'[of[p]] = saved[of[p]]
    BY <1>2, <2>1, <2>2
  <2>7. job[of[p]].surface = "splash" => theme'.link = theme.link
    BY <1>2, <2>1, <2>2 DEF On
  <2>8. QED
    BY <1>1, <2>1, <2>2, <2>4, <2>5, <2>6, <2>7 DEF RestoreInv
<1>6. QED
  BY <1>3, <1>4, <1>5
LEMMA FrameFacts ==
  ASSUME IInv, WorkInv, NEW q \in Helper, Frame(q),
         theme'.link \in {StartTheme, "ours"},
         manifest'[q] = manifest[q] \/ of[q] = q
  PROVE  Apart' /\ BookInv'
<1>1. \A p \in Helper : Running(p)' => Running(p)
  BY DEF Frame, Running
<1>2. \A p \in Helper : (On(p))' = On(p)
  BY DEF Frame, On
<1>3. Apart'
  BY <1>1, <1>2 DEF WorkInv, Apart, Frame
<1>4. BookInv'
  <2>1. BookInv
    BY DEF WorkInv
  <2>2. ASSUME NEW h \in Helper
        PROVE  /\ job'[h].prior \in {"none", "ours", StartTheme}
               /\ manifest'[h] # "none" => of'[h] = h
               /\ pc'[h] = "ready" => job'[h] = NoJob /\ \A f \in File : saved'[h][f] = "uncopied"
    <3>1. CASE h = q
      BY <2>1, <3>1 DEF BookInv, Frame
    <3>2. CASE h # q
      BY <2>1, <3>2 DEF BookInv, Frame
    <3>3. QED
      BY <3>1, <3>2
  <2>3. QED
    BY <2>2 DEF BookInv
<1>5. QED
  BY <1>3, <1>4

\* With its copies left alone, q's copies are still of what it found.
LEMMA OwnCopies ==
  ASSUME WorkInv, NEW q \in Helper, Frame(q), saved'[q] = saved[q], pc'[q] # "copy"
  PROVE  CopyInv(q)'
BY DEF WorkInv, CopyInv, Frame

LEMMA WorkPasses ==
  ASSUME IInv, WorkInv, NEW q \in Helper, Frame(q), Within(On(q)),
         theme'.link \in {StartTheme, "ours"},
         manifest'[q] = manifest[q] \/ of[q] = q,
         CopyInv(q)', StepInv(q)', RestoreInv(q)'
  PROVE  WorkInv'
<1>1. Apart' /\ BookInv'
  BY FrameFacts
<1>2. \A p \in Helper : CopyInv(p)' /\ StepInv(p)' /\ RestoreInv(p)'
  BY OthersWork
<1>3. QED
  BY <1>1, <1>2 DEF WorkInv

\* A step that moves q and changes neither the system nor the backups.
LEMMA QuietWithin ==
  ASSUME NEW s, UNCHANGED <<files, tmp, theme, boot, menu>>
  PROVE  Within(s)
BY DEF Within

LEMMA LinkKnown ==
  ASSUME WorkInv, theme'.link = theme.link
  PROVE  theme'.link \in {StartTheme, "ours"}
BY DEF WorkInv, BookInv

\* A step of q alone, in the form all of them have.
LEMMA FrameOf ==
  ASSUME IInv, NEW q \in Helper, NEW x, NEW n, Running(q), x # "ready",
         UNCHANGED <<job, of, was, mixed>>, slipped \subseteq slipped',
         pc' = [pc EXCEPT ![q] = x], at' = [at EXCEPT ![q] = n],
         UNCHANGED saved \/ \E c : saved' = [saved EXCEPT ![q] = c],
         UNCHANGED manifest \/ \E m : manifest' = [manifest EXCEPT ![q] = m]
  PROVE  Frame(q) /\ pc'[q] = x /\ at'[q] = n
<1>1. BookTypes
  BY TypeParts DEF IInv
<1>2. pc'[q] = x /\ at'[q] = n
  BY <1>1 DEF BookTypes
<1>3. \A p \in Helper : p # q => pc'[p] = pc[p] /\ at'[p] = at[p]
  BY <1>1 DEF BookTypes
<1>4. \A p \in Helper : p # q => saved'[p] = saved[p] /\ manifest'[p] = manifest[p]
  BY <1>1 DEF BookTypes
<1>5. QED
  BY <1>2, <1>3, <1>4 DEF Frame

LEMMA EndWork ==
  ASSUME IInv, WorkInv, NEW p \in Helper,
         BackupRaises(p) \/ WriteRaises(p) \/ Applied(p) \/ RolledBack(p) \/ Kill(p)
  PROVE  WorkInv'
<1>1. /\ Running(p) /\ UNCHANGED <<files, tmp, theme, boot, menu, saved, manifest, job, of>>
      /\ UNCHANGED <<was, mixed, slipped>>
  BY DEF BackupRaises, WriteRaises, Applied, RolledBack, Kill, Writing, Running, system, backups,
         history
<1>2. pc' = [pc EXCEPT ![p] = "ended"] /\ at' = [at EXCEPT ![p] = 1]
  BY DEF BackupRaises, WriteRaises, Applied, RolledBack, Kill, End, Enter
<1>3. Frame(p) /\ pc'[p] = "ended"
  BY <1>1, <1>2, FrameOf
<1>4. StepInv(p)' /\ RestoreInv(p)'
  BY <1>3 DEF StepInv, RestoreInv
<1>5. CopyInv(p)'
  BY <1>1, <1>3, OwnCopies
<1>6. QED
  BY <1>1, <1>3, <1>4, <1>5, QuietWithin, LinkKnown, WorkPasses

LEMMA BackUpWork ==
  ASSUME IInv, WorkInv, NEW p \in Helper, BackUp(p)
  PROVE  WorkInv'
<1> DEFINE g == Target(p)[at[p]]
           s == job[p].surface
<1>1. /\ pc[p] = "copy" /\ of[p] = p /\ Running(p) /\ s \in Surfaces /\ at[p] \in Nat \ {0}
      /\ at[p] <= Len(Target(p))
  BY RunningFacts DEF BackUp, Running
<1>2. /\ UNCHANGED <<files, tmp, theme, boot, menu, manifest, job, of, was, mixed, slipped>>
      /\ saved' = [saved EXCEPT ![p][g] = files[g]]
      /\ pc' = [pc EXCEPT ![p] = "copy"] /\ at' = [at EXCEPT ![p] = at[p] + 1]
  BY DEF BackUp, Advance, system, history
<1>3. Targets[s] \in Seq(File) /\ Len(Targets[s]) \in Nat
  BY <1>1, TargetFacts
<1>4. g \in Range(Targets[s]) /\ g \in File
  BY <1>1, <1>3 DEF Target, Range
<1>5. saved \in [Helper -> [File -> Content \cup {"uncopied"}]]
  BY TypeParts DEF IInv, BookTypes
<1>6. Frame(p) /\ pc'[p] = "copy"
  <2>1. \E c : saved' = [saved EXCEPT ![p] = c]
    BY <1>2
  <2>2. QED
    BY <1>1, <1>2, <2>1, FrameOf
<1>7. StepInv(p)' /\ RestoreInv(p)'
  BY <1>6 DEF StepInv, RestoreInv
<1>8. CopyInv(p)'
  <2>1. SUFFICES ASSUME p \notin mixed
                 PROVE  CopyInv(p)'
    BY <1>2 DEF CopyInv
  <2>2. CopyInv(p)
    BY DEF WorkInv
  <2>3. ASSUME NEW f \in Range(Targets[s])
        PROVE  saved'[p][f] \in {"uncopied", was[p].files[f]} /\ files'[f] = was[p].files[f]
    <3>1. f \in File
      BY <1>1, TargetFacts
    <3>2. saved[p][f] \in {"uncopied", was[p].files[f]} /\ files[f] = was[p].files[f]
      BY <1>1, <2>1, <2>2 DEF CopyInv
    <3>3. saved'[p][f] = IF f = g THEN files[g] ELSE saved[p][f]
      BY <1>2, <1>5, <3>1
    <3>4. QED
      BY <1>2, <3>2, <3>3
  <2>4. QED
    BY <1>1, <1>2, <2>1, <2>2, <2>3 DEF CopyInv
<1>9. QED
  BY <1>1, <1>2, <1>6, <1>7, <1>8, QuietWithin, LinkKnown, WorkPasses

LEMMA ManifestWork ==
  ASSUME IInv, WorkInv, NEW p \in Helper, OpenManifest(p) \/ WriteManifest(p)
  PROVE  WorkInv'
<1>1. /\ pc[p] \in {"copy", "noting"} /\ of[p] = p /\ Running(p) /\ job[p].surface \in Surfaces
  <2>1. pc[p] \in {"copy", "noting"}
    BY DEF OpenManifest, WriteManifest
  <2>2. QED
    BY <2>1, RunningFacts DEF Running
<1>2. /\ UNCHANGED <<files, tmp, theme, boot, menu, saved, job, of, was, mixed, slipped>>
      /\ \E m : manifest' = [manifest EXCEPT ![p] = m]
  BY DEF OpenManifest, WriteManifest, system, history
<1>3. PICK x \in {"noting", "step"} : pc' = [pc EXCEPT ![p] = x] /\ at' = [at EXCEPT ![p] = 1]
  BY DEF OpenManifest, WriteManifest, Enter
<1>4. Frame(p) /\ pc'[p] = x /\ at'[p] = 1
  BY <1>1, <1>2, <1>3, FrameOf
<1>5. CopyInv(p)' /\ RestoreInv(p)'
  <2>1. RestoreInv(p)'
    BY <1>4 DEF RestoreInv
  <2>2. QED
    BY <1>2, <1>4, <2>1, OwnCopies
<1>6. StepInv(p)'
  <2>1. Target(p)' = Target(p) /\ Len(Target(p)) \in Nat
    BY <1>1, <1>2, TargetFacts DEF Target
  <2>2. job[p].surface \in Generated => Len(Commands[job[p].surface]) \in Nat \ {0}
    <3>1. SUFFICES ASSUME job[p].surface \in Generated
                   PROVE  Len(Commands[job[p].surface]) \in Nat \ {0}
      OBVIOUS
    <3>2. BookTypes
      BY TypeParts DEF IInv
    <3>3. job[p].prior \in Theme
      BY <3>2 DEF BookTypes
    <3>4. QED
      BY <3>1, <3>3, PlanEnds
  <2>3. /\ ~(at'[p] > Len(Target(p)) + 2) /\ \A i \in 1..Len(Target(p)) : ~(i < at'[p])
        /\ job[p].surface \in Generated => ~(at'[p] > Len(Target(p)) + Len(Commands[job[p].surface]))
    BY <1>4, <2>1, <2>2
  <2>4. pc'[p] \notin {"staged", "filling"}
    BY <1>4
  <2>5. QED
    BY <1>2, <2>1, <2>3, <2>4 DEF StepInv
<1>7. QED
  BY <1>1, <1>2, <1>4, <1>5, <1>6, QuietWithin, LinkKnown, WorkPasses
-----------------------------------------------------------------------------
\* The steps of a plan.

LEMMA FileWithin ==
  ASSUME IInv, NEW s \in Surfaces, NEW i \in 1..Len(Targets[s]),
         UNCHANGED files \/ \E c : files' = [files EXCEPT ![Targets[s][i]] = c],
         UNCHANGED tmp \/ \E c : tmp' = [tmp EXCEPT ![Targets[s][i]] = c],
         UNCHANGED <<theme, boot, menu>>
  PROVE  Within(s)
<1>1. files \in [File -> Content] /\ tmp \in [File -> Content]
  BY TypeParts DEF IInv, SystemTypes
<1>2. Targets[s][i] \in Range(Targets[s])
  BY TargetFacts DEF Range
<1>3. \A f \in File : f # Targets[s][i] => files'[f] = files[f] /\ tmp'[f] = tmp[f]
  BY <1>1
<1>4. QED
  BY <1>2, <1>3 DEF Within

LEMMA ProducedMade ==
  ASSUME NEW p, NEW f
  PROVE  Produced(p, f) \in Made(p, f)
BY DEF Produced, Made, Rendered, Ini

\* p has made what it was to make of its next file, and goes on to the one after it.
LEMMA NextStep ==
  ASSUME IInv, WorkInv, NEW p \in Helper, pc[p] \in {"step", "staged", "filling"},
         at[p] \in 1..Len(Target(p)), UNCHANGED <<job, mixed>>,
         pc'[p] = "step", at'[p] = at[p] + 1,
         p \notin mixed => files'[NextFile(p)] \in Made(p, NextFile(p)),
         \A i \in 1..Len(Target(p)) :
            Target(p)[i] # NextFile(p) => files'[Target(p)[i]] = files[Target(p)[i]]
  PROVE  StepInv(p)'
<1>1. SUFFICES ASSUME p \notin mixed
               PROVE  StepInv(p)'
  BY DEF StepInv
<1>2. StepInv(p) /\ of[p] = p /\ Running(p) /\ job[p].surface \in Surfaces
  BY RunningFacts DEF WorkInv, Running
<1>3. Target(p)' = Target(p) /\ \A f : Made(p, f)' = Made(p, f)
  BY DEF Target, Made
<1>4. Len(Target(p)) \in Nat /\ at[p] \in Nat
  BY <1>2, TargetFacts DEF Target
<1>5. ASSUME NEW i \in 1..Len(Target(p)), i < at[p] + 1
      PROVE  files'[Target(p)[i]] \in Made(p, Target(p)[i])
  <2>1. CASE Target(p)[i] = NextFile(p)
    BY <1>1, <2>1
  <2>2. CASE Target(p)[i] # NextFile(p)
    <3>1. i # at[p]
      BY <2>2 DEF NextFile
    <3>2. i < at[p]
      BY <1>4, <1>5, <3>1
    <3>3. QED
      BY <1>1, <1>2, <2>2, <3>2 DEF StepInv
  <2>3. QED
    BY <2>1, <2>2
<1>6. job[p].surface \in Generated => Len(Commands[job[p].surface]) \in Nat \ {0}
  <2>1. BookTypes
    BY TypeParts DEF IInv
  <2>2. job[p].prior \in Theme
    BY <2>1 DEF BookTypes
  <2>3. QED
    BY <2>2, PlanEnds
<1>7. /\ ~(at[p] + 1 > Len(Target(p)) + 2)
      /\ job[p].surface \in Generated =>
            ~(at[p] + 1 > Len(Target(p)) + Len(Commands[job[p].surface]))
  BY <1>4, <1>6
<1>8. QED
  BY <1>3, <1>5, <1>7 DEF StepInv

LEMMA WriteWork ==
  ASSUME IInv, WorkInv, NEW p \in Helper,
         SkipWrite(p) \/ Stage(p) \/ Replace(p) \/ OpenFrame(p) \/ FillFrame(p)
  PROVE  WorkInv'
<1> DEFINE g == NextFile(p)
           s == job[p].surface
<1>1. pc[p] \in {"step", "staged", "filling"}
  BY DEF SkipWrite, Stage, Replace, OpenFrame, FillFrame, Writing
<1>2. /\ Running(p) /\ of[p] = p /\ s \in Surfaces /\ Target(p) = Targets[s]
      /\ at[p] \in 1..Len(Target(p)) /\ at[p] \in Nat
  <2>1. at[p] \in 1..Len(Target(p)) /\ at[p] \in Nat
    BY <1>1, RunningFacts DEF SkipWrite, Stage, Replace, OpenFrame, FillFrame
  <2>2. QED
    BY <1>1, <2>1, RunningFacts DEF Running, Target
<1>3. /\ UNCHANGED <<theme, boot, menu, saved, manifest, job, of, was, mixed, slipped>>
      /\ UNCHANGED files \/ \E c : files' = [files EXCEPT ![g] = c]
      /\ UNCHANGED tmp \/ \E c : tmp' = [tmp EXCEPT ![g] = c]
  BY DEF SkipWrite, Stage, Replace, OpenFrame, FillFrame, system, backups, history
<1>4. Within(On(p))
  BY <1>2, <1>3, FileWithin DEF On, NextFile
<1>5. SystemTypes /\ g \in File /\ \A i \in 1..Len(Target(p)) : Target(p)[i] \in File
  BY <1>2, TargetFacts, TypeParts DEF IInv, NextFile
<1>6. \A i \in 1..Len(Target(p)) : Target(p)[i] # g => files'[Target(p)[i]] = files[Target(p)[i]]
  BY <1>3, <1>5 DEF SystemTypes
<1>7. PICK x, n : /\ pc' = [pc EXCEPT ![p] = x] /\ at' = [at EXCEPT ![p] = n]
                  /\ \/ x = "step" /\ n = at[p] + 1
                     \/ x \in {"staged", "filling"} /\ n = at[p]
  <2>1. CASE SkipWrite(p) \/ Replace(p) \/ FillFrame(p)
    <3>1. pc' = [pc EXCEPT ![p] = "step"] /\ at' = [at EXCEPT ![p] = at[p] + 1]
      BY <2>1 DEF SkipWrite, Replace, FillFrame, Advance
    <3>2. QED
      BY <3>1
  <2>2. CASE Stage(p) \/ OpenFrame(p)
    <3>1. at' = [at EXCEPT ![p] = at[p]]
      BY <2>2, RunningFacts DEF Stage, OpenFrame
    <3>2. QED
      BY <2>2, <3>1 DEF Stage, OpenFrame
  <2>3. QED
    BY <2>1, <2>2
<1>8. Frame(p) /\ pc'[p] = x /\ at'[p] = n
  <2>1. x # "ready"
    BY <1>7
  <2>2. QED
    BY <1>2, <1>3, <1>7, <2>1, FrameOf
<1>9. RestoreInv(p)' /\ CopyInv(p)'
  <2>1. x \notin {"undo", "putting", "copy"}
    BY <1>7
  <2>2. QED
    BY <1>3, <1>8, <2>1, OwnCopies DEF RestoreInv
<1>10. StepInv(p) /\ Target(p)' = Target(p) /\ \A f : Made(p, f)' = Made(p, f)
  BY <1>3 DEF WorkInv, Target, Made
<1>11. StepInv(p)'
  <2>1. CASE SkipWrite(p)
    <3>1. pc'[p] = "step" /\ at'[p] = at[p] + 1 /\ UNCHANGED files /\ files[g] = Produced(p, g)
      <4>1. pc' = [pc EXCEPT ![p] = "step"] /\ at' = [at EXCEPT ![p] = @ + 1]
        BY <2>1 DEF SkipWrite, Advance
      <4>2. BookTypes
        BY TypeParts DEF IInv
      <4>3. QED
        BY <2>1, <4>1, <4>2 DEF SkipWrite, BookTypes, system
    <3>2. files'[g] \in Made(p, g)
      BY <3>1, ProducedMade
    <3>3. QED
      BY <1>1, <1>2, <1>3, <1>6, <3>1, <3>2, NextStep
  <2>2. CASE Stage(p)
    <3>1. pc'[p] = "staged" /\ at'[p] = at[p] /\ UNCHANGED files /\ tmp'[g] = Produced(p, g)
      <4>1. pc' = [pc EXCEPT ![p] = "staged"] /\ UNCHANGED <<at, files>>
            /\ tmp' = [tmp EXCEPT ![g] = Produced(p, g)]
        BY <2>2 DEF Stage
      <4>2. BookTypes
        BY TypeParts DEF IInv
      <4>3. QED
        BY <1>5, <4>1, <4>2 DEF BookTypes, SystemTypes
    <3>2. tmp'[g] \in Made(p, g) /\ NextFile(p)' = g
      BY <1>3, <3>1, ProducedMade DEF NextFile, Target
    <3>3. pc[p] = "step"
      BY <2>2 DEF Stage, Writing
    <3>4. job[p].surface \in Generated => (Fresh(job[p].surface) => Fresh(job[p].surface)')
      BY <1>3, <3>1 DEF Fresh, BootSources, MenuSources
    <3>5. QED
      BY <1>3, <1>10, <3>1, <3>2, <3>3, <3>4 DEF StepInv
  <2>3. CASE Replace(p)
    <3>1. /\ pc[p] = "staged" /\ pc'[p] = "step" /\ at'[p] = at[p] + 1
          /\ files'[g] = tmp[g]
      <4>1. /\ pc' = [pc EXCEPT ![p] = "step"] /\ at' = [at EXCEPT ![p] = @ + 1]
            /\ pc[p] = "staged" /\ files' = [files EXCEPT ![g] = tmp[g]]
        BY <2>3 DEF Replace, Advance
      <4>2. BookTypes
        BY TypeParts DEF IInv
      <4>3. QED
        BY <1>5, <4>1, <4>2 DEF BookTypes, SystemTypes
    <3>2. p \notin mixed => files'[g] \in Made(p, g)
      BY <1>10, <3>1 DEF StepInv
    <3>3. QED
      BY <1>1, <1>2, <1>3, <1>6, <3>1, <3>2, NextStep
  <2>4. CASE OpenFrame(p)
    <3>1. /\ pc[p] = "step" /\ pc'[p] = "filling" /\ at'[p] = at[p] /\ g \notin OwnFiles
          /\ files[g] # "ours"
      <4>1. pc' = [pc EXCEPT ![p] = "filling"] /\ UNCHANGED at
        BY <2>4 DEF OpenFrame
      <4>2. BookTypes
        BY TypeParts DEF IInv
      <4>3. QED
        BY <2>4, <4>1, <4>2 DEF OpenFrame, BookTypes, Writing
    <3>2. Made(p, g) = {"ours"}
      BY <3>1 DEF Made, OwnFiles
    <3>3. ASSUME p \notin mixed, NEW i \in 1..Len(Target(p)), i < at[p]
          PROVE  files'[Target(p)[i]] \in Made(p, Target(p)[i])
      <4>1. files[Target(p)[i]] \in Made(p, Target(p)[i])
        BY <1>10, <3>1, <3>3 DEF StepInv
      <4>2. Target(p)[i] # g
        BY <3>1, <3>2, <4>1
      <4>3. QED
        BY <1>6, <4>1, <4>2
    <3>4. /\ ~(at[p] > Len(Target(p)) + 2)
          /\ job[p].surface \in Generated =>
                ~(at[p] > Len(Target(p)) + Len(Commands[job[p].surface]))
      <4>1. job[p].surface \in Generated => Len(Commands[job[p].surface]) \in Nat \ {0}
        <5>1. BookTypes
          BY TypeParts DEF IInv
        <5>2. job[p].prior \in Theme
          BY <5>1 DEF BookTypes
        <5>3. QED
          BY <5>2, PlanEnds
      <4>2. Len(Target(p)) \in Nat /\ at[p] \in Nat /\ at[p] <= Len(Target(p))
        BY <1>2, TargetFacts
      <4>3. ASSUME NEW k \in Nat \ {0}
            PROVE  ~(at[p] > Len(Target(p)) + k)
        BY <4>2
      <4>4. ~(at[p] > Len(Target(p)) + 2)
        BY <4>2
      <4>5. QED
        BY <4>1, <4>3, <4>4
    <3>5. NextFile(p)' = g
      BY <1>3, <3>1 DEF NextFile, Target
    <3>6. QED
      BY <1>3, <1>10, <3>1, <3>3, <3>4, <3>5 DEF StepInv
  <2>5. CASE FillFrame(p)
    <3>1. /\ pc[p] = "filling" /\ pc'[p] = "step" /\ at'[p] = at[p] + 1
          /\ files'[g] = "ours"
      <4>1. /\ pc' = [pc EXCEPT ![p] = "step"] /\ at' = [at EXCEPT ![p] = @ + 1]
            /\ pc[p] = "filling" /\ files' = [files EXCEPT ![g] = "ours"]
        BY <2>5 DEF FillFrame, Advance
      <4>2. BookTypes
        BY TypeParts DEF IInv
      <4>3. QED
        BY <1>5, <4>1, <4>2 DEF BookTypes, SystemTypes
    <3>2. p \notin mixed => files'[g] \in Made(p, g)
      BY <1>10, <3>1 DEF StepInv, Made, OwnFiles
    <3>3. QED
      BY <1>1, <1>2, <1>3, <1>6, <3>1, <3>2, NextStep
  <2>6. QED
    BY <2>1, <2>2, <2>3, <2>4, <2>5
<1>12. QED
  BY <1>2, <1>3, <1>4, <1>8, <1>9, <1>11, LinkKnown, WorkPasses
\* A rollback begins with nothing given back.
LEMMA RollbackBegins ==
  ASSUME IInv, NEW p \in Helper, Running(p), UNCHANGED <<job, of>>,
         pc'[p] = "undo", at'[p] = 1
  PROVE  RestoreInv(p)' /\ StepInv(p)'
<1>1. Entries(p)' = Entries(p) /\ Len(Entries(p)) \in Nat
  BY RunningFacts DEF Entries, Target
<1>2. ~(at'[p] > Len(Entries(p)) + 1) /\ \A i \in 1..Len(Entries(p)) : ~(i < at'[p])
  BY <1>1
<1>3. QED
  BY <1>1, <1>2 DEF RestoreInv, StepInv

LEMMA WriteFailsWork ==
  ASSUME IInv, WorkInv, NEW p \in Helper, WriteFails(p)
  PROVE  WorkInv'
<1>1. /\ Running(p) /\ UNCHANGED <<files, tmp, theme, boot, menu, saved, manifest, job, of>>
      /\ UNCHANGED <<was, mixed, slipped>>
  BY DEF WriteFails, Writing, Running, system, backups
<1>2. pc' = [pc EXCEPT ![p] = "undo"] /\ at' = [at EXCEPT ![p] = 1]
  BY DEF WriteFails, Enter
<1>3. Frame(p) /\ pc'[p] = "undo" /\ at'[p] = 1
  BY <1>1, <1>2, FrameOf
<1>4. RestoreInv(p)' /\ StepInv(p)' /\ CopyInv(p)'
  BY <1>1, <1>3, RollbackBegins, OwnCopies
<1>5. QED
  BY <1>1, <1>3, <1>4, QuietWithin, LinkKnown, WorkPasses

\* A command keeps to its surface.
LEMMA CommandWithin ==
  ASSUME NEW s \in Generated, NEW c \in CommandNames \cup UndoNames,
         c = "update-grub" <=> s = "grub", Effect(c) \/ NoEffect(c)
  PROVE  Within(s)
<1>1. UNCHANGED <<files, tmp>>
  BY DEF Effect, NoEffect
<1>2. s # "grub" => UNCHANGED menu
  BY DEF Effect, NoEffect, CommandNames, UndoNames
<1>3. s # "splash" => UNCHANGED <<theme, boot>>
  BY DEF Effect, NoEffect, Generated
<1>4. QED
  BY <1>1, <1>2, <1>3 DEF Within

\* No command of a plan brings a theme that is neither ours nor the first one.
LEMMA CommandLink ==
  ASSUME WorkInv, NEW c \in CommandNames \cup {"ours", "remove"} \cup {StartTheme},
         c # "none", Effect(c) \/ NoEffect(c)
  PROVE  theme'.link \in {StartTheme, "ours"}
<1>1. theme.link \in {StartTheme, "ours"} /\ StartTheme \in {"none", "distro"}
  BY ApplyAssumption DEF WorkInv, BookInv
<1>2. CASE NoEffect(c)
  BY <1>1, <1>2 DEF NoEffect
<1>3. CASE Effect(c)
  <2>1. CASE c = "install"
    <3>1. \E l \in {theme.link, "ours"} \ {"none"} : theme' = [link |-> l, offered |-> TRUE]
      BY <1>3, <2>1 DEF Effect
    <3>2. QED
      BY <1>1, <3>1
  <2>2. CASE c \in {"select", "ours"}
    <3>1. theme' = [theme EXCEPT !.link = "ours"]
      BY <1>3, <2>2 DEF Effect
    <3>2. theme'.link \in {theme.link, "ours"}
      BY <3>1
    <3>3. QED
      BY <1>1, <3>2
  <2>3. CASE c = "distro"
    <3>1. theme' = [theme EXCEPT !.link = "distro"] /\ StartTheme = "distro"
      BY <1>1, <1>3, <2>3 DEF Effect, CommandNames
    <3>2. theme'.link \in {theme.link, "distro"}
      BY <3>1
    <3>3. QED
      BY <1>1, <3>1, <3>2
  <2>4. CASE c = "remove"
    <3>1. theme' = [link |-> IF theme.link = "ours" THEN StartTheme ELSE theme.link,
                    offered |-> FALSE]
      BY <1>3, <2>4 DEF Effect
    <3>2. QED
      BY <1>1, <3>1
  <2>5. CASE c \in {"initramfs", "update-grub"}
    <3>1. UNCHANGED theme
      BY <1>3, <2>5 DEF Effect
    <3>2. QED
      BY <1>1, <3>1
  <2>6. QED
    BY <1>1, <2>1, <2>2, <2>3, <2>4, <2>5 DEF CommandNames
<1>4. QED
  BY <1>2, <1>3

LEMMA CommandWork ==
  ASSUME IInv, WorkInv, NEW p \in Helper, RunCommand(p) \/ CommandFails(p)
  PROVE  WorkInv'
<1> DEFINE s == job[p].surface
           k == at[p] - Len(Target(p))
           c == NextCommand(p)
<1>1. AtCommand(p) /\ UNCHANGED <<saved, manifest, job, of, was, mixed, slipped>>
  BY DEF RunCommand, CommandFails, history, backups
<1>2. /\ Running(p) /\ of[p] = p /\ at[p] \in Nat /\ Len(Target(p)) \in Nat
      /\ s \in Surfaces /\ job[p].prior \in Theme /\ Target(p) = Entries(p) /\ On(p) = s
      /\ pc[p] = "step"
  BY <1>1, RunningFacts DEF AtCommand, Running, Entries, On
<1>3. k \in Nat \ {0} /\ k <= Len(Commands[s])
  BY <1>1, <1>2 DEF AtCommand
<1>4. c \in CommandNames /\ s \in Generated /\ (c = "update-grub" <=> s = "grub")
  BY <1>2, <1>3, CommandFacts, CommandKinds DEF NextCommand
<1>5. Effect(c) \/ NoEffect(c)
  BY DEF RunCommand, CommandFails
<1>6. Within(On(p)) /\ theme'.link \in {StartTheme, "ours"}
  <2>1. c # "none"
    BY <1>4 DEF CommandNames
  <2>2. QED
    BY <1>2, <1>4, <1>5, <2>1, CommandWithin, CommandLink
<1>7. BookTypes
  BY TypeParts DEF IInv
<1>8. CASE CommandFails(p)
  <2>1. pc' = [pc EXCEPT ![p] = "undo"] /\ at' = [at EXCEPT ![p] = 1]
    BY <1>8 DEF CommandFails, Enter
  <2>2. Frame(p) /\ pc'[p] = "undo" /\ at'[p] = 1
    BY <1>1, <1>2, <2>1, FrameOf
  <2>3. RestoreInv(p)' /\ StepInv(p)' /\ CopyInv(p)'
    BY <1>1, <1>2, <2>2, RollbackBegins, OwnCopies
  <2>4. QED
    BY <1>1, <1>6, <2>2, <2>3, WorkPasses
<1>9. CASE RunCommand(p)
  <2>1. /\ pc' = [pc EXCEPT ![p] = "step"] /\ at' = [at EXCEPT ![p] = at[p] + 1]
        /\ Effect(c) /\ UNCHANGED files
    BY <1>9 DEF RunCommand, Advance, Effect
  <2>2. Frame(p) /\ pc'[p] = "step" /\ at'[p] = at[p] + 1
    BY <1>1, <1>2, <2>1, FrameOf
  <2>3. CopyInv(p)' /\ RestoreInv(p)'
    BY <1>1, <2>2, OwnCopies DEF RestoreInv
  <2>4. StepInv(p) /\ Target(p)' = Target(p) /\ \A f : Made(p, f)' = Made(p, f)
    BY <1>1 DEF WorkInv, Target, Made
  <2>5. ASSUME p \notin mixed, NEW i \in 1..Len(Target(p))
        PROVE  files'[Target(p)[i]] \in Made(p, Target(p)[i])
    <3>1. i < at[p]
      BY <1>1, <1>2 DEF AtCommand
    <3>2. QED
      BY <1>2, <2>1, <2>4, <2>5, <3>1 DEF StepInv
  <2>6. ASSUME p \notin mixed, s = "splash", at[p] + 1 > Len(Target(p)) + 2
        PROVE  theme'.link = "ours"
    <3>1. Commands[s] = <<"install", "select", "initramfs">>
      BY <2>6 DEF Commands
    <3>2. k \in 2..3
      BY <1>2, <1>3, <2>6, <3>1
    <3>3. CASE k = 2
      <4>1. c = "select"
        BY <3>1, <3>3 DEF NextCommand
      <4>2. theme' = [theme EXCEPT !.link = "ours"]
        BY <2>1, <4>1 DEF Effect
      <4>3. theme \in [link : Theme, offered : BOOLEAN]
        BY TypeParts DEF IInv, SystemTypes
      <4>4. QED
        BY <4>2, <4>3
    <3>4. CASE k = 3
      <4>1. c = "initramfs"
        BY <3>1, <3>4 DEF NextCommand
      <4>2. UNCHANGED theme
        BY <2>1, <4>1 DEF Effect
      <4>3. at[p] > Len(Target(p)) + 2
        BY <1>2, <3>4
      <4>4. QED
        BY <1>2, <2>4, <2>6, <4>2, <4>3 DEF StepInv
    <3>5. QED
      BY <3>2, <3>3, <3>4
  <2>7. ASSUME at[p] + 1 > Len(Target(p)) + Len(Commands[s])
        PROVE  \A r \in Generated : r = s => Fresh(r)'
    <3>1. Len(Commands[s]) \in Nat
      BY <1>2, <1>4, PlanEnds
    <3>2. k = Len(Commands[s])
      BY <1>2, <1>3, <2>7, <3>1
    <3>3. c = IF s = "splash" THEN "initramfs" ELSE "update-grub"
      BY <1>2, <1>4, <3>2, PlanEnds DEF NextCommand
    <3>4. QED
      BY <2>1, <3>3, OwnGenerator
  <2>8. job'[p].surface = s /\ (s \in Generated => \A r \in Generated : r = s /\ Fresh(r)' => Fresh(s)')
    BY <1>1 DEF Fresh
  <2>9. StepInv(p)'
    BY <1>1, <1>4, <2>2, <2>4, <2>5, <2>6, <2>7, <2>8 DEF StepInv
  <2>10. QED
    BY <1>1, <1>6, <2>2, <2>3, <2>9, WorkPasses
<1>10. QED
  BY <1>8, <1>9

-----------------------------------------------------------------------------
\* The steps of a rollback.

\* p has given back its next file, and goes on to the one after it.
LEMMA NextEntry ==
  ASSUME IInv, WorkInv, NEW p \in Helper, pc[p] \in {"undo", "putting"},
         at[p] \in 1..Len(Entries(p)), UNCHANGED <<job, of, mixed, saved>>,
         slipped \subseteq slipped',
         pc'[p] = "undo", at'[p] = at[p] + 1,
         p \notin slipped' => files'[Entry(p)] = Copy(p),
         \A i \in 1..Len(Entries(p)) :
            Entries(p)[i] # Entry(p) => files'[Entries(p)[i]] = files[Entries(p)[i]]
  PROVE  RestoreInv(p)'
<1>1. SUFFICES ASSUME p \notin mixed, p \notin slipped'
               PROVE  RestoreInv(p)'
  BY DEF RestoreInv
<1>2. RestoreInv(p) /\ Running(p) /\ p \notin slipped
  BY <1>1 DEF WorkInv, Running
<1>3. Entries(p)' = Entries(p) /\ Len(Entries(p)) \in Nat /\ at[p] \in Nat
  BY <1>2, RunningFacts DEF Entries, Target
<1>4. ASSUME NEW i \in 1..Len(Entries(p)), i < at[p] + 1
      PROVE  files'[Entries(p)[i]] = saved[of[p]][Entries(p)[i]]
  <2>1. CASE Entries(p)[i] = Entry(p)
    BY <1>1, <2>1 DEF Copy
  <2>2. CASE Entries(p)[i] # Entry(p)
    <3>1. i # at[p]
      BY <2>2 DEF Entry
    <3>2. i < at[p]
      BY <1>3, <1>4, <3>1
    <3>3. QED
      BY <1>1, <1>2, <2>2, <3>2 DEF RestoreInv
  <2>3. QED
    BY <2>1, <2>2
<1>5. ~(at[p] + 1 > Len(Entries(p)) + 1)
  BY <1>3
<1>6. QED
  BY <1>3, <1>4, <1>5 DEF RestoreInv

LEMMA RestoreWork ==
  ASSUME IInv, WorkInv, NEW p \in Helper,
         Unlink(p) \/ OpenRestored(p) \/ FillRestored(p) \/ RestoreFails(p)
  PROVE  WorkInv'
<1> DEFINE g == Entry(p)
<1>1. pc[p] \in {"undo", "putting"}
  BY DEF Unlink, OpenRestored, FillRestored, RestoreFails, Restoring
<1>2. /\ Running(p) /\ On(p) \in Surfaces /\ Entries(p) = Targets[On(p)]
      /\ at[p] \in 1..Len(Entries(p)) /\ at[p] \in Nat
  <2>1. Running(p)
    BY <1>1 DEF Running
  <2>2. QED
    BY <1>1, <2>1, RunningFacts
       DEF Unlink, OpenRestored, FillRestored, RestoreFails, On, Entries, Target
<1>3. /\ UNCHANGED <<theme, boot, menu, saved, manifest, job, of, was, mixed, tmp>>
      /\ slipped \subseteq slipped'
      /\ UNCHANGED files \/ \E c : files' = [files EXCEPT ![g] = c]
  BY DEF Unlink, OpenRestored, FillRestored, RestoreFails, system, backups, history, Slip
<1>4. Within(On(p))
  BY <1>2, <1>3, FileWithin DEF Entry
<1>5. SystemTypes /\ BookTypes /\ g \in File
      /\ \A i \in 1..Len(Entries(p)) : Entries(p)[i] \in File
  BY <1>2, TargetFacts, TypeParts DEF IInv, Entry
<1>6. \A i \in 1..Len(Entries(p)) : Entries(p)[i] # g => files'[Entries(p)[i]] = files[Entries(p)[i]]
  BY <1>3, <1>5 DEF SystemTypes
<1>7. CASE Unlink(p) \/ FillRestored(p) \/ RestoreFails(p)
  <2>1. pc' = [pc EXCEPT ![p] = "undo"] /\ at' = [at EXCEPT ![p] = at[p] + 1]
    BY <1>7 DEF Unlink, FillRestored, RestoreFails, Advance, Slip
  <2>2. Frame(p) /\ pc'[p] = "undo" /\ at'[p] = at[p] + 1
    BY <1>2, <1>3, <2>1, FrameOf
  <2>3. StepInv(p)' /\ CopyInv(p)'
    BY <1>3, <2>2, OwnCopies DEF StepInv
  <2>4. p \notin slipped' => files'[g] = Copy(p)
    BY <1>5, <1>7 DEF Unlink, FillRestored, RestoreFails, Slip, SystemTypes
  <2>5. RestoreInv(p)'
    BY <1>1, <1>2, <1>3, <1>6, <2>2, <2>4, NextEntry
  <2>6. QED
    BY <1>3, <1>4, <2>2, <2>3, <2>5, LinkKnown, WorkPasses
<1>8. CASE OpenRestored(p)
  <2>1. pc' = [pc EXCEPT ![p] = "putting"] /\ at' = [at EXCEPT ![p] = at[p]]
        /\ pc[p] = "undo" /\ UNCHANGED slipped
    BY <1>8, RunningFacts DEF OpenRestored, Restoring, history
  <2>2. Frame(p) /\ pc'[p] = "putting" /\ at'[p] = at[p]
    BY <1>2, <1>3, <2>1, FrameOf
  <2>3. StepInv(p)' /\ CopyInv(p)'
    BY <1>3, <2>2, OwnCopies DEF StepInv
  <2>4. RestoreInv(p) /\ Entries(p)' = Entries(p) /\ Entry(p)' = g
    BY <1>3, <2>2 DEF WorkInv, Entries, Entry, Target
  <2>5. RestoreInv(p)'
    BY <1>3, <1>6, <2>1, <2>2, <2>4 DEF RestoreInv
  <2>6. QED
    BY <1>3, <1>4, <2>2, <2>3, <2>5, LinkKnown, WorkPasses
<1>9. QED
  BY <1>7, <1>8
\* The undo commands of the splash: the prior theme, if there was one, is selected;
\* ours is removed; the boot image is made again.
LEMMA UndoKinds ==
  ASSUME NEW j, j.surface \in Generated, j.prior \in Theme,
         NEW k \in Nat \ {0}, k <= Len(UndoCommands(j))
  PROVE  /\ UndoCommands(j)[k] \in {"remove", "initramfs", "update-grub"} \cup ({j.prior} \ {"none"})
         /\ j.surface = "splash" =>
              /\ k = 1 => UndoCommands(j)[k] = IF j.prior = "none" THEN "remove" ELSE j.prior
              /\ k # 1 => UndoCommands(j)[k] \in {"remove", "initramfs"}
<1>1. CASE j.surface = "grub"
  <2>1. UndoCommands(j) = <<"update-grub">>
    BY <1>1 DEF UndoCommands
  <2>2. k = 1
    BY <2>1
  <2>3. QED
    BY <1>1, <2>1, <2>2
<1>2. CASE j.surface = "splash" /\ j.prior = "none"
  <2>1. UndoCommands(j) = <<"remove", "initramfs">>
    BY <1>2 DEF UndoCommands
  <2>2. k \in 1..2
    BY <2>1
  <2>3. QED
    BY <1>2, <2>1, <2>2
<1>3. CASE j.surface = "splash" /\ j.prior # "none"
  <2>1. UndoCommands(j) = <<j.prior, "remove", "initramfs">>
    BY <1>3 DEF UndoCommands
  <2>2. k \in 1..3
    BY <2>1
  <2>3. QED
    BY <1>3, <2>1, <2>2
<1>4. QED
  BY <1>1, <1>2, <1>3 DEF Generated

LEMMA UndoCommandWork ==
  ASSUME IInv, WorkInv, NEW p \in Helper, RunUndoCommand(p) \/ UndoCommandFails(p)
  PROVE  WorkInv'
<1> DEFINE j == job[of[p]]
           k == at[p] - Len(Entries(p))
           c == UndoCommand(p)
<1>1. AtUndoCommand(p) /\ UNCHANGED <<saved, manifest, job, of, was, mixed>> /\ slipped \subseteq slipped'
  BY DEF RunUndoCommand, UndoCommandFails, Slip, history, backups
<1>2. /\ Running(p) /\ at[p] \in Nat /\ Len(Entries(p)) \in Nat /\ pc[p] = "undo"
      /\ j.surface \in Surfaces /\ j.prior \in Theme /\ of[p] \in Helper
  BY <1>1, RunningFacts DEF AtUndoCommand, Running
<1>3. k \in Nat \ {0} /\ k <= Len(UndoCommands(j))
  BY <1>1, <1>2 DEF AtUndoCommand
<1>4. c \in UndoNames /\ j.surface \in Generated /\ (c = "update-grub" <=> j.surface = "grub")
  BY <1>2, <1>3, UndoCommandFacts, CommandKinds DEF UndoCommand
<1>5. Effect(c) \/ NoEffect(c)
  BY DEF RunUndoCommand, UndoCommandFails
<1>6. j.prior \in {"none", "ours", StartTheme} /\ theme.link \in {StartTheme, "ours"}
  BY <1>2 DEF WorkInv, BookInv
<1>7. c \in {"remove", "initramfs", "update-grub"} \cup ({j.prior} \ {"none"})
  BY <1>2, <1>3, <1>4, UndoKinds DEF UndoCommand
<1>8. Within(On(p)) /\ theme'.link \in {StartTheme, "ours"}
  <2>1. Within(On(p))
    BY <1>4, <1>5, CommandWithin DEF On
  <2>2. c # "none" /\ c \in CommandNames \cup {"ours", "remove"} \cup {StartTheme}
    BY <1>6, <1>7 DEF CommandNames
  <2>3. QED
    BY <1>5, <2>1, <2>2, CommandLink
<1>9. pc' = [pc EXCEPT ![p] = "undo"] /\ at' = [at EXCEPT ![p] = at[p] + 1]
  BY DEF RunUndoCommand, UndoCommandFails, Slip, Advance
<1>10. Frame(p) /\ pc'[p] = "undo" /\ at'[p] = at[p] + 1
  BY <1>1, <1>2, <1>9, FrameOf
<1>11. StepInv(p)' /\ CopyInv(p)'
  BY <1>1, <1>10, OwnCopies DEF StepInv
<1>12. CASE UndoCommandFails(p)
  <2>1. p \in slipped'
    BY <1>12 DEF UndoCommandFails, Slip
  <2>2. RestoreInv(p)'
    BY <2>1 DEF RestoreInv
  <2>3. QED
    BY <1>1, <1>8, <1>10, <1>11, <2>2, WorkPasses
<1>13. CASE RunUndoCommand(p)
  <2>1. Effect(c) /\ UNCHANGED <<files, slipped>>
    BY <1>13 DEF RunUndoCommand, Effect, history
  <2>2. RestoreInv(p) /\ Entries(p)' = Entries(p)
    BY <1>1 DEF WorkInv, Entries, Target
  <2>3. ASSUME p \notin mixed, p \notin slipped, NEW i \in 1..Len(Entries(p))
        PROVE  files'[Entries(p)[i]] = saved[of[p]][Entries(p)[i]]
    <3>1. i < at[p]
      BY <1>1, <1>2 DEF AtUndoCommand
    <3>2. QED
      BY <1>2, <2>1, <2>2, <2>3, <3>1 DEF RestoreInv
  <2>4. ASSUME p \notin mixed, p \notin slipped, j.surface = "splash", of[p] \notin mixed,
               was[of[p]].link # "ours"
        PROVE  theme'.link = StartTheme
    <3>1. j.prior = StartTheme /\ StartTheme \in {"none", "distro"}
      BY <1>2, <2>4, ApplyAssumption DEF WorkInv, CopyInv
    <3>2. /\ k = 1 => c = IF j.prior = "none" THEN "remove" ELSE j.prior
          /\ k # 1 => c \in {"remove", "initramfs"}
      BY <1>2, <1>3, <1>4, <2>4, UndoKinds DEF UndoCommand
    <3>3. k # 1 => theme.link = StartTheme
      <4>1. k # 1 => at[p] > Len(Entries(p)) + 1
        BY <1>2, <1>3
      <4>2. QED
        BY <1>2, <2>2, <2>4, <4>1 DEF RestoreInv
    <3>4. CASE c = "remove"
      <4>1. theme' = [link |-> IF theme.link = "ours" THEN StartTheme ELSE theme.link,
                      offered |-> FALSE]
        BY <2>1, <3>4 DEF Effect
      <4>2. QED
        BY <1>6, <4>1
    <3>5. CASE c = "distro"
      <4>1. theme' = [theme EXCEPT !.link = "distro"]
        BY <2>1, <3>5 DEF Effect
      <4>2. theme \in [link : Theme, offered : BOOLEAN]
        BY TypeParts DEF IInv, SystemTypes
      <4>3. theme'.link = "distro"
        BY <4>1, <4>2
      <4>4. k = 1
        BY <3>2, <3>5
      <4>5. QED
        BY <3>1, <3>2, <3>5, <4>3, <4>4
    <3>6. CASE c = "initramfs"
      <4>1. UNCHANGED theme
        BY <2>1, <3>6 DEF Effect
      <4>2. k # 1
        BY <3>1, <3>2, <3>6
      <4>3. QED
        BY <3>3, <4>1, <4>2
    <3>7. QED
      BY <3>1, <3>2, <3>4, <3>5, <3>6
  <2>5. RestoreInv(p)'
    BY <1>1, <1>10, <2>1, <2>2, <2>3, <2>4 DEF RestoreInv
  <2>6. QED
    BY <1>1, <1>8, <1>10, <1>11, <2>5, WorkPasses
<1>14. QED
  BY <1>12, <1>13

-----------------------------------------------------------------------------
\* Starting.

\* Who meets p on surface s is remembered, and of all others the history is kept.
LEMMA WitnessFacts ==
  ASSUME NEW p \in Helper, NEW s, Witness(p, s)
  PROVE  /\ mixed \subseteq mixed' /\ UNCHANGED slipped
         /\ \A q \in Helper : q # p /\ q \notin mixed' => was'[q] = was[q]
         /\ \A q \in Helper : q # p /\ Running(q) /\ On(q) = s => q \in mixed' /\ p \in mixed'
         /\ p \notin mixed' =>
              was'[p] = [files |-> [f \in Range(Targets[s]) |-> files[f]],
                         link  |-> IF s = "splash" THEN theme.link ELSE "none"]
<1> DEFINE others == {q \in Helper \ {p} : Running(q) /\ job[of[q]].surface = s}
           met    == IF others = {} THEN {} ELSE others \cup {p}
           fresh  == [files |-> [f \in Range(Targets[s]) |-> files[f]],
                      link  |-> IF s = "splash" THEN theme.link ELSE "none"]
<1>1. /\ was' = [q \in Helper |-> CASE q \in met -> Forgotten
                                    [] q = p /\ q \notin met -> fresh
                                    [] OTHER -> was[q]]
      /\ mixed' = mixed \cup met
      /\ UNCHANGED slipped
  BY DEF Witness
<1>2. ASSUME NEW q \in Helper, q # p, q \notin mixed'
      PROVE  was'[q] = was[q]
  <2>1. q \notin met
    BY <1>1, <1>2
  <2>2. QED
    BY <1>1, <1>2, <2>1
<1>3. ASSUME NEW q \in Helper, q # p, Running(q), On(q) = s
      PROVE  q \in mixed' /\ p \in mixed'
  <2>1. q \in others
    BY <1>3 DEF On
  <2>2. QED
    BY <1>1, <2>1
<1>4. ASSUME p \notin mixed'
      PROVE  was'[p] = fresh
  <2>1. p \notin met
    BY <1>1, <1>4
  <2>2. QED
    BY <1>1, <2>1
<1>5. QED
  BY <1>1, <1>2, <1>3, <1>4
\* One that is not started is not restored from.
LEMMA NotReadyYet ==
  ASSUME IInv, NEW p \in Helper, pc[p] = "ready", NEW q \in Helper, q # p, Running(q)
  PROVE  of[q] # p /\ of[q] \in Helper
<1>1. manifest[p] = "none"
  BY DEF IInv, PhaseOK
<1>2. of[q] \in Helper /\ (of[q] = q \/ manifest[of[q]] = "whole")
  BY RunningFacts DEF Running, Phase
<1>3. QED
  BY <1>1, <1>2

\* The start of p on surface s leaves the work of all others as it is.
LEMMA StartOthers ==
  ASSUME IInv, WorkInv, NEW p \in Helper, pc[p] = "ready", NEW s, Witness(p, s),
         UNCHANGED <<files, tmp, theme, boot, menu, saved>>,
         NEW x, NEW n, pc' = [pc EXCEPT ![p] = x], at' = [at EXCEPT ![p] = n],
         UNCHANGED job \/ \E j : job' = [job EXCEPT ![p] = j],
         UNCHANGED of \/ \E h : of' = [of EXCEPT ![p] = h],
         NEW q \in Helper, q # p
  PROVE  /\ CopyInv(q)' /\ StepInv(q)' /\ RestoreInv(q)'
         /\ pc'[q] = pc[q] /\ of'[q] = of[q] /\ job'[q] = job[q]
         /\ Running(q) => On(q)' = On(q)
<1>1. BookTypes
  BY TypeParts DEF IInv
<1>2. /\ pc'[q] = pc[q] /\ at'[q] = at[q] /\ job'[q] = job[q] /\ of'[q] = of[q]
      /\ saved'[q] = saved[q]
  BY <1>1 DEF BookTypes
<1>3. mixed \subseteq mixed' /\ UNCHANGED slipped
      /\ \A r \in Helper : r # p /\ r \notin mixed' => was'[r] = was[r]
  BY WitnessFacts
<1>4. ASSUME Running(q)
      PROVE  of[q] # p /\ of[q] \in Helper /\ job'[of[q]] = job[of[q]]
  <2>1. of[q] # p /\ of[q] \in Helper
    BY <1>4, NotReadyYet
  <2>2. QED
    BY <1>1, <2>1 DEF BookTypes
<1>5. CopyInv(q)'
  BY <1>2, <1>3 DEF WorkInv, CopyInv
<1>6. StepInv(q)'
  <2>1. Target(q)' = Target(q) /\ NextFile(q)' = NextFile(q) /\ \A f : Made(q, f)' = Made(q, f)
    BY <1>2 DEF Target, NextFile, Made
  <2>2. Fresh(job[q].surface)' <=> Fresh(job[q].surface)
    BY <1>2 DEF Fresh, BootSources, MenuSources
  <2>3. StepInv(q)
    BY DEF WorkInv
  <2>4. QED
    BY <1>2, <1>3, <2>1, <2>2, <2>3 DEF StepInv
<1>7. RestoreInv(q)'
  <2>1. SUFFICES ASSUME q \notin mixed', q \notin slipped, pc[q] \in {"undo", "putting"}
                 PROVE  RestoreInv(q)'
    BY <1>2, <1>3 DEF RestoreInv
  <2>2. RestoreInv(q) /\ Running(q)
    BY <2>1 DEF WorkInv, Running
  <2>3. of[q] # p /\ of[q] \in Helper /\ job'[of[q]] = job[of[q]] /\ of'[q] = of[q]
    BY <1>2, <1>4, <2>2
  <2>4. Entries(q)' = Entries(q) /\ Entry(q)' = Entry(q)
    BY <1>2, <2>3 DEF Entries, Entry, Target
  <2>5. of[q] \notin mixed' => was'[of[q]] = was[of[q]] /\ of[q] \notin mixed
    BY <1>3, <2>3
  <2>6. QED
    BY <1>2, <1>3, <2>1, <2>2, <2>3, <2>4, <2>5 DEF RestoreInv
<1>8. Running(q) => On(q)' = On(q)
  BY <1>2, <1>4 DEF On
<1>9. QED
  BY <1>2, <1>5, <1>6, <1>7, <1>8

\* Whoever runs on the surface p starts on has met it.
LEMMA StartApart ==
  ASSUME IInv, WorkInv, NEW p \in Helper, NEW s, Witness(p, s), On(p)' = s,
         \A q \in Helper : q # p => /\ pc'[q] = pc[q]
                                    /\ Running(q) => On(q)' = On(q)
  PROVE  Apart'
<1>1. SUFFICES ASSUME NEW q \in Helper, NEW r \in Helper, q # r, Running(q)', Running(r)',
                      On(q)' = On(r)'
               PROVE  q \in mixed'
  BY DEF Apart
<1>2. \A t \in Helper : t # p /\ Running(t)' => Running(t)
  BY DEF Running
<1>3. mixed \subseteq mixed'
      /\ \A t \in Helper : t # p /\ Running(t) /\ On(t) = s => t \in mixed' /\ p \in mixed'
  BY WitnessFacts
<1>4. CASE q = p
  BY <1>1, <1>2, <1>3, <1>4
<1>5. CASE r = p
  BY <1>1, <1>2, <1>3, <1>5
<1>6. CASE q # p /\ r # p
  <2>1. Running(q) /\ Running(r) /\ On(q) = On(r)
    BY <1>1, <1>2, <1>6
  <2>2. QED
    BY <1>1, <1>3, <2>1 DEF WorkInv, Apart
<1>7. QED
  BY <1>4, <1>5, <1>6

LEMMA StartApplyWork ==
  ASSUME IInv, WorkInv, NEW p \in Helper, StartApply(p)
  PROVE  WorkInv'
<1>1. PICK s \in Surfaces, i \in Image :
        /\ job' = [job EXCEPT ![p] =
                     [surface |-> s, image |-> i,
                      prior |-> IF s = "splash" THEN CurrentAlternative ELSE "none"]]
        /\ Witness(p, s)
  BY DEF StartApply
<1>2. /\ pc[p] = "ready" /\ of[p] = p
      /\ UNCHANGED <<files, tmp, theme, boot, menu, saved, manifest, of>>
      /\ pc' = [pc EXCEPT ![p] = "copy"] /\ at' = [at EXCEPT ![p] = 1]
  BY DEF StartApply, MayStart, Enter, system, IInv, PhaseOK
<1>3. BookTypes
  BY TypeParts DEF IInv
<1>4. /\ job'[p].surface = s /\ pc'[p] = "copy" /\ of'[p] = p
      /\ job'[p].prior = IF s = "splash" THEN CurrentAlternative ELSE "none"
  BY <1>1, <1>2, <1>3 DEF BookTypes
<1>5. \A q \in Helper : q # p =>
        /\ CopyInv(q)' /\ StepInv(q)' /\ RestoreInv(q)'
        /\ pc'[q] = pc[q] /\ of'[q] = of[q] /\ job'[q] = job[q]
        /\ Running(q) => On(q)' = On(q)
  BY <1>1, <1>2, StartOthers
<1>6. Apart'
  <2>1. On(p)' = s
    BY <1>4 DEF On
  <2>2. QED
    BY <1>1, <1>5, <2>1, StartApart
<1>7. theme.link \in {StartTheme, "ours"} /\ CurrentAlternative \in {"none", theme.link}
      /\ (theme.link # "ours" => CurrentAlternative = theme.link)
  BY DEF WorkInv, BookInv, CurrentAlternative
<1>8. BookInv'
  <2>1. job'[p].prior \in {"none", "ours", StartTheme}
    BY <1>4, <1>7
  <2>2. QED
    BY <1>2, <1>4, <1>5, <1>7, <2>1 DEF WorkInv, BookInv
<1>9. CopyInv(p)'
  <2>1. SUFFICES ASSUME p \notin mixed'
                 PROVE  CopyInv(p)'
    BY DEF CopyInv
  <2>2. was'[p] = [files |-> [f \in Range(Targets[s]) |-> files[f]],
                   link  |-> IF s = "splash" THEN theme.link ELSE "none"]
    BY <1>1, <2>1, WitnessFacts
  <2>3. \A f \in Range(Targets[s]) : saved'[p][f] = "uncopied" /\ files'[f] = was'[p].files[f]
    <3>1. Range(Targets[s]) \subseteq File
      BY TargetFacts
    <3>2. QED
      BY <1>2, <2>2, <3>1 DEF WorkInv, BookInv
  <2>4. s = "splash" => \/ was'[p].link = "ours"
                        \/ was'[p].link = StartTheme /\ job'[p].prior = StartTheme
    BY <1>4, <1>7, <2>2
  <2>5. QED
    BY <1>4, <2>3, <2>4 DEF CopyInv
<1>10. StepInv(p)' /\ RestoreInv(p)'
  BY <1>4 DEF StepInv, RestoreInv
<1>11. QED
  BY <1>5, <1>6, <1>8, <1>9, <1>10 DEF WorkInv

LEMMA StartUndoWork ==
  ASSUME IInv, WorkInv, NEW p \in Helper, StartUndo(p)
  PROVE  WorkInv'
<1>1. PICK h \in Noted : /\ manifest[h] = "whole"
                         /\ of' = [of EXCEPT ![p] = h]
                         /\ Witness(p, job[h].surface)
  BY DEF StartUndo
<1>2. /\ pc[p] = "ready" /\ manifest[p] = "none" /\ h \in Helper
      /\ UNCHANGED <<files, tmp, theme, boot, menu, saved, manifest, job>>
      /\ pc' = [pc EXCEPT ![p] = "undo"] /\ at' = [at EXCEPT ![p] = 1]
  BY DEF StartUndo, MayStart, Enter, system, backups, IInv, PhaseOK, Noted
<1>3. BookTypes
  BY TypeParts DEF IInv
<1>4. pc'[p] = "undo" /\ of'[p] = h /\ at'[p] = 1
  BY <1>1, <1>2, <1>3 DEF BookTypes
<1>5. \A q \in Helper : q # p =>
        /\ CopyInv(q)' /\ StepInv(q)' /\ RestoreInv(q)'
        /\ pc'[q] = pc[q] /\ of'[q] = of[q] /\ job'[q] = job[q]
        /\ Running(q) => On(q)' = On(q)
  BY <1>1, <1>2, StartOthers
<1>6. Apart'
  <2>1. On(p)' = job[h].surface
    BY <1>2, <1>4 DEF On
  <2>2. QED
    BY <1>1, <1>5, <2>1, StartApart
<1>7. BookInv'
  BY <1>2, <1>4, <1>5 DEF WorkInv, BookInv
<1>8. CopyInv(p)'
  <2>1. job'[p].surface \notin Surfaces
    BY <1>2, ApplyAssumption DEF WorkInv, BookInv, NoJob
  <2>2. QED
    BY <2>1 DEF CopyInv
<1>9. StepInv(p)' /\ RestoreInv(p)'
  <2>1. job[h].surface \in Surfaces
    BY <1>1, <1>2 DEF IInv, PhaseOK, Backed
  <2>2. Len(Targets[job[h].surface]) \in Nat
    BY <2>1, TargetFacts
  <2>3. Entries(p)' = Targets[job[h].surface]
    BY <1>2, <1>4 DEF Entries, Target
  <2>4. /\ ~(at'[p] > Len(Entries(p)') + 1)
        /\ \A i \in 1..Len(Entries(p)') : ~(i < at'[p])
    BY <1>4, <2>2, <2>3
  <2>5. QED
    BY <1>4, <2>4 DEF StepInv, RestoreInv
<1>10. QED
  BY <1>5, <1>6, <1>7, <1>8, <1>9 DEF WorkInv

LEMMA StartInVainWork ==
  ASSUME IInv, WorkInv, NEW p \in Helper, StartUndoInVain(p)
  PROVE  WorkInv'
<1>1. /\ pc[p] = "ready"
      /\ UNCHANGED <<files, tmp, theme, boot, menu, saved, manifest, job, of, was, mixed, slipped>>
      /\ pc' = [pc EXCEPT ![p] = "ended"] /\ at' = [at EXCEPT ![p] = 1]
  BY DEF StartUndoInVain, MayStart, End, Enter, system, backups, history
<1>2. BookTypes
  BY TypeParts DEF IInv
<1>3. pc'[p] = "ended" /\ \A q \in Helper : q # p => pc'[q] = pc[q] /\ at'[q] = at[q]
  BY <1>1, <1>2 DEF BookTypes
<1>4. Apart' /\ BookInv'
  BY <1>1, <1>3 DEF WorkInv, Apart, BookInv, Running, On
<1>5. CopyInv(p)' /\ StepInv(p)' /\ RestoreInv(p)'
  BY <1>1, <1>3 DEF WorkInv, CopyInv, StepInv, RestoreInv
<1>6. ASSUME NEW q \in Helper, q # p
      PROVE  CopyInv(q)' /\ StepInv(q)' /\ RestoreInv(q)'
  <2>1. CopyInv(q)'
    BY <1>1, <1>3, <1>6 DEF WorkInv, CopyInv
  <2>2. StepInv(q)'
    <3>1. Target(q)' = Target(q) /\ NextFile(q)' = NextFile(q) /\ \A f : Made(q, f)' = Made(q, f)
      BY <1>1, <1>3, <1>6 DEF Target, NextFile, Made
    <3>2. Fresh(job[q].surface)' <=> Fresh(job[q].surface)
      BY <1>1 DEF Fresh, BootSources, MenuSources
    <3>3. StepInv(q)
      BY DEF WorkInv
    <3>4. QED
      BY <1>1, <1>3, <1>6, <3>1, <3>2, <3>3 DEF StepInv
  <2>3. RestoreInv(q)'
    BY <1>1, <1>3, <1>6 DEF WorkInv, RestoreInv, Entries, Entry, Target
  <2>4. QED
    BY <2>1, <2>2, <2>3
<1>7. QED
  BY <1>4, <1>5, <1>6 DEF WorkInv
-----------------------------------------------------------------------------
\* What is left behind.

LEMMA InitWork == Init => WorkInv
<1>1. SUFFICES ASSUME Init PROVE WorkInv
  OBVIOUS
<1>2. \A p \in Helper : pc[p] = "ready" /\ job[p] = NoJob /\ of[p] = p /\ manifest[p] = "none"
                        /\ \A f \in File : saved[p][f] = "uncopied"
  BY <1>1 DEF Init
<1>3. theme.link = StartTheme
  BY <1>1 DEF Init
<1>4. "none" \notin Surfaces
  BY ApplyAssumption
<1>5. QED
  BY <1>2, <1>3, <1>4
     DEF WorkInv, Apart, BookInv, Running, CopyInv, StepInv, RestoreInv, NoJob

LEMMA NextWork == IInv /\ WorkInv /\ [Next]_vars => WorkInv'
<1>1. SUFFICES ASSUME IInv, WorkInv, [Next]_vars
               PROVE  WorkInv'
  OBVIOUS
<1>2. CASE UNCHANGED vars
  <2>1. Apart' /\ BookInv'
    BY <1>1, <1>2 DEF vars, WorkInv, Apart, BookInv, Running, On
  <2>2. ASSUME NEW p \in Helper
        PROVE  CopyInv(p)' /\ StepInv(p)' /\ RestoreInv(p)'
    <3>1. /\ Target(p)' = Target(p) /\ NextFile(p)' = NextFile(p) /\ \A f : Made(p, f)' = Made(p, f)
          /\ Entries(p)' = Entries(p) /\ Entry(p)' = Entry(p)
          /\ Fresh(job[p].surface)' <=> Fresh(job[p].surface)
      BY <1>2 DEF vars, Target, NextFile, Made, Entries, Entry, Fresh, BootSources, MenuSources
    <3>2. UNCHANGED <<files, tmp, theme, pc, at, job, of, saved, was, mixed, slipped>>
      BY <1>2 DEF vars
    <3>3. CopyInv(p) /\ StepInv(p) /\ RestoreInv(p)
      BY <1>1 DEF WorkInv
    <3>4. CopyInv(p)'
      BY <3>2, <3>3 DEF CopyInv
    <3>5. StepInv(p)'
      BY <3>1, <3>2, <3>3 DEF StepInv
    <3>6. RestoreInv(p)'
      BY <3>1, <3>2, <3>3 DEF RestoreInv
    <3>7. QED
      BY <3>4, <3>5, <3>6
  <2>3. QED
    BY <2>1, <2>2 DEF WorkInv
<1>3. ASSUME NEW p \in Helper,
             Start(p) \/ Backup(p) \/ Write(p) \/ Run(p) \/ Undo(p) \/ Kill(p)
      PROVE  WorkInv'
  <2>1. CASE Start(p)
    BY <1>1, <2>1, StartApplyWork, StartUndoWork, StartInVainWork DEF Start
  <2>2. CASE Backup(p)
    BY <1>1, <2>2, BackUpWork, ManifestWork, EndWork DEF Backup
  <2>3. CASE Write(p)
    BY <1>1, <2>3, WriteWork, WriteFailsWork, EndWork DEF Write
  <2>4. CASE Run(p)
    BY <1>1, <2>4, CommandWork, EndWork DEF Run
  <2>5. CASE Undo(p)
    BY <1>1, <2>5, RestoreWork, UndoCommandWork, EndWork DEF Undo
  <2>6. CASE Kill(p)
    BY <1>1, <2>6, EndWork
  <2>7. QED
    BY <1>3, <2>1, <2>2, <2>3, <2>4, <2>5, <2>6
<1>4. QED
  BY <1>1, <1>2, <1>3 DEF Next

THEOREM WorkInductive == Spec => [](IInv /\ WorkInv)
<1>1. Init => IInv /\ WorkInv
  BY InitHolds, InitWork
<1>2. IInv /\ WorkInv /\ [Next]_vars => (IInv /\ WorkInv)'
  BY NextKeeps, NextWork
<1>3. QED
  BY <1>1, <1>2, PTL DEF Spec

\* An invocation answers "ok" or "failed" in one of three places.
LEMMA Answers ==
  ASSUME IInv, Next, NEW p \in Helper, outcome[p] = "none", outcome'[p] \in {"ok", "failed"}
  PROVE  Applied(p) \/ RolledBack(p) \/ (pc[p] = "ready" /\ outcome'[p] = "failed")
<1>1. PICK q \in Helper : Start(q) \/ Backup(q) \/ Write(q) \/ Run(q) \/ Undo(q) \/ Kill(q)
  BY DEF Next
<1>2. BookTypes
  BY TypeParts DEF IInv
<1>3. CASE UNCHANGED outcome
  BY <1>3
<1>4. ASSUME NEW how, End(q, how)
      PROVE  q = p /\ how = outcome'[p]
  BY <1>2, <1>4 DEF End, BookTypes
<1>5. CASE BackupRaises(q) \/ WriteRaises(q)
  BY <1>4, <1>5 DEF BackupRaises, WriteRaises
<1>6. CASE Kill(q)
  BY <1>4, <1>6 DEF Kill
<1>7. CASE StartUndoInVain(q)
  BY <1>4, <1>7 DEF StartUndoInVain, MayStart
<1>8. CASE Applied(q)
  BY <1>4, <1>8 DEF Applied
<1>9. CASE RolledBack(q)
  BY <1>4, <1>9 DEF RolledBack
<1>10. QED
  BY <1>1, <1>3, <1>5, <1>6, <1>7, <1>8, <1>9
     DEF Start, Backup, Write, Run, Undo, StartApply, StartUndo, BackUp, OpenManifest,
         WriteManifest, SkipWrite, Stage, Replace, OpenFrame, FillFrame, WriteFails, RunCommand,
         CommandFails, Unlink, OpenRestored, FillRestored, RestoreFails, RunUndoCommand,
         UndoCommandFails

LEMMA Beyond ==
  ASSUME NEW a \in Nat, NEW b \in Nat, NEW c \in Nat, a > b + c
  PROVE  /\ \A k \in 1..b : k < a
         /\ \A m \in Nat : m <= c => a > b + m
OBVIOUS

\* What a rollback that answers has given back.
LEMMA GivenBack ==
  ASSUME IInv, WorkInv, Next, NEW p \in Helper
  PROVE  GivesBack(p)
<1> DEFINE h == of[p]
           s == job[of[p]].surface
<1>1. SUFFICES ASSUME outcome[p] = "none", outcome'[p] \in {"ok", "failed"},
                      p \notin mixed, p \notin slipped, pc[p] = "undo", h \notin mixed
               PROVE  FilesAsBefore(h) /\ (was[h].link # "ours" => ThemeAsBefore(h))
  BY DEF GivesBack, EndsAlone
<1>2. RolledBack(p)
  BY <1>1, Answers DEF Applied
<1>3. /\ UNCHANGED <<files, theme>>
      /\ at[p] > Len(Entries(p)) + Len(UndoCommands(job[h]))
  BY <1>2 DEF RolledBack, system
<1>4. /\ h \in Helper /\ s \in Surfaces /\ manifest[h] = "whole" /\ at[p] \in Nat
      /\ Len(Entries(p)) \in Nat /\ job[h].prior \in Theme /\ Entries(p) = Targets[s]
  BY <1>1, RunningFacts DEF Running, Entries, Target
<1>5. RestoreInv(p) /\ CopyInv(h) /\ Backed(h)
  BY <1>4 DEF WorkInv, IInv, PhaseOK
<1>6. ASSUME NEW f \in SurfaceFiles(h)
      PROVE  files'[f] = was[h].files[f]
  <2>1. Targets[s] \in Seq(File)
    BY <1>4, TargetFacts
  <2>2. PICK i \in 1..Len(Targets[s]) : f = Targets[s][i]
    BY <2>1 DEF SurfaceFiles, Range
  <2>3. Len(UndoCommands(job[h])) \in Nat
    <3>1. CASE s \in Generated
      BY <1>4, <3>1, PlanEnds
    <3>2. CASE s = "login"
      <4>1. UndoCommands(job[h]) = <<>>
        BY <3>2 DEF UndoCommands
      <4>2. QED
        BY <4>1
    <3>3. QED
      BY <1>4, <3>1, <3>2, ApplyAssumption DEF Generated
  <2>4. i < at[p]
    BY <1>3, <1>4, <2>3, Beyond
  <2>5. files[f] = saved[h][f]
    BY <1>1, <1>4, <1>5, <2>2, <2>4 DEF RestoreInv
  <2>6. saved[h][f] \in {"uncopied", was[h].files[f]}
    BY <1>1, <1>4, <1>5 DEF CopyInv, SurfaceFiles
  <2>7. saved[h][f] # "uncopied"
    <3>1. saved[h][f] \in Content
      BY <2>2 , <1>4, <1>5 DEF Backed, Target
    <3>2. QED
      BY <3>1, ApplyAssumption DEF Content
  <2>8. QED
    BY <1>3, <2>5, <2>6, <2>7
<1>7. ASSUME was[h].link # "ours", s = "splash"
      PROVE  theme'.link = was[h].link
  <2>1. Len(UndoCommands(job[h])) \in Nat \ {0}
    BY <1>4, <1>7, PlanEnds DEF Generated
  <2>3. at[p] > Len(Entries(p)) + 1
    <3>1. 1 <= Len(UndoCommands(job[h]))
      BY <2>1
    <3>2. QED
      BY <1>3, <1>4, <2>1, <3>1, Beyond
  <2>4. theme.link = StartTheme
    BY <1>1, <1>5, <1>7, <2>3 DEF RestoreInv
  <2>5. was[h].link = StartTheme
    BY <1>1, <1>4, <1>5, <1>7 DEF CopyInv
  <2>6. QED
    BY <1>3, <2>4, <2>5
<1>8. QED
  BY <1>6, <1>7 DEF FilesAsBefore, ThemeAsBefore

\* undo() of lw_privileged.py gives the surface back as it was before the apply it
\* undoes, for any number of invocations and of faults, whatever else runs on the
\* other surfaces.
THEOREM UndoRestoresSurface == Spec => UndoGivesBack
<1>1. IInv /\ WorkInv /\ [Next]_vars => [\A p \in Helper : of[p] # p => GivesBack(p)]_vars
  BY GivenBack
<1>2. QED
  BY <1>1, WorkInductive, PTL DEF Spec, UndoGivesBack

\* So does the rollback of an apply that fails (lw_privileged.py, apply).
THEOREM FailureRestoresSurface == Spec => FailureGivesBack
<1>1. IInv /\ WorkInv /\ [Next]_vars => [\A p \in Helper : of[p] = p => GivesBack(p)]_vars
  BY GivenBack
<1>2. QED
  BY <1>1, WorkInductive, PTL DEF Spec, FailureGivesBack

\* What an apply that answers 0 has made.
LEMMA AppliedShows ==
  ASSUME IInv, WorkInv, Next, NEW p \in Helper, EndsAlone(p, "ok"), of[p] = p
  PROVE  Shown(job[p])
<1> DEFINE s == job[p].surface
<1>1. outcome[p] = "none" /\ outcome'[p] = "ok" /\ p \notin mixed
  BY DEF EndsAlone
<1>2. Applied(p)
  <2>1. ~RolledBack(p)
    <3>1. SUFFICES ASSUME RolledBack(p) PROVE FALSE
      OBVIOUS
    <3>2. outcome' = [outcome EXCEPT ![p] = "failed"]
      BY <3>1 DEF RolledBack, End
    <3>3. BookTypes
      BY TypeParts DEF IInv
    <3>4. QED
      BY <1>1, <3>2, <3>3 DEF BookTypes
  <2>2. QED
    BY <1>1, <2>1, Answers
<1>3. /\ pc[p] = "step" /\ UNCHANGED <<files, theme, boot, menu>>
      /\ at[p] > Len(Target(p)) + Len(Commands[s])
  BY <1>2 DEF Applied, system
<1>4. /\ s \in Surfaces /\ at[p] \in Nat /\ job[p].prior \in Theme /\ Target(p) = Targets[s]
      /\ Targets[s] \in Seq(File) /\ Len(Targets[s]) \in Nat
  BY <1>3, RunningFacts, TargetFacts DEF Running, Target
<1>5. StepInv(p)
  BY DEF WorkInv
<1>6. Len(Commands[s]) \in Nat /\ (s \in Generated => Fresh(s)) /\ (s = "splash" => 2 <= Len(Commands[s]))
  <2>1. CASE s \in Generated
    <3>1. Len(Commands[s]) \in Nat
      BY <1>4, <2>1, PlanEnds
    <3>2. Fresh(s)
      BY <1>1, <1>3, <1>5, <2>1 DEF StepInv
    <3>3. ASSUME s = "splash" PROVE 2 <= Len(Commands[s])
      <4>1. Commands[s] = <<"install", "select", "initramfs">>
        BY <3>3 DEF Commands
      <4>2. QED
        BY <4>1
    <3>4. QED
      BY <3>1, <3>2, <3>3
  <2>2. CASE s = "login"
    <3>1. Commands[s] = <<>>
      BY <2>2 DEF Commands
    <3>2. QED
      BY <2>2, <3>1 DEF Generated
  <2>3. QED
    BY <1>4, <2>1, <2>2, ApplyAssumption DEF Generated
<1>7. \A f \in Range(Targets[s]) : files[f] \in Made(p, f)
  <2>1. SUFFICES ASSUME NEW i \in 1..Len(Targets[s])
                 PROVE  files[Targets[s][i]] \in Made(p, Targets[s][i])
    BY <1>4 DEF Range
  <2>2. i < at[p]
    BY <1>3, <1>4, <1>6, Beyond
  <2>3. QED
    BY <1>1, <1>3, <1>4, <1>5, <2>2 DEF StepInv
<1>8. CASE s = "login"
  <2>1. Targets[s] = <<"bg", "slick", "gtk">>
    BY <1>8 DEF Targets
  <2>2. {"bg", "slick", "gtk"} \subseteq Range(Targets[s])
    <3>1. /\ DOMAIN Targets[s] = 1..3
          /\ Targets[s][1] = "bg" /\ Targets[s][2] = "slick" /\ Targets[s][3] = "gtk"
      BY <2>1
    <3>2. QED
      BY <3>1 DEF Range
  <2>3. /\ files["bg"] = job[p].image /\ files["slick"] \in {"ours", "both"}
        /\ files["gtk"] \in {"ours", "both"}
    <3>1. /\ Made(p, "bg") = {job[p].image} /\ Made(p, "slick") = {"ours", "both"}
          /\ Made(p, "gtk") = {"ours", "both"}
      BY DEF Made, Rendered, Ini
    <3>2. QED
      BY <1>7, <2>2, <3>1
  <2>4. QED
    BY <1>3, <1>8, <2>3 DEF Shown
<1>9. CASE s = "splash"
  <2>1. theme.link = "ours"
    <3>1. at[p] > Len(Target(p)) + 2
      <4>1. 2 <= Len(Commands[s])
        BY <1>6, <1>9
      <4>2. QED
        BY <1>3, <1>4, <1>6, <4>1, Beyond
    <3>2. QED
      BY <1>1, <1>3, <1>5, <1>9, <3>1 DEF StepInv
  <2>2. boot = BootSources
    BY <1>6, <1>9 DEF Fresh, Generated
  <2>3. files["wall"] = job[p].image /\ files["script"] = "ours" /\ files["descr"] = "ours"
    <3>1. {"wall", "script", "descr"} \subseteq Range(Targets[s])
      BY <1>9, SourcesOwned DEF SplashFiles
    <3>2. /\ Made(p, "wall") = {job[p].image} /\ Made(p, "script") = {"ours"}
          /\ Made(p, "descr") = {"ours"}
      BY DEF Made, Rendered, Ini
    <3>3. QED
      BY <1>7, <3>1, <3>2
  <2>4. /\ boot'.link = "ours" /\ boot'.files["wall"] = job[p].image
        /\ boot'.files["script"] = "ours" /\ boot'.files["descr"] = "ours"
    BY <1>3, <2>1, <2>2, <2>3 DEF BootSources, SplashFiles
  <2>5. QED
    BY <1>9, <2>4 DEF Shown
<1>10. CASE s = "grub"
  <2>1. menu = MenuSources
    BY <1>6, <1>10 DEF Fresh, Generated
  <2>2. files["img"] = job[p].image /\ files["dropin"] = "ours"
    <3>1. {"img", "dropin"} \subseteq Range(Targets[s])
      BY <1>10, SourcesOwned
    <3>2. Made(p, "img") = {job[p].image} /\ Made(p, "dropin") = {"ours"}
      BY DEF Made, Rendered, Ini
    <3>3. QED
      BY <1>7, <3>1, <3>2
  <2>3. menu' = [f \in {"img", "dropin"} |-> IF f = "img" THEN job[p].image ELSE "ours"]
    BY <1>3, <2>1, <2>2 DEF MenuSources
  <2>4. QED
    BY <1>10, <2>3 DEF Shown
<1>11. QED
  BY <1>4, <1>8, <1>9, <1>10, ApplyAssumption

\* An apply that answers 0 (lw_privileged.py, apply) shows its image, whatever else
\* runs on the other surfaces and whatever was killed before.
THEOREM AnswerIsTrue == Spec => OkIsShown
<1>1. IInv /\ WorkInv /\ [Next]_vars
        => [\A p \in Helper : EndsAlone(p, "ok") /\ of[p] = p => Shown(job[p])]_vars
  BY AppliedShows
<1>2. QED
  BY <1>1, WorkInductive, PTL DEF Spec, OkIsShown
=============================================================================
