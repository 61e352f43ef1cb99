\* Two invocations at once, on any surfaces, one fault at any point.
\* A helper that has ended does not start again, hence CHECK_DEADLOCK FALSE.
CONSTANTS
  Helper = {h1, h2}
  Image = {i1, i2}
  Surfaces = {"login", "splash", "grub"}
  Frames <- MCFrames
  StartFiles <- MCStartFiles
  StartTheme = "distro"
  Faults = {"io", "uncaught", "crash"}
  MaxFaults = 1
  AtOnce = 2
SPECIFICATION Spec
SYMMETRY Symmetry
CHECK_DEADLOCK FALSE
INVARIANTS
  TypeOK
  OriginalKept
  GeneratedFresh
PROPERTIES
  OkIsShown
