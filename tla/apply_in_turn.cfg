\* Three invocations one after the other, two faults at any points.
\* A helper that has ended does not start again, hence CHECK_DEADLOCK FALSE.
CONSTANTS
  Helper = {h1, h2, h3}
  Image = {i1, i2}
  Surfaces = {"login", "splash", "grub"}
  Frames <- MCFrames
  StartFiles <- MCStartFiles
  StartTheme = "distro"
  Faults = {"io", "uncaught", "crash"}
  MaxFaults = 2
  AtOnce = 1
SPECIFICATION Spec
SYMMETRY Symmetry
CHECK_DEADLOCK FALSE
PROPERTIES
  UndoGivesBack
  FailureGivesBack
