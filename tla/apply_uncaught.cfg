\* One apply of the login surface; an exception apply() does not catch.
\* A helper that has ended does not start again, hence CHECK_DEADLOCK FALSE.
CONSTANTS
  Helper = {h1}
  Image = {i1}
  Surfaces = {"login"}
  Frames <- MCFrames
  StartFiles <- MCStartFiles
  StartTheme = "distro"
  Faults = {"uncaught"}
  MaxFaults = 1
  AtOnce = 1
SPECIFICATION Spec
CHECK_DEADLOCK FALSE
PROPERTIES
  ErrorRollsBack
