\* The splash is applied twice and undone; nothing fails.
\* A helper that has ended does not start again, hence CHECK_DEADLOCK FALSE.
CONSTANTS
  Helper = {h1, h2, h3}
  Image = {i1, i2}
  Surfaces = {"splash"}
  Frames <- MCFrames
  StartFiles <- MCStartFiles
  StartTheme = "distro"
  Faults = {}
  MaxFaults = 0
  AtOnce = 1
SPECIFICATION Spec
CHECK_DEADLOCK FALSE
PROPERTIES
  ThemeGivenBack
