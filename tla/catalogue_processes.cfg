SPECIFICATION Spec
CONSTANTS
  app = app
  old = old
  Nobody = Nobody
  Proc <- MCProc
  Release <- MCRelease
  MaxOpens = 4
  MaxScans = 2
  MaxDeaths = 1
INVARIANTS
  TypeOK
  MigratedOnce
  LockGuards
PROPERTIES
  LiveMarkedOnlyLate
  ResultStands
  LockComesBack
CHECK_DEADLOCK FALSE
