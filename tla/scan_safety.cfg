\* Every fault may happen.  A worker's or the listener's exception can hang the
\* scan (see scan_probe_raises.cfg), hence CHECK_DEADLOCK FALSE; scan_returns.cfg
\* checks deadlock without those two.
CONSTANTS
  a = a  b = b  c = c  e = e  d1 = d1  d2 = d2
  End = End  NoPath = NoPath
  Path <- MCPath  Dir <- MCDir  DirOf <- MCDirOf  Worlds <- MCWorlds
  Workers = 2  CandQueue = 1  ResultQueue = 1  BatchRows = 2
  Faults = {"writer", "probe", "listener"}
SPECIFICATION Spec
CHECK_DEADLOCK FALSE
INVARIANTS
  TypeOK
  FilesAndRowsKept
  SweepIsExact
  EachFileOnce
  NoThreadLeft
PROPERTY ImplementsContract
