\* A probe worker may die of an exception: the scan then hangs, which is what the
\* property is about, hence CHECK_DEADLOCK FALSE.
CONSTANTS
  a = a  b = b  c = c  e = e  d1 = d1  d2 = d2
  End = End  NoPath = NoPath
  Path <- MCPath  Dir <- MCDir  DirOf <- MCDirOf  Worlds <- MCWorlds
  Workers = 2  CandQueue = 2  ResultQueue = 1  BatchRows = 2
  Faults = {"probe"}
SPECIFICATION FairSpec
CHECK_DEADLOCK FALSE
PROPERTY CancelUnwinds
