\* The writer may fail at any job; no exception gets loose in a worker.
CONSTANTS
  a = a  b = b  c = c  e = e  d1 = d1  d2 = d2
  End = End  NoPath = NoPath
  Path <- MCPath  Dir <- MCDir  DirOf <- MCDirOf  Worlds <- MCWorlds
  Workers = 2  CandQueue = 2  ResultQueue = 1  BatchRows = 2
  Faults = {"writer"}
SPECIFICATION FairSpec
PROPERTY ScanReturns
