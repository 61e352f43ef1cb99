\* Any operations of the Sources page, Browse, `linwp exclude`, scans and
\* `linwp displays`, in any order, between two releases.
\* A user may stop doing anything, hence CHECK_DEADLOCK FALSE.
SPECIFICATION Spec
CONSTANTS
  Names <- MCNames
  GlobStar = GlobStar
  Up = Up
  None = None
  Home <- MCHome
  ProbeHome <- MCProbeHome
  Probes <- MCProbes
  MaxGlobstars = 4
  MountLimit = 8
  DepthLimit = 4
  Releases <- MCReleases
  Files <- MCFiles
  Disk <- MCDisk
  Looks <- MCLooks
  Catalogued <- MCCatalogued
  Sources <- MCSources
  NewSources <- MCNewSources
  Requests <- MCRequests
  Begun <- MCBegun
  GroupNames <- MCGroupNames
  ProbedMax = 100
  DeclaredMin = 4
  DeclaredMax = 40
  DeclaredLimit = 2
  DeclaredNames <- MCDeclaredNames
  MaxDimension = 1000
  NearCropPct = 25
  NearCoverPct = 90
  Desks <- MCDesks
  FirstDesk <- Laptop
  Declarations <- MCDeclarations
  Thresholds = {30}
  Queries <- MCQueries
  MaxChanges = 2
CHECK_DEADLOCK FALSE
INVARIANTS
  TypeOK
  FlagsFollowRules
  WalkAgrees
  PageTells
  SegmentsTell
  TargetsAreTheScreens
