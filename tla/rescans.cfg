CONSTANTS
    pics = pics
    mnt = mnt
    usb = usb
    m1 = m1
    m2 = m2
    a = a
    b = b
    fox = fox
    gnu = gnu
    yak = yak
    Home = Home
    None = None
    HomeDir <- MCHomeDir
    Volume <- MCVolume
    MountPoint <- MCMountPoint
    Name <- MCName
    Stable <- MCStable
    Scanned <- MCScanned
    FirstMount <- MCFirstMount
    Requests <- MCRequests
    FirstTree <- MCFirstTree
    File <- MCFile
    DiskOf <- MCDiskOf
    RootOrder <- MCRootOrder
    Hidden <- MCHidden
    ThumbBudget = 2
    MaxChanges = 2
    MaxScans = 2
SPECIFICATION Spec
INVARIANTS
    TypeOK
    VisibleIsThere
    FilesAppearOnce
    FreshData
PROPERTY DrivesComeBack
CHECK_DEADLOCK FALSE
