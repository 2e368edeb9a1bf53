SPECIFICATION BeltSpec
CONSTANTS
    Absent = Absent
    t = t
    h = h
    work = work
    repo = repo
    config = config
    sub = sub
    other = other
    file = file
    new = new
    mine = mine
    Objects <- AllObjects
    Kind <- AllKinds
    Disks <- SmallDisks
    Paths <- AllPaths
    Metadata <- Git
    Scratch <- Tmp
    SystemTemp <- TheTmp
    NewObjects = {new, file}
    UserObjects <- Users
    Commands <- Launches
    MaxChanges = 1
INVARIANT BeltTypeOK
PROPERTIES MetadataUntouched RootsStay OnlyGranted
