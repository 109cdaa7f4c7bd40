SPECIFICATION Spec
CONSTANTS
    s1 = s1
    s2 = s2
    new = new
    old = old
    Master = Master
    NoDisk = NoDisk
    Stick = {s1, s2}
    SuperSpeed = {s2}
    Size <- MCSize
    Image = {new, old}
    Base <- MCBase
    Guid = {1, 2, 3}
    Start <- MCStart
    Place <- MCPlace
    NPorts = 2
    MaxSlots = 3
    MinVolume = 2
    MaxFaults = 1
    MaxHands = 2
INVARIANTS TypeOK StoreOnBootedDisk InstalledBoots PassFindsSticks
CHECK_DEADLOCK FALSE
