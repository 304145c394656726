SPECIFICATION FairSpec
CONSTANTS
    Vaults = {v1}
    Mountpoints = {m1, m2}
    MaxMounts = 3
    MaxThreads = 2
INVARIANTS
    TypeOK
    NoGhostListed
    ServingIsShown
    UnlistedIsClosed
PROPERTIES
    MountIsAnswered
    EndIsHandled
CHECK_DEADLOCK FALSE
