SPECIFICATION Spec
CONSTANTS
    Vaults = {v1, v2}
    Mountpoints = {m1, m2}
    MaxMounts = 2
    MaxThreads = 2
INVARIANTS
    ServingIsListed
CHECK_DEADLOCK FALSE
