SPECIFICATION Spec
CONSTANTS
    Vaults = {v1}
    Mountpoints = {m1, m2}
    MaxMounts = 2
    MaxThreads = 2
INVARIANTS
    OneSessionPerVault
CHECK_DEADLOCK FALSE
