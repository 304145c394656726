SPECIFICATION Spec
CONSTANTS
    DataSlots = {1, 2}
    RootSlot = 1
    Faults = {"crash", "restore"}
    MaxVersion = 2
    MaxGeneration = 3
    MaxSaves = 3
    MaxCopies = 2
INVARIANTS
    RestoreDetected
