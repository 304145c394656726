SPECIFICATION Spec
CONSTANTS
    DataSlots = {1, 2}
    RootSlot = 1
    Faults = {"media", "restore", "reset"}
    MaxVersion = 1
    MaxGeneration = 3
    MaxSaves = 3
    MaxCopies = 2
INVARIANTS
    OlderCopyRefused
