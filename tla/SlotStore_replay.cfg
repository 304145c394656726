SPECIFICATION Spec
CONSTANTS
    DataSlots = {1, 2}
    RootSlot = 1
    Faults = {"crash", "restore", "reset"}
    MaxVersion = 2
    MaxGeneration = 4
    MaxSaves = 4
    MaxCopies = 2
INVARIANTS
    NoFalseAlarm
    OlderCopyRefused
