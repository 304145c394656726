SPECIFICATION Spec
CONSTANTS
    DataSlots = {1, 2}
    RootSlot = 1
    Faults = {"io"}
    MaxVersion = 3
    MaxGeneration = 3
    MaxSaves = 3
    MaxCopies = 0
INVARIANTS
    NoFalseAlarm
