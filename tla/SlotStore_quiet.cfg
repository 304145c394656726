SPECIFICATION Spec
CONSTANTS
    DataSlots = {1, 2, 3, 4}
    RootSlot = 1
    Faults = {"reset"}
    MaxVersion = 3
    MaxGeneration = 3
    MaxSaves = 3
    MaxCopies = 0
INVARIANTS
    NoSlotIsLost
    NoSlotHasTwoOwners
