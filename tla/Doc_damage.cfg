SPECIFICATION Spec
CONSTANTS
    DataSlots = {1, 2}
    RootSlot = 1
    Faults = {"media", "reset"}
    MaxVersion = 3
    MaxGeneration = 3
    MaxSaves = 3
    MaxCopies = 0
INVARIANTS
    DamageDetected
