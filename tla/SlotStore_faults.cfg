SPECIFICATION Spec
CONSTANTS
    DataSlots = {1, 2, 3}
    RootSlot = 1
    Faults = {"crash", "io", "media"}
    MaxVersion = 2
    MaxGeneration = 3
    MaxSaves = 3
    MaxCopies = 0
INVARIANTS
    TypeOK
    NoSlotHasTwoOwners
    AcceptedAsSaved
    RootsNotAhead
PROPERTIES
    KeepsVolumePromise
